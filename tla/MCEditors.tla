------------------------------- MODULE MCEditors -------------------------------
(***************************************************************************)
(* The pages on which something is edited, for TLC: the canvas and the     *)
(* templates of the payslip builder, the forms of users, companies and     *)
(* employees, and the profile.  One of them is open, at is its name, and   *)
(* only its variables change; pages that name a variable alike share it.   *)
(***************************************************************************)
EXTENDS PayslipLayout

CONSTANTS Templates, First, Calls, Users, FewCompanies, Companies, Names, Logins, Accounts,
          Streams, Minutes, Themes

VARIABLES
  at,
  stored, templates, selected, layout, saving,                        \* the templates
  isMaster, companies, users, editForm,                               \* the users
  known, shown,                                                       \* the companies
  showForm, editTarget,                                               \* users and companies
  form, step, loading, verifying,                                     \* several forms
  staff, isEdit, here, savedId, kycStatus, faceLoading,               \* the employee
  asked, live, streamRef, camOpen, camReady, attached, captured,
  server, pending, session, theme, user, employee,                    \* the profile
  profile, lockTimeout, empForm, editing, codeSent, busy,
  call,                                                               \* all of these
  steady,   \* whether the canvas is in the order of its sections, see Steady
  alone,    \* whether the user always waited for the calls under way
  dirty     \* whether the form of an employee was typed in since it was saved

T == INSTANCE PayslipTemplates
U == INSTANCE UserForms WITH Companies <- FewCompanies
C == INSTANCE CompanyForm
E == INSTANCE EmployeeForm
P == INSTANCE Profile

ASSUME AssumptionsOfPages ==
  T!TemplatesAssumption /\ U!UserFormsAssumption /\ C!CompanyFormAssumption
  /\ E!EmployeeFormAssumption /\ P!ProfileAssumption /\ 1 \in Base

layoutVars == <<sections, saved, shared, ids, expanded, modal>>
templateVars == <<stored, templates, selected, layout, saving>>
userVars == <<isMaster, companies, users, editForm>>
companyVars == <<known, shown>>
formVars == <<form, step, loading>>
staffVars == <<staff, isEdit, here, savedId, kycStatus, faceLoading, asked, live, streamRef,
               camOpen, camReady, attached, captured>>
profileVars == <<server, pending, session, theme, user, employee, profile, lockTimeout,
                 empForm, editing, codeSent, busy>>
everything == <<layoutVars, templateVars, userVars, companyVars, showForm, editTarget, formVars,
                verifying, staffVars, profileVars, call, at, steady, alone, dirty>>

NoLayout == /\ sections = None /\ saved = None /\ shared = None
            /\ ids = None /\ expanded = None /\ modal = None
NoTemplates == /\ stored = None /\ templates = None /\ selected = None
               /\ layout = None /\ saving = None
NoUsers == isMaster = None /\ companies = None /\ users = None /\ editForm = None
NoCompanies == known = None /\ shown = None
NoTarget == showForm = None /\ editTarget = None
NoForm == form = None /\ loading = None
NoStaff == /\ staff = None /\ isEdit = None /\ here = None /\ savedId = None /\ kycStatus = None
           /\ faceLoading = None /\ asked = None /\ live = None /\ streamRef = None
           /\ camOpen = None /\ camReady = None /\ attached = None /\ captured = None
NoProfile == /\ server = None /\ pending = None /\ session = None /\ theme = None /\ user = None
             /\ employee = None /\ profile = None /\ lockTimeout = None /\ empForm = None
             /\ editing = None /\ codeSent = None /\ busy = None

Canvas == {"sections", "groups", "fields", "style"}
Employee == {"employee", "camera"}
Account == {"account", "security", "appearance", "details", "verify"}

MCBaseTypes == <<"info", "table">>

-----------------------------------------------------------------------------
\* The profile starts from one of the values of what the open tab does not change.
OneProfile ==
  /\ server.profile = "a" /\ server.photo = "a" /\ server.employee = "a" /\ server.lock = 2
  /\ at # "appearance" => server.theme = None /\ theme = "light"
  /\ at # "security" => ~server.pin

MCInit ==
  /\ steady = "ordered" /\ alone = TRUE /\ dirty = FALSE
  /\ \/ /\ at \in Canvas /\ Init /\ call = None
        /\ NoTemplates /\ NoUsers /\ NoCompanies /\ NoTarget /\ NoForm /\ step = None
        /\ verifying = None /\ NoStaff /\ NoProfile
     \/ /\ at = "templates" /\ T!Init
        /\ NoLayout /\ NoUsers /\ NoCompanies /\ NoTarget /\ NoForm /\ step = None
        /\ verifying = None /\ NoStaff /\ NoProfile
     \/ /\ at = "users" /\ U!Init
        /\ NoLayout /\ NoTemplates /\ NoCompanies /\ verifying = None /\ NoStaff /\ NoProfile
     \/ /\ at = "companies" /\ C!Init
        /\ NoLayout /\ NoTemplates /\ NoUsers /\ step = None /\ verifying = None
        /\ NoStaff /\ NoProfile
     \/ /\ at \in Employee /\ E!Init /\ (at = "camera" => isEdit # None)
        /\ NoLayout /\ NoTemplates /\ NoUsers /\ NoCompanies /\ NoTarget /\ NoProfile
     \/ /\ at \in Account /\ P!Init /\ OneProfile
        /\ NoLayout /\ NoTemplates /\ NoUsers /\ NoCompanies /\ NoTarget /\ NoForm
        /\ step = None /\ NoStaff

-----------------------------------------------------------------------------
\* A part of the canvas at a time: what the others change is independent of it.
Drags == \E from, to \in DOMAIN sections : DragSection(from, to)

Removes == \E id \in Ids : RemoveSection(id)

CanvasStep ==
  \/ /\ at = "sections"
     /\ \/ PickTemplate \/ HandleSave \/ SetSecLabel(1) \/ Drags \/ Removes
        \/ AddSection("info")
  \/ /\ at = "groups"
     /\ \/ Pairing \/ PickTemplate \/ HandleSave \/ Removes
        \/ \E id \in Ids : ToggleSection(id)
        \/ \E type \in CustomTypes : AddSection(type)
     /\ Len(sections') <= 3
  \/ at = "fields" /\ (FieldEdits \/ CloseModal \/ Expand(1))
  \/ at = "style" /\ (StyleEdits \/ CloseModal)

\* The array is in the order it shows until a section is removed, or the template
\* is picked again after a drag that was not saved.
Steady ==
  steady' = CASE Removes -> "off"
              [] ~Removes /\ steady = "ordered" /\ Drags -> "dragged"
              [] ~Removes /\ steady = "dragged" /\ HandleSave -> "ordered"
              [] ~Removes /\ steady = "dragged" /\ ~HandleSave /\ PickTemplate -> "off"
              [] OTHER -> steady

CanvasNext ==
  /\ at \in Canvas /\ CanvasStep /\ Steady
  /\ UNCHANGED <<templateVars, userVars, companyVars, showForm, editTarget, formVars, verifying,
                 staffVars, profileVars, call, alone, dirty>>

TemplatesNext ==
  /\ at = "templates"
  /\ \/ T!User /\ alone' = (alone /\ \A q \in Calls : ~T!Waits(q))
     \/ (\E q \in Calls : T!Serve(q) \/ T!Answer(q) \/ T!Fail(q)) /\ UNCHANGED alone
  /\ UNCHANGED <<layoutVars, userVars, companyVars, showForm, editTarget, formVars, verifying,
                 staffVars, profileVars, steady, dirty>>

UsersNext ==
  /\ at = "users" /\ U!Next
  /\ UNCHANGED <<layoutVars, templateVars, companyVars, verifying, staffVars, profileVars,
                 steady, alone, dirty>>

CompaniesNext ==
  /\ at = "companies" /\ C!Next
  /\ UNCHANGED <<layoutVars, templateVars, userVars, step, verifying, staffVars, profileVars,
                 steady, alone, dirty>>

-----------------------------------------------------------------------------
Turns == E!NextStep \/ E!HandleSubmit \/ \E i \in 0 .. 3 : E!StepClick(i)

EmployeeStep ==
  \/ Turns
  \/ at = "employee" /\ (E!HandleChange \/ E!HandleVerifyBank)
  \/ /\ at = "camera"
     /\ \/ E!OpenCamera \/ E!StopCamera \/ E!CapturePhoto \/ E!HandleRegisterFace
        \/ E!Leave \/ E!Browser
  \/ \E q \in Calls : E!Serve(q) \/ E!Answer(q) \/ E!Fail(q)

NoCalls == \A q \in Calls : ~E!Busy(q)

\* A save that the server refuses, or whose answer is lost, leaves the form as it was.
SaveLost ==
  \E q \in Calls : E!Fail(q) /\ call[q].op \in {"create", "update"}

EmployeeNext ==
  /\ at \in Employee /\ EmployeeStep
  /\ dirty' = CASE E!HandleChange \/ SaveLost -> TRUE
                [] E!HandleSubmit /\ loading' -> FALSE
                [] OTHER -> dirty
  /\ alone' = (alone /\ (E!HandleSubmit \/ E!HandleChange => NoCalls) /\ here'
                     /\ ~\E q \in Calls : E!Fail(q) /\ call[q].stage = "done")
  /\ UNCHANGED <<layoutVars, templateVars, userVars, companyVars, showForm, editTarget,
                 profileVars, steady>>

-----------------------------------------------------------------------------
\* A tab of the profile at a time, and what reloads the page.
Submits ==
  \E q \in Calls :
    \/ /\ at = "account"
       /\ \/ P!HandleProfileSave(q) \/ P!HandleLockSave(q)
          \/ \E image \in Names : P!HandlePhotoUpload(q, image)
    \/ /\ at = "security"
       /\ P!HandleSetPin(q) \/ P!HandleRemovePin(q) \/ P!HandleLockSave(q) \/ P!HandlePwChange(q)
    \/ at = "appearance" /\ \E t \in Themes : P!HandleThemeSave(q, t)
    \/ at = "details" /\ P!HandleEmpSave(q)
    \/ /\ at = "verify"
       /\ P!HandleVerifyCode(q) \/ \E kind \in P!Kinds : P!HandleSendCode(q, kind)

Clicks1 ==
  \/ at \in {"account", "details"} /\ P!Type
  \/ at = "details" /\ (P!StartEdit \/ P!CancelEdit)
  \/ at = "verify" /\ P!CancelVerify
  \/ at = "appearance" /\ P!SwitchCompany
  \/ at \in {"security", "appearance"} /\ (P!Reload \/ P!SignIn)

ProfileNext ==
  /\ at \in Account
  /\ \/ (Submits \/ Clicks1) /\ alone' = (alone /\ P!Quiet)
     \/ (P!Expire \/ \E q \in Calls : P!Serve(q) \/ P!Answer(q)) /\ UNCHANGED alone
     \/ \E q \in Calls : /\ P!Fail(q)
                         /\ alone' = (alone /\ ~call[q].served /\ call[q].op # "refresh")
  /\ UNCHANGED <<layoutVars, templateVars, userVars, companyVars, showForm, editTarget, formVars,
                 staffVars, steady, dirty>>

MCNext ==
  /\ \/ CanvasNext \/ TemplatesNext \/ UsersNext \/ CompaniesNext \/ EmployeeNext \/ ProfileNext
  /\ UNCHANGED at

MCSpec == MCInit /\ [][MCNext]_everything

-----------------------------------------------------------------------------
\* The page that is open keeps its type invariant.
TypesOK ==
  /\ at \in Canvas => TypeOK
  /\ at = "templates" => T!TypeOK
  /\ at = "users" => U!TypeOK
  /\ at = "companies" => C!TypeOK
  /\ at \in Employee => E!TypeOK
  /\ at \in Account => P!TypeOK

\* Sections are paired two by two, and the preview shows each that is on once and
\* the two of a pair side by side (PayslipBuilder.tsx:297, 744).  Of a user who waits
\* for each answer no template gets the layout of another, and the layout on the
\* canvas is that of the template that is selected.
BuilderSound ==
  /\ at = "groups" => GroupsArePairs /\ PreviewComplete
  /\ at = "templates" /\ alone => T!LayoutOfSelected /\ T!LayoutsKept

\* While the array is in the order it shows, a drag moves the section that was
\* taken to the place where it was dropped (PayslipBuilder.tsx:229, 330).
SteadyDragMovesShown ==
  [][at = "sections" /\ steady # "off" => DragMovesShown]_everything

\* What the last step of a new user shows is complete; and the form of one company is
\* never saved as another's, nor as a new one (MultiStepForm.tsx:27, CompanyList.tsx:84).
FormsAreTrue ==
  /\ at = "users" => U!ReviewIsComplete
  /\ at = "companies" => C!FormOfTarget /\ C!SavesOwnForm

\* Of each button's calls one is under way at most, whatever the others do.
OneCallEach ==
  /\ at = "templates" => T!OneSave
  /\ at = "users" => U!OneSave
  /\ at \in Employee => E!OneOfAKind
  /\ at \in Account => P!OnePerFlag

\* Once the calls of a user who waits for them have ended, the form is what the
\* server keeps; and the code that is asked for is of the kind that it waits for.
ShowsServer ==
  /\ at \in Employee /\ alone /\ ~dirty => E!ShowsServer
  /\ at \in Account /\ alone => P!ShowsServer /\ P!CodePending
=============================================================================
