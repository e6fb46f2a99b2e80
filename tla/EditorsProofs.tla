---------------------------- MODULE EditorsProofs ----------------------------
(***************************************************************************)
(* The pages on which something is edited (MCEditors): the invariant of    *)
(* each, one page after another, and then of whichever page is open.  The  *)
(* users and the companies, the templates, the employee and the profile    *)
(* are about calls and the flags, forms and lists they are sent from and   *)
(* answer to; the canvas of the payslip builder is about two arrays of     *)
(* sections that share objects, and about the preview made of one.         *)
(***************************************************************************)
EXTENDS MCEditors, TLAPS, FiniteSetTheorems, SequenceTheorems, WellFoundedInduction
-----------------------------------------------------------------------------
(***************************************************************************)
(* The form of companies.                                                  *)
(***************************************************************************)
CompaniesInv == C!TypeOK /\ C!FormOfTarget /\ C!SavesOwnForm

LEMMA CompaniesSend ==
  ASSUME C!TypeOK, C!SavesOwnForm, NEW c, C!Send(c),
         \/ c = C!List
         \/ /\ c \in [op : {"create"}, form : Companies \cup {None}, served : BOOLEAN]
            /\ c.form = None
         \/ /\ c \in [op : {"update"}, of : Companies, form : Companies \cup {None},
                      served : BOOLEAN]
            /\ c.form = c.of
  PROVE  /\ C!SavesOwnForm'
         /\ call' \in [Calls -> {C!Free, C!List}
              \cup [op : {"list"}, rows : SUBSET Companies, served : {TRUE}]
              \cup [op : {"create"}, form : Companies \cup {None}, served : BOOLEAN]
              \cup [op : {"update"}, of : Companies, form : Companies \cup {None},
                    served : BOOLEAN]]
<1>1. PICK p \in Calls : call' = [call EXCEPT ![p] = c]
  BY DEF C!Send
<1>2. C!List.op = "list"
  BY DEF C!List
<1>3. QED
  BY <1>1, <1>2 DEF C!TypeOK, C!SavesOwnForm

LEMMA CompaniesUserStep ==
  ASSUME CompaniesInv, C!User PROVE CompaniesInv'
<1> USE DEF CompaniesInv
<1>1. CASE C!Fetch
  BY <1>1, CompaniesSend DEF C!Fetch, C!editor, C!TypeOK, C!FormOfTarget
<1>2. CASE C!ToggleForm
  BY <1>2 DEF C!ToggleForm, C!TypeOK, C!FormOfTarget, C!SavesOwnForm
<1>3. CASE C!CancelForm
  BY <1>3 DEF C!CancelForm, C!TypeOK, C!FormOfTarget, C!SavesOwnForm
<1>4. ASSUME NEW c \in Companies, C!OpenEdit(c) PROVE CompaniesInv'
  BY <1>4 DEF C!OpenEdit, C!TypeOK, C!FormOfTarget, C!SavesOwnForm
<1>5. CASE C!HandleCreate
  <2>1. /\ form = None /\ UNCHANGED <<known, shown, showForm, editTarget, form>>
        /\ loading' = TRUE /\ C!Send([op |-> "create", form |-> form, served |-> FALSE])
    BY <1>5 DEF C!HandleCreate, C!FormOfTarget, C!editor
  <2>2. QED
    BY <2>1, CompaniesSend DEF C!TypeOK, C!FormOfTarget
<1>6. CASE C!HandleEdit
  <2>1. /\ form = editTarget /\ editTarget \in Companies
        /\ UNCHANGED <<known, shown, showForm, editTarget, form>>
        /\ loading' = TRUE
        /\ C!Send([op |-> "update", of |-> editTarget, form |-> form, served |-> FALSE])
    BY <1>6 DEF C!HandleEdit, C!FormOfTarget, C!TypeOK, C!editor
  <2>2. QED
    BY <2>1, CompaniesSend DEF C!TypeOK, C!FormOfTarget
<1>7. QED
  BY <1>1, <1>2, <1>3, <1>4, <1>5, <1>6 DEF C!User

LEMMA CompaniesServeStep ==
  ASSUME CompaniesInv, NEW q \in Calls, C!Serve(q) PROVE CompaniesInv'
<1> USE DEF CompaniesInv
<1>1. UNCHANGED <<shown, showForm, editTarget, form, loading>> /\ ~call[q].served
  BY DEF C!Serve, C!editor
<1>2. CASE /\ call[q].op = "list" /\ UNCHANGED known
           /\ call' = [call EXCEPT ![q] = [op |-> "list", rows |-> known, served |-> TRUE]]
  BY <1>1, <1>2 DEF C!TypeOK, C!FormOfTarget, C!SavesOwnForm
<1>3. CASE /\ call[q].op \in {"create", "update"} /\ known' \subseteq Companies
           /\ call' = [call EXCEPT ![q].served = TRUE]
  <2>1. PICK c : c = [call[q] EXCEPT !.served = TRUE]
    OBVIOUS
  <2>2. call[q] \in [op : {"create"}, form : Companies \cup {None}, served : BOOLEAN]
        \/ call[q] \in [op : {"update"}, of : Companies, form : Companies \cup {None},
                        served : BOOLEAN]
    <3>1. call[q] # C!Free
      BY DEF C!Serve, C!Busy
    <3>2. call[q].op # "list"
      BY <1>3
    <3>2a. C!List.op = "list"
      BY DEF C!List
    <3>2b. \A x \in [op : {"list"}, rows : SUBSET Companies, served : {TRUE}] : x.op = "list"
      OBVIOUS
    <3>3. QED
      BY <3>1, <3>2, <3>2a, <3>2b DEF CompaniesInv, C!TypeOK
  <2>3. /\ c \in [op : {"create"}, form : Companies \cup {None}, served : BOOLEAN]
           \/ c \in [op : {"update"}, of : Companies, form : Companies \cup {None},
                     served : BOOLEAN]
        /\ c.op = call[q].op /\ c.form = call[q].form
        /\ c.op = "update" => c.of = call[q].of
    BY <2>1, <2>2
  <2>4. call' = [call EXCEPT ![q] = c]
    BY <1>3, <2>1
  <2>5. call' \in [Calls -> {C!Free, C!List}
              \cup [op : {"list"}, rows : SUBSET Companies, served : {TRUE}]
              \cup [op : {"create"}, form : Companies \cup {None}, served : BOOLEAN]
              \cup [op : {"update"}, of : Companies, form : Companies \cup {None},
                    served : BOOLEAN]]
    BY <2>3, <2>4 DEF C!TypeOK
  <2>6. C!SavesOwnForm'
    BY <2>3, <2>4 DEF C!TypeOK, C!SavesOwnForm
  <2>7. QED
    BY <1>1, <1>3, <2>5, <2>6 DEF C!TypeOK, C!FormOfTarget
<1>4. QED
  BY <1>2, <1>3 DEF C!Serve, C!TypeOK

LEMMA CompaniesEndStep ==
  ASSUME CompaniesInv, NEW q \in Calls, C!Answer(q) \/ C!Fail(q) PROVE CompaniesInv'
<1> USE DEF CompaniesInv
<1>1. CASE C!Fail(q)
  BY <1>1 DEF C!Fail, C!editor, C!TypeOK, C!FormOfTarget, C!SavesOwnForm, C!Free
<1>2. CASE C!Answer(q) /\ C!Listed(q)
  <2>1. call[q].rows \subseteq Companies
    <3>1. call[q] # C!Free /\ call[q].served /\ call[q].op = "list"
      BY <1>2 DEF C!Answer, C!Listed, C!Busy
    <3>2. call[q] # C!List
      BY <3>1 DEF C!List
    <3>3. call[q] \in [op : {"list"}, rows : SUBSET Companies, served : {TRUE}]
      BY <3>1, <3>2 DEF C!TypeOK
    <3>4. QED
      BY <3>3
  <2>2. QED
    BY <1>2, <2>1 DEF C!Answer, C!Listed, C!editor, C!TypeOK, C!FormOfTarget, C!SavesOwnForm, C!Free
<1>3. CASE C!Answer(q) /\ C!Saved(q)
  BY <1>3 DEF C!Answer, C!Saved, C!TypeOK, C!FormOfTarget, C!SavesOwnForm, C!List
<1>4. QED
  BY <1>1, <1>2, <1>3 DEF C!Answer

LEMMA CompaniesStep ==
  ASSUME CompaniesInv, CompaniesNext \/ UNCHANGED everything PROVE CompaniesInv'
<1>1. CASE UNCHANGED everything
  BY <1>1 DEF everything, companyVars, formVars, CompaniesInv, C!TypeOK, C!FormOfTarget,
              C!SavesOwnForm
<1>2. CASE CompaniesNext
  BY <1>2, CompaniesUserStep, CompaniesServeStep, CompaniesEndStep DEF CompaniesNext, C!Next
<1>3. QED
  BY <1>1, <1>2

LEMMA CompaniesInit == ASSUME C!Init PROVE CompaniesInv
<1>1. PICK q \in Calls : call = [p \in Calls |-> IF p = q THEN C!List ELSE C!Free]
  BY DEF C!Init, C!Idle
<1>2. QED
  BY <1>1 DEF C!Init, CompaniesInv, C!TypeOK, C!FormOfTarget, C!SavesOwnForm, C!Free, C!List

-----------------------------------------------------------------------------
(***************************************************************************)
(* The forms of users.                                                     *)
(***************************************************************************)
\* The steps behind were left as they had to be.
StepsBehind ==
  /\ step >= 1 => /\ form.account
                  /\ ~isMaster \/ form.role = "master" \/ form.company # None
  /\ step >= 2 => form.profile

UsersInv == U!TypeOK /\ U!OneSave /\ StepsBehind

UserCall ==
  {U!Free} \cup [op : {"create"}, form : U!Forms, served : BOOLEAN]
  \cup [op : {"update"}, of : Users, form : [name : Names \cup {None}, role : U!Roles],
        served : BOOLEAN]

LEMMA UsersFormStep ==
  ASSUME UsersInv, UNCHANGED <<isMaster, users, loading, call>>,
         \/ U!LoadCompanies \/ U!ToggleForm \/ U!TypeAccount \/ U!TypeProfile \/ U!NextStep
         \/ U!Back \/ \E i \in 0 .. 2 : U!StepClick(i)
  PROVE  UsersInv'
<1> USE DEF UsersInv
<1>1. /\ editTarget' = editTarget /\ editForm' = editForm
      /\ companies' \in {{}, FewCompanies}
  BY DEF U!LoadCompanies, U!ToggleForm, U!TypeAccount, U!TypeProfile, U!NextStep, U!Back,
         U!StepClick, U!editing, U!TypeOK
<1>2. U!OneSave'
  BY DEF U!OneSave, U!Busy
<1>3. showForm' \in BOOLEAN /\ step' \in 0 .. 2 /\ form' \in U!Forms /\ StepsBehind'
  <2>1. CASE U!LoadCompanies
    BY <2>1 DEF U!LoadCompanies, U!creating, U!TypeOK, StepsBehind
  <2>2. CASE U!ToggleForm
    BY <2>2 DEF U!ToggleForm, U!Empty, U!Forms, U!Roles, U!TypeOK, StepsBehind
  <2>3. CASE U!TypeAccount
    <3>1. step = 0 /\ step' = step /\ showForm' = showForm
      BY <2>3 DEF U!TypeAccount
    <3>2. form' \in U!Forms
      <4>1. form \in U!Forms /\ companies \subseteq FewCompanies
        BY DEF U!TypeOK
      <4>2. CASE \E ok \in BOOLEAN : form' = [form EXCEPT !.account = ok]
        BY <4>1, <4>2 DEF U!Forms
      <4>3. CASE \E r \in U!Roles :
                   form' = [form EXCEPT !.role = r, !.company = IF r = "master" THEN None ELSE @]
        BY <4>1, <4>3 DEF U!Forms
      <4>4. CASE \E c \in companies \cup {None} : form' = [form EXCEPT !.company = c]
        BY <4>1, <4>4 DEF U!Forms
      <4>5. QED
        BY <2>3, <4>2, <4>3, <4>4 DEF U!TypeAccount
    <3>3. QED
      BY <3>1, <3>2 DEF U!TypeOK, StepsBehind
  <2>4. CASE U!TypeProfile
    <3>1. PICK ok \in BOOLEAN : form' = [form EXCEPT !.profile = ok]
      BY <2>4 DEF U!TypeProfile
    <3>2. /\ form' \in U!Forms /\ form'.account = form.account /\ form'.role = form.role
          /\ form'.company = form.company
      BY <3>1 DEF U!TypeOK, U!Forms
    <3>3. step = 1 /\ step' = step /\ showForm' = showForm
      BY <2>4 DEF U!TypeProfile
    <3>4. QED
      BY <3>2, <3>3 DEF U!TypeOK, StepsBehind
  <2>5. CASE U!NextStep
    BY <2>5 DEF U!NextStep, U!CanAdvance, U!TypeOK, StepsBehind
  <2>6. CASE U!Back \/ \E i \in 0 .. 2 : U!StepClick(i)
    BY <2>6 DEF U!Back, U!StepClick, U!TypeOK, StepsBehind
  <2>7. QED
    BY <2>1, <2>2, <2>3, <2>4, <2>5, <2>6
<1>4. QED
  BY <1>1, <1>2, <1>3 DEF U!TypeOK

LEMMA UsersEditStep ==
  ASSUME UsersInv, U!TypeEdit \/ U!CloseEdit \/ \E u \in Users : U!OpenEdit(u)
  PROVE  UsersInv'
<1> USE DEF UsersInv
<1>1. /\ UNCHANGED <<isMaster, companies, users, step, form, loading, call>>
      /\ showForm' \in {showForm, FALSE}
      /\ editTarget' \in Users \cup {None}
      /\ editForm' \in [name : Names \cup {None}, role : U!Roles]
  <2>1. CASE U!TypeEdit
    <3>1. PICK n \in Names \cup {None}, r \in U!Roles : editForm' = [name |-> n, role |-> r]
      BY <2>1 DEF U!TypeEdit
    <3>2. QED
      BY <2>1, <3>1 DEF U!TypeEdit, U!creating, U!TypeOK
  <2>1a. CASE U!CloseEdit
    BY <2>1a DEF U!CloseEdit, U!creating, U!TypeOK
  <2>2. ASSUME NEW u \in Users, U!OpenEdit(u)
        PROVE  /\ UNCHANGED <<isMaster, companies, users, step, form, loading, call>>
               /\ showForm' = FALSE /\ editTarget' = u
               /\ editForm' \in [name : Names \cup {None}, role : U!Roles]
    <3>1. users[u] \in [name : Names, role : U!Roles, company : FewCompanies \cup {None}]
      BY <2>2 DEF U!OpenEdit, U!TypeOK
    <3>2. QED
      BY <2>2, <3>1 DEF U!OpenEdit
  <2>3. QED
    BY <2>1, <2>1a, <2>2
<1>2. QED
  BY <1>1 DEF U!TypeOK, U!OneSave, U!Busy, StepsBehind

LEMMA UsersSend ==
  ASSUME UsersInv, NEW c \in UserCall, U!Send(c), ~loading, loading' = TRUE
  PROVE  call' \in [Calls -> UserCall] /\ U!OneSave'
<1>1. PICK p \in Calls : call' = [call EXCEPT ![p] = c]
  BY DEF U!Send
<1>2. \A r \in Calls : ~U!Busy(r)
  BY DEF UsersInv, U!OneSave
<1>3. \A r \in Calls : U!Busy(r)' => r = p
  BY <1>1, <1>2 DEF U!Busy, UsersInv, U!TypeOK
<1>4. QED
  BY <1>1, <1>3 DEF UsersInv, U!TypeOK, UserCall, U!OneSave

LEMMA UsersSaveStep ==
  ASSUME UsersInv, U!HandleCreate \/ U!HandleEditSave PROVE UsersInv'
<1> USE DEF UsersInv
<1>1. CASE U!HandleEditSave
  <2>1. editTarget \in Users
    BY <1>1 DEF U!HandleEditSave, U!TypeOK
  <2>2. [op |-> "update", of |-> editTarget, form |-> editForm, served |-> FALSE] \in UserCall
    BY <2>1 DEF UserCall, U!TypeOK
  <2>3. call' \in [Calls -> UserCall] /\ U!OneSave'
    BY <1>1, <2>2, UsersSend DEF U!HandleEditSave
  <2>4. QED
    BY <1>1, <2>3 DEF U!HandleEditSave, U!creating, U!editing, U!TypeOK, UserCall, StepsBehind
<1>2. CASE U!HandleCreate /\ ~form.account
  BY <1>2 DEF U!HandleCreate, U!editing, U!TypeOK, U!OneSave, U!Busy, StepsBehind
<1>3. CASE U!HandleCreate /\ form.account
  <2>1. [op |-> "create", form |-> form, served |-> FALSE] \in UserCall
    BY DEF UserCall, U!TypeOK
  <2>2. call' \in [Calls -> UserCall] /\ U!OneSave'
    BY <1>3, <2>1, UsersSend DEF U!HandleCreate
  <2>3. QED
    BY <1>3, <2>2 DEF U!HandleCreate, U!editing, U!TypeOK, UserCall, StepsBehind
<1>4. QED
  BY <1>1, <1>2, <1>3

LEMMA UsersServeStep ==
  ASSUME UsersInv, NEW q \in Calls, U!Serve(q) PROVE UsersInv'
<1> USE DEF UsersInv
<1>1. PICK c : c = call[q]
  OBVIOUS
<1>2. /\ U!Busy(q) /\ call' = [call EXCEPT ![q].served = TRUE]
      /\ UNCHANGED <<isMaster, companies, showForm, step, form, editTarget, editForm, loading>>
  BY DEF U!Serve, U!creating, U!editing
<1>3. \/ c \in [op : {"create"}, form : U!Forms, served : BOOLEAN]
      \/ c \in [op : {"update"}, of : Users, form : [name : Names \cup {None}, role : U!Roles],
                served : BOOLEAN]
  BY <1>1, <1>2 DEF U!Busy, U!TypeOK
<1>4. call' \in [Calls -> UserCall] /\ U!OneSave'
  <2>1. PICK d : d = [c EXCEPT !.served = TRUE]
    OBVIOUS
  <2>2. d \in UserCall
    BY <1>3, <2>1 DEF UserCall
  <2>3. call' = [call EXCEPT ![q] = d]
    BY <1>1, <1>2, <2>1
  <2>4. \A r \in Calls : U!Busy(r)' => U!Busy(r)
    BY <1>2, <2>3 DEF U!Busy, U!TypeOK
  <2>5. call' \in [Calls -> UserCall]
    BY <2>2, <2>3 DEF U!TypeOK, UserCall
  <2>6. U!OneSave'
    BY <1>2, <2>4 DEF U!OneSave
  <2>7. QED
    BY <2>5, <2>6
<1>5. users' \in [Users -> {None} \cup
                   [name : Names, role : U!Roles, company : FewCompanies \cup {None}]]
  <2> DEFINE UserRow == [name : Names, role : U!Roles, company : FewCompanies \cup {None}]
             Rows == {None} \cup UserRow
  <2>1. users \in [Users -> Rows]
    BY DEF U!TypeOK
  <2>2. CASE c.op = "create"
    <3>1. PICK u \in Users, n \in Names, own \in FewCompanies :
            users' = [users EXCEPT ![u] = [name |-> n, role |-> c.form.role,
                         company |-> IF isMaster THEN c.form.company ELSE own]]
      BY <1>1, <2>2 DEF U!Serve
    <3>2. c.form \in U!Forms
      BY <1>3, <2>2
    <3>3. [name |-> n, role |-> c.form.role,
           company |-> IF isMaster THEN c.form.company ELSE own] \in UserRow
      BY <3>2 DEF U!Forms
    <3>4. PICK row \in Rows : users' = [users EXCEPT ![u] = row]
      BY <3>1, <3>3
    <3> HIDE DEF Rows
    <3>5. users' \in [Users -> Rows]
      BY <2>1, <3>4
    <3>6. QED
      BY <3>5 DEF Rows
  <2>3. CASE c.op = "update"
    <3>1. /\ c.of \in Users /\ c.form.role \in U!Roles /\ c.form.name \in Names \cup {None}
          /\ users[c.of] \in UserRow
          /\ users' = [users EXCEPT ![c.of].role = c.form.role,
                            ![c.of].name = IF c.form.name = None THEN @ ELSE c.form.name]
      BY <1>1, <1>3, <2>1, <2>3 DEF U!Serve
    <3>2. PICK row : row = [users[c.of] EXCEPT !.role = c.form.role,
                              !.name = IF c.form.name = None THEN @ ELSE c.form.name]
      OBVIOUS
    <3>3. row \in UserRow
      BY <3>1, <3>2
    <3>4. users' = [users EXCEPT ![c.of] = row]
      BY <2>1, <3>1, <3>2
    <3>5. row \in Rows
      BY <3>3
    <3> HIDE DEF Rows
    <3>6. users' \in [Users -> Rows]
      BY <2>1, <3>4, <3>5
    <3>7. QED
      BY <3>6 DEF Rows
  <2>4. QED
    BY <1>3, <2>2, <2>3
<1>6. QED
  BY <1>2, <1>4, <1>5 DEF U!TypeOK, UserCall, StepsBehind

LEMMA UsersEndStep ==
  ASSUME UsersInv, NEW q \in Calls, U!Answer(q) \/ U!Fail(q) PROVE UsersInv'
<1> USE DEF UsersInv
<1>1. /\ call' = [call EXCEPT ![q] = U!Free] /\ loading' = FALSE
      /\ UNCHANGED <<isMaster, companies, users>> /\ U!Busy(q)
  BY DEF U!Answer, U!Fail
<1>2. \A r \in Calls : ~U!Busy(r)'
  BY <1>1 DEF U!Busy, U!OneSave, U!TypeOK
<1>3. call' \in [Calls -> UserCall]
  BY <1>1 DEF U!TypeOK, UserCall
<1>4. /\ showForm' \in BOOLEAN /\ step' \in 0 .. 2 /\ form' \in U!Forms
      /\ StepsBehind'
      /\ editTarget' \in Users \cup {None}
      /\ editForm' \in [name : Names \cup {None}, role : U!Roles]
  <2>1. CASE U!Created(q)
    <3>1. U!Empty \in U!Forms
      BY DEF U!Empty, U!Forms, U!Roles
    <3>2. /\ showForm' = FALSE /\ step' = 0 /\ form' = U!Empty
          /\ UNCHANGED <<editTarget, editForm>>
      BY <2>1 DEF U!Created, U!editing
    <3>3. StepsBehind'
      BY <3>2 DEF StepsBehind
    <3>4. form' \in U!Forms
      BY <3>1, <3>2
    <3>5. showForm' \in BOOLEAN
      BY <3>2
    <3>6. step' \in 0 .. 2
      BY <3>2
    <3>7. editTarget' \in Users \cup {None}
      BY <3>2 DEF U!TypeOK
    <3>8. editForm' \in [name : Names \cup {None}, role : U!Roles]
      BY <3>2 DEF U!TypeOK
    <3>9. QED
      BY <3>3, <3>4, <3>5, <3>6, <3>7, <3>8
  <2>2. CASE U!Updated(q) \/ U!Fail(q)
    BY <1>1, <2>2 DEF U!Updated, U!Fail, U!creating, U!editing, U!TypeOK, StepsBehind
  <2>3. QED
    BY <2>1, <2>2 DEF U!Answer
<1>5. QED
  BY <1>1, <1>2, <1>3, <1>4 DEF U!TypeOK, U!OneSave, UserCall

LEMMA UsersStep ==
  ASSUME UsersInv, UsersNext \/ UNCHANGED everything PROVE UsersInv'
<1>1. CASE UNCHANGED everything
  BY <1>1 DEF everything, userVars, formVars, UsersInv, U!TypeOK, U!OneSave, U!Busy, StepsBehind
<1>2. CASE U!LoadCompanies \/ U!ToggleForm \/ U!TypeAccount \/ U!TypeProfile \/ U!NextStep
           \/ U!Back \/ \E i \in 0 .. 2 : U!StepClick(i)
  <2>1. UNCHANGED <<isMaster, users, loading, call>>
    BY <1>2 DEF U!LoadCompanies, U!ToggleForm, U!TypeAccount, U!TypeProfile, U!NextStep, U!Back,
                U!StepClick
  <2>2. QED
    BY <1>2, <2>1, UsersFormStep
<1>3. QED
  BY <1>1, <1>2, UsersEditStep, UsersSaveStep, UsersServeStep, UsersEndStep
     DEF UsersNext, U!Next, U!User

LEMMA UsersInit == ASSUME U!Init PROVE UsersInv
<1>1. U!TypeOK
  <2>1. users \in [Users -> {None} \cup
                     [name : Names, role : U!Roles, company : FewCompanies \cup {None}]]
    BY DEF U!Init, U!Roles
  <2>2. U!Empty \in U!Forms
    BY DEF U!Empty, U!Forms, U!Roles
  <2>3. U!NoEdit \in [name : Names \cup {None}, role : U!Roles]
    BY DEF U!NoEdit, U!Roles
  <2>4. call \in [Calls -> UserCall]
    BY DEF U!Init, UserCall
  <2>5. /\ isMaster \in BOOLEAN /\ companies = {} /\ showForm = FALSE /\ step = 0
        /\ form = U!Empty /\ editTarget = None /\ editForm = U!NoEdit /\ loading = FALSE
    BY DEF U!Init
  <2>6. form \in U!Forms /\ editForm \in [name : Names \cup {None}, role : U!Roles]
    BY <2>2, <2>3, <2>5
  <2>7. companies \in {{}, FewCompanies}
    BY <2>5
  <2>8. showForm \in BOOLEAN
    BY <2>5
  <2>9. step \in 0 .. 2
    BY <2>5
  <2>10. editTarget \in Users \cup {None}
    BY <2>5
  <2>11. isMaster \in BOOLEAN /\ loading \in BOOLEAN
    BY <2>5
  <2>12. QED
    BY <2>1, <2>4, <2>6, <2>7, <2>8, <2>9, <2>10, <2>11 DEF U!TypeOK, UserCall
<1>2. QED
  BY <1>1 DEF U!Init, UsersInv, U!OneSave, U!Busy, StepsBehind

LEMMA UsersReview == UsersInv => U!ReviewIsComplete
BY DEF UsersInv, U!TypeOK, StepsBehind, U!ReviewIsComplete

-----------------------------------------------------------------------------
(***************************************************************************)
(* The templates.                                                          *)
(***************************************************************************)
\* A call that was served holds the answer of its kind.
TemplateCall ==
  {T!Free} \cup [op : {"load", "list", "create"}, served : {FALSE}]
  \cup [op : {"load", "list"}, list : SUBSET Templates, served : {TRUE}]
  \cup [op : {"create"}, of : Templates, served : {TRUE}]
  \cup [op : {"update", "duplicate"}, of : Templates, served : BOOLEAN]
  \cup [op : {"save"}, of : Templates, layout : Templates, served : BOOLEAN]
  \cup [op : {"delete"}, of : Templates, clears : BOOLEAN, served : BOOLEAN]

\* A user who waits for each answer has one call under way at most, and what is
\* saved or updated is the template that is selected.
OneTemplate ==
  /\ \A p, q \in Calls : T!Waits(p) /\ T!Waits(q) => p = q
  /\ T!LayoutOfSelected /\ T!LayoutsKept
  /\ \A q \in Calls : call[q].op = "save" => call[q].of = selected /\ call[q].layout = selected
  /\ \A q \in Calls : call[q].op = "update" => call[q].of = selected

TemplatesInv ==
  /\ T!TypeOK /\ call \in [Calls -> TemplateCall] /\ T!OneSave
  /\ alone => OneTemplate

LEMMA TemplateCallsTyped == TemplateCall \subseteq T!Call
BY DEF TemplateCall, T!Call

\* A call that is sent or is replaced keeps the types and the one save.
LEMMA TemplatesCallStep ==
  ASSUME TemplatesInv, NEW q \in Calls, NEW d \in TemplateCall,
         call' = [call EXCEPT ![q] = d],
         stored' \in [Templates -> Templates \cup {None}], templates' \subseteq Templates,
         selected' \in Templates \cup {None}, layout' \in Templates \cup {None},
         \/ saving' = saving /\ (d.op = "save" <=> call[q].op = "save")
         \/ saving' = TRUE /\ ~saving /\ d.op = "save"
         \/ saving' = FALSE /\ call[q].op = "save" /\ d.op # "save"
  PROVE  T!TypeOK' /\ call' \in [Calls -> TemplateCall] /\ T!OneSave'
<1> USE DEF TemplatesInv
<1>1. call' \in [Calls -> TemplateCall] /\ call'[q] = d
      /\ \A p \in Calls \ {q} : call'[p] = call[p]
  OBVIOUS
<1>2. call' \in [Calls -> T!Call]
  BY <1>1, TemplateCallsTyped
<1>3. saving' \in BOOLEAN
  BY DEF T!TypeOK
<1>4. T!TypeOK'
  BY <1>2, <1>3 DEF T!TypeOK
<1>5. T!OneSave'
  BY <1>1 DEF T!OneSave, T!TypeOK
<1>6. QED
  BY <1>1, <1>4, <1>5

LEMMA TemplatesUserStep ==
  ASSUME TemplatesInv, T!User, alone' = (alone /\ \A q \in Calls : ~T!Waits(q))
  PROVE  TemplatesInv'
<1> USE DEF TemplatesInv
<1>1. ASSUME NEW t \in Templates, T!PickTemplate(t) PROVE TemplatesInv'
  <2>1. /\ UNCHANGED <<stored, templates, saving, call>> /\ selected' = t /\ layout' = t
    BY <1>1 DEF T!PickTemplate
  <2>2. T!TypeOK' /\ T!OneSave'
    BY <2>1 DEF T!TypeOK, T!OneSave
  <2>3. ASSUME alone' PROVE OneTemplate'
    <3>0. alone /\ \A p \in Calls : call[p] = T!Free
      BY <2>3 DEF T!Waits
    <3>1. \A p \in Calls : call[p].op = "free"
      BY <3>0 DEF T!Free
    <3>2. QED
      BY <2>1, <3>0, <3>1 DEF OneTemplate, T!Waits, T!LayoutOfSelected, T!LayoutsKept, T!Existing
  <2>4. QED
    BY <2>1, <2>2, <2>3
<1>2. ASSUME NEW q \in Calls, NEW d \in TemplateCall, T!Send(q, d),
             UNCHANGED <<stored, templates, selected, layout>>,
             IF d.op = "save" THEN ~saving /\ saving' = TRUE ELSE saving' = saving,
             d.op = "save" => d.of = selected /\ d.layout = layout,
             d.op = "update" => d.of = selected
      PROVE  TemplatesInv'
  <2>1. call' = [call EXCEPT ![q] = d] /\ call[q] = T!Free /\ call[q].op # "save"
    BY <1>2 DEF T!Send, T!Waits, T!Free
  <2>2. T!TypeOK' /\ call' \in [Calls -> TemplateCall] /\ T!OneSave'
    BY <1>2, <2>1, TemplatesCallStep DEF T!TypeOK
  <2>3. ASSUME alone' PROVE OneTemplate'
    <3>1. alone /\ \A p \in Calls : call[p] = T!Free
      BY <2>3 DEF T!Waits
    <3>2. \A p \in Calls : p = q \/ (call'[p] = T!Free /\ call'[p].op = "free")
      BY <2>1, <3>1 DEF T!Free
    <3>3. call'[q] = d
      BY <2>1
    <3>4. QED
      BY <1>2, <3>1, <3>2, <3>3
         DEF OneTemplate, T!Waits, T!LayoutOfSelected, T!LayoutsKept, T!Existing
  <2>4. QED
    BY <2>2, <2>3
<1>3. ASSUME NEW q \in Calls, T!HandleSave(q) PROVE TemplatesInv'
  <2>1. PICK d : d = [op |-> "save", of |-> selected, layout |-> layout, served |-> FALSE]
    OBVIOUS
  <2>2. d \in TemplateCall
    BY <1>3, <2>1 DEF T!HandleSave, TemplateCall, T!TypeOK
  <2>3. T!Send(q, d)
    BY <1>3, <2>1 DEF T!HandleSave
  <2>4. d.op = "save" /\ d.of = selected /\ d.layout = layout
    BY <2>1
  <2>5. QED
    BY <1>2, <1>3, <2>2, <2>3, <2>4 DEF T!HandleSave
<1>4. ASSUME NEW q \in Calls, T!HandleUpdate(q) PROVE TemplatesInv'
  <2>1. PICK d : d = [op |-> "update", of |-> selected, served |-> FALSE]
    OBVIOUS
  <2>2. d \in TemplateCall
    BY <1>4, <2>1 DEF T!HandleUpdate, TemplateCall, T!TypeOK
  <2>3. T!Send(q, d)
    BY <1>4, <2>1 DEF T!HandleUpdate
  <2>4. d.op = "update" /\ d.of = selected
    BY <2>1
  <2>5. QED
    BY <1>2, <1>4, <2>2, <2>3, <2>4 DEF T!HandleUpdate
<1>5. ASSUME NEW q \in Calls, T!HandleCreate(q) PROVE TemplatesInv'
  <2>1. PICK d : d = [op |-> "create", served |-> FALSE]
    OBVIOUS
  <2>2. d \in TemplateCall /\ d.op = "create"
    BY <2>1 DEF TemplateCall
  <2>3. T!Send(q, d)
    BY <1>5, <2>1 DEF T!HandleCreate
  <2>4. QED
    BY <1>2, <1>5, <2>2, <2>3 DEF T!HandleCreate
<1>6. ASSUME NEW q \in Calls, NEW t \in Templates, T!HandleDelete(q, t) PROVE TemplatesInv'
  <2>1. PICK d : d = [op |-> "delete", of |-> t, clears |-> selected = t, served |-> FALSE]
    OBVIOUS
  <2>2. d \in TemplateCall /\ d.op = "delete"
    BY <2>1 DEF TemplateCall
  <2>3. T!Send(q, d)
    BY <1>6, <2>1 DEF T!HandleDelete
  <2>4. QED
    BY <1>2, <1>6, <2>2, <2>3 DEF T!HandleDelete
<1>7. ASSUME NEW q \in Calls, NEW t \in Templates, T!HandleDuplicate(q, t) PROVE TemplatesInv'
  <2>1. PICK d : d = [op |-> "duplicate", of |-> t, served |-> FALSE]
    OBVIOUS
  <2>2. d \in TemplateCall /\ d.op = "duplicate"
    BY <2>1 DEF TemplateCall
  <2>3. T!Send(q, d)
    BY <1>7, <2>1 DEF T!HandleDuplicate
  <2>4. QED
    BY <1>2, <1>7, <2>2, <2>3 DEF T!HandleDuplicate
<1>8. QED
  BY <1>1, <1>3, <1>4, <1>5, <1>6, <1>7 DEF T!User

\* Of a user who waits, a step that changes the one call keeps it the only one.
LEMMA OneTemplateStep ==
  ASSUME TemplatesInv, alone, NEW q \in Calls, NEW d \in TemplateCall, T!Waits(q),
         call' = [call EXCEPT ![q] = d], layout' = selected', T!LayoutsKept',
         d.op = "save" => d.of = selected' /\ d.layout = selected',
         d.op = "update" => d.of = selected'
  PROVE  OneTemplate'
<1>1. \A p \in Calls : p = q \/ call[p] = T!Free
  BY DEF TemplatesInv, OneTemplate, T!Waits
<1>2. \A p \in Calls : p = q \/ (call'[p] = T!Free /\ call'[p].op = "free")
  BY <1>1 DEF T!Free, TemplatesInv
<1>3. call'[q] = d
  BY DEF TemplatesInv
<1>4. QED
  BY <1>2, <1>3 DEF OneTemplate, T!Waits, T!LayoutOfSelected

LEMMA TemplatesServeStep ==
  ASSUME TemplatesInv, NEW q \in Calls, T!Serve(q), UNCHANGED alone PROVE TemplatesInv'
<1> USE DEF TemplatesInv
<1>1. PICK c : c = call[q]
  OBVIOUS
<1>2. c \in TemplateCall /\ c # T!Free /\ ~c.served /\ T!Waits(q)
      /\ UNCHANGED <<templates, selected, layout, saving>>
  BY <1>1 DEF T!Serve, T!Waits
<1>3. stored \in [Templates -> Templates \cup {None}] /\ T!Existing \subseteq Templates
  BY DEF T!TypeOK, T!Existing
<1>4. ASSUME NEW d \in TemplateCall, d.op = c.op, call' = [call EXCEPT ![q] = d],
             stored' \in [Templates -> Templates \cup {None}],
             alone => T!LayoutsKept',
             alone => (d.op = "save" => d.of = selected /\ d.layout = selected),
             alone => (d.op = "update" => d.of = selected)
      PROVE  TemplatesInv'
  <2>1. T!TypeOK' /\ call' \in [Calls -> TemplateCall] /\ T!OneSave'
    BY <1>1, <1>2, <1>4, TemplatesCallStep DEF T!TypeOK
  <2>2. ASSUME alone PROVE OneTemplate'
    BY <1>2, <1>4, <2>2, OneTemplateStep DEF OneTemplate, T!LayoutOfSelected
  <2>3. QED
    BY <2>1, <2>2
<1>5. alone => /\ T!LayoutsKept
               /\ c.op = "save" => c.of = selected /\ c.layout = selected
               /\ c.op = "update" => c.of = selected
  BY <1>1 DEF OneTemplate
<1>6. CASE c.op \in {"load", "list"}
  <2>1. PICK d : d = [op |-> c.op, list |-> T!Existing, served |-> TRUE]
    OBVIOUS
  <2>2. d \in TemplateCall /\ d.op = c.op
    BY <1>3, <1>6, <2>1 DEF TemplateCall
  <2>3. call' = [call EXCEPT ![q] = d] /\ stored' = stored
    BY <1>1, <1>6, <2>1 DEF T!Serve
  <2>4. alone => T!LayoutsKept'
    BY <1>5, <2>3 DEF T!LayoutsKept, T!Existing
  <2>5. QED
    BY <1>3, <1>4, <1>6, <2>2, <2>3, <2>4
<1>7. CASE c.op \in {"save", "update", "delete"}
  <2>1. PICK d : d = [c EXCEPT !.served = TRUE]
    OBVIOUS
  <2>2. /\ d \in TemplateCall /\ d.op = c.op /\ d.of = c.of
        /\ c.op = "save" => d.layout = c.layout
        /\ c.of \in Templates /\ (c.op = "save" => c.layout \in Templates)
    <3>1. CASE c \in [op : {"save"}, of : Templates, layout : Templates, served : BOOLEAN]
      BY <2>1, <3>1 DEF TemplateCall
    <3>2. CASE c \in [op : {"update", "duplicate"}, of : Templates, served : BOOLEAN]
      BY <1>7, <2>1, <3>2 DEF TemplateCall
    <3>3. CASE c \in [op : {"delete"}, of : Templates, clears : BOOLEAN, served : BOOLEAN]
      BY <2>1, <3>3 DEF TemplateCall
    <3>4. QED
      BY <1>2, <1>7, <3>1, <3>2, <3>3 DEF TemplateCall
  <2>3. call' = [call EXCEPT ![q] = d]
        /\ stored' \in {stored, [stored EXCEPT ![c.of] = None],
                        [stored EXCEPT ![c.of] = c.layout]}
        /\ ((stored' = [stored EXCEPT ![c.of] = c.layout] /\ c.op = "save")
            \/ stored' = stored \/ stored' = [stored EXCEPT ![c.of] = None])
    BY <1>1, <1>7, <2>1 DEF T!Serve
  <2>4. stored' \in [Templates -> Templates \cup {None}]
    BY <1>3, <2>2, <2>3
  <2>5. alone => T!LayoutsKept'
    BY <1>3, <1>5, <2>2, <2>3 DEF T!LayoutsKept, T!Existing
  <2>6. QED
    BY <1>4, <1>5, <2>2, <2>3, <2>4, <2>5
<1>8. CASE c.op \in {"create", "duplicate"}
  <2>1. PICK t \in Templates : /\ stored' = [stored EXCEPT ![t] = t]
                               /\ call' = [call EXCEPT ![q] =
                                             [op |-> c.op, of |-> t, served |-> TRUE]]
    BY <1>1, <1>8 DEF T!Serve
  <2>2. PICK d : d = [op |-> c.op, of |-> t, served |-> TRUE]
    OBVIOUS
  <2>3. d \in TemplateCall /\ d.op = c.op
    BY <1>8, <2>2 DEF TemplateCall
  <2>4. stored' \in [Templates -> Templates \cup {None}]
    BY <1>3, <2>1
  <2>5. alone => T!LayoutsKept'
    BY <1>3, <1>5, <2>1 DEF T!LayoutsKept, T!Existing
  <2>6. QED
    BY <1>4, <1>8, <2>1, <2>2, <2>3, <2>4, <2>5
<1>9. QED
  BY <1>1, <1>6, <1>7, <1>8 DEF T!Serve

LEMMA TemplatesEndStep ==
  ASSUME TemplatesInv, NEW q \in Calls, T!Answer(q) \/ T!Fail(q), UNCHANGED alone
  PROVE  TemplatesInv'
<1> USE DEF TemplatesInv
<1>1. PICK c : c = call[q]
  OBVIOUS
<1>2. c \in TemplateCall /\ c # T!Free /\ T!Waits(q) /\ stored' = stored
  BY <1>1 DEF T!Answer, T!Fail, T!Waits
<1>3. alone => /\ T!LayoutsKept /\ layout = selected
               /\ c.op = "save" => c.of = selected /\ c.layout = selected
               /\ c.op = "update" => c.of = selected
  BY <1>1 DEF OneTemplate, T!LayoutOfSelected
<1>4. T!Free \in TemplateCall /\ T!Free.op = "free"
  BY DEF TemplateCall, T!Free
<1>5. PICK list : list = [op |-> "list", served |-> FALSE]
  OBVIOUS
<1>6. list \in TemplateCall /\ list.op = "list"
  BY <1>5 DEF TemplateCall
<1>7. ASSUME NEW d \in {T!Free, list}, call' = [call EXCEPT ![q] = d],
             templates' \subseteq Templates,
             selected' \in Templates \cup {None}, layout' \in Templates \cup {None},
             saving' = IF c.op = "save" THEN FALSE ELSE saving,
             alone => layout' = selected'
      PROVE  TemplatesInv'
  <2>1. d \in TemplateCall /\ d.op \in {"free", "list"}
    BY <1>4, <1>6, <1>7
  <2>2. T!TypeOK' /\ call' \in [Calls -> TemplateCall] /\ T!OneSave'
    <3>1. \/ saving' = saving /\ (d.op = "save" <=> call[q].op = "save")
          \/ saving' = FALSE /\ call[q].op = "save" /\ d.op # "save"
      BY <1>1, <1>7, <2>1
    <3>2. stored' \in [Templates -> Templates \cup {None}]
      BY <1>2 DEF T!TypeOK
    <3>3. QED
      BY <1>7, <2>1, <3>1, <3>2, TemplatesCallStep
  <2>3. ASSUME alone PROVE OneTemplate'
    <3>1. T!LayoutsKept'
      BY <1>2, <1>3, <2>3 DEF T!LayoutsKept, T!Existing
    <3>2. QED
      BY <1>2, <1>7, <2>1, <2>3, <3>1, OneTemplateStep
  <2>4. QED
    BY <2>2, <2>3
<1>8. CASE T!Fail(q)
  BY <1>1, <1>3, <1>7, <1>8 DEF T!Fail, T!End, T!TypeOK
<1>9. CASE T!Answer(q)
  <2>1. c.served
    BY <1>1, <1>9 DEF T!Answer
  <2>2. CASE T!Loaded(q) \/ T!Listed(q)
    <3>1. c.op \in {"load", "list"}
      BY <1>1, <2>2 DEF T!Loaded, T!Listed
    <3>2. c.list \subseteq Templates
      <4>1. c \in [op : {"load", "list"}, list : SUBSET Templates, served : {TRUE}]
        BY <1>2, <2>1, <3>1 DEF TemplateCall
      <4>2. QED
        BY <4>1
    <3>3. /\ call' = [call EXCEPT ![q] = T!Free] /\ templates' = c.list /\ saving' = saving
          /\ \/ UNCHANGED <<selected, layout>>
             \/ \E t \in c.list : selected' = t /\ layout' = t
      BY <1>1, <2>2 DEF T!Loaded, T!Listed, T!End
    <3>4. QED
      BY <1>3, <1>7, <3>1, <3>2, <3>3 DEF T!TypeOK
  <2>3. CASE T!Saved(q) \/ T!Updated(q) \/ T!Created(q)
    <3>1. c.op \in {"save", "update", "create", "duplicate"}
      BY <1>1, <2>3 DEF T!Saved, T!Updated, T!Created
    <3>2. c.of \in Templates
      BY <1>2, <2>1, <3>1 DEF TemplateCall
    <3>3. /\ call' = [call EXCEPT ![q] = list] /\ templates' = templates
          /\ saving' = IF c.op = "save" THEN FALSE ELSE saving
          /\ selected' = c.of
          /\ IF c.op \in {"save", "update"} THEN layout' = layout ELSE layout' = c.of
      BY <1>1, <1>5, <2>3 DEF T!Saved, T!Updated, T!Created, T!Reload
    <3>4. QED
      BY <1>3, <1>7, <3>1, <3>2, <3>3 DEF T!TypeOK
  <2>4. CASE T!Deleted(q)
    BY <1>1, <1>3, <1>5, <1>7, <2>4 DEF T!Deleted, T!Reload, T!TypeOK
  <2>5. QED
    BY <1>9, <2>2, <2>3, <2>4 DEF T!Answer
<1>10. QED
  BY <1>8, <1>9

LEMMA TemplatesStep ==
  ASSUME TemplatesInv, TemplatesNext \/ UNCHANGED everything PROVE TemplatesInv'
<1>1. CASE UNCHANGED everything
  BY <1>1 DEF everything, templateVars, TemplatesInv, T!TypeOK, T!OneSave, OneTemplate, T!Waits,
              T!LayoutOfSelected, T!LayoutsKept, T!Existing
<1>2. CASE TemplatesNext
  BY <1>2, TemplatesUserStep, TemplatesServeStep, TemplatesEndStep DEF TemplatesNext
<1>3. QED
  BY <1>1, <1>2

LEMMA TemplatesInit == ASSUME T!Init PROVE TemplatesInv
<1>1. PICK q \in Calls : call = [p \in Calls |-> IF p = q THEN [op |-> "load", served |-> FALSE]
                                                  ELSE T!Free]
  BY DEF T!Init
<1>2. \A p \in Calls : /\ call[p].op # "save" /\ call[p].op # "update"
                       /\ p # q => call[p] = T!Free
  BY <1>1 DEF T!Free
<1>3. call \in [Calls -> TemplateCall]
  BY <1>1 DEF TemplateCall
<1>4. /\ stored = [t \in Templates |-> IF t \in First THEN t ELSE None]
      /\ templates = {} /\ selected = None /\ layout = None /\ saving = FALSE
  BY DEF T!Init
<1>5. T!TypeOK
  BY <1>3, <1>4, TemplateCallsTyped DEF T!TypeOK
<1>6. T!OneSave
  BY <1>2, <1>4 DEF T!OneSave
<1>7. OneTemplate
  BY <1>2, <1>4 DEF OneTemplate, T!Waits, T!LayoutOfSelected, T!LayoutsKept, T!Existing
<1>8. QED
  BY <1>3, <1>5, <1>6, <1>7 DEF TemplatesInv

-----------------------------------------------------------------------------
(***************************************************************************)
(* The form of employees.                                                  *)
(***************************************************************************)
Saves == {"create", "update"}

\* A load that is done holds the row, a save and the bank's answer an account.
EmployeeCall ==
  {E!Free} \cup [op : {"load"}, of : Logins, stage : {"sent"}]
  \cup [op : {"load"}, of : Logins, stage : {"done"}, row : E!Employees]
  \cup [op : Saves, of : Logins, account : Accounts, stage : {"sent", "done"}]
  \cup [op : {"verify"}, of : Logins, account : Accounts \cup {None},
        stage : {"sent", "asked", "done"}]
  \cup [op : {"face"}, of : Logins, account : {None}, stage : {"sent", "done"}]

KindOf(c) == IF c.op = "update" THEN "create" ELSE c.op

\* A button's flag is up while its call is under way.
Flagged ==
  /\ \A p, q \in Calls : E!Busy(p) /\ E!Busy(q) /\ KindOf(call[p]) = KindOf(call[q]) => p = q
  /\ \A q \in Calls : /\ call[q].op \in Saves => loading
                      /\ call[q].op = "verify" => verifying
                      /\ call[q].op = "face" => faceLoading

\* Whom a call or the page is about is an employee of the server.
InStaff ==
  /\ isEdit # None => staff[isEdit] # None /\ savedId \in {None, isEdit}
  /\ savedId # None => staff[savedId] # None
  /\ \A q \in Calls :
       /\ call[q].op \in {"load", "update"} => call[q].of = isEdit
       /\ call[q].op = "create" => isEdit = None
       /\ call[q].op \in {"load", "update", "verify", "face"} => staff[call[q].of] # None
       /\ call[q].op = "create" /\ call[q].stage = "done" => staff[call[q].of] # None

\* Of a user who waits: what is loaded and what is saved is what the form will show.
FormKept ==
  /\ here
  /\ \A q \in Calls : call[q].op = "load" =>
       /\ \A p \in Calls : call[p].op \notin Saves
       /\ call[q].stage = "done" => call[q].row.account = staff[call[q].of].account
  /\ \A q \in Calls : call[q].op \in Saves =>
       /\ call[q].account = form.account
       /\ call[q].stage = "done" => staff[call[q].of].account = call[q].account
  /\ ~dirty /\ (\A q \in Calls : call[q].op \notin Saves) /\ savedId # None
       => form.account = staff[savedId].account

EmployeeTyped == E!TypeOK /\ call \in [Calls -> EmployeeCall]

EmployeeInv == EmployeeTyped /\ Flagged /\ InStaff /\ (alone => FormKept)

\* What the page's history keeps of a step.
LEMMA EmployeeHistory ==
  ASSUME EmployeeNext
  PROVE  /\ ~dirty' => ~dirty \/ (E!HandleSubmit /\ loading')
         /\ E!HandleChange \/ SaveLost => dirty'
         /\ alone' => alone /\ here'
         /\ alone' /\ (E!HandleChange \/ E!HandleSubmit) => NoCalls
         /\ alone' => \A q \in Calls : E!Fail(q) => call[q].stage # "done"
<1> DEFINE change == E!HandleChange
           submit == E!HandleSubmit
           failed(q) == E!Fail(q)
           lost == SaveLost
<1>1. dirty' = CASE change \/ lost -> TRUE
                 [] submit /\ loading' -> FALSE
                 [] OTHER -> dirty
  BY DEF EmployeeNext
<1>2. alone' = (alone /\ (submit \/ change => NoCalls) /\ here'
                      /\ ~\E q \in Calls : failed(q) /\ call[q].stage = "done")
  BY DEF EmployeeNext
<1>3. ~((change \/ lost) /\ submit /\ loading')
  BY DEF E!HandleChange, SaveLost, E!Fail, E!Ended, E!HandleSubmit, E!flags
<1> HIDE DEF change, submit, failed, lost
<1>4. ~dirty' => ~dirty \/ (submit /\ loading')
  BY <1>1
<1>5. change \/ lost => dirty'
  BY <1>1, <1>3
<1>6. /\ alone' => alone /\ here'
      /\ alone' /\ (change \/ submit) => NoCalls
      /\ alone' => \A q \in Calls : failed(q) => call[q].stage # "done"
  BY <1>2
<1>7. QED
  BY <1>4, <1>5, <1>6 DEF change, submit, failed, lost

\* The form, the step and the camera may change.
LEMMA EmployeeQuietStep ==
  ASSUME EmployeeInv,
         UNCHANGED <<staff, isEdit, savedId, kycStatus, loading, verifying, faceLoading, call>>,
         form' \in E!Forms, step' \in 0 .. 3, here' \in BOOLEAN, camOpen' \in BOOLEAN,
         camReady' \in BOOLEAN, attached' \in BOOLEAN, captured' \in BOOLEAN,
         asked' \subseteq Streams, live' \subseteq Streams, streamRef' \in Streams \cup {None},
         alone' => alone /\ here',
         (form' = form /\ (~dirty' => ~dirty)) \/ (dirty' /\ (alone' => NoCalls))
  PROVE  EmployeeInv'
<1> USE DEF EmployeeInv
<1>1. EmployeeTyped'
  BY DEF EmployeeTyped, E!TypeOK, E!Busy
<1>2. Flagged'
  BY DEF Flagged, E!Busy, KindOf
<1>3. InStaff'
  BY DEF InStaff
<1>4. ASSUME alone', form' = form, ~dirty' => ~dirty PROVE FormKept'
  BY <1>4 DEF FormKept
<1>5. ASSUME alone', dirty', NoCalls PROVE FormKept'
  <2>1. \A q \in Calls : call[q].op = "free" /\ call'[q] = call[q]
    BY <1>5 DEF NoCalls, E!Busy, E!Free
  <2>2. QED
    BY <1>5, <2>1 DEF FormKept, Saves
<1>6. QED
  BY <1>1, <1>2, <1>3, <1>4, <1>5

LEMMA EmployeeFormStep ==
  ASSUME EmployeeInv, EmployeeNext,
         \/ E!HandleChange \/ E!NextStep \/ E!Leave \/ \E i \in 0 .. 3 : E!StepClick(i)
         \/ E!HandleSubmit /\ ~E!Valid
  PROVE  EmployeeInv'
<1>1. E!TypeOK
  BY DEF EmployeeInv, EmployeeTyped
<1>2. CASE E!HandleChange
  <2>1. form' \in E!Forms
    <3>0. form \in E!Forms
      BY <1>1 DEF E!TypeOK
    <3>1. CASE \E l \in Logins \cup {None} : form' = [form EXCEPT !.login = l]
      BY <3>0, <3>1 DEF E!Forms
    <3>2. CASE \E g \in E!Grades : form' = [form EXCEPT !.rest = g]
      BY <3>0, <3>2 DEF E!Forms
    <3>3. CASE \E a \in Accounts \cup {None} : form' = [form EXCEPT !.account = a]
      BY <3>0, <3>3 DEF E!Forms
    <3>4. QED
      BY <1>2, <3>1, <3>2, <3>3 DEF E!HandleChange
  <2>2. dirty' /\ (alone' => NoCalls /\ alone /\ here')
    BY <1>2, EmployeeHistory
  <2>3. QED
    BY <1>1, <1>2, <2>1, <2>2, EmployeeQuietStep
       DEF E!HandleChange, E!flags, E!camera, E!TypeOK
<1>3. CASE \/ E!NextStep \/ \E i \in 0 .. 3 : E!StepClick(i)
           \/ E!HandleSubmit /\ ~E!Valid
  <2>1. /\ UNCHANGED <<staff, isEdit, here, form, savedId, kycStatus, loading, verifying,
                       faceLoading, call, asked, live, streamRef, camOpen, camReady, captured>>
        /\ step' \in 0 .. 3 /\ attached' \in BOOLEAN
    <3>1. CASE E!NextStep
      BY <1>1, <3>1 DEF E!NextStep, E!GoTo, E!data, E!flags, E!TypeOK
    <3>2. ASSUME NEW i \in 0 .. 3, E!StepClick(i)
          PROVE  /\ UNCHANGED <<staff, isEdit, here, form, savedId, kycStatus, loading, verifying,
                       faceLoading, call, asked, live, streamRef, camOpen, camReady, captured>>
                 /\ step' = i /\ attached' \in BOOLEAN
      BY <1>1, <3>2 DEF E!StepClick, E!GoTo, E!data, E!flags, E!TypeOK
    <3>3. CASE E!HandleSubmit /\ ~E!Valid
      BY <1>1, <3>3 DEF E!HandleSubmit, E!GoTo, E!data, E!flags, E!TypeOK
    <3>4. QED
      BY <1>3, <3>1, <3>2, <3>3
  <2>2. /\ ~dirty' => ~dirty
        /\ alone' => alone /\ here'
    <3>1. ~(E!HandleSubmit /\ loading')
      BY <2>1 DEF E!HandleSubmit
    <3>2. QED
      BY <3>1, EmployeeHistory
  <2>3. QED
    BY <1>1, <2>1, <2>2, EmployeeQuietStep DEF E!TypeOK
<1>4. CASE E!Leave
  <2>1. /\ UNCHANGED <<staff, isEdit, form, savedId, kycStatus, loading, verifying,
                       faceLoading, call, asked, step, captured>>
        /\ here' = FALSE /\ camOpen' = FALSE /\ camReady' = FALSE /\ attached' = FALSE
        /\ live' \subseteq live /\ streamRef' = None
    BY <1>4 DEF E!Leave, E!data, E!flags
  <2>2. ~alone' /\ (~dirty' => ~dirty)
    <3>1. ~(E!HandleSubmit /\ loading')
      BY <2>1 DEF E!HandleSubmit
    <3>2. QED
      BY <2>1, <3>1, EmployeeHistory
  <2>3. QED
    BY <1>1, <2>1, <2>2, EmployeeQuietStep DEF E!TypeOK
<1>5. QED
  BY <1>2, <1>3, <1>4

LEMMA EmployeeCameraStep ==
  ASSUME EmployeeInv, EmployeeNext,
         E!OpenCamera \/ E!StopCamera \/ E!CapturePhoto \/ E!Browser
  PROVE  EmployeeInv'
<1>1. E!TypeOK
  BY DEF EmployeeInv, EmployeeTyped
<1>2. /\ UNCHANGED <<staff, isEdit, here, form, step, savedId, kycStatus, loading, verifying,
                     faceLoading, call>>
      /\ asked' \subseteq Streams /\ live' \subseteq Streams /\ streamRef' \in Streams \cup {None}
      /\ camOpen' \in BOOLEAN /\ camReady' \in BOOLEAN /\ attached' \in BOOLEAN
      /\ captured' \in BOOLEAN
  <2>1. CASE E!OpenCamera
    BY <1>1, <2>1 DEF E!OpenCamera, E!data, E!flags, E!TypeOK
  <2>2. CASE E!StopCamera \/ E!CapturePhoto
    BY <1>1, <2>2 DEF E!StopCamera, E!CapturePhoto, E!Stop, E!data, E!flags, E!TypeOK
  <2>3. CASE E!Ready
    BY <1>1, <2>3 DEF E!Ready, E!data, E!flags, E!TypeOK
  <2>4. ASSUME NEW s \in Streams, E!Denied(s)
        PROVE  /\ UNCHANGED <<staff, isEdit, here, form, step, savedId, kycStatus, loading,
                              verifying, faceLoading, call>>
               /\ asked' \subseteq Streams
               /\ UNCHANGED <<live, streamRef, camOpen, camReady, attached, captured>>
    BY <1>1, <2>4 DEF E!Denied, E!data, E!flags, E!TypeOK
  <2>5. ASSUME NEW s \in Streams, E!Granted(s)
        PROVE  /\ UNCHANGED <<staff, isEdit, here, form, step, savedId, kycStatus, loading,
                              verifying, faceLoading, call>>
               /\ asked' \subseteq Streams /\ live' = live \cup {s} /\ streamRef' = s
               /\ camOpen' \in {TRUE, camOpen} /\ captured' \in {FALSE, captured}
               /\ camReady' = camReady /\ attached' \in BOOLEAN
    BY <1>1, <2>5 DEF E!Granted, E!data, E!flags, E!TypeOK
  <2>6. QED
    BY <1>1, <2>1, <2>2, <2>3, <2>4, <2>5 DEF E!Browser, E!TypeOK
<1>3. /\ ~dirty' => ~dirty
      /\ alone' => alone /\ here'
  <2>1. ~(E!HandleSubmit /\ loading')
    BY <1>2 DEF E!HandleSubmit
  <2>2. QED
    BY <2>1, EmployeeHistory
<1>4. QED
  BY <1>1, <1>2, <1>3, EmployeeQuietStep DEF E!TypeOK

LEMMA EmployeeCallsKnown ==
  /\ \A c \in EmployeeCall : c # E!Free => c.of \in Logins
  /\ E!Free \in EmployeeCall /\ E!Free.op = "free"
  /\ \A c \in EmployeeCall : c # E!Free => c.op \in Saves \cup {"load", "verify", "face"}
  /\ \A c \in EmployeeCall : c.op \in Saves => c.account \in Accounts
  /\ \A c \in EmployeeCall : c.op = "load" /\ c.stage = "done" => c.row \in E!Employees
  /\ \A c \in EmployeeCall : c.op = "verify" => c.account \in Accounts \cup {None}
BY DEF EmployeeCall, E!Free, Saves

\* A call that is sent: its flag goes up, and no call of its kind was under way.
LEMMA EmployeeSendStep ==
  ASSUME EmployeeInv, NEW d \in EmployeeCall, E!Send(d), d.op \in Saves \cup {"verify", "face"},
         d.stage = "sent",
         UNCHANGED <<staff, isEdit, here, form, savedId, kycStatus, step, asked, live, streamRef,
                     camOpen, camReady, attached, captured>>,
         IF d.op \in Saves THEN ~loading /\ loading' = TRUE ELSE loading' = loading,
         IF d.op = "verify" THEN ~verifying /\ verifying' = TRUE ELSE verifying' = verifying,
         IF d.op = "face" THEN ~faceLoading /\ faceLoading' = TRUE ELSE faceLoading' = faceLoading,
         d.op = "update" => d.of = isEdit /\ isEdit # None,
         d.op = "create" => isEdit = None,
         d.op \in {"verify", "face"} => staff[d.of] # None,
         d.op \in Saves => d.account = form.account /\ (alone' => NoCalls),
         d.op \notin Saves => (~dirty' => ~dirty),
         alone' => alone /\ here'
  PROVE  EmployeeInv'
<1> USE DEF EmployeeInv
<1>1. PICK q \in Calls : call[q] = E!Free /\ call' = [call EXCEPT ![q] = d]
  BY DEF E!Send, E!Busy
<1>2. /\ call \in [Calls -> EmployeeCall] /\ call' \in [Calls -> EmployeeCall]
      /\ call'[q] = d /\ \A p \in Calls \ {q} : call'[p] = call[p]
  BY <1>1 DEF EmployeeTyped
<1>3. EmployeeTyped'
  <2>1. \A p \in Calls : E!Busy(p)' => call'[p].of \in Logins
    BY <1>2, EmployeeCallsKnown DEF E!Busy
  <2>2. E!TypeOK'
    BY <2>1 DEF EmployeeTyped, E!TypeOK
  <2>3. QED
    BY <1>2, <2>2 DEF EmployeeTyped
<1>4. Flagged'
  <2>1. \A p \in Calls \ {q} : E!Busy(p) => KindOf(call[p]) # KindOf(d)
    BY DEF Flagged, KindOf, Saves
  <2>2. \A p \in Calls \ {q} : E!Busy(p)' => E!Busy(p)
    BY <1>2 DEF E!Busy
  <2>3. \A p, r \in Calls : E!Busy(p)' /\ E!Busy(r)' /\ KindOf(call'[p]) = KindOf(call'[r]) => p = r
    BY <1>2, <2>1, <2>2 DEF Flagged
  <2>4. \A p \in Calls : /\ call'[p].op \in Saves => loading'
                         /\ call'[p].op = "verify" => verifying'
                         /\ call'[p].op = "face" => faceLoading'
    BY <1>2 DEF Flagged
  <2>5. QED
    BY <2>3, <2>4 DEF Flagged
<1>5. InStaff'
  <2>1. \A p \in Calls :
          /\ call'[p].op \in {"load", "update"} => call'[p].of = isEdit
          /\ call'[p].op = "create" => isEdit = None
          /\ call'[p].op \in {"load", "update", "verify", "face"} => staff[call'[p].of] # None
          /\ call'[p].op = "create" /\ call'[p].stage = "done" => staff[call'[p].of] # None
    BY <1>2 DEF InStaff, Saves
  <2>2. QED
    BY <2>1 DEF InStaff
<1>6. ASSUME alone' PROVE FormKept'
  <2>1. CASE d.op \in Saves
    <3>1. \A p \in Calls \ {q} : call'[p] = E!Free /\ call'[p].op = "free"
      BY <1>2, <1>6, <2>1, EmployeeCallsKnown DEF NoCalls, E!Busy
    <3>2. here' /\ d.op # "load"
      BY <1>6, <2>1 DEF Saves
    <3>3. QED
      BY <1>2, <2>1, <3>1, <3>2 DEF FormKept, Saves
  <2>2. CASE d.op \notin Saves
    <3>1. FormKept /\ d.op \notin Saves \cup {"load"}
      BY <1>6, <2>2
    <3>2. \A p \in Calls : call'[p].op \in Saves \cup {"load"} => call'[p] = call[p]
      BY <1>2, <3>1
    <3>3. (\A p \in Calls : call'[p].op \notin Saves) => (\A p \in Calls : call[p].op \notin Saves)
      BY <1>1, <1>2, EmployeeCallsKnown DEF Saves
    <3>4. \A p \in Calls : call'[p].op = "load" =>
            /\ \A r \in Calls : call'[r].op \notin Saves
            /\ call'[p].stage = "done" => call'[p].row.account = staff[call'[p].of].account
      BY <3>1, <3>2 DEF FormKept
    <3>5. \A p \in Calls : call'[p].op \in Saves =>
            /\ call'[p].account = form.account
            /\ call'[p].stage = "done" => staff[call'[p].of].account = call'[p].account
      BY <3>1, <3>2 DEF FormKept
    <3>6. ~dirty' /\ (\A p \in Calls : call'[p].op \notin Saves) /\ savedId # None
            => form.account = staff[savedId].account
      BY <2>2, <3>1, <3>3 DEF FormKept
    <3>7. QED
      BY <1>6, <3>4, <3>5, <3>6 DEF FormKept
  <2>3. QED
    BY <2>1, <2>2
<1>7. QED
  BY <1>3, <1>4, <1>5, <1>6

LEMMA EmployeeButtonStep ==
  ASSUME EmployeeInv, EmployeeNext,
         (E!HandleSubmit /\ E!Valid) \/ E!HandleVerifyBank \/ E!HandleRegisterFace
  PROVE  EmployeeInv'
<1>1. E!TypeOK /\ InStaff
  BY DEF EmployeeInv, EmployeeTyped
<1>2. alone' => alone /\ here'
  BY EmployeeHistory
<1>3. CASE E!HandleSubmit /\ E!Valid
  <2>1. PICK d : d = [op |-> IF isEdit = None THEN "create" ELSE "update",
                      of |-> IF isEdit = None THEN form.login ELSE isEdit,
                      account |-> form.account, stage |-> "sent"]
    OBVIOUS
  <2>2. form.account \in Accounts /\ (isEdit = None => form.login \in Logins)
    BY <1>1, <1>3 DEF E!Valid, E!TypeOK, E!Forms
  <2>3. /\ d \in EmployeeCall /\ d.op \in Saves /\ d.stage = "sent" /\ d.account = form.account
        /\ d.op = "update" => d.of = isEdit /\ isEdit # None
        /\ d.op = "create" => isEdit = None
    BY <1>1, <2>1, <2>2 DEF EmployeeCall, Saves, E!TypeOK
  <2>4. /\ E!Send(d) /\ ~loading /\ loading' = TRUE
        /\ UNCHANGED <<verifying, faceLoading>>
        /\ UNCHANGED <<staff, isEdit, here, form, savedId, kycStatus, step, asked, live, streamRef,
                       camOpen, camReady, attached, captured>>
    BY <1>3, <2>1 DEF E!HandleSubmit, E!data, E!camera
  <2>5. alone' => NoCalls
    BY <1>3, EmployeeHistory
  <2>6. d.op # "verify" /\ d.op # "face"
    BY <2>3 DEF Saves
  <2>7. QED
    BY <1>2, <2>3, <2>4, <2>5, <2>6, EmployeeSendStep
<1>4. CASE E!HandleVerifyBank
  <2>1. PICK d : d = [op |-> "verify", of |-> savedId, account |-> None, stage |-> "sent"]
    OBVIOUS
  <2>2. /\ d \in EmployeeCall /\ d.op = "verify" /\ d.stage = "sent" /\ staff[d.of] # None
    BY <1>1, <1>4, <2>1 DEF EmployeeCall, E!TypeOK, InStaff, E!HandleVerifyBank
  <2>3. /\ E!Send(d) /\ ~verifying /\ verifying' = TRUE
        /\ UNCHANGED <<loading, faceLoading>>
        /\ UNCHANGED <<staff, isEdit, here, form, savedId, kycStatus, step, asked, live, streamRef,
                       camOpen, camReady, attached, captured>>
    BY <1>4, <2>1 DEF E!HandleVerifyBank, E!data, E!camera
  <2>4. ~dirty' => ~dirty
    <3>1. ~(E!HandleSubmit /\ loading')
      BY <2>3 DEF E!HandleSubmit
    <3>2. QED
      BY <3>1, EmployeeHistory
  <2>5. d.op \notin Saves /\ d.op # "face" /\ d.op # "update" /\ d.op # "create"
    BY <2>2 DEF Saves
  <2>6. QED
    BY <1>2, <2>2, <2>3, <2>4, <2>5, EmployeeSendStep
<1>5. CASE E!HandleRegisterFace
  <2>1. PICK d : d = [op |-> "face", of |-> savedId, account |-> None, stage |-> "sent"]
    OBVIOUS
  <2>2. /\ d \in EmployeeCall /\ d.op = "face" /\ d.stage = "sent" /\ staff[d.of] # None
    BY <1>1, <1>5, <2>1 DEF EmployeeCall, E!TypeOK, InStaff, E!HandleRegisterFace
  <2>3. /\ E!Send(d) /\ ~faceLoading /\ faceLoading' = TRUE
        /\ UNCHANGED <<loading, verifying>>
        /\ UNCHANGED <<staff, isEdit, here, form, savedId, kycStatus, step, asked, live, streamRef,
                       camOpen, camReady, attached, captured>>
    BY <1>5, <2>1 DEF E!HandleRegisterFace, E!data, E!camera
  <2>4. ~dirty' => ~dirty
    <3>1. ~(E!HandleSubmit /\ loading')
      BY <2>3 DEF E!HandleSubmit
    <3>2. QED
      BY <3>1, EmployeeHistory
  <2>5. d.op \notin Saves /\ d.op # "verify" /\ d.op # "update" /\ d.op # "create"
    BY <2>2 DEF Saves
  <2>6. QED
    BY <1>2, <2>2, <2>3, <2>4, <2>5, EmployeeSendStep
<1>6. QED
  BY <1>3, <1>4, <1>5

\* The server changes the account of an employee only by an update.
LEMMA EmployeeServed ==
  ASSUME EmployeeInv, NEW q \in Calls, E!Busy(q), NEW d \in EmployeeCall,
         call' = [call EXCEPT ![q] = d], d.op = call[q].op, d.of = call[q].of,
         UNCHANGED <<isEdit, here, form, savedId, kycStatus, step, loading, verifying, faceLoading,
                     asked, live, streamRef, camOpen, camReady, attached, captured>>,
         staff' \in [Logins -> {None} \cup E!Employees],
         \A l \in Logins : staff[l] # None => staff'[l] # None,
         d.op = "create" /\ d.stage = "done" => staff'[d.of] # None,
         \A l \in Logins : staff[l] # None /\ ~(d.op = "update" /\ l = d.of)
                             => staff'[l].account = staff[l].account,
         d.op \in Saves => /\ d.account = call[q].account
                           /\ d.stage = "done" => staff'[d.of].account = d.account,
         d.op = "load" /\ d.stage = "done" => d.row.account = staff'[d.of].account,
         ~dirty' => ~dirty, alone' => alone
  PROVE  EmployeeInv'
<1> USE DEF EmployeeInv
<1>1. /\ call \in [Calls -> EmployeeCall] /\ call' \in [Calls -> EmployeeCall]
      /\ call'[q] = d /\ \A p \in Calls \ {q} : call'[p] = call[p]
  BY DEF EmployeeTyped
<1>2. \A p \in Calls : call'[p].op = call[p].op /\ (call[p] # E!Free => call'[p].of = call[p].of)
  BY <1>1
<1>3. \A p \in Calls : call'[p] # E!Free <=> call[p] # E!Free
  BY <1>1, <1>2, EmployeeCallsKnown DEF E!Busy, Saves
<1>4. EmployeeTyped'
  <2>1. \A p \in Calls : E!Busy(p)' => call'[p].of \in Logins
    BY <1>1, EmployeeCallsKnown DEF E!Busy
  <2>2. E!TypeOK'
    BY <2>1 DEF EmployeeTyped, E!TypeOK
  <2>3. QED
    BY <1>1, <2>2 DEF EmployeeTyped
<1>5. Flagged'
  <2>1. \A p \in Calls : (E!Busy(p)' <=> E!Busy(p)) /\ KindOf(call'[p]) = KindOf(call[p])
    BY <1>2, <1>3 DEF E!Busy, KindOf
  <2>2. \A p, r \in Calls : E!Busy(p)' /\ E!Busy(r)' /\ KindOf(call'[p]) = KindOf(call'[r]) => p = r
    BY <2>1 DEF Flagged
  <2>3. \A p \in Calls : /\ call'[p].op \in Saves => loading'
                         /\ call'[p].op = "verify" => verifying'
                         /\ call'[p].op = "face" => faceLoading'
    BY <1>2 DEF Flagged
  <2>4. QED
    BY <2>2, <2>3 DEF Flagged
<1>6. \A p \in Calls : call[p].op \in Saves \cup {"load", "verify", "face"} =>
                       call[p].of \in Logins /\ call'[p].of = call[p].of
  BY <1>1, <1>2, EmployeeCallsKnown DEF Saves
<1>7. InStaff'
  <2>1. \A p \in Calls :
          /\ call'[p].op \in {"load", "update"} => call'[p].of = isEdit
          /\ call'[p].op = "create" => isEdit = None
    BY <1>2, <1>6 DEF InStaff, Saves
  <2>2. \A p \in Calls :
          call'[p].op \in {"load", "update", "verify", "face"} => staff'[call'[p].of] # None
    BY <1>2, <1>6 DEF InStaff, Saves
  <2>3. \A p \in Calls :
          call'[p].op = "create" /\ call'[p].stage = "done" => staff'[call'[p].of] # None
    BY <1>1, <1>6 DEF InStaff, Saves
  <2>4. isEdit # None => staff'[isEdit] # None /\ savedId \in {None, isEdit}
    BY DEF InStaff, EmployeeTyped, E!TypeOK
  <2>5. savedId # None => staff'[savedId] # None
    BY DEF InStaff, EmployeeTyped, E!TypeOK
  <2>6. QED
    BY <2>1, <2>2, <2>3, <2>4, <2>5 DEF InStaff
<1>8. ASSUME alone' PROVE FormKept'
  <2>1. FormKept
    BY <1>8
  <2>2. \A p \in Calls : call'[p].op = "load" => \A r \in Calls : call'[r].op \notin Saves
    BY <1>2, <2>1 DEF FormKept
  <2>3. ASSUME NEW p \in Calls, call'[p].op = "load", call'[p].stage = "done"
        PROVE  call'[p].row.account = staff'[call'[p].of].account
    <3>1. CASE p = q
      BY <1>1, <2>3, <3>1
    <3>2. CASE p # q
      <4>1. call'[p] = call[p] /\ call[p].row.account = staff[call[p].of].account
        BY <1>1, <2>1, <2>3, <3>2 DEF FormKept
      <4>2. d.op # "update"
        BY <1>1, <2>2, <2>3 DEF Saves
      <4>3. staff[call[p].of] # None /\ call[p].of \in Logins
        BY <1>2, <1>6, <2>3 DEF InStaff
      <4>4. QED
        BY <4>1, <4>2, <4>3
    <3>3. QED
      BY <3>1, <3>2
  <2>4. ASSUME NEW p \in Calls, call'[p].op \in Saves
        PROVE  /\ call'[p].account = form'.account
               /\ call'[p].stage = "done" => staff'[call'[p].of].account = call'[p].account
    <3>1. CASE p = q
      BY <1>1, <1>2, <2>1, <2>4, <3>1 DEF FormKept
    <3>2. CASE p # q
      <4>1. call'[p] = call[p] /\ call[p].op \in Saves
        BY <1>1, <2>4, <3>2
      <4>2. d.op # "update"
        <5>1. call[q] # E!Free /\ call[p] # E!Free
          BY <4>1, EmployeeCallsKnown DEF E!Busy, Saves
        <5>2. KindOf(call[p]) # KindOf(call[q])
          BY <3>2, <5>1 DEF Flagged, E!Busy
        <5>3. QED
          BY <4>1, <5>2 DEF KindOf, Saves
      <4>3. call[p].stage = "done" => staff[call[p].of] # None /\ call[p].of \in Logins
        BY <1>6, <4>1 DEF InStaff, Saves
      <4>4. QED
        BY <2>1, <4>1, <4>2, <4>3 DEF FormKept
    <3>3. QED
      BY <3>1, <3>2
  <2>5. ASSUME ~dirty', \A p \in Calls : call'[p].op \notin Saves, savedId # None
        PROVE  form.account = staff'[savedId].account
    <3>1. form.account = staff[savedId].account
      BY <1>2, <2>1, <2>5 DEF FormKept
    <3>2. savedId \in Logins /\ staff[savedId] # None
      BY <2>5 DEF InStaff, EmployeeTyped, E!TypeOK
    <3>3. d.op # "update"
      BY <1>1, <2>5 DEF Saves
    <3>4. QED
      BY <3>1, <3>2, <3>3
  <2>6. here'
    BY <2>1 DEF FormKept
  <2>7. QED
    BY <2>2, <2>3, <2>4, <2>5, <2>6 DEF FormKept
<1>9. QED
  BY <1>4, <1>5, <1>7, <1>8

LEMMA EmployeeServeStep ==
  ASSUME EmployeeInv, EmployeeNext, NEW q \in Calls, E!Serve(q) PROVE EmployeeInv'
<1>1. PICK c : c = call[q]
  OBVIOUS
<1>2. /\ E!Busy(q) /\ c \in EmployeeCall /\ c # E!Free /\ c.of \in Logins
      /\ UNCHANGED <<isEdit, here, form, savedId, kycStatus, step, loading, verifying, faceLoading,
                     asked, live, streamRef, camOpen, camReady, attached, captured>>
  BY <1>1, EmployeeCallsKnown
     DEF E!Serve, E!Busy, E!data, E!flags, E!camera, EmployeeInv, EmployeeTyped
<1>3. (~dirty' => ~dirty) /\ (alone' => alone)
  <2>1. ~(E!HandleSubmit /\ loading')
    BY <1>2 DEF E!HandleSubmit
  <2>2. QED
    BY <2>1, EmployeeHistory
<1>4. /\ staff \in [Logins -> {None} \cup E!Employees]
      /\ staff[c.of] \in {None} \cup E!Employees
      /\ c.op \in {"load", "update", "verify", "face"} => staff[c.of] \in E!Employees
  BY <1>1, <1>2 DEF EmployeeInv, EmployeeTyped, E!TypeOK, InStaff
<1>5. ASSUME NEW row, row \in E!Employees, staff' = [staff EXCEPT ![c.of] = row],
             NEW d \in EmployeeCall, call' = [call EXCEPT ![q] = d], d.op = c.op, d.of = c.of,
             d.op \notin Saves => staff[c.of] # None /\ row.account = staff[c.of].account,
             d.op = "create" => staff[c.of] = None,
             d.op \in Saves => d.account = c.account /\ row.account = c.account,
             d.op # "load"
      PROVE  EmployeeInv'
  <2>1. row # None
    BY <1>5, AssumptionsOfPages DEF E!EmployeeFormAssumption
  <2>2. staff' \in [Logins -> {None} \cup E!Employees] /\ staff'[d.of] = row
    BY <1>2, <1>4, <1>5
  <2>3. \A l \in Logins : staff[l] # None => staff'[l] # None
    BY <1>4, <1>5, <2>1
  <2>4. \A l \in Logins : staff[l] # None /\ ~(d.op = "update" /\ l = d.of)
                            => staff'[l].account = staff[l].account
    BY <1>4, <1>5, <2>2 DEF Saves
  <2>5. d.op \in Saves => /\ d.account = call[q].account
                          /\ d.stage = "done" => staff'[d.of].account = d.account
    BY <1>1, <1>5, <2>2
  <2>6. d.op = "create" /\ d.stage = "done" => staff'[d.of] # None
    BY <2>1, <2>2
  <2>7. QED
    BY <1>1, <1>2, <1>3, <1>5, <2>2, <2>3, <2>4, <2>5, <2>6, EmployeeServed
<1>6. ASSUME staff' = staff, c.op \in {"load", "verify"},
             NEW d \in EmployeeCall, call' = [call EXCEPT ![q] = d], d.op = c.op, d.of = c.of,
             d.op = "load" => d.row = staff[c.of]
      PROVE  EmployeeInv'
  BY <1>1, <1>2, <1>3, <1>4, <1>6, EmployeeServed DEF Saves
<1>7. CASE c.op = "load" /\ c.stage = "sent"
  <2>1. PICK d : d = [op |-> "load", of |-> c.of, stage |-> "done", row |-> staff[c.of]]
    OBVIOUS
  <2>2. d \in EmployeeCall /\ d.op = c.op /\ d.of = c.of /\ d.row = staff[c.of]
    BY <1>2, <1>4, <1>7, <2>1 DEF EmployeeCall
  <2>3. call' = [call EXCEPT ![q] = d] /\ staff' = staff
    BY <1>1, <1>7, <2>1 DEF E!Serve
  <2>4. QED
    BY <1>6, <1>7, <2>2, <2>3
<1>8. CASE c.op \in Saves /\ c.stage = "sent"
  <2>1. PICK d : d = [c EXCEPT !.stage = "done"]
    OBVIOUS
  <2>2. c \in [op : Saves, of : Logins, account : Accounts, stage : {"sent", "done"}]
    BY <1>2, <1>8 DEF EmployeeCall, Saves
  <2>3. /\ d \in [op : Saves, of : Logins, account : Accounts, stage : {"sent", "done"}]
        /\ d.op = c.op /\ d.of = c.of /\ d.account = c.account /\ c.account \in Accounts
    BY <2>1, <2>2
  <2>4. d \in EmployeeCall
    BY <2>3 DEF EmployeeCall
  <2>5. call' = [call EXCEPT ![q] = d]
    BY <1>1, <1>2, <1>8, <2>1 DEF E!Serve, Saves, EmployeeInv, EmployeeTyped
  <2>6. CASE c.op = "create"
    <3>1. PICK row : row = [account |-> c.account, kyc |-> None, face |-> FALSE]
      OBVIOUS
    <3>2. row \in E!Employees /\ row.account = c.account
      BY <2>3, <3>1 DEF E!Employees
    <3>3. staff' = [staff EXCEPT ![c.of] = row] /\ staff[c.of] = None
      BY <1>1, <1>8, <2>6, <3>1 DEF E!Serve
    <3>4. QED
      BY <1>5, <1>8, <2>3, <2>4, <2>5, <2>6, <3>2, <3>3
  <2>7. CASE c.op = "update"
    <3>1. PICK row : row = [staff[c.of] EXCEPT !.account = c.account]
      OBVIOUS
    <3>2. row \in E!Employees /\ row.account = c.account
      BY <1>4, <2>3, <2>7, <3>1 DEF E!Employees
    <3>3. staff' = [staff EXCEPT ![c.of] = row]
      BY <1>1, <1>4, <1>8, <2>7, <3>1 DEF E!Serve
    <3>4. QED
      BY <1>5, <1>8, <2>3, <2>4, <2>5, <2>7, <3>2, <3>3
  <2>8. QED
    BY <1>8, <2>6, <2>7 DEF Saves
<1>9. CASE c.op = "verify" /\ c.stage = "sent"
  <2>1. c \in [op : {"verify"}, of : Logins, account : Accounts \cup {None},
               stage : {"sent", "asked", "done"}]
    BY <1>2, <1>9 DEF EmployeeCall, Saves
  <2>2. PICK d : d = [c EXCEPT !.stage = "asked", !.account = staff[c.of].account]
    OBVIOUS
  <2>3. staff[c.of].account \in Accounts
    BY <1>4, <1>9 DEF E!Employees
  <2>4. d \in EmployeeCall /\ d.op = c.op /\ d.of = c.of
    BY <2>1, <2>2, <2>3 DEF EmployeeCall
  <2>5. call' = [call EXCEPT ![q] = d] /\ staff' = staff
    BY <1>1, <1>2, <1>9, <2>2 DEF E!Serve, EmployeeInv, EmployeeTyped, Saves
  <2>6. QED
    BY <1>6, <1>9, <2>4, <2>5
<1>10. CASE c.op = "verify" /\ c.stage = "asked"
  <2>1. c \in [op : {"verify"}, of : Logins, account : Accounts \cup {None},
               stage : {"sent", "asked", "done"}]
    BY <1>2, <1>10 DEF EmployeeCall, Saves
  <2>2. PICK kyc \in {c.account, None} :
          /\ staff' = [staff EXCEPT ![c.of].kyc = kyc]
          /\ call' = [call EXCEPT ![q].stage = "done", ![q].account = kyc]
    BY <1>1, <1>10 DEF E!Serve
  <2>3. PICK d : d = [c EXCEPT !.stage = "done", !.account = kyc]
    OBVIOUS
  <2>4. d \in EmployeeCall /\ d.op = c.op /\ d.of = c.of
    BY <2>1, <2>2, <2>3 DEF EmployeeCall
  <2>5. call' = [call EXCEPT ![q] = d]
    BY <1>1, <1>2, <2>2, <2>3 DEF EmployeeInv, EmployeeTyped
  <2>6. PICK row : row = [staff[c.of] EXCEPT !.kyc = kyc]
    OBVIOUS
  <2>7. row \in E!Employees /\ row.account = staff[c.of].account
    BY <1>4, <1>10, <2>1, <2>2, <2>6 DEF E!Employees
  <2>8. staff' = [staff EXCEPT ![c.of] = row]
    BY <1>4, <2>2, <2>6
  <2>9. staff[c.of] # None
    BY <1>4, <1>10, AssumptionsOfPages DEF E!EmployeeFormAssumption
  <2>10. QED
    BY <1>5, <1>10, <2>4, <2>5, <2>7, <2>8, <2>9 DEF Saves
<1>11. CASE c.op = "face" /\ c.stage = "sent"
  <2>1. c \in [op : {"face"}, of : Logins, account : {None}, stage : {"sent", "done"}]
    BY <1>2, <1>11 DEF EmployeeCall, Saves
  <2>2. PICK d : d = [c EXCEPT !.stage = "done"]
    OBVIOUS
  <2>3. d \in EmployeeCall /\ d.op = c.op /\ d.of = c.of
    BY <2>1, <2>2 DEF EmployeeCall
  <2>4. call' = [call EXCEPT ![q] = d]
    BY <1>1, <1>2, <1>11, <2>2 DEF E!Serve, EmployeeInv, EmployeeTyped, Saves
  <2>5. PICK row : row = [staff[c.of] EXCEPT !.face = TRUE]
    OBVIOUS
  <2>6. row \in E!Employees /\ row.account = staff[c.of].account
    BY <1>4, <1>11, <2>5 DEF E!Employees
  <2>7. staff' = [staff EXCEPT ![c.of] = row]
    BY <1>1, <1>4, <1>11, <2>5 DEF E!Serve
  <2>8. staff[c.of] # None
    BY <1>4, <1>11, AssumptionsOfPages DEF E!EmployeeFormAssumption
  <2>9. QED
    BY <1>5, <1>11, <2>3, <2>4, <2>6, <2>7, <2>8 DEF Saves
<1>12. QED
  BY <1>1, <1>7, <1>8, <1>9, <1>10, <1>11 DEF E!Serve, Saves

\* A call ends; the form takes another account only from one that was loaded.
LEMMA EmployeeEnded ==
  ASSUME EmployeeInv, NEW q \in Calls, E!Busy(q), E!Ended(q),
         form' \in E!Forms, savedId' \in Logins \cup {None}, kycStatus' \in Accounts \cup {None},
         step' \in 0 .. 3, attached' \in BOOLEAN, captured' \in BOOLEAN,
         UNCHANGED <<asked, live, streamRef, camOpen, camReady>>,
         isEdit # None => savedId' \in {None, isEdit},
         savedId' # None => staff[savedId'] # None,
         call[q].op # "load" => form' = form,
         alone' => alone,
         alone' /\ ~dirty' /\ savedId' # None
           /\ (\A p \in Calls \ {q} : call[p].op \notin Saves)
           => form'.account = staff[savedId'].account
  PROVE  EmployeeInv'
<1> USE DEF EmployeeInv
<1>1. /\ call \in [Calls -> EmployeeCall] /\ call' \in [Calls -> EmployeeCall]
      /\ call'[q] = E!Free /\ E!Free.op = "free" /\ \A p \in Calls \ {q} : call'[p] = call[p]
      /\ UNCHANGED <<staff, isEdit, here>>
  BY EmployeeCallsKnown DEF EmployeeTyped, E!Ended
<1>2. EmployeeTyped'
  <2>1. \A p \in Calls : E!Busy(p)' => call'[p].of \in Logins
    BY <1>1, EmployeeCallsKnown DEF E!Busy
  <2>2. loading' \in BOOLEAN /\ verifying' \in BOOLEAN /\ faceLoading' \in BOOLEAN
    BY DEF E!Ended
  <2>3. E!TypeOK'
    BY <1>1, <2>1, <2>2 DEF EmployeeTyped, E!TypeOK
  <2>4. QED
    BY <1>1, <2>3 DEF EmployeeTyped
<1>3. Flagged'
  <2>1. \A p \in Calls : E!Busy(p)' => p # q /\ E!Busy(p)
    BY <1>1 DEF E!Busy
  <2>2. \A p, r \in Calls : E!Busy(p)' /\ E!Busy(r)' /\ KindOf(call'[p]) = KindOf(call'[r]) => p = r
    BY <1>1, <2>1 DEF Flagged
  <2>3. ASSUME NEW p \in Calls
        PROVE  /\ call'[p].op \in Saves => loading'
               /\ call'[p].op = "verify" => verifying'
               /\ call'[p].op = "face" => faceLoading'
    <3>1. CASE p = q
      BY <1>1, <3>1 DEF Saves
    <3>2. CASE p # q
      <4>1. call'[p] = call[p]
        BY <1>1, <3>2
      <4>2. call[p] # E!Free => KindOf(call[p]) # KindOf(call[q])
        BY <3>2 DEF Flagged, E!Busy
      <4>3. call[p].op \in Saves \cup {"verify", "face"} => KindOf(call[p]) # KindOf(call[q])
        BY <1>1, <4>2 DEF Saves
      <4>4. CASE call[p].op \in Saves
        BY <4>1, <4>3, <4>4 DEF Flagged, KindOf, Saves, E!Ended
      <4>5. CASE call[p].op = "verify"
        BY <4>1, <4>3, <4>5 DEF Flagged, KindOf, Saves, E!Ended
      <4>6. CASE call[p].op = "face"
        BY <4>1, <4>3, <4>6 DEF Flagged, KindOf, Saves, E!Ended
      <4>7. QED
        BY <4>1, <4>4, <4>5, <4>6
    <3>3. QED
      BY <3>1, <3>2
  <2>4. QED
    BY <2>2, <2>3 DEF Flagged
<1>4. InStaff'
  BY <1>1 DEF InStaff
<1>5. ASSUME alone' PROVE FormKept'
  <2>1. FormKept
    BY <1>5
  <2>2. ASSUME NEW p \in Calls, call'[p].op = "load"
        PROVE  /\ \A r \in Calls : call'[r].op \notin Saves
               /\ call'[p].stage = "done" => call'[p].row.account = staff'[call'[p].of].account
    <3>1. p # q /\ call'[p] = call[p]
      BY <1>1, <2>2
    <3>2. QED
      BY <1>1, <2>1, <2>2, <3>1 DEF FormKept, Saves
  <2>3. ASSUME NEW p \in Calls, call'[p].op \in Saves
        PROVE  /\ call'[p].account = form'.account
               /\ call'[p].stage = "done" => staff'[call'[p].of].account = call'[p].account
    <3>1. p # q /\ call'[p] = call[p]
      BY <1>1, <2>3 DEF Saves
    <3>2. call[q].op # "load"
      BY <2>1, <2>3, <3>1 DEF FormKept
    <3>3. QED
      BY <1>1, <2>1, <2>3, <3>1, <3>2 DEF FormKept
  <2>4. ASSUME ~dirty', \A p \in Calls : call'[p].op \notin Saves, savedId' # None
        PROVE  form'.account = staff'[savedId'].account
    BY <1>1, <1>5, <2>4
  <2>5. here'
    BY <1>1, <2>1 DEF FormKept
  <2>6. QED
    BY <2>2, <2>3, <2>4, <2>5 DEF FormKept
<1>6. QED
  BY <1>2, <1>3, <1>4, <1>5

LEMMA EmployeeEndStep ==
  ASSUME EmployeeInv, EmployeeNext, NEW q \in Calls, E!Answer(q) \/ E!Fail(q)
  PROVE  EmployeeInv'
<1>1. /\ E!Busy(q) /\ E!Ended(q) /\ UNCHANGED <<staff, isEdit, here>>
      /\ call[q] \in EmployeeCall /\ call[q] # E!Free
  BY DEF E!Answer, E!Fail, E!Ended, EmployeeInv, EmployeeTyped, E!Busy
<1>2. E!TypeOK /\ InStaff /\ (alone' => alone /\ FormKept)
  BY EmployeeHistory DEF EmployeeInv, EmployeeTyped
<1>3. ~dirty' => ~dirty
  <2>1. ~(E!HandleSubmit /\ loading')
    BY <1>1 DEF E!HandleSubmit, E!Ended
  <2>2. QED
    BY <2>1, EmployeeHistory
<1>4. /\ savedId # None => staff[savedId] # None
      /\ isEdit # None => savedId \in {None, isEdit}
  BY <1>2 DEF InStaff
<1>5. ASSUME UNCHANGED <<form, savedId>>, kycStatus' \in Accounts \cup {None},
             step' \in 0 .. 3, attached' \in BOOLEAN, captured' \in BOOLEAN,
             UNCHANGED <<asked, live, streamRef, camOpen, camReady>>,
             alone' /\ ~dirty' => call[q].op \notin Saves
      PROVE  EmployeeInv'
  <2>1. alone' /\ ~dirty' /\ savedId' # None
           /\ (\A p \in Calls \ {q} : call[p].op \notin Saves)
           => form'.account = staff[savedId'].account
    BY <1>2, <1>3, <1>5 DEF FormKept
  <2>2. QED
    BY <1>1, <1>2, <1>4, <1>5, <2>1, EmployeeEnded DEF E!TypeOK
<1>6. CASE E!Fail(q)
  <2>1. ~dirty' => call[q].op \notin Saves
    BY <1>6, EmployeeHistory DEF SaveLost, Saves
  <2>2. QED
    BY <1>2, <1>5, <1>6, <2>1 DEF E!Fail, E!data, E!camera, E!TypeOK
<1>7. CASE E!Answer(q) /\ ~here
  BY <1>2, <1>5, <1>7 DEF E!Answer, E!data, E!camera, E!TypeOK, FormKept
<1>8. CASE E!Answer(q) /\ here
  <2>1. call[q].stage = "done"
    BY <1>8 DEF E!Answer
  <2>2. CASE E!Loaded(q)
    <3>1. call[q].op = "load" /\ call[q].row \in E!Employees /\ call[q].of \in Logins
      BY <1>1, <2>1, <2>2, EmployeeCallsKnown DEF E!Loaded
    <3>2. /\ form' = [login |-> call[q].of, rest |-> "good", account |-> call[q].row.account]
          /\ savedId' = call[q].of /\ kycStatus' = call[q].row.kyc
          /\ UNCHANGED <<step, asked, live, streamRef, camOpen, camReady, attached, captured>>
      BY <2>2 DEF E!Loaded, E!camera
    <3>3. form' \in E!Forms /\ kycStatus' \in Accounts \cup {None}
      BY <3>1, <3>2 DEF E!Forms, E!Employees, E!Grades
    <3>4. savedId' = isEdit /\ staff[savedId'] # None
      BY <1>2, <3>1, <3>2 DEF InStaff
    <3>5. alone' => form'.account = staff[savedId'].account
      BY <1>2, <2>1, <3>1, <3>2 DEF FormKept
    <3>6. QED
      BY <1>1, <1>2, <3>1, <3>2, <3>3, <3>4, <3>5, EmployeeEnded DEF E!TypeOK
  <2>3. CASE E!Saved(q)
    <3>1. call[q].op \in Saves /\ call[q].of \in Logins
      BY <1>1, <2>3, EmployeeCallsKnown DEF E!Saved, Saves
    <3>2. /\ savedId' = IF call[q].op = "create" THEN call[q].of ELSE savedId
          /\ step' = 3 /\ attached' \in BOOLEAN
          /\ UNCHANGED <<form, kycStatus, asked, live, streamRef, camOpen, camReady, captured>>
      BY <1>2, <2>3 DEF E!Saved, E!GoTo, E!TypeOK
    <3>3. /\ savedId' \in Logins \cup {None}
          /\ isEdit # None => savedId' \in {None, isEdit}
          /\ savedId' # None => staff[savedId'] # None
      BY <1>2, <1>4, <2>1, <3>1, <3>2 DEF InStaff, Saves, E!TypeOK
    <3>4. savedId' # None => savedId' = call[q].of
      BY <1>2, <1>4, <3>1, <3>2, AssumptionsOfPages DEF InStaff, Saves, E!EmployeeFormAssumption
    <3>5. alone' /\ savedId' # None => form'.account = staff[savedId'].account
      BY <1>2, <2>1, <3>1, <3>2, <3>4 DEF FormKept
    <3>6. form' \in E!Forms /\ kycStatus' \in Accounts \cup {None} /\ step' \in 0 .. 3
          /\ captured' \in BOOLEAN
      BY <1>2, <3>2 DEF E!TypeOK
    <3>7. QED
      BY <1>1, <1>2, <3>2, <3>3, <3>5, <3>6, EmployeeEnded
  <2>4. CASE E!Verified(q)
    <3>1. kycStatus' \in Accounts \cup {None} /\ call[q].op \notin Saves
      BY <1>1, <2>4, EmployeeCallsKnown DEF E!Verified, Saves
    <3>2. QED
      BY <1>2, <1>5, <2>4, <3>1 DEF E!Verified, E!camera, E!TypeOK
  <2>5. CASE E!Registered(q)
    BY <1>2, <1>5, <2>5 DEF E!Registered, E!data, E!TypeOK, Saves
  <2>6. QED
    BY <1>8, <2>2, <2>3, <2>4, <2>5 DEF E!Answer
<1>9. QED
  BY <1>6, <1>7, <1>8

LEMMA EmployeeKept ==
  ASSUME EmployeeInv, EmployeeNext \/ UNCHANGED everything PROVE EmployeeInv'
<1>1. CASE UNCHANGED everything
  BY <1>1 DEF everything, formVars, staffVars, EmployeeInv, EmployeeTyped, Flagged, InStaff,
              FormKept, E!TypeOK, E!Busy, KindOf
<1>2. CASE EmployeeNext
  <2>1. EmployeeStep
    BY <1>2 DEF EmployeeNext
  <2>2. CASE Turns
    BY <1>2, <2>2, EmployeeFormStep, EmployeeButtonStep DEF Turns
  <2>3. CASE E!HandleChange \/ E!HandleVerifyBank
    BY <1>2, <2>3, EmployeeFormStep, EmployeeButtonStep
  <2>4. CASE \/ E!OpenCamera \/ E!StopCamera \/ E!CapturePhoto \/ E!HandleRegisterFace
             \/ E!Leave \/ E!Browser
    BY <1>2, <2>4, EmployeeFormStep, EmployeeCameraStep, EmployeeButtonStep
  <2>5. CASE \E q \in Calls : E!Serve(q) \/ E!Answer(q) \/ E!Fail(q)
    BY <1>2, <2>5, EmployeeServeStep, EmployeeEndStep
  <2>6. QED
    BY <2>1, <2>2, <2>3, <2>4, <2>5 DEF EmployeeStep
<1>3. QED
  BY <1>1, <1>2

LEMMA EmployeeInit == ASSUME E!Init, dirty = FALSE PROVE EmployeeInv
<1>1. PICK q \in Calls :
        call = [p \in Calls |-> IF p = q /\ isEdit # None
                                THEN [op |-> "load", of |-> isEdit, stage |-> "sent"] ELSE E!Free]
  BY DEF E!Init
<1>2. /\ staff \in [Logins -> {None} \cup [account : Accounts, kyc : {None}, face : {FALSE}]]
      /\ isEdit \in {None} \cup {l \in Logins : staff[l] # None}
      /\ here = TRUE /\ form = E!EMPTY /\ step = 0 /\ savedId = None /\ kycStatus = None
      /\ loading = FALSE /\ verifying = FALSE /\ faceLoading = FALSE
      /\ asked = {} /\ live = {} /\ streamRef = None
      /\ camOpen = FALSE /\ camReady = FALSE /\ attached = FALSE /\ captured = FALSE
  BY DEF E!Init
<1>3. \A p \in Calls : \/ call[p] = E!Free
                       \/ /\ p = q /\ isEdit \in Logins /\ isEdit # None
                          /\ call[p] = [op |-> "load", of |-> isEdit, stage |-> "sent"]
  BY <1>1, <1>2
<1>4. call \in [Calls -> EmployeeCall]
  BY <1>1, <1>2 DEF EmployeeCall
<1>5. E!TypeOK
  <2>1. [account : Accounts, kyc : {None}, face : {FALSE}] \subseteq E!Employees
    BY DEF E!Employees
  <2>2. E!EMPTY \in E!Forms
    BY DEF E!EMPTY, E!Forms, E!Grades
  <2>3. staff \in [Logins -> {None} \cup E!Employees]
    BY <1>2, <2>1
  <2>4. \A p \in Calls : E!Busy(p) => call[p].of \in Logins
    BY <1>4, EmployeeCallsKnown DEF E!Busy
  <2>5. {here, loading, verifying, faceLoading, camOpen, camReady, attached, captured}
          \subseteq BOOLEAN
    BY <1>2
  <2>6. isEdit \in Logins \cup {None} /\ step \in 0 .. 3
    BY <1>2
  <2>7. QED
    BY <1>2, <2>2, <2>3, <2>4, <2>5, <2>6 DEF E!TypeOK
<1>6. Flagged
  BY <1>3 DEF Flagged, E!Busy, E!Free, Saves
<1>7. InStaff
  BY <1>2, <1>3 DEF InStaff, E!Free
<1>8. FormKept
  BY <1>2, <1>3 DEF FormKept, E!Free, Saves
<1>9. QED
  BY <1>4, <1>5, <1>6, <1>7, <1>8 DEF EmployeeInv, EmployeeTyped

LEMMA EmployeeOneOfAKind == EmployeeInv => E!OneOfAKind
<1> SUFFICES ASSUME EmployeeInv, NEW p \in Calls, NEW q \in Calls, E!Busy(p),
                    KindOf(call[p]) = KindOf(call[q])
             PROVE  p = q
  BY DEF E!OneOfAKind, KindOf
<1>1. call[p] \in EmployeeCall /\ call[p] # E!Free
  BY DEF EmployeeInv, EmployeeTyped, E!Busy
<1>2. KindOf(call[p]) # "free"
  BY <1>1, EmployeeCallsKnown DEF KindOf, Saves
<1>3. E!Busy(q)
  BY <1>2, EmployeeCallsKnown DEF E!Busy, KindOf
<1>4. QED
  BY <1>3 DEF EmployeeInv, Flagged

LEMMA EmployeeShowsServer == EmployeeInv /\ alone /\ ~dirty => E!ShowsServer
<1> SUFFICES ASSUME EmployeeInv, alone, ~dirty, \A q \in Calls : ~E!Busy(q), savedId # None
             PROVE  form.account = staff[savedId].account
  BY DEF E!ShowsServer
<1>1. \A q \in Calls : call[q].op \notin Saves
  BY EmployeeCallsKnown DEF E!Busy, Saves
<1>2. QED
  BY <1>1 DEF EmployeeInv, FormKept

-----------------------------------------------------------------------------
(***************************************************************************)
(* The profile.                                                            *)
(***************************************************************************)
Ops == DOMAIN P!Flag \cup {"load", "details"}

\* A call that was served holds the user, one that was not what its form changes.
ProfileCall ==
  {P!Free} \cup [op : {"send", "verify"}, kind : P!Kinds, served : BOOLEAN]
  \cup [op : Ops, answer : P!User, served : {TRUE}]
  \cup [op : {"load", "details", "refresh", "password"}, change : {<<>>}, served : {FALSE}]
  \cup [op : {"account"}, change : [profile : Names], served : {FALSE}]
  \cup [op : {"photo"}, change : [photo : Names], served : {FALSE}]
  \cup [op : {"lock"}, change : [profile : Names, lock : Minutes], served : {FALSE}]
  \cup [op : {"pin", "unpin"}, change : [pin : BOOLEAN], served : {FALSE}]
  \cup [op : {"theme"}, change : [theme : Themes], served : {FALSE}]
  \cup [op : {"employee"}, change : [employee : Names], served : {FALSE}]

\* The forms that are shown with the user, which hold what they were filled with.
FormOps == {"account", "photo", "lock", "pin", "unpin", "refresh"}
Filled == profile \in Names /\ lockTimeout \in Minutes

ProfileTyped ==
  /\ P!TypeOK /\ call \in [Calls -> ProfileCall]
  /\ user # None => Filled
  /\ \A q \in Calls : call[q].op \in FormOps => Filled
  /\ editing => empForm \in Names

\* The flag f is that of the form of a call.
Owns(c, f) == c.op \in DOMAIN P!Flag /\ P!Flag[c.op] = f

OneFlag ==
  \A f \in P!Flags :
    /\ f \in busy <=> \E q \in Calls : Owns(call[q], f)
    /\ \A p, q \in Calls : Owns(call[p], f) /\ Owns(call[q], f) => p = q

\* The parts of a user that the forms of the account, its lock and its PIN show.
SameForms(u, s) ==
  u.profile = s.profile /\ u.photo = s.photo /\ u.lock = s.lock /\ u.pin = s.pin

\* What the server has changed and the page will show when this call has ended.
Behind(c) ==
  c.op = "refresh" \/ (c.op \in {"account", "photo", "lock", "pin", "unpin"} /\ c.served)

\* Of a user who waits for each answer the page shows what the server keeps, but
\* for the call that is under way.
PageTrue ==
  /\ \A p, q \in Calls : P!Waits(p) /\ P!Waits(q) => p = q
  /\ \A q \in Calls : call[q].op \in Ops /\ call[q].served => call[q].answer = server
  /\ user # None /\ (\A q \in Calls : ~Behind(call[q])) => SameForms(user, server)
  /\ employee # None /\ (\A q \in Calls : ~(call[q].op = "employee" /\ call[q].served))
       => employee = server.employee
  /\ verifying # None /\ codeSent => pending \in {None, verifying}
  /\ \A q \in Calls : call[q].op = "send" =>
       /\ ~codeSent /\ verifying = call[q].kind
       /\ call[q].served => pending \in {None, call[q].kind}

ProfileInv == ProfileTyped /\ OneFlag /\ (alone => PageTrue)

LEMMA FlagOfOps ==
  /\ DOMAIN P!Flag = {"account", "photo", "lock", "pin", "unpin", "refresh", "theme",
                      "employee", "password"}
  /\ P!Flag["pin"] = P!Flag["refresh"] /\ P!Flag["unpin"] = P!Flag["refresh"]
  /\ P!Flag["pin"] = P!Flag["unpin"]
  /\ \A op \in DOMAIN P!Flag : P!Flag[op] \in P!Flags
  /\ P!Free.op = "free"
BY DEF P!Flag, P!Flags, P!Free

LEMMA ProfileCallsKnown ==
  /\ ProfileCall \subseteq P!Call
  /\ P!Free \in ProfileCall
  /\ \A c \in ProfileCall : c # P!Free => c.op \in Ops \cup {"send", "verify"}
  /\ \A c \in ProfileCall : c # P!Free => c.served \in BOOLEAN
  /\ \A c \in ProfileCall : c.op \in {"send", "verify"} => c.kind \in P!Kinds
  /\ \A c \in ProfileCall : c.op \in Ops /\ c.served => c.answer \in P!User
BY FlagOfOps DEF ProfileCall, P!Call, Ops, P!Free

LEMMA CodeCalls ==
  \A c \in ProfileCall : c.op \in {"send", "verify"} =>
    c \in [op : {"send", "verify"}, kind : P!Kinds, served : BOOLEAN]
BY FlagOfOps DEF ProfileCall, Ops, P!Free

LEMMA FlagStep ==
  ASSUME OneFlag, call \in [Calls -> ProfileCall], NEW q \in Calls, NEW d \in ProfileCall,
         call' = [call EXCEPT ![q] = d],
         \/ /\ busy' = busy
            /\ \A f \in P!Flags : Owns(d, f) <=> Owns(call[q], f)
         \/ /\ \A f \in P!Flags : f \in busy' <=> f \in busy /\ ~Owns(call[q], f)
            /\ \A f \in P!Flags : ~Owns(d, f)
         \/ /\ \A f \in P!Flags : f \in busy' <=> f \in busy \/ Owns(d, f)
            /\ \A f \in P!Flags : ~Owns(call[q], f) /\ (Owns(d, f) => f \notin busy)
  PROVE  OneFlag'
<1>1. call'[q] = d /\ \A p \in Calls \ {q} : call'[p] = call[p]
  OBVIOUS
<1>2. ASSUME NEW f \in P!Flags
      PROVE  /\ f \in busy' <=> \E p \in Calls : Owns(call'[p], f)
             /\ \A p, r \in Calls : Owns(call'[p], f) /\ Owns(call'[r], f) => p = r
  <2>1. /\ f \in busy <=> \E p \in Calls : Owns(call[p], f)
        /\ \A p, r \in Calls : Owns(call[p], f) /\ Owns(call[r], f) => p = r
    BY DEF OneFlag
  <2>2. /\ Owns(call'[q], f) <=> Owns(d, f)
        /\ \A p \in Calls \ {q} : Owns(call'[p], f) <=> Owns(call[p], f)
    BY <1>1
  <2>3. \/ (f \in busy' <=> f \in busy) /\ (Owns(d, f) <=> Owns(call[q], f))
        \/ (f \in busy' <=> f \in busy /\ ~Owns(call[q], f)) /\ ~Owns(d, f)
        \/ /\ f \in busy' <=> f \in busy \/ Owns(d, f)
           /\ ~Owns(call[q], f) /\ (Owns(d, f) => f \notin busy)
    OBVIOUS
  <2>4. QED
    BY <2>1, <2>2, <2>3
<1>3. QED
  BY <1>2 DEF OneFlag, Owns

\* What is typed or is put away while nothing is under way.
LEMMA ProfileQuietStep ==
  ASSUME ProfileInv,
         UNCHANGED <<server, pending, session, user, employee, busy, call>>,
         theme' \in Themes, profile' \in Names \cup {None}, lockTimeout' \in Minutes \cup {None},
         empForm' \in Names \cup {None}, editing' \in BOOLEAN,
         user # None \/ Filled => Filled',
         editing' => empForm' \in Names,
         UNCHANGED <<verifying, codeSent>> \/ (verifying' = None /\ codeSent' = FALSE),
         alone' => alone /\ P!Quiet
  PROVE  ProfileInv'
<1> USE DEF ProfileInv
<1>1. ProfileTyped'
  BY DEF ProfileTyped, P!TypeOK, Filled
<1>2. OneFlag'
  BY DEF OneFlag, Owns
<1>3. ASSUME alone' PROVE PageTrue'
  <2>1. PageTrue /\ \A q \in Calls : call[q] = P!Free
    BY <1>3 DEF P!Quiet, P!Waits
  <2>2. \A q \in Calls : call[q].op = "free"
    BY <2>1, FlagOfOps
  <2>3. codeSent' => UNCHANGED <<verifying, codeSent>>
    OBVIOUS
  <2>4. QED
    BY <2>1, <2>2, <2>3 DEF PageTrue, P!Waits, Behind
<1>4. QED
  BY <1>1, <1>2, <1>3

\* A call that is sent: its form's flag was down and goes up.
LEMMA ProfileSendStep ==
  ASSUME ProfileInv, NEW q \in Calls, NEW d \in ProfileCall, P!Send(q, d),
         d # P!Free, d.served = FALSE, d.op # "refresh", d.op \in FormOps => Filled,
         UNCHANGED <<server, pending, session, user, employee, profile, lockTimeout, empForm,
                     editing>>,
         theme' \in Themes, busy' \subseteq P!Flags,
         \A f \in P!Flags : /\ f \in busy' <=> f \in busy \/ Owns(d, f)
                            /\ Owns(d, f) => f \notin busy,
         IF d.op = "send" THEN verifying' = d.kind /\ codeSent' = FALSE
         ELSE UNCHANGED <<verifying, codeSent>>,
         alone' => alone /\ P!Quiet
  PROVE  ProfileInv'
<1> USE DEF ProfileInv
<1>1. /\ call \in [Calls -> ProfileCall] /\ call' = [call EXCEPT ![q] = d]
      /\ call[q] = P!Free
  BY DEF ProfileTyped, P!Send, P!Waits
<1>2. /\ call' \in [Calls -> ProfileCall]
      /\ call'[q] = d /\ \A p \in Calls \ {q} : call'[p] = call[p]
  BY <1>1
<1>3. ProfileTyped'
  <2>1. verifying' \in P!Kinds \cup {None} /\ codeSent' \in BOOLEAN
    BY ProfileCallsKnown DEF ProfileTyped, P!TypeOK
  <2>2. call' \in [Calls -> P!Call]
    BY <1>2, ProfileCallsKnown
  <2>3. P!TypeOK'
    BY <2>1, <2>2 DEF ProfileTyped, P!TypeOK
  <2>4. QED
    BY <1>2, <2>3 DEF ProfileTyped, Filled
<1>4. OneFlag'
  <2>1. \A f \in P!Flags : ~Owns(call[q], f)
    BY <1>1, FlagOfOps DEF Owns
  <2>2. QED
    BY <1>1, <2>1, FlagStep
<1>5. ASSUME alone' PROVE PageTrue'
  <2>1. PageTrue /\ \A p \in Calls : call[p] = P!Free /\ call[p].op = "free"
    BY <1>5, FlagOfOps DEF P!Quiet, P!Waits
  <2>2. \A p \in Calls \ {q} : call'[p] = P!Free /\ call'[p].op = "free"
    BY <1>2, <2>1
  <2>3. \A p, r \in Calls : P!Waits(p)' /\ P!Waits(r)' => p = r
    BY <2>2 DEF P!Waits
  <2>4. "free" \notin Ops
    BY FlagOfOps DEF Ops
  <2>5. \A p \in Calls : call'[p].op \in Ops => ~call'[p].served
    BY <1>2, <2>2, <2>4
  <2>6. \A p \in Calls : ~Behind(call[p]) /\ ~(call[p].op = "employee" /\ call[p].served)
    BY <2>1 DEF Behind
  <2>7. verifying' # None /\ codeSent' => pending' \in {None, verifying'}
    BY <2>1 DEF PageTrue
  <2>8. \A p \in Calls : call'[p].op = "send" =>
          /\ ~codeSent' /\ verifying' = call'[p].kind
          /\ call'[p].served => pending' \in {None, call'[p].kind}
    BY <1>2, <2>2
  <2>9. QED
    BY <2>1, <2>3, <2>5, <2>6, <2>7, <2>8 DEF PageTrue
<1>6. QED
  BY <1>3, <1>4, <1>5

LEMMA ProfileSubmitStep ==
  ASSUME ProfileInv, NEW q \in Calls, NEW op \in DOMAIN P!Flag \ {"refresh"}, NEW change,
         P!Submit(q, op, change), P!Sent(op, change) \in ProfileCall, theme' \in Themes,
         op \in FormOps => Filled,
         alone' => alone /\ P!Quiet
  PROVE  ProfileInv'
<1>1. PICK d : d = P!Sent(op, change)
  OBVIOUS
<1>2. d \in ProfileCall /\ d.op = op /\ d.served = FALSE
  BY <1>1 DEF P!Sent
<1>3. d # P!Free /\ d.op # "send"
  BY <1>2, FlagOfOps
<1>4. \A f \in P!Flags : /\ f \in busy' <=> f \in busy \/ Owns(d, f)
                         /\ Owns(d, f) => f \notin busy
  BY <1>2 DEF P!Submit, Owns
<1>5. busy' \subseteq P!Flags
  BY FlagOfOps DEF P!Submit, ProfileInv, ProfileTyped, P!TypeOK
<1>6. QED
  BY <1>1, <1>2, <1>3, <1>4, <1>5, ProfileSendStep DEF P!Submit

LEMMA ProfileHandlersStep ==
  ASSUME ProfileInv, Submits, alone' => alone /\ P!Quiet PROVE ProfileInv'
<1>1. P!TypeOK /\ ProfileTyped
  BY DEF ProfileInv, ProfileTyped
<1>2. theme \in Themes
  BY <1>1 DEF P!TypeOK
<1>3. ASSUME NEW q \in Calls, P!HandleProfileSave(q) PROVE ProfileInv'
  <2>1. P!Sent("account", [profile |-> profile]) \in ProfileCall
    BY <1>1, <1>3 DEF P!Sent, ProfileCall, P!HandleProfileSave, ProfileTyped, Filled
  <2>2. QED
    BY <1>1, <1>2, <1>3, <2>1, FlagOfOps, ProfileSubmitStep
       DEF P!HandleProfileSave, ProfileTyped, FormOps
<1>4. ASSUME NEW q \in Calls, NEW image \in Names, P!HandlePhotoUpload(q, image) PROVE ProfileInv'
  <2>1. P!Sent("photo", [photo |-> image]) \in ProfileCall
    BY DEF P!Sent, ProfileCall
  <2>2. QED
    BY <1>1, <1>2, <1>4, <2>1, FlagOfOps, ProfileSubmitStep
       DEF P!HandlePhotoUpload, ProfileTyped, FormOps
<1>5. ASSUME NEW q \in Calls, P!HandleLockSave(q) PROVE ProfileInv'
  <2>1. P!Sent("lock", [profile |-> profile, lock |-> lockTimeout]) \in ProfileCall
    BY <1>1, <1>5 DEF P!Sent, ProfileCall, P!HandleLockSave, ProfileTyped, Filled
  <2>2. QED
    BY <1>1, <1>2, <1>5, <2>1, FlagOfOps, ProfileSubmitStep
       DEF P!HandleLockSave, ProfileTyped, FormOps
<1>6. ASSUME NEW q \in Calls, P!HandleSetPin(q) PROVE ProfileInv'
  <2>1. P!Sent("pin", [pin |-> TRUE]) \in ProfileCall
    BY DEF P!Sent, ProfileCall
  <2>2. QED
    BY <1>1, <1>2, <1>6, <2>1, FlagOfOps, ProfileSubmitStep
       DEF P!HandleSetPin, ProfileTyped, FormOps
<1>7. ASSUME NEW q \in Calls, P!HandleRemovePin(q) PROVE ProfileInv'
  <2>1. P!Sent("unpin", [pin |-> FALSE]) \in ProfileCall
    BY DEF P!Sent, ProfileCall
  <2>2. QED
    BY <1>1, <1>2, <1>7, <2>1, FlagOfOps, ProfileSubmitStep
       DEF P!HandleRemovePin, ProfileTyped, FormOps
<1>8. ASSUME NEW q \in Calls, P!HandlePwChange(q) PROVE ProfileInv'
  <2>1. P!Sent("password", <<>>) \in ProfileCall
    BY DEF P!Sent, ProfileCall
  <2>2. QED
    BY <1>1, <1>2, <1>8, <2>1, FlagOfOps, ProfileSubmitStep
       DEF P!HandlePwChange, ProfileTyped, FormOps
<1>9. ASSUME NEW q \in Calls, NEW t \in Themes, P!HandleThemeSave(q, t) PROVE ProfileInv'
  <2>1. P!Sent("theme", [theme |-> t]) \in ProfileCall
    BY DEF P!Sent, ProfileCall
  <2>2. QED
    BY <1>9, <2>1, FlagOfOps, ProfileSubmitStep DEF P!HandleThemeSave, ProfileTyped, FormOps
<1>10. ASSUME NEW q \in Calls, P!HandleEmpSave(q) PROVE ProfileInv'
  <2>1. P!Sent("employee", [employee |-> empForm]) \in ProfileCall
    BY <1>1, <1>10 DEF P!Sent, ProfileCall, P!HandleEmpSave, ProfileTyped
  <2>2. QED
    BY <1>1, <1>2, <1>10, <2>1, FlagOfOps, ProfileSubmitStep
       DEF P!HandleEmpSave, ProfileTyped, FormOps
<1>11. ASSUME NEW q \in Calls, NEW d \in ProfileCall, P!Send(q, d), d.op \in {"send", "verify"},
              d.served = FALSE,
              UNCHANGED <<server, pending, session, theme, user, employee, profile, lockTimeout,
                          empForm, editing, busy>>,
              IF d.op = "send" THEN verifying' = d.kind /\ codeSent' = FALSE
              ELSE UNCHANGED <<verifying, codeSent>>
       PROVE  ProfileInv'
  <2>1. d # P!Free /\ d.op # "refresh" /\ d.op \notin DOMAIN P!Flag
    BY <1>11, FlagOfOps
  <2>2. \A f \in P!Flags : ~Owns(d, f)
    BY <2>1 DEF Owns
  <2>3. busy' \subseteq P!Flags
    BY <1>1, <1>11 DEF P!TypeOK
  <2>4. QED
    BY <1>2, <1>11, <2>1, <2>2, <2>3, ProfileSendStep DEF FormOps
<1>12. ASSUME NEW q \in Calls, NEW kind \in P!Kinds, P!HandleSendCode(q, kind) PROVE ProfileInv'
  <2>1. PICK d : d = [op |-> "send", kind |-> kind, served |-> FALSE]
    OBVIOUS
  <2>2. d \in ProfileCall /\ d.op = "send" /\ d.served = FALSE /\ d.kind = kind
    BY <2>1 DEF ProfileCall
  <2>3. QED
    BY <1>11, <1>12, <2>1, <2>2 DEF P!HandleSendCode
<1>13. ASSUME NEW q \in Calls, P!HandleVerifyCode(q) PROVE ProfileInv'
  <2>1. PICK d : d = [op |-> "verify", kind |-> verifying, served |-> FALSE]
    OBVIOUS
  <2>2. d \in ProfileCall /\ d.op = "verify" /\ d.served = FALSE
    BY <1>1, <1>13, <2>1 DEF ProfileCall, P!TypeOK, P!HandleVerifyCode
  <2>3. QED
    BY <1>11, <1>13, <2>1, <2>2 DEF P!HandleVerifyCode, P!page
<1>14. QED
  BY <1>3, <1>4, <1>5, <1>6, <1>7, <1>8, <1>9, <1>10, <1>12, <1>13 DEF Submits

\* The page mounted anew asks for the user, and knows nothing yet.
LEMMA ProfileMountStep ==
  ASSUME ProfileInv, P!Reload \/ P!SignIn PROVE ProfileInv'
<1>1. P!TypeOK
  BY DEF ProfileInv, ProfileTyped
<1>2. PICK q \in Calls :
        call' = [p \in Calls |-> IF p = q THEN P!Sent("load", <<>>) ELSE P!Free]
  BY DEF P!Reload, P!SignIn, P!Mounted
<1>3. /\ user' = None /\ employee' = None /\ profile' = None /\ lockTimeout' = None
      /\ empForm' = None /\ editing' = FALSE /\ verifying' = None /\ codeSent' = FALSE
      /\ busy' = {} /\ UNCHANGED <<server, pending>>
  BY DEF P!Reload, P!SignIn, P!Mounted
<1>4. P!Sent("load", <<>>) \in ProfileCall /\ P!Free \in ProfileCall
      /\ P!Sent("load", <<>>).op = "load" /\ ~P!Sent("load", <<>>).served
  BY DEF P!Sent, ProfileCall
<1>5. /\ call' \in [Calls -> ProfileCall]
      /\ \A p \in Calls : /\ call'[p].op \in {"load", "free"}
                          /\ call'[p].op = "load" => ~call'[p].served
      /\ \A p \in Calls \ {q} : call'[p] = P!Free
  BY <1>2, <1>4, FlagOfOps
<1>6. session' \in [lock : Minutes, pin : BOOLEAN, theme : Themes \cup {None}]
  <2>1. CASE P!Reload
    BY <1>1, <2>1 DEF P!Reload, P!TypeOK
  <2>2. CASE P!SignIn
    BY <1>1, <2>2 DEF P!SignIn, P!SessionOf, P!TypeOK, P!User
  <2>3. QED
    BY <2>1, <2>2
<1>7. theme' \in Themes
  <2>1. ASSUME NEW s \in [lock : Minutes, pin : BOOLEAN, theme : Themes \cup {None}],
               theme' = P!Applied(s, theme)
        PROVE  theme' \in Themes
    BY <1>1, <2>1 DEF P!Applied, P!TypeOK
  <2>2. CASE P!Reload
    BY <1>1, <2>1, <2>2 DEF P!Reload, P!TypeOK
  <2>3. CASE P!SignIn
    BY <1>6, <2>1, <2>3 DEF P!SignIn
  <2>4. QED
    BY <2>2, <2>3
<1>8. ProfileTyped'
  <2>1. call' \in [Calls -> P!Call]
    BY <1>5, ProfileCallsKnown
  <2>2. user' \in P!User \cup {None} /\ busy' \subseteq P!Flags
        /\ {employee, profile, empForm}' \subseteq Names \cup {None}
        /\ lockTimeout' \in Minutes \cup {None} /\ verifying' \in P!Kinds \cup {None}
        /\ {editing, codeSent}' \subseteq BOOLEAN
    BY <1>3
  <2>3. P!TypeOK'
    BY <1>1, <1>3, <1>6, <1>7, <2>1, <2>2 DEF P!TypeOK
  <2>4. QED
    BY <1>3, <1>5, <2>3 DEF ProfileTyped, FormOps
<1>9. OneFlag'
  <2>1. \A p \in Calls : call'[p].op \notin DOMAIN P!Flag
    BY <1>5, FlagOfOps
  <2>2. QED
    BY <1>3, <2>1 DEF OneFlag, Owns
<1>10. PageTrue'
  <2>1. "free" \notin Ops
    BY FlagOfOps DEF Ops
  <2>2. QED
    BY <1>3, <1>5, <2>1 DEF PageTrue, P!Waits
<1>11. QED
  BY <1>8, <1>9, <1>10 DEF ProfileInv

LEMMA ProfileClickStep ==
  ASSUME ProfileInv, Clicks1, alone' => alone /\ P!Quiet PROVE ProfileInv'
<1>1. P!TypeOK /\ ProfileTyped
  BY DEF ProfileInv, ProfileTyped
<1>2. CASE P!Type
  BY <1>1, <1>2, ProfileQuietStep DEF P!Type, P!TypeOK, ProfileTyped, Filled
<1>3. CASE P!StartEdit
  BY <1>1, <1>3, ProfileQuietStep DEF P!StartEdit, P!TypeOK, ProfileTyped, Filled
<1>4. CASE P!CancelEdit
  BY <1>1, <1>4, ProfileQuietStep DEF P!CancelEdit, P!TypeOK, ProfileTyped, Filled
<1>5. CASE P!CancelVerify
  BY <1>1, <1>5, ProfileQuietStep DEF P!CancelVerify, P!TypeOK, ProfileTyped, Filled
<1>6. CASE P!SwitchCompany
  <2>1. theme' \in Themes
    BY <1>1, <1>6 DEF P!SwitchCompany, P!Applied, P!TypeOK
  <2>2. QED
    BY <1>1, <1>6, <2>1, ProfileQuietStep
    DEF P!SwitchCompany, P!page, P!TypeOK, ProfileTyped, Filled
<1>7. QED
  BY <1>2, <1>3, <1>4, <1>5, <1>6, ProfileMountStep DEF Clicks1

LEMMA ProfileExpireStep ==
  ASSUME ProfileInv, P!Expire, UNCHANGED alone PROVE ProfileInv'
<1>1. ProfileTyped'
  BY DEF P!Expire, P!page, ProfileInv, ProfileTyped, P!TypeOK, Filled
<1>2. OneFlag'
  BY DEF P!Expire, P!page, ProfileInv, OneFlag, Owns
<1>3. ASSUME alone' PROVE PageTrue'
  BY <1>3 DEF P!Expire, P!page, ProfileInv, PageTrue, P!Waits, Behind
<1>4. QED
  BY <1>1, <1>2, <1>3 DEF ProfileInv

\* What each change makes of a user.
LEMMA ChangedUser ==
  ASSUME NEW u \in P!User
  PROVE  /\ P!Changed(u, <<>>) = u
         /\ \A c \in [profile : Names] \cup [photo : Names] \cup [pin : BOOLEAN]
                     \cup [profile : Names, lock : Minutes] :
              P!Changed(u, c) \in P!User /\ P!Changed(u, c).employee = u.employee
         /\ \A c \in [theme : Themes] :
              /\ P!Changed(u, c) \in P!User /\ SameForms(P!Changed(u, c), u)
              /\ P!Changed(u, c).employee = u.employee
         /\ \A c \in [employee : Names] :
              /\ P!Changed(u, c) \in P!User /\ SameForms(P!Changed(u, c), u)
<1>1. P!Changed(u, <<>>) = u
  BY DEF P!Changed, P!User
<1>2. ASSUME NEW c \in [profile : Names]
      PROVE  P!Changed(u, c) \in P!User /\ P!Changed(u, c).employee = u.employee
  BY DEF P!Changed, P!User
<1>3. ASSUME NEW c \in [photo : Names]
      PROVE  P!Changed(u, c) \in P!User /\ P!Changed(u, c).employee = u.employee
  BY DEF P!Changed, P!User
<1>4. ASSUME NEW c \in [pin : BOOLEAN]
      PROVE  P!Changed(u, c) \in P!User /\ P!Changed(u, c).employee = u.employee
  BY DEF P!Changed, P!User
<1>5. ASSUME NEW c \in [profile : Names, lock : Minutes]
      PROVE  P!Changed(u, c) \in P!User /\ P!Changed(u, c).employee = u.employee
  BY DEF P!Changed, P!User
<1>6. ASSUME NEW c \in [theme : Themes]
      PROVE  /\ P!Changed(u, c) \in P!User /\ SameForms(P!Changed(u, c), u)
             /\ P!Changed(u, c).employee = u.employee
  <2>1. P!Changed(u, c) \in P!User
    BY DEF P!Changed, P!User
  <2>2. SameForms(P!Changed(u, c), u) /\ P!Changed(u, c).employee = u.employee
    BY DEF P!Changed, P!User, SameForms
  <2>3. QED
    BY <2>1, <2>2
<1>7. ASSUME NEW c \in [employee : Names]
      PROVE  P!Changed(u, c) \in P!User /\ SameForms(P!Changed(u, c), u)
  <2>1. P!Changed(u, c) \in P!User
    BY DEF P!Changed, P!User
  <2>2. SameForms(P!Changed(u, c), u)
    BY DEF P!Changed, P!User, SameForms
  <2>3. QED
    BY <2>1, <2>2
<1>8. QED
  BY <1>1, <1>2, <1>3, <1>4, <1>5, <1>6, <1>7

\* A call is served; it holds what the server keeps now.
LEMMA ProfileServed ==
  ASSUME ProfileInv, NEW q \in Calls, P!Waits(q), ~call[q].served, NEW d \in ProfileCall,
         call' = [call EXCEPT ![q] = d], d.op = call[q].op, d.served = TRUE,
         UNCHANGED <<session, theme, user, employee, profile, lockTimeout, empForm, editing,
                     verifying, codeSent, busy>>,
         server' \in P!User, d.op \in Ops => d.answer = server' /\ pending' = pending,
         d.op \notin {"account", "photo", "lock", "pin", "unpin", "refresh"}
           => SameForms(server', server),
         d.op # "employee" => server'.employee = server.employee,
         d.op = "send" => pending' = d.kind /\ d.kind = call[q].kind,
         d.op = "verify" => pending' = None,
         alone' => alone
  PROVE  ProfileInv'
<1> USE DEF ProfileInv
<1>1. /\ call \in [Calls -> ProfileCall] /\ call' \in [Calls -> ProfileCall]
      /\ call'[q] = d /\ \A p \in Calls \ {q} : call'[p] = call[p]
  BY DEF ProfileTyped
<1>2. d.op \in Ops \cup {"send", "verify"}
  BY <1>1, ProfileCallsKnown DEF P!Waits
<1>3. ProfileTyped'
  <2>1. call' \in [Calls -> P!Call]
    BY <1>1, ProfileCallsKnown
  <2>2. pending' \in P!Kinds \cup {None}
    BY <1>2, ProfileCallsKnown DEF ProfileTyped, P!TypeOK
  <2>3. P!TypeOK'
    BY <2>1, <2>2 DEF ProfileTyped, P!TypeOK
  <2>4. QED
    BY <1>1, <2>3 DEF ProfileTyped, Filled
<1>4. OneFlag'
  <2>1. \A f \in P!Flags : Owns(d, f) <=> Owns(call[q], f)
    BY DEF Owns
  <2>2. QED
    BY <1>1, <2>1, FlagStep
<1>5. ASSUME alone' PROVE PageTrue'
  <2>1. PageTrue
    BY <1>5
  <2>2. \A p \in Calls \ {q} : call[p] = P!Free /\ call'[p] = P!Free /\ call'[p].op = "free"
    BY <1>1, <2>1, FlagOfOps DEF PageTrue, P!Waits
  <2>3. "free" \notin Ops
    BY FlagOfOps DEF Ops
  <2>4. \A p, r \in Calls : P!Waits(p)' /\ P!Waits(r)' => p = r
    BY <2>2 DEF P!Waits
  <2>5. \A p \in Calls : call'[p].op \in Ops /\ call'[p].served => call'[p].answer = server'
    BY <1>1, <2>2, <2>3
  <2>6. ASSUME user' # None, \A p \in Calls : ~Behind(call'[p]) PROVE SameForms(user', server')
    <3>1. d.op \notin {"account", "photo", "lock", "pin", "unpin", "refresh"}
      BY <1>1, <2>6 DEF Behind
    <3>2. \A p \in Calls : ~Behind(call[p])
      BY <1>1, <2>2, <3>1 DEF Behind
    <3>3. SameForms(user, server) /\ SameForms(server', server)
      BY <2>1, <2>6, <3>1, <3>2 DEF PageTrue
    <3>4. QED
      BY <3>3 DEF SameForms
  <2>7. ASSUME employee' # None,
               \A p \in Calls : ~(call'[p].op = "employee" /\ call'[p].served)
        PROVE  employee' = server'.employee
    <3>1. d.op # "employee"
      BY <1>1, <2>7
    <3>2. \A p \in Calls : ~(call[p].op = "employee" /\ call[p].served)
      BY <1>1, <2>2, <3>1
    <3>3. QED
      BY <2>1, <2>7, <3>1, <3>2 DEF PageTrue
  <2>8. verifying' # None /\ codeSent' => pending' \in {None, verifying'}
    BY <1>2, <2>1 DEF PageTrue
  <2>9. \A p \in Calls : call'[p].op = "send" =>
          /\ ~codeSent' /\ verifying' = call'[p].kind
          /\ call'[p].served => pending' \in {None, call'[p].kind}
    BY <1>1, <2>1, <2>2 DEF PageTrue
  <2>10. QED
    BY <2>4, <2>5, <2>6, <2>7, <2>8, <2>9 DEF PageTrue
<1>6. QED
  BY <1>3, <1>4, <1>5

LEMMA ProfileServeStep ==
  ASSUME ProfileInv, NEW q \in Calls, P!Serve(q), UNCHANGED alone PROVE ProfileInv'
<1>1. PICK c : c = call[q]
  OBVIOUS
<1>2. /\ P!Waits(q) /\ c # P!Free /\ ~c.served /\ c \in ProfileCall
      /\ UNCHANGED <<session, theme, user, employee, profile, lockTimeout, empForm, editing,
                     verifying, codeSent, busy>>
      /\ server \in P!User
  BY <1>1 DEF P!Serve, P!Waits, P!page, ProfileInv, ProfileTyped, P!TypeOK
<1>3. c.op \in Ops \cup {"send", "verify"} /\ "send" \notin Ops /\ "verify" \notin Ops
  BY <1>2, ProfileCallsKnown, FlagOfOps DEF Ops
<1>4. CASE c.op \in {"send", "verify"}
  <2>1. PICK d : d = [c EXCEPT !.served = TRUE]
    OBVIOUS
  <2>2. c \in [op : {"send", "verify"}, kind : P!Kinds, served : BOOLEAN]
    BY <1>2, <1>4, CodeCalls
  <2>3. /\ d \in [op : {"send", "verify"}, kind : P!Kinds, served : BOOLEAN]
        /\ d.op = c.op /\ d.kind = c.kind /\ d.served = TRUE
    BY <2>1, <2>2
  <2>4. d \in ProfileCall
    BY <2>3 DEF ProfileCall
  <2>5. /\ call' = [call EXCEPT ![q] = d] /\ server' = server
        /\ c.op = "send" => pending' = c.kind
        /\ c.op = "verify" => pending' = None
    BY <1>1, <1>4, <2>1 DEF P!Serve
  <2>6. SameForms(server', server)
    BY <2>5 DEF SameForms
  <2>7. QED
    BY <1>1, <1>2, <1>3, <1>4, <2>3, <2>4, <2>5, <2>6, ProfileServed
<1>5. CASE c.op \in Ops
  <2>1. /\ server' = P!Changed(server, c.change) /\ pending' = pending
        /\ call' = [call EXCEPT ![q] = [op |-> c.op, answer |-> server', served |-> TRUE]]
    BY <1>1, <1>2, <1>3, <1>5 DEF P!Serve, ProfileInv, ProfileTyped
  <2>2. PICK d : d = [op |-> c.op, answer |-> server', served |-> TRUE]
    OBVIOUS
  <2>3. /\ server' \in P!User
        /\ c.op \notin {"account", "photo", "lock", "pin", "unpin", "refresh"}
             => SameForms(server', server)
        /\ c.op # "employee" => server'.employee = server.employee
    <3>1. CASE c \in [op : {"load", "details", "refresh", "password"}, change : {<<>>},
                      served : {FALSE}]
      <4>1. server' = server
        BY <1>2, <2>1, <3>1, ChangedUser
      <4>2. QED
        BY <1>2, <4>1 DEF SameForms
    <3>2. CASE c.op \in {"account", "photo", "lock", "pin", "unpin"}
      <4>1. c.change \in [profile : Names] \cup [photo : Names] \cup [pin : BOOLEAN]
                         \cup [profile : Names, lock : Minutes]
        <5>1. \/ c \in [op : {"account"}, change : [profile : Names], served : {FALSE}]
              \/ c \in [op : {"photo"}, change : [photo : Names], served : {FALSE}]
              \/ c \in [op : {"lock"}, change : [profile : Names, lock : Minutes],
                        served : {FALSE}]
              \/ c \in [op : {"pin", "unpin"}, change : [pin : BOOLEAN], served : {FALSE}]
          BY <1>2, <3>2 DEF ProfileCall
        <5>2. QED
          BY <5>1
      <4>2. QED
        BY <1>2, <2>1, <3>2, <4>1, ChangedUser
    <3>3. CASE c \in [op : {"theme"}, change : [theme : Themes], served : {FALSE}]
      BY <1>2, <2>1, <3>3, ChangedUser
    <3>4. CASE c \in [op : {"employee"}, change : [employee : Names], served : {FALSE}]
      BY <1>2, <2>1, <3>4, ChangedUser
    <3>5. QED
      BY <1>2, <1>3, <1>5, <3>1, <3>2, <3>3, <3>4 DEF ProfileCall
  <2>4. d \in ProfileCall /\ d.op = c.op /\ d.served = TRUE /\ d.answer = server'
    BY <1>5, <2>2, <2>3 DEF ProfileCall
  <2>5. d.op # "send" /\ d.op # "verify"
    BY <1>3, <1>5, <2>4
  <2>6. QED
    BY <1>1, <1>2, <2>1, <2>2, <2>3, <2>4, <2>5, ProfileServed
<1>6. QED
  BY <1>3, <1>4, <1>5

\* A call ends, or another one takes its place that was not served yet.
LEMMA ProfileEnded ==
  ASSUME ProfileInv, NEW q \in Calls, P!Waits(q), NEW d \in ProfileCall,
         call' = [call EXCEPT ![q] = d],
         d.op \in {"free", "details", "refresh"}, d.op = "free" \/ ~d.served,
         UNCHANGED <<server, pending, session, theme>>,
         user' \in P!User \cup {None}, employee' \in Names \cup {None},
         profile' \in Names \cup {None}, lockTimeout' \in Minutes \cup {None},
         empForm' \in Names \cup {None}, editing' \in BOOLEAN, codeSent' \in BOOLEAN,
         verifying' \in P!Kinds \cup {None}, busy' \subseteq P!Flags,
         user' # None \/ d.op = "refresh" \/ Filled => Filled',
         editing' => empForm' \in Names,
         OneFlag',
         alone' => /\ alone
                   /\ user' # None /\ d.op # "refresh" => SameForms(user', server)
                   /\ employee' # None => employee' = server.employee
                   /\ verifying' # None /\ codeSent' => pending \in {None, verifying'}
  PROVE  ProfileInv'
<1> USE DEF ProfileInv
<1>1. /\ call \in [Calls -> ProfileCall] /\ call' \in [Calls -> ProfileCall]
      /\ call'[q] = d /\ \A p \in Calls \ {q} : call'[p] = call[p]
  BY DEF ProfileTyped
<1>2. ProfileTyped'
  <2>1. call' \in [Calls -> P!Call]
    BY <1>1, ProfileCallsKnown
  <2>2. P!TypeOK'
    BY <2>1 DEF ProfileTyped, P!TypeOK
  <2>3. \A p \in Calls : call'[p].op \in FormOps => Filled'
    BY <1>1 DEF ProfileTyped, FormOps
  <2>4. QED
    BY <1>1, <2>2, <2>3 DEF ProfileTyped
<1>3. ASSUME alone' PROVE PageTrue'
  <2>1. PageTrue /\ "free" \notin Ops
    BY <1>3, FlagOfOps DEF Ops
  <2>2. \A p \in Calls \ {q} : call'[p] = P!Free /\ call'[p].op = "free"
    BY <1>1, <2>1, FlagOfOps DEF PageTrue, P!Waits
  <2>3. \A p, r \in Calls : P!Waits(p)' /\ P!Waits(r)' => p = r
    BY <2>2 DEF P!Waits
  <2>4. \A p \in Calls : call'[p].op \in Ops /\ call'[p].served => call'[p].answer = server'
    BY <1>1, <2>1, <2>2
  <2>5. (\A p \in Calls : ~Behind(call'[p])) => d.op # "refresh"
    BY <1>1 DEF Behind
  <2>6. \A p \in Calls : call'[p].op # "send"
    BY <1>1, <2>2
  <2>7. QED
    BY <1>3, <2>3, <2>4, <2>5, <2>6 DEF PageTrue
<1>4. QED
  BY <1>2, <1>3

\* The flag of a call that ends is lowered.
LEMMA FlagLowered ==
  ASSUME ProfileInv, NEW q \in Calls, call' = [call EXCEPT ![q] = P!Free],
         \/ P!Lowered(call[q].op)
         \/ busy' = busy /\ call[q].op \notin DOMAIN P!Flag
  PROVE  OneFlag' /\ busy' \subseteq P!Flags
<1>1. \A f \in P!Flags : f \in busy' <=> f \in busy /\ ~Owns(call[q], f)
  BY DEF P!Lowered, Owns
<1>2. \A f \in P!Flags : ~Owns(P!Free, f)
  BY FlagOfOps DEF Owns
<1>3. OneFlag'
  BY <1>1, <1>2, FlagStep, ProfileCallsKnown DEF ProfileInv, ProfileTyped
<1>4. busy' \subseteq P!Flags
  BY DEF P!Lowered, ProfileInv, ProfileTyped, P!TypeOK
<1>5. QED
  BY <1>3, <1>4

\* Whatever does not change of the page is as it was.
LEMMA PageAsItWas ==
  ASSUME ProfileInv, alone, NEW q \in Calls, P!Waits(q)
  PROVE  /\ user # None /\ ~Behind(call[q]) => SameForms(user, server)
         /\ employee # None /\ ~(call[q].op = "employee" /\ call[q].served)
              => employee = server.employee
         /\ verifying # None /\ codeSent => pending \in {None, verifying}
         /\ call[q].op = "send" =>
              /\ ~codeSent /\ verifying = call[q].kind
              /\ call[q].served => pending \in {None, call[q].kind}
         /\ call[q].op \in Ops /\ call[q].served => call[q].answer = server
<1>1. \A p \in Calls \ {q} : call[p].op = "free"
  BY FlagOfOps DEF ProfileInv, PageTrue, P!Waits
<1>2. \A p \in Calls \ {q} : ~Behind(call[p]) /\ call[p].op # "employee"
  BY <1>1 DEF Behind
<1>3. QED
  BY <1>2 DEF ProfileInv, PageTrue

LEMMA ProfileFailStep ==
  ASSUME ProfileInv, NEW q \in Calls, P!Fail(q),
         alone' => alone /\ ~call[q].served /\ call[q].op # "refresh"
  PROVE  ProfileInv'
<1>1. /\ P!Waits(q) /\ P!Lowered(call[q].op) /\ call' = [call EXCEPT ![q] = P!Free]
      /\ verifying' = IF call[q].op = "send" THEN None ELSE verifying
      /\ UNCHANGED <<server, pending, session, theme>>
      /\ UNCHANGED <<user, employee, profile, lockTimeout, empForm, editing, codeSent>>
  BY DEF P!Fail, P!End
<1>2. OneFlag' /\ busy' \subseteq P!Flags
  BY <1>1, FlagLowered
<1>3. ASSUME alone'
      PROVE  /\ alone /\ (user' # None => SameForms(user', server))
             /\ employee' # None => employee' = server.employee
             /\ verifying' # None /\ codeSent' => pending \in {None, verifying'}
  <2>1. alone /\ ~Behind(call[q]) /\ ~(call[q].op = "employee" /\ call[q].served)
    BY <1>3 DEF Behind
  <2>2. QED
    BY <1>1, <2>1, PageAsItWas
<1>4. /\ user' \in P!User \cup {None} /\ employee' \in Names \cup {None}
      /\ profile' \in Names \cup {None} /\ lockTimeout' \in Minutes \cup {None}
      /\ empForm' \in Names \cup {None} /\ editing' \in BOOLEAN /\ codeSent' \in BOOLEAN
      /\ verifying' \in P!Kinds \cup {None}
  BY <1>1 DEF ProfileInv, ProfileTyped, P!TypeOK
<1>5. (user' # None \/ Filled => Filled') /\ (editing' => empForm' \in Names)
  BY <1>1 DEF ProfileInv, ProfileTyped, Filled
<1>6. P!Free \in ProfileCall /\ P!Free.op = "free"
  BY ProfileCallsKnown, FlagOfOps
<1>7. QED
  BY <1>1, <1>2, <1>3, <1>4, <1>5, <1>6, ProfileEnded

LEMMA ProfileAnswerStep ==
  ASSUME ProfileInv, NEW q \in Calls, P!Answer(q), UNCHANGED alone PROVE ProfileInv'
<1>1. PICK c : c = call[q]
  OBVIOUS
<1>2. /\ P!Waits(q) /\ c # P!Free /\ c.served /\ c \in ProfileCall
      /\ UNCHANGED <<server, pending, session, theme>>
  BY <1>1 DEF P!Answer, P!Waits, ProfileInv, ProfileTyped
<1>3. P!TypeOK /\ ProfileTyped /\ OneFlag
  BY DEF ProfileInv, ProfileTyped
<1>4. c.op \in Ops => /\ c.answer \in P!User
                      /\ c.answer.profile \in Names /\ c.answer.lock \in Minutes
                      /\ c.answer.employee \in Names
                      /\ alone => c.answer = server
  BY <1>1, <1>2, ProfileCallsKnown, PageAsItWas DEF P!User
<1>5. DOMAIN P!Flag \subseteq Ops /\ "load" \in Ops /\ "details" \in Ops
      /\ "load" \notin DOMAIN P!Flag /\ "details" \notin DOMAIN P!Flag
      /\ "send" \notin DOMAIN P!Flag /\ "verify" \notin DOMAIN P!Flag
      /\ P!Free \in ProfileCall /\ P!Free.op = "free"
  BY FlagOfOps, ProfileCallsKnown DEF Ops
<1>6. SameForms(server, server)
  BY DEF SameForms
<1>7. CASE P!Loaded(q)
  <2>1. /\ c.op = "load" /\ call' = [call EXCEPT ![q] = P!Sent("details", <<>>)]
        /\ user' = c.answer /\ profile' = c.answer.profile /\ lockTimeout' = c.answer.lock
        /\ UNCHANGED <<employee, empForm, editing, verifying, codeSent, busy>>
    BY <1>1, <1>7 DEF P!Loaded
  <2>2. PICK d : d = P!Sent("details", <<>>)
    OBVIOUS
  <2>3. d \in ProfileCall /\ d.op = "details" /\ ~d.served
    BY <2>2 DEF P!Sent, ProfileCall
  <2>4. OneFlag'
    <3>1. \A f \in P!Flags : ~Owns(d, f) /\ ~Owns(call[q], f)
      BY <1>1, <1>5, <2>1, <2>3 DEF Owns
    <3>2. QED
      BY <1>3, <2>1, <2>2, <2>3, <3>1, FlagStep DEF ProfileTyped
  <2>5. alone => /\ employee # None => employee = server.employee
                 /\ verifying # None /\ codeSent => pending \in {None, verifying}
    BY <1>1, <1>2, <2>1, PageAsItWas
  <2>6. QED
    BY <1>2, <1>3, <1>4, <1>5, <1>6, <2>1, <2>2, <2>3, <2>4, <2>5, ProfileEnded
       DEF P!TypeOK, ProfileTyped, Filled
<1>8. CASE P!PinChanged(q)
  <2>1. /\ c.op \in {"pin", "unpin"} /\ call' = [call EXCEPT ![q] = P!Sent("refresh", <<>>)]
        /\ UNCHANGED <<user, employee, profile, lockTimeout, empForm, editing, verifying,
                       codeSent, busy>>
    BY <1>1, <1>8 DEF P!PinChanged, P!page
  <2>2. PICK d : d = P!Sent("refresh", <<>>)
    OBVIOUS
  <2>3. d \in ProfileCall /\ d.op = "refresh" /\ ~d.served
    BY <2>2 DEF P!Sent, ProfileCall
  <2>4. OneFlag'
    <3>1. \A f \in P!Flags : Owns(d, f) <=> Owns(call[q], f)
      BY <1>1, <2>1, <2>3, FlagOfOps DEF Owns
    <3>2. QED
      BY <1>3, <2>1, <2>2, <2>3, <3>1, FlagStep DEF ProfileTyped
  <2>5. alone => /\ employee # None => employee = server.employee
                 /\ verifying # None /\ codeSent => pending \in {None, verifying}
    BY <1>1, <1>2, <2>1, PageAsItWas
  <2>6. QED
    <3>1. Filled
      BY <1>1, <1>3, <2>1 DEF ProfileTyped, FormOps
    <3>2. QED
      BY <1>2, <1>3, <2>1, <2>2, <2>3, <2>4, <2>5, <3>1, ProfileEnded
         DEF P!TypeOK, ProfileTyped, Filled
<1>9. ASSUME call' = [call EXCEPT ![q] = P!Free],
             P!Lowered(c.op) \/ (busy' = busy /\ c.op \notin DOMAIN P!Flag),
             user' \in P!User \cup {None}, employee' \in Names \cup {None},
             UNCHANGED <<profile, lockTimeout, empForm>>, editing' \in BOOLEAN, editing' => editing,
             codeSent' \in BOOLEAN, verifying' \in P!Kinds \cup {None},
             user' # None => Filled,
             alone => /\ user' # None => SameForms(user', server)
                      /\ employee' # None => employee' = server.employee
                      /\ verifying' # None /\ codeSent' => pending \in {None, verifying'}
      PROVE  ProfileInv'
  <2>1. OneFlag' /\ busy' \subseteq P!Flags
    BY <1>1, <1>9, FlagLowered
  <2>2. /\ profile' \in Names \cup {None} /\ lockTimeout' \in Minutes \cup {None}
        /\ empForm' \in Names \cup {None} /\ editing' \in BOOLEAN
    BY <1>3, <1>9 DEF P!TypeOK
  <2>3. (user' # None \/ Filled => Filled') /\ (editing' => empForm' \in Names)
    BY <1>3, <1>9 DEF ProfileTyped, Filled
  <2>4. QED
    BY <1>2, <1>5, <1>9, <2>1, <2>2, <2>3, ProfileEnded
<1>10. alone => /\ user # None /\ ~Behind(c) => SameForms(user, server)
                /\ employee # None /\ c.op # "employee" => employee = server.employee
                /\ verifying # None /\ codeSent => pending \in {None, verifying}
                /\ c.op = "send" => verifying = c.kind /\ pending \in {None, c.kind}
  BY <1>1, <1>2, PageAsItWas
<1>11. CASE P!Detailed(q)
  <2>1. c.op = "details" /\ ~Behind(c)
    BY <1>1, <1>11 DEF P!Detailed, Behind
  <2>2. QED
    BY <1>1, <1>3, <1>4, <1>5, <1>9, <1>10, <1>11, <2>1
       DEF P!Detailed, P!End, P!TypeOK, ProfileTyped
<1>12. CASE P!Stored(q)
  <2>1. c.op \in {"account", "photo", "lock", "refresh"} /\ c.op \in Ops
    BY <1>1, <1>12, FlagOfOps DEF P!Stored, Ops
  <2>2. Filled
    BY <1>1, <1>3, <2>1 DEF ProfileTyped, FormOps
  <2>3. QED
    BY <1>1, <1>3, <1>4, <1>6, <1>9, <1>10, <1>12, <2>1, <2>2
       DEF P!Stored, P!End, P!TypeOK, ProfileTyped
<1>13. CASE P!Done(q)
  <2>1. c.op \in {"theme", "password"} /\ ~Behind(c)
    BY <1>1, <1>13 DEF P!Done, Behind
  <2>2. QED
    BY <1>1, <1>3, <1>9, <1>10, <1>13, <2>1 DEF P!Done, P!End, P!TypeOK, ProfileTyped
<1>14. CASE P!EmpSaved(q)
  <2>1. c.op = "employee" /\ ~Behind(c) /\ c.op \in Ops
    BY <1>1, <1>14, FlagOfOps DEF P!EmpSaved, Behind, Ops
  <2>2. QED
    BY <1>1, <1>3, <1>4, <1>9, <1>10, <1>14, <2>1
       DEF P!EmpSaved, P!End, P!TypeOK, ProfileTyped
<1>15. CASE P!CodeSent(q)
  <2>1. c.op = "send" /\ ~Behind(c)
    BY <1>1, <1>15 DEF P!CodeSent, Behind
  <2>2. QED
    BY <1>1, <1>3, <1>5, <1>9, <1>10, <1>15, <2>1 DEF P!CodeSent, P!End, P!TypeOK, ProfileTyped
<1>16. CASE P!Verified(q)
  <2>1. c.op = "verify" /\ ~Behind(c)
    BY <1>1, <1>16 DEF P!Verified, Behind
  <2>2. QED
    BY <1>1, <1>3, <1>5, <1>9, <1>10, <1>16, <2>1 DEF P!Verified, P!End, P!TypeOK, ProfileTyped
<1>17. QED
  BY <1>7, <1>8, <1>11, <1>12, <1>13, <1>14, <1>15, <1>16 DEF P!Answer

LEMMA ProfileStep ==
  ASSUME ProfileInv, ProfileNext \/ UNCHANGED everything PROVE ProfileInv'
<1>1. CASE UNCHANGED everything
  BY <1>1 DEF everything, profileVars, ProfileInv, ProfileTyped, Filled, P!TypeOK, OneFlag, Owns,
              PageTrue, P!Waits, Behind
<1>2. CASE ProfileNext
  <2>1. CASE (Submits \/ Clicks1) /\ alone' = (alone /\ P!Quiet)
    <3>1. alone' => alone /\ P!Quiet
      BY <2>1
    <3>2. QED
      BY <2>1, <3>1, ProfileHandlersStep, ProfileClickStep
  <2>2. CASE (P!Expire \/ \E q \in Calls : P!Serve(q) \/ P!Answer(q)) /\ UNCHANGED alone
    BY <2>2, ProfileExpireStep, ProfileServeStep, ProfileAnswerStep
  <2>3. ASSUME NEW q \in Calls, P!Fail(q),
               alone' = (alone /\ ~call[q].served /\ call[q].op # "refresh")
        PROVE  ProfileInv'
    <3>1. alone' => alone /\ ~call[q].served /\ call[q].op # "refresh"
      BY <2>3
    <3>2. QED
      BY <2>3, <3>1, ProfileFailStep
  <2>4. QED
    BY <1>2, <2>1, <2>2, <2>3 DEF ProfileNext
<1>3. QED
  BY <1>1, <1>2

LEMMA ProfileInit == ASSUME P!Init PROVE ProfileInv
<1>1. PICK q \in Calls : call = [p \in Calls |-> IF p = q THEN P!Sent("load", <<>>) ELSE P!Free]
  BY DEF P!Init
<1>2. PICK t \in Themes : theme = P!Applied(session, t)
  BY DEF P!Init
<1>3. /\ server \in P!User /\ pending = None /\ session = P!SessionOf(server)
      /\ user = None /\ employee = None /\ profile = None /\ lockTimeout = None
      /\ empForm = None /\ editing = FALSE /\ verifying = None /\ codeSent = FALSE /\ busy = {}
  BY DEF P!Init
<1>4. P!Sent("load", <<>>) \in ProfileCall /\ P!Free \in ProfileCall
      /\ P!Sent("load", <<>>).op = "load" /\ ~P!Sent("load", <<>>).served
  BY DEF P!Sent, ProfileCall
<1>5. /\ call \in [Calls -> ProfileCall]
      /\ \A p \in Calls : /\ call[p].op \in {"load", "free"}
                          /\ call[p].op = "load" => ~call[p].served
      /\ \A p \in Calls \ {q} : call[p] = P!Free
  BY <1>1, <1>4, FlagOfOps
<1>6. session \in [lock : Minutes, pin : BOOLEAN, theme : Themes \cup {None}]
  BY <1>3 DEF P!SessionOf, P!User
<1>7. theme \in Themes
  BY <1>2, <1>6 DEF P!Applied
<1>8. ProfileTyped
  <2>1. call \in [Calls -> P!Call]
    BY <1>5, ProfileCallsKnown
  <2>2. /\ user \in P!User \cup {None} /\ busy \subseteq P!Flags
        /\ {employee, profile, empForm} \subseteq Names \cup {None}
        /\ lockTimeout \in Minutes \cup {None} /\ verifying \in P!Kinds \cup {None}
        /\ {editing, codeSent} \subseteq BOOLEAN /\ pending \in P!Kinds \cup {None}
    BY <1>3
  <2>3. P!TypeOK
    BY <1>3, <1>6, <1>7, <2>1, <2>2 DEF P!TypeOK
  <2>4. QED
    BY <1>3, <1>5, <2>3 DEF ProfileTyped, FormOps
<1>9. OneFlag
  <2>1. \A p \in Calls : call[p].op \notin DOMAIN P!Flag
    BY <1>5, FlagOfOps
  <2>2. QED
    BY <1>3, <2>1 DEF OneFlag, Owns
<1>10. PageTrue
  <2>1. "free" \notin Ops
    BY FlagOfOps DEF Ops
  <2>2. QED
    BY <1>3, <1>5, <2>1 DEF PageTrue, P!Waits
<1>11. QED
  BY <1>8, <1>9, <1>10 DEF ProfileInv

LEMMA ProfileOnePerFlag == ProfileInv => P!OnePerFlag
<1> SUFFICES ASSUME ProfileInv, NEW f \in P!Flags
             PROVE  LET own == {q \in Calls : /\ P!Waits(q) /\ call[q].op \in DOMAIN P!Flag
                                              /\ P!Flag[call[q].op] = f}
                    IN (f \in busy <=> own # {}) /\ \A p, q \in own : p = q
  BY DEF P!OnePerFlag
<1>1. \A q \in Calls : Owns(call[q], f) <=> /\ P!Waits(q) /\ call[q].op \in DOMAIN P!Flag
                                            /\ P!Flag[call[q].op] = f
  BY FlagOfOps DEF Owns, P!Waits
<1>2. QED
  BY <1>1 DEF ProfileInv, OneFlag

LEMMA ProfileShowsServer == ProfileInv /\ alone => P!ShowsServer /\ P!CodePending
<1> SUFFICES ASSUME ProfileInv, alone PROVE P!ShowsServer /\ P!CodePending
  OBVIOUS
<1>1. PageTrue /\ P!TypeOK
  BY DEF ProfileInv, ProfileTyped
<1>2. P!CodePending
  BY <1>1 DEF PageTrue, P!CodePending
<1>3. ASSUME P!Quiet
      PROVE  /\ user # None => SameForms(user, server)
             /\ employee # None => employee = server.employee
  <2>1. \A q \in Calls : call[q].op = "free"
    BY <1>3, FlagOfOps DEF P!Quiet, P!Waits
  <2>2. \A q \in Calls : ~Behind(call[q])
    BY <2>1 DEF Behind
  <2>3. QED
    BY <1>1, <2>1, <2>2 DEF PageTrue
<1>4. ASSUME P!Quiet, user # None
      PROVE  [user EXCEPT !.theme = server.theme, !.employee = server.employee] = server
  <2>1. user \in P!User /\ server \in P!User
    BY <1>1, <1>4 DEF P!TypeOK
  <2>2. QED
    BY <1>3, <1>4, <2>1 DEF SameForms, P!User
<1>5. QED
  BY <1>2, <1>3, <1>4 DEF P!ShowsServer

-----------------------------------------------------------------------------
(***************************************************************************)
(* Sequences of which an element is removed, inserted or moved.            *)
(***************************************************************************)
LEMMA RemovedAt ==
  ASSUME NEW S, NEW s \in Seq(S), NEW i \in 1 .. Len(s)
  PROVE  /\ RemoveAt(s, i) \in Seq(S) /\ Len(RemoveAt(s, i)) = Len(s) - 1
         /\ \A k \in 1 .. Len(s) - 1 : RemoveAt(s, i)[k] = IF k < i THEN s[k] ELSE s[k + 1]
<1> DEFINE a == SubSeq(s, 1, i - 1)
           b == SubSeq(s, i + 1, Len(s))
<1>1. Len(s) \in Nat /\ i \in Int /\ \A k \in 1 .. Len(s) : s[k] \in S
  OBVIOUS
<1>2. a \in Seq(S) /\ Len(a) = i - 1 /\ \A k \in 1 .. i - 1 : a[k] = s[k]
  <2>1. 1 \in Int /\ i - 1 \in Int /\ \A k \in 1 .. i - 1 : s[k] \in S
    BY <1>1
  <2>2. /\ SubSeq(s, 1, i - 1) \in Seq(S)
        /\ Len(SubSeq(s, 1, i - 1)) = IF 1 <= i - 1 THEN (i - 1) - 1 + 1 ELSE 0
        /\ \A k \in 1 .. (i - 1) - 1 + 1 : SubSeq(s, 1, i - 1)[k] = s[1 + k - 1]
    BY <2>1, SubSeqProperties
  <2> HIDE DEF a
  <2>3. a = SubSeq(s, 1, i - 1)
    BY DEF a
  <2>4. \A k \in 1 .. i - 1 : k \in 1 .. (i - 1) - 1 + 1 /\ 1 + k - 1 = k
    BY <1>1
  <2>5. QED
    BY <1>1, <2>2, <2>3, <2>4
<1>3. b \in Seq(S) /\ Len(b) = Len(s) - i /\ \A k \in 1 .. Len(s) - i : b[k] = s[k + i]
  <2>1. i + 1 \in Int /\ Len(s) \in Int /\ \A k \in i + 1 .. Len(s) : s[k] \in S
    BY <1>1
  <2>2. /\ SubSeq(s, i + 1, Len(s)) \in Seq(S)
        /\ Len(SubSeq(s, i + 1, Len(s))) = IF i + 1 <= Len(s) THEN Len(s) - (i + 1) + 1 ELSE 0
        /\ \A k \in 1 .. Len(s) - (i + 1) + 1 : SubSeq(s, i + 1, Len(s))[k] = s[(i + 1) + k - 1]
    BY <2>1, SubSeqProperties
  <2> HIDE DEF b
  <2>3. b = SubSeq(s, i + 1, Len(s))
    BY DEF b
  <2>4. \A k \in 1 .. Len(s) - i : k \in 1 .. Len(s) - (i + 1) + 1 /\ (i + 1) + k - 1 = k + i
    BY <1>1
  <2>5. QED
    BY <1>1, <2>2, <2>3, <2>4
<1>4. RemoveAt(s, i) = a \o b
  BY DEF RemoveAt
<1> HIDE DEF a, b
<1>5. /\ a \o b \in Seq(S) /\ Len(a \o b) = Len(a) + Len(b)
      /\ \A k \in 1 .. Len(a) + Len(b) :
           (a \o b)[k] = IF k <= Len(a) THEN a[k] ELSE b[k - Len(a)]
  BY <1>2, <1>3, ConcatProperties
<1>6. ASSUME NEW k \in 1 .. Len(s) - 1
      PROVE  (a \o b)[k] = IF k < i THEN s[k] ELSE s[k + 1]
  <2> k \in Int /\ k \in 1 .. Len(a) + Len(b)
    BY <1>1, <1>2, <1>3
  <2>0. (a \o b)[k] = IF k <= Len(a) THEN a[k] ELSE b[k - Len(a)]
    BY <1>5
  <2>1. CASE k < i
    <3>1. k \in 1 .. i - 1 /\ k <= Len(a)
      BY <1>1, <1>2, <2>1
    <3>2. a[k] = s[k]
      BY <1>2, <3>1
    <3>3. QED
      BY <2>0, <2>1, <3>1, <3>2
  <2>2. CASE k >= i
    <3>1. k - Len(a) \in 1 .. Len(s) - i /\ (k - Len(a)) + i = k + 1 /\ ~(k <= Len(a))
      BY <1>1, <1>2, <2>2
    <3>2. b[k - Len(a)] = s[k + 1]
      BY <1>3, <3>1
    <3>3. QED
      BY <1>1, <2>0, <2>2, <3>1, <3>2
  <2>3. QED
    BY <1>1, <2>1, <2>2
<1>7. QED
  BY <1>1, <1>2, <1>3, <1>4, <1>5, <1>6

LEMMA InsertedAt ==
  ASSUME NEW S, NEW s \in Seq(S), NEW i \in 1 .. Len(s) + 1, NEW e \in S
  PROVE  /\ InsertAt(s, i, e) \in Seq(S) /\ Len(InsertAt(s, i, e)) = Len(s) + 1
         /\ \A k \in 1 .. Len(s) + 1 :
              InsertAt(s, i, e)[k] = IF k < i THEN s[k] ELSE IF k = i THEN e ELSE s[k - 1]
<1> DEFINE a == SubSeq(s, 1, i - 1)
           b == SubSeq(s, i, Len(s))
           c == <<e>>
<1>1. Len(s) \in Nat /\ i \in Int /\ \A k \in 1 .. Len(s) : s[k] \in S
  OBVIOUS
<1>2. a \in Seq(S) /\ Len(a) = i - 1 /\ \A k \in 1 .. i - 1 : a[k] = s[k]
  <2>1. 1 \in Int /\ i - 1 \in Int /\ \A k \in 1 .. i - 1 : s[k] \in S
    BY <1>1
  <2>2. /\ SubSeq(s, 1, i - 1) \in Seq(S)
        /\ Len(SubSeq(s, 1, i - 1)) = IF 1 <= i - 1 THEN (i - 1) - 1 + 1 ELSE 0
        /\ \A k \in 1 .. (i - 1) - 1 + 1 : SubSeq(s, 1, i - 1)[k] = s[1 + k - 1]
    BY <2>1, SubSeqProperties
  <2> HIDE DEF a
  <2>3. a = SubSeq(s, 1, i - 1)
    BY DEF a
  <2>4. \A k \in 1 .. i - 1 : k \in 1 .. (i - 1) - 1 + 1 /\ 1 + k - 1 = k
    BY <1>1
  <2>5. QED
    BY <1>1, <2>2, <2>3, <2>4
<1>3. b \in Seq(S) /\ Len(b) = Len(s) - i + 1
      /\ \A k \in 1 .. Len(s) - i + 1 : b[k] = s[k + i - 1]
  <2>1. i \in Int /\ Len(s) \in Int /\ \A k \in i .. Len(s) : s[k] \in S
    BY <1>1
  <2>2. /\ SubSeq(s, i, Len(s)) \in Seq(S)
        /\ Len(SubSeq(s, i, Len(s))) = IF i <= Len(s) THEN Len(s) - i + 1 ELSE 0
        /\ \A k \in 1 .. Len(s) - i + 1 : SubSeq(s, i, Len(s))[k] = s[i + k - 1]
    BY <2>1, SubSeqProperties
  <2> HIDE DEF b
  <2>3. b = SubSeq(s, i, Len(s))
    BY DEF b
  <2>4. \A k \in 1 .. Len(s) - i + 1 : i + k - 1 = k + i - 1
    BY <1>1
  <2>5. QED
    BY <1>1, <2>2, <2>3, <2>4
<1>4. c \in Seq(S) /\ Len(c) = 1 /\ c[1] = e
  OBVIOUS
<1>5. InsertAt(s, i, e) = (a \o c) \o b
  BY DEF InsertAt
<1> HIDE DEF a, b, c
<1>6. /\ a \o c \in Seq(S) /\ Len(a \o c) = Len(a) + Len(c)
      /\ \A k \in 1 .. Len(a) + Len(c) :
           (a \o c)[k] = IF k <= Len(a) THEN a[k] ELSE c[k - Len(a)]
  BY <1>2, <1>4, ConcatProperties
<1> DEFINE d == a \o c
<1>7. d \in Seq(S) /\ Len(d) = i /\ \A k \in 1 .. i : d[k] = IF k < i THEN s[k] ELSE e
  BY <1>1, <1>2, <1>4, <1>6
<1> HIDE DEF d
<1>8. /\ d \o b \in Seq(S) /\ Len(d \o b) = Len(d) + Len(b)
      /\ \A k \in 1 .. Len(d) + Len(b) :
           (d \o b)[k] = IF k <= Len(d) THEN d[k] ELSE b[k - Len(d)]
  BY <1>3, <1>7, ConcatProperties
<1>9. ASSUME NEW k \in 1 .. Len(s) + 1
      PROVE  (d \o b)[k] = IF k < i THEN s[k] ELSE IF k = i THEN e ELSE s[k - 1]
  <2> k \in Int /\ k \in 1 .. Len(d) + Len(b)
    BY <1>1, <1>3, <1>7
  <2>0. (d \o b)[k] = IF k <= Len(d) THEN d[k] ELSE b[k - Len(d)]
    BY <1>8
  <2>1. CASE k <= i
    <3>1. k \in 1 .. i /\ k <= Len(d)
      BY <1>1, <1>7, <2>1
    <3>2. d[k] = IF k < i THEN s[k] ELSE e
      BY <1>7, <3>1
    <3>3. QED
      BY <1>1, <2>0, <2>1, <3>1, <3>2
  <2>2. CASE k > i
    <3>1. k - Len(d) \in 1 .. Len(s) - i + 1 /\ (k - Len(d)) + i - 1 = k - 1
          /\ ~(k <= Len(d))
      BY <1>1, <1>7, <2>2
    <3>2. b[k - Len(d)] = s[k - 1]
      BY <1>3, <3>1
    <3>3. QED
      BY <1>1, <2>0, <2>2, <3>1, <3>2
  <2>3. QED
    BY <1>1, <2>1, <2>2
<1>10. InsertAt(s, i, e) = d \o b
  BY <1>5 DEF d
<1>11. QED
  BY <1>1, <1>3, <1>7, <1>8, <1>9, <1>10

\* Where the element stood that stands at k after the one at from was put at to.
Source(from, to, k) ==
  IF k = to THEN from
  ELSE IF k < to THEN IF k < from THEN k ELSE k + 1
       ELSE IF k - 1 < from THEN k - 1 ELSE k

LEMMA SourceIn ==
  ASSUME NEW n \in Nat, NEW from \in 1 .. n, NEW to \in 1 .. n, NEW k \in 1 .. n
  PROVE  Source(from, to, k) \in 1 .. n
BY DEF Source

LEMMA SourceOnce ==
  ASSUME NEW n \in Nat, NEW from \in 1 .. n, NEW to \in 1 .. n,
         NEW k \in 1 .. n, NEW l \in 1 .. n, Source(from, to, k) = Source(from, to, l)
  PROVE  k = l
BY DEF Source

LEMMA SourceOnto ==
  ASSUME NEW n \in Nat, NEW from \in 1 .. n, NEW to \in 1 .. n, NEW j \in 1 .. n
  PROVE  \E k \in 1 .. n : Source(from, to, k) = j
<1>1. CASE j = from
  BY <1>1 DEF Source
<1>2. CASE j < from /\ j < to
  BY <1>2 DEF Source
<1>3. CASE j < from /\ j >= to
  <2>1. j + 1 \in 1 .. n /\ Source(from, to, j + 1) = j
    BY <1>3 DEF Source
  <2>2. QED
    BY <2>1
<1>4. CASE j > from /\ j - 1 < to
  <2>1. j - 1 \in 1 .. n /\ Source(from, to, j - 1) = j
    BY <1>4 DEF Source
  <2>2. QED
    BY <2>1
<1>5. CASE j > from /\ j - 1 >= to
  BY <1>5 DEF Source
<1>6. QED
  BY <1>1, <1>2, <1>3, <1>4, <1>5

LEMMA InsertedItem ==
  ASSUME NEW S, NEW s \in Seq(S), NEW i \in 1 .. Len(s) + 1, NEW e \in S,
         NEW k \in 1 .. Len(s) + 1
  PROVE  InsertAt(s, i, e)[k] = IF k < i THEN s[k] ELSE IF k = i THEN e ELSE s[k - 1]
BY InsertedAt

LEMMA MovedAt ==
  ASSUME NEW S, NEW s \in Seq(S), NEW from \in 1 .. Len(s), NEW to \in 1 .. Len(s)
  PROVE  /\ Moved(s, from, to) \in Seq(S) /\ Len(Moved(s, from, to)) = Len(s)
         /\ \A k \in 1 .. Len(s) : Moved(s, from, to)[k] = s[Source(from, to, k)]
<1>1. Len(s) \in Nat /\ s[from] \in S
  OBVIOUS
<1> PICK e \in S : e = s[from]
  BY <1>1
<1> PICK r \in Seq(S) : r = RemoveAt(s, from)
  BY RemovedAt
<1>2. /\ r \in Seq(S) /\ Len(r) = Len(s) - 1
      /\ \A k \in 1 .. Len(s) - 1 : r[k] = IF k < from THEN s[k] ELSE s[k + 1]
  BY RemovedAt
<1>3. to \in 1 .. Len(r) + 1
  BY <1>1, <1>2
<1> DEFINE t == InsertAt(r, to, e)
<1>4. /\ t \in Seq(S) /\ Len(t) = Len(r) + 1
      /\ \A k \in 1 .. Len(r) + 1 :
           t[k] = IF k < to THEN r[k] ELSE IF k = to THEN e ELSE r[k - 1]
  <2>1. t \in Seq(S)
    BY <1>3, InsertedAt
  <2>2. Len(t) = Len(r) + 1
    BY <1>3, InsertedAt
  <2>3. ASSUME NEW k \in 1 .. Len(r) + 1
        PROVE  t[k] = IF k < to THEN r[k] ELSE IF k = to THEN e ELSE r[k - 1]
    BY <1>3, InsertedItem
  <2>4. QED
    BY <2>1, <2>2, <2>3
<1> HIDE DEF t
<1>5. ASSUME NEW k \in 1 .. Len(s) PROVE t[k] = s[Source(from, to, k)]
  <2>1. CASE k = to
    BY <1>1, <1>2, <1>4, <2>1 DEF Source
  <2>2. CASE k < to
    <3>1. k \in 1 .. Len(s) - 1
      BY <1>1, <2>2
    <3>2. QED
      BY <1>1, <1>2, <1>4, <2>2, <3>1 DEF Source
  <2>3. CASE k > to
    <3>1. k - 1 \in 1 .. Len(s) - 1 /\ (k - 1) + 1 = k
      BY <1>1, <2>3
    <3>2. QED
      BY <1>1, <1>2, <1>4, <2>3, <3>1 DEF Source
  <2>4. QED
    BY <1>1, <2>1, <2>2, <2>3
<1>6. Moved(s, from, to) = t
  BY DEF Moved, t
<1>7. QED
  BY <1>1, <1>2, <1>4, <1>5, <1>6

-----------------------------------------------------------------------------
(***************************************************************************)
(* The members of a set in the order that a relation gives them.           *)
(***************************************************************************)
StrictOrder(S, R) ==
  /\ \A x \in S : <<x, x>> \notin R
  /\ \A x, y, z \in S : <<x, y>> \in R /\ <<y, z>> \in R => <<x, z>> \in R
  /\ \A x, y \in S : x # y => <<x, y>> \in R \/ <<y, x>> \in R

Below(S, R, x) == {y \in S : <<y, x>> \in R}

LEMMA BelowCount ==
  ASSUME NEW S, IsFiniteSet(S), NEW R, StrictOrder(S, R), NEW x \in S
  PROVE  Cardinality(Below(S, R, x)) \in 0 .. Cardinality(S) - 1
<1>1. Below(S, R, x) \in SUBSET S /\ Below(S, R, x) # S
  BY DEF Below, StrictOrder
<1>2. IsFiniteSet(Below(S, R, x))
      /\ Cardinality(Below(S, R, x)) <= Cardinality(S)
      /\ Cardinality(S) # Cardinality(Below(S, R, x))
  BY <1>1, FS_Subset, Zenon
<1>3. Cardinality(S) \in Nat /\ Cardinality(Below(S, R, x)) \in Nat
  BY <1>2, FS_CardinalityType
<1>4. QED
  BY <1>2, <1>3

LEMMA BelowGrows ==
  ASSUME NEW S, IsFiniteSet(S), NEW R, StrictOrder(S, R), NEW x \in S, NEW y \in S,
         <<x, y>> \in R
  PROVE  Cardinality(Below(S, R, x)) < Cardinality(Below(S, R, y))
<1>1. Below(S, R, x) \in SUBSET Below(S, R, y)
  BY DEF Below, StrictOrder
<1>2. x \in Below(S, R, y) /\ x \notin Below(S, R, x)
  BY DEF Below, StrictOrder
<1>3. IsFiniteSet(Below(S, R, y))
  BY FS_Subset DEF Below
<1>4. Below(S, R, x) # Below(S, R, y)
  BY <1>2
<1>5. IsFiniteSet(Below(S, R, x))
      /\ Cardinality(Below(S, R, x)) <= Cardinality(Below(S, R, y))
      /\ Cardinality(Below(S, R, y)) # Cardinality(Below(S, R, x))
  BY <1>1, <1>3, <1>4, FS_Subset, Zenon
<1>6. Cardinality(Below(S, R, y)) \in Nat /\ Cardinality(Below(S, R, x)) \in Nat
  BY <1>3, <1>5, FS_CardinalityType
<1>7. QED
  BY <1>5, <1>6

LEMMA ListedOnce ==
  ASSUME NEW S, IsFiniteSet(S), NEW R, StrictOrder(S, R)
  PROVE  /\ Cardinality(S) \in Nat
         /\ DOMAIN Listed(S, R) = 1 .. Cardinality(S)
         /\ Listed(S, R) \in Seq(S) /\ Len(Listed(S, R)) = Cardinality(S)
         /\ \A k \in 1 .. Cardinality(S) :
              Listed(S, R)[k] \in S /\ Cardinality(Below(S, R, Listed(S, R)[k])) = k - 1
         /\ \A x \in S : /\ Cardinality(Below(S, R, x)) + 1 \in 1 .. Cardinality(S)
                         /\ Listed(S, R)[Cardinality(Below(S, R, x)) + 1] = x
         /\ \A k, l \in 1 .. Cardinality(S) :
              Listed(S, R)[k] = Listed(S, R)[l] => k = l
<1> DEFINE n == Cardinality(S)
           B(x) == Cardinality(Below(S, R, x))
           f == [x \in S |-> B(x)]
           L == Listed(S, R)
<1>1. n \in Nat
  BY FS_CardinalityType
<1>2. \A x \in S : B(x) \in 0 .. n - 1
  BY BelowCount
<1>3. \A x, y \in S : B(x) = B(y) => x = y
  <2> SUFFICES ASSUME NEW x \in S, NEW y \in S, x # y PROVE B(x) # B(y)
    OBVIOUS
  <2>1. B(x) \in Nat /\ B(y) \in Nat
    BY <1>1, <1>2
  <2>2. B(x) < B(y) \/ B(y) < B(x)
    BY BelowGrows DEF StrictOrder
  <2>3. QED
    BY <2>1, <2>2
<1>4. \A j \in 0 .. n - 1 : \E x \in S : B(x) = j
  <2>1. IsFiniteSet(0 .. n - 1) /\ Cardinality(0 .. n - 1) = n
    BY <1>1, FS_Interval
  <2> HIDE DEF B
  <2>2. f \in [S -> 0 .. n - 1]
    BY <1>2
  <2>3. \A x, y \in S : f[x] = f[y] => x = y
    BY <1>3
  <2> HIDE DEF f, n
  <2>4. f \in Injection(S, 0 .. n - 1)
    BY <2>2, <2>3 DEF Injection, IsInjective
  <2>5. f \in Surjection(S, 0 .. n - 1)
    BY <2>1, <2>4, FS_Injection DEF n
  <2>6. \A j \in 0 .. n - 1 : \E x \in S : f[x] = j
    BY <2>5 DEF Surjection
  <2>7. QED
    BY <2>6 DEF f
<1>5. \A k \in 1 .. n : L[k] = CHOOSE x \in S : B(x) = k - 1
  BY DEF Listed, Below
<1>6. DOMAIN L = 1 .. n /\ L = [k \in 1 .. n |-> L[k]]
  <2> DEFINE At(k) == CHOOSE x \in S : Cardinality({y \in S : <<y, x>> \in R}) = k - 1
  <2>1. L = [k \in 1 .. n |-> At(k)]
    BY DEF Listed
  <2> HIDE DEF At, L
  <2>2. QED
    BY <2>1
<1> HIDE DEF n, B, L
<1>7. \A k \in 1 .. n : L[k] \in S /\ B(L[k]) = k - 1
  <2> SUFFICES ASSUME NEW k \in 1 .. n PROVE L[k] \in S /\ B(L[k]) = k - 1
    OBVIOUS
  <2>1. k - 1 \in 0 .. n - 1
    BY <1>1
  <2>2. \E x \in S : B(x) = k - 1
    BY <1>4, <2>1
  <2>3. QED
    BY <1>5, <2>2
<1>8. ASSUME NEW x \in S PROVE B(x) + 1 \in 1 .. n /\ L[B(x) + 1] = x
  <2>1. B(x) + 1 \in 1 .. n /\ (B(x) + 1) - 1 = B(x)
    BY <1>1, <1>2
  <2>2. L[B(x) + 1] \in S /\ B(L[B(x) + 1]) = B(x)
    BY <1>7, <2>1
  <2>3. QED
    BY <1>3, <2>1, <2>2
<1>9. \A k, l \in 1 .. n : L[k] = L[l] => k = l
  BY <1>1, <1>7
<1>10. L \in Seq(S) /\ Len(L) = n
  <2>1. L \in [1 .. n -> S]
    BY <1>6, <1>7
  <2>2. QED
    BY <1>1, <2>1
<1>11. QED
  BY <1>1, <1>6, <1>7, <1>8, <1>9, <1>10 DEF n, B, L

-----------------------------------------------------------------------------
LEMMA PrecedesOrder ==
  ASSUME NEW secs, NEW n \in Nat, DOMAIN secs = 1 .. n,
         \A i \in 1 .. n : secs[i].order \in Int
  PROVE  StrictOrder(1 .. n, Precedes(secs))
<1> DEFINE R == Precedes(secs)
<1>1. \A x, y \in 1 .. n :
        <<x, y>> \in R <=> \/ secs[x].order < secs[y].order
                           \/ secs[x].order = secs[y].order /\ x < y
  BY DEF Precedes
<1>2. \A x \in 1 .. n : <<x, x>> \notin R
  BY <1>1
<1> HIDE DEF R
<1>3. \A x, y, z \in 1 .. n : <<x, y>> \in R /\ <<y, z>> \in R => <<x, z>> \in R
  BY <1>1
<1>4. \A x, y \in 1 .. n : x # y => <<x, y>> \in R \/ <<y, x>> \in R
  BY <1>1
<1>5. QED
  BY <1>2, <1>3, <1>4 DEF StrictOrder, R

LEMMA OrderOfPart ==
  ASSUME NEW S, NEW P0 \in SUBSET S, NEW R, StrictOrder(S, R)
  PROVE  StrictOrder(P0, R)
BY DEF StrictOrder

\* Where every section has the order of its place, the canvas shows the array.
InPlace(secs) == \A i \in DOMAIN secs : secs[i].order = i - 1

LEMMA InPlaceShown ==
  ASSUME NEW secs, NEW n \in Nat, DOMAIN secs = 1 .. n, InPlace(secs)
  PROVE  DOMAIN SortedOf(secs) = 1 .. n /\ \A k \in 1 .. n : SortedOf(secs)[k] = k
<1> DEFINE R == Precedes(secs)
<1>1. \A i \in 1 .. n : secs[i].order = i - 1
  BY DEF InPlace
<1>2. StrictOrder(1 .. n, R)
  <2>1. \A i \in 1 .. n : secs[i].order \in Int
    BY <1>1
  <2>2. QED
    BY <2>1, PrecedesOrder
<1>3. IsFiniteSet(1 .. n) /\ Cardinality(1 .. n) = n
  BY FS_Interval
<1>4. SortedOf(secs) = Listed(1 .. n, R)
  BY DEF SortedOf
<1>5. ASSUME NEW k \in 1 .. n PROVE Below(1 .. n, R, k) = 1 .. k - 1
  <2>1. \A y \in 1 .. n : <<y, k>> \in R <=> y < k
    BY <1>1 DEF Precedes
  <2> HIDE DEF R
  <2>2. QED
    BY <2>1 DEF Below
<1>6. ASSUME NEW k \in 1 .. n PROVE Cardinality(Below(1 .. n, R, k)) = k - 1
  <2>1. k \in Int /\ Cardinality(1 .. k - 1) = k - 1
    BY FS_Interval
  <2>2. QED
    BY <1>5, <2>1
<1> HIDE DEF R
<1>7. /\ DOMAIN Listed(1 .. n, R) = 1 .. Cardinality(1 .. n)
      /\ \A x \in 1 .. n : Listed(1 .. n, R)[Cardinality(Below(1 .. n, R, x)) + 1] = x
  BY <1>2, <1>3, ListedOnce
<1>8. ASSUME NEW k \in 1 .. n PROVE SortedOf(secs)[k] = k
  <2>1. (k - 1) + 1 = k
    OBVIOUS
  <2>2. QED
    BY <1>4, <1>6, <1>7, <2>1
<1>9. QED
  BY <1>3, <1>4, <1>7, <1>8

-----------------------------------------------------------------------------
(***************************************************************************)
(* The canvas.                                                             *)
(***************************************************************************)
Sound(secs, n) ==
  /\ secs \in Seq(SectionType) /\ Len(secs) <= MaxLive
  /\ \A i, j \in DOMAIN secs : secs[i].id = secs[j].id => i = j
  /\ \A i \in DOMAIN secs : secs[i].id <= n /\ secs[i].group <= n
  /\ \A i, j, k \in DOMAIN secs :
       /\ secs[i].group # 0
       /\ secs[i].group = secs[j].group /\ secs[j].group = secs[k].group
       => i = j \/ j = k \/ i = k

Shape ==
  /\ Sound(sections, ids) /\ Sound(saved, ids)
  /\ shared \subseteq Ids
  /\ ids \in 0 .. MaxIds
  /\ expanded \in 1 .. MaxIds \cup {None}
  /\ modal \in [asks : {"field", "style"}, of : 1 .. MaxIds] \cup {None}

\* While steady says so, the array, and what the list holds, stand in order.
Ordered ==
  /\ steady \in {"ordered", "dragged", "off"}
  /\ steady # "off" => InPlace(sections)
  /\ steady = "ordered" => InPlace(saved)

LayoutInv == Shape /\ Ordered

-----------------------------------------------------------------------------
\* t is what an edit that keeps all sections makes of s.
Kept(s, t) ==
  /\ t \in Seq(SectionType) /\ Len(t) = Len(s)
  /\ \A i \in 1 .. Len(s) : /\ t[i].id = s[i].id /\ t[i].order = s[i].order
                            /\ t[i].group = s[i].group \/ t[i].group = 0

SectionIds(secs) == {secs[i].id : i \in DOMAIN secs}

LEMMA SectionFields ==
  ASSUME NEW s \in SectionType
  PROVE  /\ s.id \in 1 .. MaxIds /\ s.order \in 0 .. MaxLive /\ s.group \in 0 .. MaxIds
         /\ s.id \in Int /\ s.order \in Int /\ s.group \in Int
BY LayoutAssumption DEF SectionType

LEMMA SoundMore ==
  ASSUME NEW n \in Nat, NEW m \in Nat, n <= m, NEW secs, Sound(secs, n)
  PROVE  Sound(secs, m)
<1>1. \A i \in DOMAIN secs : secs[i] \in SectionType
  BY DEF Sound
<1>2. \A i \in DOMAIN secs : secs[i].id <= m /\ secs[i].group <= m
  <2> SUFFICES ASSUME NEW i \in DOMAIN secs PROVE secs[i].id <= m /\ secs[i].group <= m
    OBVIOUS
  <2>1. secs[i].id <= n /\ secs[i].group <= n
    BY DEF Sound
  <2>2. secs[i].id \in Int /\ secs[i].group \in Int
    BY <1>1, SectionFields
  <2>3. QED
    BY <2>1, <2>2
<1>3. QED
  BY <1>2 DEF Sound

\* A layout of which each section is one of another, as it is named and paired, is sound.
LEMMA SoundPart ==
  ASSUME NEW n, NEW s, Sound(s, n), NEW t \in Seq(SectionType), Len(t) <= MaxLive,
         NEW m \in [1 .. Len(t) -> 1 .. Len(s)],
         \A k, l \in 1 .. Len(t) : m[k] = m[l] => k = l,
         \A k \in 1 .. Len(t) : t[k].id = s[m[k]].id,
         \A k \in 1 .. Len(t) : t[k].group = s[m[k]].group \/ t[k].group = 0,
         0 <= n
  PROVE  Sound(t, n)
<1>1. DOMAIN t = 1 .. Len(t) /\ DOMAIN s = 1 .. Len(s)
  BY DEF Sound
<1>2. \A k \in 1 .. Len(t) : m[k] \in 1 .. Len(s)
  OBVIOUS
<1>3. \A i, j \in DOMAIN t : t[i].id = t[j].id => i = j
  <2> SUFFICES ASSUME NEW i \in DOMAIN t, NEW j \in DOMAIN t, t[i].id = t[j].id PROVE i = j
    OBVIOUS
  <2>1. s[m[i]].id = s[m[j]].id
    BY <1>1
  <2>2. m[i] = m[j]
    BY <1>1, <1>2, <2>1 DEF Sound
  <2>3. QED
    BY <1>1, <2>2
<1>4. \A i \in DOMAIN t : t[i].id <= n /\ t[i].group <= n
  BY <1>1, <1>2 DEF Sound
<1>5. ASSUME NEW i \in DOMAIN t, NEW j \in DOMAIN t, NEW k \in DOMAIN t, t[i].group # 0,
             t[i].group = t[j].group, t[j].group = t[k].group
      PROVE  i = j \/ j = k \/ i = k
  <2>1. s[m[i]].group # 0 /\ s[m[i]].group = s[m[j]].group /\ s[m[j]].group = s[m[k]].group
    BY <1>1, <1>5
  <2>2. m[i] = m[j] \/ m[j] = m[k] \/ m[i] = m[k]
    BY <1>1, <1>2, <2>1 DEF Sound
  <2>3. QED
    BY <1>1, <2>2
<1>6. QED
  BY <1>3, <1>4, <1>5 DEF Sound

LEMMA KeptSound ==
  ASSUME NEW n, 0 <= n, NEW s, Sound(s, n), NEW t, Kept(s, t)
  PROVE  /\ Sound(t, n) /\ SectionIds(t) = SectionIds(s)
         /\ InPlace(s) => InPlace(t)
<1>1. /\ t \in Seq(SectionType) /\ s \in Seq(SectionType) /\ Len(t) = Len(s)
      /\ DOMAIN t = 1 .. Len(s) /\ DOMAIN s = 1 .. Len(s) /\ Len(s) <= MaxLive
  BY DEF Kept, Sound
<1>2. \A i \in 1 .. Len(s) : /\ t[i].id = s[i].id /\ t[i].order = s[i].order
                             /\ t[i].group = s[i].group \/ t[i].group = 0
  BY DEF Kept
<1> DEFINE m == [k \in 1 .. Len(t) |-> k]
<1>3. /\ m \in [1 .. Len(t) -> 1 .. Len(s)]
      /\ \A k, l \in 1 .. Len(t) : m[k] = m[l] => k = l
      /\ \A k \in 1 .. Len(t) : m[k] = k
  BY <1>1
<1> HIDE DEF m
<1>4. \A k \in 1 .. Len(t) : /\ t[k].id = s[m[k]].id
                             /\ t[k].group = s[m[k]].group \/ t[k].group = 0
  BY <1>1, <1>2, <1>3
<1>5. Sound(t, n)
  BY <1>1, <1>3, <1>4, SoundPart
<1>6. SectionIds(t) = SectionIds(s)
  BY <1>1, <1>2 DEF SectionIds
<1>7. InPlace(s) => InPlace(t)
  BY <1>1, <1>2 DEF InPlace
<1>8. QED
  BY <1>5, <1>6, <1>7

LEMMA NamedIs ==
  ASSUME NEW n, Sound(sections, n), NEW id \in Ids
  PROVE  /\ Named(id) \in 1 .. Len(sections) /\ sections[Named(id)].id = id
         /\ \A i \in DOMAIN sections : sections[i].id = id => i = Named(id)
<1>1. \E i \in DOMAIN sections : sections[i].id = id
  BY DEF Ids
<1>2. Named(id) \in DOMAIN sections /\ sections[Named(id)].id = id
  BY <1>1 DEF Named
<1>3. DOMAIN sections = 1 .. Len(sections)
  BY DEF Sound
<1>4. QED
  BY <1>2, <1>3 DEF Sound

-----------------------------------------------------------------------------
LEMMA OrderStep ==
  ASSUME Ordered, Steady,
         \/ Removes
         \/ PickTemplate
         \/ Drags /\ InPlace(sections')
         \/ HandleSave
         \/ saved' = saved /\ (InPlace(sections) => InPlace(sections'))
  PROVE  Ordered'
<1>0. steady \in {"ordered", "dragged", "off"}
  BY DEF Ordered
<1>1. steady' \in {"ordered", "dragged", "off"}
  BY <1>0 DEF Steady
<1>2. steady' # "off" => steady # "off" /\ ~Removes
  BY <1>0 DEF Steady
<1>3. steady' # "off" /\ PickTemplate => steady = "ordered" \/ HandleSave
  BY <1>0 DEF Steady
<1>4. steady' = "ordered" => \/ steady = "ordered" /\ ~Drags
                             \/ steady = "dragged" /\ HandleSave
  BY <1>0 DEF Steady
<1>5. HandleSave => saved' = sections /\ sections' = sections
  BY DEF HandleSave
<1>6. PickTemplate => sections' = saved /\ saved' = saved
  BY DEF PickTemplate
<1>7. ASSUME steady' # "off" PROVE InPlace(sections')
  <2>1. InPlace(sections) /\ ~Removes
    BY <1>2, <1>7 DEF Ordered
  <2>2. CASE PickTemplate
    <3>1. CASE steady = "ordered"
      BY <1>6, <2>2, <3>1 DEF Ordered
    <3>2. CASE HandleSave
      BY <1>5, <2>1, <3>2
    <3>3. QED
      BY <1>3, <1>7, <2>2, <3>1, <3>2
  <2>3. CASE HandleSave
    BY <1>5, <2>1, <2>3
  <2>4. QED
    BY <2>1, <2>2, <2>3
<1>8. ASSUME steady' = "ordered" PROVE InPlace(saved')
  <2>1. CASE steady = "dragged" /\ HandleSave
    <3>1. InPlace(sections)
      BY <2>1 DEF Ordered
    <3>2. QED
      BY <1>5, <2>1, <3>1
  <2>2. CASE steady = "ordered" /\ ~Drags
    <3>1. InPlace(sections) /\ InPlace(saved)
      BY <2>2 DEF Ordered
    <3>2. ~Removes
      BY <1>2, <1>8
    <3>3. saved' = saved \/ saved' = sections
      BY <1>5, <1>6, <2>2, <3>2
    <3>4. QED
      BY <3>1, <3>3
  <2>3. QED
    BY <1>4, <1>8, <2>1, <2>2
<1>9. QED
  BY <1>1, <1>7, <1>8 DEF Ordered, InPlace

LEMMA IsKept ==
  ASSUME NEW s \in Seq(SectionType), NEW t, t = [i \in DOMAIN s |-> t[i]],
         \A i \in DOMAIN s : t[i] \in SectionType,
         \A i \in DOMAIN s : t[i].id = s[i].id /\ t[i].order = s[i].order,
         \A i \in DOMAIN s : t[i].group = s[i].group \/ t[i].group = 0
  PROVE  Kept(s, t)
<1>1. DOMAIN s = 1 .. Len(s) /\ Len(s) \in Nat
  OBVIOUS
<1>2. t \in [1 .. Len(s) -> SectionType]
  BY <1>1
<1>3. t \in Seq(SectionType) /\ Len(t) = Len(s)
  BY <1>1, <1>2
<1>4. QED
  BY <1>1, <1>3 DEF Kept

LEMMA KeptStep ==
  ASSUME LayoutInv, Steady, Kept(sections, sections'), saved' = saved,
         shared' \subseteq shared, ids' = ids, expanded' \in 1 .. MaxIds \cup {None},
         modal' \in [asks : {"field", "style"}, of : 1 .. MaxIds] \cup {None}
  PROVE  LayoutInv'
<1>1. 0 <= ids /\ Sound(sections, ids) /\ Sound(saved, ids) /\ shared \subseteq Ids
      /\ ids \in 0 .. MaxIds
  BY LayoutAssumption DEF LayoutInv, Shape
<1>2. /\ Sound(sections', ids) /\ SectionIds(sections') = SectionIds(sections)
      /\ InPlace(sections) => InPlace(sections')
  BY <1>1, KeptSound
<1>3. Ids' = Ids
  BY <1>2 DEF SectionIds, Ids
<1>4. Ordered'
  BY <1>2, OrderStep DEF LayoutInv
<1>5. QED
  BY <1>1, <1>2, <1>3, <1>4 DEF LayoutInv, Shape, Sound

LEMMA SameStep ==
  ASSUME LayoutInv, Steady, UNCHANGED <<sections, saved, shared, ids>>,
         expanded' \in 1 .. MaxIds \cup {None},
         modal' \in [asks : {"field", "style"}, of : 1 .. MaxIds] \cup {None}
  PROVE  LayoutInv'
<1>1. sections \in Seq(SectionType)
  BY DEF LayoutInv, Shape, Sound
<1>2. Kept(sections, sections')
  BY <1>1 DEF Kept
<1>3. QED
  BY <1>2, KeptStep

LEMMA ToggleSectionOK ==
  ASSUME LayoutInv, Steady, NEW id \in Ids, ToggleSection(id)
  PROVE  LayoutInv'
<1>1. sections \in Seq(SectionType) /\ expanded \in 1 .. MaxIds \cup {None}
      /\ modal \in [asks : {"field", "style"}, of : 1 .. MaxIds] \cup {None}
  BY DEF LayoutInv, Shape, Sound
<1>2. sections' = [i \in DOMAIN sections |->
                     IF sections[i].id \in {id} THEN [sections[i] EXCEPT !.on = ~@]
                     ELSE sections[i]]
      /\ shared' = shared \ {id} /\ UNCHANGED <<saved, ids, expanded, modal>>
  BY DEF ToggleSection, MapSec
<1>3. ASSUME NEW i \in DOMAIN sections
      PROVE  /\ sections'[i] \in SectionType /\ sections'[i].id = sections[i].id
             /\ sections'[i].order = sections[i].order
             /\ sections'[i].group = sections[i].group
  <2>1. sections[i] \in SectionType
    BY <1>1
  <2>2. sections'[i] = sections[i] \/ sections'[i] = [sections[i] EXCEPT !.on = ~@]
    BY <1>2
  <2>3. QED
    BY <2>1, <2>2 DEF SectionType
<1>4. Kept(sections, sections')
  <2>1. sections' = [i \in DOMAIN sections |-> sections'[i]]
    BY <1>2
  <2>2. QED
    BY <1>1, <1>3, <2>1, IsKept
<1>5. QED
  BY <1>1, <1>2, <1>4, KeptStep

LEMMA SetSecLabelOK ==
  ASSUME LayoutInv, Steady, NEW id, SetSecLabel(id)
  PROVE  LayoutInv'
<1>1. sections \in Seq(SectionType) /\ expanded \in 1 .. MaxIds \cup {None}
      /\ modal \in [asks : {"field", "style"}, of : 1 .. MaxIds] \cup {None}
  BY DEF LayoutInv, Shape, Sound
<1>2. sections' = [i \in DOMAIN sections |-> IF sections[i].id \in {id} THEN sections[i]
                                             ELSE sections[i]]
      /\ shared' = shared \ {id} /\ UNCHANGED <<saved, ids, expanded, modal>>
  BY DEF SetSecLabel, MapSec
<1>3. Kept(sections, sections')
  BY <1>1, <1>2, IsKept
<1>4. QED
  BY <1>1, <1>2, <1>3, KeptStep

LEMMA CanvasTyped ==
  ASSUME LayoutInv
  PROVE  /\ sections \in Seq(SectionType) /\ saved \in Seq(SectionType)
         /\ expanded \in 1 .. MaxIds \cup {None}
         /\ modal \in [asks : {"field", "style"}, of : 1 .. MaxIds] \cup {None}
         /\ ids \in 0 .. MaxIds /\ ids \in Nat /\ 0 <= ids /\ MaxIds \in Nat /\ MaxLive \in Nat
         /\ Sound(sections, ids) /\ Sound(saved, ids) /\ shared \subseteq Ids
         /\ Ids \subseteq 1 .. ids /\ Len(sections) <= MaxLive
<1>1. /\ sections \in Seq(SectionType) /\ saved \in Seq(SectionType)
      /\ expanded \in 1 .. MaxIds \cup {None}
      /\ modal \in [asks : {"field", "style"}, of : 1 .. MaxIds] \cup {None}
      /\ ids \in 0 .. MaxIds /\ ids \in Nat /\ 0 <= ids /\ MaxIds \in Nat /\ MaxLive \in Nat
      /\ Sound(sections, ids) /\ Sound(saved, ids) /\ shared \subseteq Ids
      /\ Len(sections) <= MaxLive
  BY LayoutAssumption DEF LayoutInv, Shape, Sound
<1>2. \A i \in DOMAIN sections : sections[i].id <= ids
  BY <1>1 DEF Sound
<1>3. \A i \in DOMAIN sections : sections[i].id \in 1 .. MaxIds
  BY <1>1, SectionFields
<1>4. Ids \subseteq 1 .. ids
  BY <1>1, <1>2, <1>3 DEF Ids
<1>5. QED
  BY <1>1, <1>4

LEMMA NewSectionTyped ==
  ASSUME NEW id \in 1 .. MaxIds, NEW type \in {"info", "table", "note"},
         NEW order \in 0 .. MaxLive
  PROVE  /\ NewSection(id, type, order) \in SectionType
         /\ NewSection(id, type, order).id = id
         /\ NewSection(id, type, order).order = order
         /\ NewSection(id, type, order).group = 0
<1>1. Plain \in [StyleKeys -> BOOLEAN]
  BY DEF Plain
<1>2. PICK fs \in Seq([key : ExtraKeys \cup {CustomKey}, on : BOOLEAN]) :
        fs = IF HasFields(type) THEN <<[key |-> CustomKey, on |-> TRUE]>> ELSE <<>>
  <2> DEFINE F == [key : ExtraKeys \cup {CustomKey}, on : BOOLEAN]
  <2>1. PICK f \in F : f = [key |-> CustomKey, on |-> TRUE]
    OBVIOUS
  <2> HIDE DEF F
  <2>2. <<f>> \in Seq(F) /\ <<>> \in Seq(F)
    OBVIOUS
  <2>3. QED
    BY <2>1, <2>2 DEF F
<1>3. NewSection(id, type, order) =
        [id |-> id, type |-> type, order |-> order, on |-> TRUE, group |-> 0, fields |-> fs,
         style |-> Plain]
  BY <1>2 DEF NewSection
<1>4. 0 \in 0 .. MaxIds
  BY LayoutAssumption
<1>5. QED
  BY <1>1, <1>3, <1>4 DEF SectionType

LEMMA AddSectionOK ==
  ASSUME LayoutInv, Steady, NEW type \in {"info", "table", "note"}, AddSection(type)
  PROVE  LayoutInv'
<1> DEFINE n == Len(sections)
           N == NewSection(ids + 1, type, n)
<1>1. /\ ids < MaxIds /\ n < MaxLive /\ ids' = ids + 1 /\ expanded' = ids + 1
      /\ sections' = Append(sections, N) /\ UNCHANGED <<saved, shared, modal>>
  BY DEF AddSection
<1>2. n \in Nat /\ n \in 0 .. MaxLive /\ ids + 1 \in 1 .. MaxIds /\ ids + 1 \in 0 .. MaxIds
      /\ ids + 1 \in Nat
  BY <1>1, CanvasTyped
<1>3. N \in SectionType /\ N.id = ids + 1 /\ N.order = n /\ N.group = 0
  BY <1>2, NewSectionTyped
<1> HIDE DEF N
<1>4. /\ sections' \in Seq(SectionType) /\ Len(sections') = n + 1
      /\ \A i \in 1 .. n : sections'[i] = sections[i]
      /\ sections'[n + 1] = N
  BY <1>1, <1>3, CanvasTyped
<1>5. \A i \in 1 .. n : sections[i].id <= ids /\ sections[i].group <= ids
                        /\ sections[i].id \in Int /\ sections[i].group \in Int
  BY CanvasTyped, SectionFields DEF Sound
<1>6. DOMAIN sections' = 1 .. n + 1 /\ DOMAIN sections = 1 .. n
  BY <1>4, CanvasTyped
<1>7. Sound(sections', ids + 1)
  <2>1. \A i, j \in DOMAIN sections' : sections'[i].id = sections'[j].id => i = j
    <3> SUFFICES ASSUME NEW i \in DOMAIN sections', NEW j \in DOMAIN sections',
                        sections'[i].id = sections'[j].id
                 PROVE  i = j
      OBVIOUS
    <3>0. Sound(sections, ids) /\ ids \in Nat
      BY CanvasTyped
    <3>1. CASE i = n + 1 \/ j = n + 1
      BY <1>2, <1>3, <1>4, <1>5, <1>6, <3>0, <3>1
    <3>2. CASE i # n + 1 /\ j # n + 1
      <4>1. i \in 1 .. n /\ j \in 1 .. n
        BY <1>2, <1>6, <3>2
      <4>2. sections[i].id = sections[j].id
        BY <1>4, <4>1
      <4>3. QED
        BY <1>6, <3>0, <4>1, <4>2 DEF Sound
    <3>3. QED
      BY <3>1, <3>2
  <2>2. \A i \in DOMAIN sections' : sections'[i].id <= ids + 1 /\ sections'[i].group <= ids + 1
    <3> SUFFICES ASSUME NEW i \in DOMAIN sections'
                 PROVE  sections'[i].id <= ids + 1 /\ sections'[i].group <= ids + 1
      OBVIOUS
    <3>1. ids \in Nat
      BY CanvasTyped
    <3>2. CASE i = n + 1
      BY <1>3, <1>4, <3>1, <3>2
    <3>3. CASE i # n + 1
      BY <1>2, <1>4, <1>5, <1>6, <3>1, <3>3
    <3>4. QED
      BY <3>2, <3>3
  <2>3. ASSUME NEW i \in DOMAIN sections', NEW j \in DOMAIN sections', NEW k \in DOMAIN sections',
               sections'[i].group # 0, sections'[i].group = sections'[j].group,
               sections'[j].group = sections'[k].group
        PROVE  i = j \/ j = k \/ i = k
    <3>1. \A l \in DOMAIN sections' : sections'[l].group # 0 =>
            l \in 1 .. n /\ sections'[l].group = sections[l].group
      BY <1>2, <1>3, <1>4, <1>6
    <3>2. sections'[j].group # 0 /\ sections'[k].group # 0
      BY <2>3
    <3>3. /\ i \in DOMAIN sections /\ j \in DOMAIN sections /\ k \in DOMAIN sections
          /\ sections[i].group # 0
          /\ sections[i].group = sections[j].group /\ sections[j].group = sections[k].group
      BY <1>6, <2>3, <3>1, <3>2
    <3>4. QED
      BY <3>3, CanvasTyped DEF Sound
  <2>4. Len(sections') <= MaxLive
    BY <1>1, <1>2, <1>4, CanvasTyped
  <2>5. QED
    BY <1>4, <2>1, <2>2, <2>3, <2>4 DEF Sound
<1>8. Sound(saved, ids + 1)
  <2>1. ids \in Nat /\ Sound(saved, ids) /\ ids <= ids + 1
    BY CanvasTyped
  <2>2. QED
    BY <1>2, <2>1, SoundMore
<1>9. Ids \subseteq Ids'
  <2>1. \A i \in DOMAIN sections : i \in DOMAIN sections' /\ sections'[i].id = sections[i].id
    BY <1>2, <1>4, <1>6
  <2>2. QED
    BY <2>1 DEF Ids
<1>10. Ordered'
  <2>1. InPlace(sections) => InPlace(sections')
    <3> SUFFICES ASSUME InPlace(sections), NEW i \in DOMAIN sections'
                 PROVE  sections'[i].order = i - 1
      BY DEF InPlace
    <3>1. CASE i = n + 1
      BY <1>2, <1>3, <1>4, <3>1
    <3>2. CASE i # n + 1
      <4>1. i \in 1 .. n
        BY <1>2, <1>6, <3>2
      <4>2. QED
        BY <1>4, <1>6, <4>1 DEF InPlace
    <3>3. QED
      BY <3>1, <3>2
  <2>2. QED
    BY <1>1, <2>1, OrderStep DEF LayoutInv
<1>11. saved' = saved /\ shared' \subseteq Ids' /\ ids' \in 0 .. MaxIds
       /\ expanded' \in 1 .. MaxIds \cup {None}
       /\ modal' \in [asks : {"field", "style"}, of : 1 .. MaxIds] \cup {None}
  BY <1>1, <1>2, <1>9, CanvasTyped
<1>12. QED
  BY <1>1, <1>7, <1>8, <1>10, <1>11 DEF LayoutInv, Shape, Sound

LEMMA RemoveSectionOK ==
  ASSUME LayoutInv, Steady, NEW id \in Ids, RemoveSection(id)
  PROVE  LayoutInv'
<1> DEFINE x == Named(id)
           n == Len(sections)
<1>1. /\ sections' = RemoveAt(sections, x) /\ shared' = shared \ {id}
      /\ UNCHANGED <<saved, ids, expanded, modal>>
  BY DEF RemoveSection
<1>2. x \in 1 .. n /\ sections[x].id = id
  BY CanvasTyped, NamedIs
<1>3. n \in Nat /\ sections \in Seq(SectionType) /\ n <= MaxLive /\ MaxLive \in Nat
  BY CanvasTyped
<1> HIDE DEF x
<1>4. /\ sections' \in Seq(SectionType) /\ Len(sections') = n - 1
      /\ \A k \in 1 .. n - 1 : sections'[k] = IF k < x THEN sections[k] ELSE sections[k + 1]
  BY <1>1, <1>2, <1>3, RemovedAt
<1> DEFINE m == [k \in 1 .. Len(sections') |-> IF k < x THEN k ELSE k + 1]
<1>5. m \in [1 .. Len(sections') -> 1 .. n]
  BY <1>2, <1>3, <1>4
<1>6. \A k, l \in 1 .. Len(sections') : m[k] = m[l] => k = l
  BY <1>2, <1>3, <1>4
<1>7. \A k \in 1 .. Len(sections') : sections'[k] = sections[m[k]]
  BY <1>4
<1>8. \A i \in 1 .. n : i # x => \E k \in 1 .. Len(sections') : m[k] = i
  <2> SUFFICES ASSUME NEW i \in 1 .. n, i # x PROVE \E k \in 1 .. Len(sections') : m[k] = i
    OBVIOUS
  <2>1. CASE i < x
    BY <1>2, <1>3, <1>4, <2>1
  <2>2. CASE i > x
    <3>1. i - 1 \in 1 .. Len(sections') /\ m[i - 1] = i
      BY <1>2, <1>3, <1>4, <2>2
    <3>2. QED
      BY <3>1
  <2>3. QED
    BY <1>2, <2>1, <2>2
<1> HIDE DEF m
<1>9. Sound(sections', ids)
  <2> PICK t \in Seq(SectionType) : t = sections'
    BY <1>4
  <2>1. Len(t) <= MaxLive
    BY <1>3, <1>4
  <2>2. m \in [1 .. Len(t) -> 1 .. Len(sections)]
    BY <1>5
  <2>3. \A k, l \in 1 .. Len(t) : m[k] = m[l] => k = l
    BY <1>6
  <2>4. \A k \in 1 .. Len(t) : t[k].id = sections[m[k]].id
    BY <1>7
  <2>5. \A k \in 1 .. Len(t) : t[k].group = sections[m[k]].group \/ t[k].group = 0
    BY <1>7
  <2>6. 0 <= ids /\ Sound(sections, ids)
    BY CanvasTyped
  <2>7. Sound(t, ids)
    BY <2>1, <2>2, <2>3, <2>4, <2>5, <2>6, SoundPart
  <2>8. QED
    BY <2>7
<1>10. Ids \ {id} \subseteq Ids'
  <2>1. DOMAIN sections = 1 .. n /\ DOMAIN sections' = 1 .. Len(sections')
    BY <1>3, <1>4
  <2>2. ASSUME NEW i \in 1 .. n, sections[i].id # id
        PROVE  \E k \in 1 .. Len(sections') : sections'[k].id = sections[i].id
    BY <1>2, <1>7, <1>8, <2>2
  <2>3. QED
    BY <2>1, <2>2 DEF Ids
<1>11. Removes
  BY DEF Removes
<1>12. Ordered'
  BY <1>11, OrderStep DEF LayoutInv
<1>13. shared' \subseteq Ids'
  BY <1>1, <1>10, CanvasTyped
<1>14. QED
  BY <1>1, <1>9, <1>12, <1>13, CanvasTyped DEF LayoutInv, Shape, Sound

\* One field of the sections of ch is written, sections' is what it is said to be.
LEMMA WrittenKept ==
  ASSUME LayoutInv, NEW t, t = [i \in DOMAIN sections |-> t[i]],
         \A i \in DOMAIN sections : t[i] \in SectionType,
         \A i \in DOMAIN sections :
           t[i].id = sections[i].id /\ t[i].order = sections[i].order,
         \A i \in DOMAIN sections : t[i].group = sections[i].group \/ t[i].group = 0
  PROVE  Kept(sections, t)
BY CanvasTyped, IsKept

LEMMA ExpandOK ==
  ASSUME LayoutInv, Steady, NEW id \in 1 .. MaxIds, Expand(id)
  PROVE  LayoutInv'
<1>1. UNCHANGED <<sections, saved, shared, ids, modal>> /\ expanded' \in {None, id}
  BY DEF Expand
<1>2. QED
  BY <1>1, CanvasTyped, SameStep

LEMMA UngroupOK ==
  ASSUME LayoutInv, Steady, NEW id \in Ids, Ungroup(id)
  PROVE  LayoutInv'
<1> DEFINE ch == {j \in Ids : Get(j).group = Get(id).group}
<1>1. /\ sections' = [i \in DOMAIN sections |->
                        IF sections[i].id \in ch THEN [sections[i] EXCEPT !.group = 0]
                        ELSE sections[i]]
      /\ shared' = shared \ ch /\ UNCHANGED <<saved, ids, expanded, modal>>
  BY DEF Ungroup, MapSec
<1> HIDE DEF ch
<1>2. ASSUME NEW i \in DOMAIN sections
      PROVE  /\ sections'[i] \in SectionType /\ sections'[i].id = sections[i].id
             /\ sections'[i].order = sections[i].order
             /\ sections'[i].group = sections[i].group \/ sections'[i].group = 0
  <2>1. sections[i] \in SectionType /\ 0 \in 0 .. MaxIds
    BY CanvasTyped
  <2>2. sections'[i] = sections[i] \/ sections'[i] = [sections[i] EXCEPT !.group = 0]
    BY <1>1
  <2>3. QED
    BY <2>1, <2>2 DEF SectionType
<1>3. sections' = [i \in DOMAIN sections |-> sections'[i]]
  BY <1>1
<1>4. Kept(sections, sections')
  BY <1>2, <1>3, WrittenKept
<1>5. QED
  BY <1>1, <1>4, CanvasTyped, KeptStep

LEMMA ToggleColGroupOK ==
  ASSUME LayoutInv, Steady, NEW id \in Ids, NEW other \in Ids, ToggleColGroup(id, other)
  PROVE  LayoutInv'
<1> DEFINE ch == {id, other}
           g == ids + 1
           n == Len(sections)
<1>1. /\ sections' = [i \in DOMAIN sections |->
                        IF sections[i].id \in ch THEN [sections[i] EXCEPT !.group = g]
                        ELSE sections[i]]
      /\ shared' = shared \ ch /\ UNCHANGED <<saved, expanded, modal>> /\ ids' = g
      /\ ids < MaxIds
  BY DEF ToggleColGroup, MapSec
<1>2. g \in 0 .. MaxIds /\ g \in Nat /\ g # 0 /\ ids <= g /\ ids < g
  BY <1>1, CanvasTyped
<1>3. DOMAIN sections = 1 .. n /\ n \in Nat
  BY CanvasTyped
<1> HIDE DEF g
<1>4. ASSUME NEW i \in DOMAIN sections
      PROVE  /\ sections'[i] \in SectionType /\ sections'[i].id = sections[i].id
             /\ sections'[i].order = sections[i].order
             /\ sections'[i].group = IF sections[i].id \in ch THEN g ELSE sections[i].group
  <2>1. sections[i] \in SectionType
    BY CanvasTyped
  <2>2. sections'[i] = IF sections[i].id \in ch THEN [sections[i] EXCEPT !.group = g]
                       ELSE sections[i]
    BY <1>1
  <2> HIDE DEF ch
  <2>3. QED
    BY <1>2, <2>1, <2>2 DEF SectionType
<1>5. sections' = [i \in 1 .. n |-> sections'[i]]
  BY <1>1, <1>3
<1>6. /\ sections' \in Seq(SectionType) /\ Len(sections') = n /\ DOMAIN sections' = 1 .. n
  <2>1. \A i \in 1 .. n : sections'[i] \in SectionType
    BY <1>3, <1>4
  <2>2. sections' \in [1 .. n -> SectionType]
    BY <1>5, <2>1
  <2>3. QED
    BY <1>3, <2>2
<1>7. \A i \in 1 .. n : /\ sections[i].group # g /\ sections[i].group <= g
                        /\ sections[i].id <= g
  <2> SUFFICES ASSUME NEW i \in 1 .. n
               PROVE  sections[i].group # g /\ sections[i].group <= g /\ sections[i].id <= g
    OBVIOUS
  <2>1. sections[i].group \in Int /\ sections[i].id \in Int
    BY <1>3, CanvasTyped, SectionFields
  <2>2. sections[i].group <= ids /\ sections[i].id <= ids
    BY <1>3, CanvasTyped DEF Sound
  <2>3. ids \in Nat
    BY CanvasTyped
  <2>4. QED
    BY <1>2, <2>1, <2>2, <2>3
<1>8. Sound(sections', g)
  <2>1. \A i, j \in DOMAIN sections' : sections'[i].id = sections'[j].id => i = j
    BY <1>3, <1>4, <1>6, CanvasTyped DEF Sound
  <2>2. \A i \in DOMAIN sections' : sections'[i].id <= g /\ sections'[i].group <= g
    BY <1>2, <1>3, <1>4, <1>6, <1>7
  <2>3. ASSUME NEW i \in DOMAIN sections', NEW j \in DOMAIN sections', NEW k \in DOMAIN sections',
               sections'[i].group # 0, sections'[i].group = sections'[j].group,
               sections'[j].group = sections'[k].group
        PROVE  i = j \/ j = k \/ i = k
    <3>1. i \in DOMAIN sections /\ j \in DOMAIN sections /\ k \in DOMAIN sections
      BY <1>3, <1>6
    <3>2. CASE sections'[i].group = g
      <4>1. sections[i].id \in ch /\ sections[j].id \in ch /\ sections[k].id \in ch
        BY <1>3, <1>4, <1>7, <2>3, <3>1, <3>2
      <4>2. \/ sections[i].id = sections[j].id \/ sections[j].id = sections[k].id
            \/ sections[i].id = sections[k].id
        BY <4>1
      <4>3. QED
        BY <3>1, <4>2, CanvasTyped DEF Sound
    <3>3. CASE sections'[i].group # g
      <4>1. /\ sections'[i].group = sections[i].group /\ sections'[j].group = sections[j].group
            /\ sections'[k].group = sections[k].group
        BY <1>4, <2>3, <3>1, <3>3
      <4>2. /\ sections[i].group # 0
            /\ sections[i].group = sections[j].group /\ sections[j].group = sections[k].group
        BY <2>3, <4>1
      <4>3. Sound(sections, ids)
        BY CanvasTyped
      <4>4. QED
        BY <3>1, <4>2, <4>3 DEF Sound
    <3>4. QED
      BY <3>2, <3>3
  <2>4. Len(sections') <= MaxLive
    BY <1>6, CanvasTyped
  <2>5. QED
    BY <1>6, <2>1, <2>2, <2>3, <2>4 DEF Sound
<1>9. Sound(saved, g)
  BY <1>2, CanvasTyped, SoundMore
<1>10. Ids' = Ids
  BY <1>3, <1>4, <1>6 DEF Ids
<1>11. Ordered'
  <2>1. InPlace(sections) => InPlace(sections')
    BY <1>3, <1>4, <1>6 DEF InPlace
  <2>2. QED
    BY <1>1, <2>1, OrderStep DEF LayoutInv
<1>12. QED
  BY <1>1, <1>2, <1>8, <1>9, <1>10, <1>11, CanvasTyped DEF LayoutInv, Shape, Sound

FieldType == [key : ExtraKeys \cup {CustomKey}, on : BOOLEAN]

LEMMA FieldsStep ==
  ASSUME LayoutInv, Steady, NEW x, NEW h,
         \A i \in DOMAIN sections : sections[i].id = x => h[i] \in Seq(FieldType),
         sections' = [i \in DOMAIN sections |->
                        IF sections[i].id \in {x} THEN [sections[i] EXCEPT !.fields = h[i]]
                        ELSE sections[i]],
         shared' = shared \ {x}, UNCHANGED <<saved, ids, expanded>>,
         modal' \in [asks : {"field", "style"}, of : 1 .. MaxIds] \cup {None}
  PROVE  LayoutInv'
<1>1. ASSUME NEW i \in DOMAIN sections
      PROVE  /\ sections'[i] \in SectionType /\ sections'[i].id = sections[i].id
             /\ sections'[i].order = sections[i].order
             /\ sections'[i].group = sections[i].group
  <2>1. sections[i] \in SectionType
    BY CanvasTyped
  <2>2. CASE sections[i].id = x
    <3>1. PICK fs \in Seq(FieldType) : fs = h[i]
      BY <2>2
    <3>2. sections'[i] = [sections[i] EXCEPT !.fields = fs]
      BY <2>2, <3>1
    <3>3. QED
      BY <2>1, <3>2 DEF SectionType, FieldType
  <2>3. CASE sections[i].id # x
    BY <2>1, <2>3
  <2>4. QED
    BY <2>2, <2>3
<1>2. sections' = [i \in DOMAIN sections |-> sections'[i]]
  OBVIOUS
<1>3. Kept(sections, sections')
  BY <1>1, <1>2, WrittenKept
<1>4. QED
  BY <1>3, CanvasTyped, KeptStep

LEMMA FieldsOf ==
  ASSUME LayoutInv, NEW i \in DOMAIN sections
  PROVE  sections[i].fields \in Seq(FieldType)
<1>1. sections[i] \in SectionType
  BY CanvasTyped
<1>2. QED
  BY <1>1 DEF SectionType, FieldType

LEMMA DragFieldOK ==
  ASSUME LayoutInv, Steady, NEW id \in Ids, NEW from, NEW to, DragField(id, from, to)
  PROVE  LayoutInv'
<1> DEFINE h == [i \in DOMAIN sections |-> Moved(sections[i].fields, from, to)]
<1>1. /\ sections' = [i \in DOMAIN sections |->
                        IF sections[i].id \in {id}
                        THEN [sections[i] EXCEPT !.fields = Moved(@, from, to)]
                        ELSE sections[i]]
      /\ shared' = shared \ {id} /\ UNCHANGED <<saved, ids, expanded, modal>>
      /\ {from, to} \subseteq DOMAIN Get(id).fields
  BY DEF DragField, MapFields, MapSec
<1>2. sections' = [i \in DOMAIN sections |->
                     IF sections[i].id \in {id} THEN [sections[i] EXCEPT !.fields = h[i]]
                     ELSE sections[i]]
  BY <1>1
<1>3. ASSUME NEW i \in DOMAIN sections, sections[i].id = id PROVE h[i] \in Seq(FieldType)
  <2>1. Get(id) = sections[i]
    BY <1>3, CanvasTyped, NamedIs DEF Get
  <2>2. PICK fs \in Seq(FieldType) : fs = sections[i].fields
    BY FieldsOf
  <2>3. from \in 1 .. Len(fs) /\ to \in 1 .. Len(fs)
    BY <1>1, <2>1, <2>2
  <2>4. Moved(fs, from, to) \in Seq(FieldType)
    BY <2>3, MovedAt
  <2>5. QED
    BY <2>2, <2>4
<1> HIDE DEF h
<1>4. QED
  BY <1>1, <1>2, <1>3, CanvasTyped, FieldsStep

LEMMA ToggleFieldOK ==
  ASSUME LayoutInv, Steady, NEW id \in Ids, NEW key, ToggleField(id, key)
  PROVE  LayoutInv'
<1> DEFINE F(fs) == [i \in DOMAIN fs |->
                       IF fs[i].key = key THEN [fs[i] EXCEPT !.on = ~@] ELSE fs[i]]
           h == [i \in DOMAIN sections |-> F(sections[i].fields)]
<1>1. /\ sections' = [i \in DOMAIN sections |->
                        IF sections[i].id \in {id} THEN [sections[i] EXCEPT !.fields = F(@)]
                        ELSE sections[i]]
      /\ shared' = shared \ {id} /\ UNCHANGED <<saved, ids, expanded, modal>>
  BY DEF ToggleField, MapFields, MapSec
<1>2. sections' = [i \in DOMAIN sections |->
                     IF sections[i].id \in {id} THEN [sections[i] EXCEPT !.fields = h[i]]
                     ELSE sections[i]]
  <2> HIDE DEF F
  <2>1. QED
    BY <1>1
<1>3. ASSUME NEW i \in DOMAIN sections PROVE h[i] \in Seq(FieldType)
  <2>1. PICK fs \in Seq(FieldType) : fs = sections[i].fields
    BY FieldsOf
  <2>2. ASSUME NEW k \in 1 .. Len(fs) PROVE F(fs)[k] \in FieldType
    <3>1. fs[k] \in FieldType
      OBVIOUS
    <3>2. [fs[k] EXCEPT !.on = ~@] \in FieldType
      BY <3>1 DEF FieldType
    <3>3. QED
      BY <3>1, <3>2
  <2>3. F(fs) \in Seq(FieldType)
    <3>1. F(fs) = [k \in 1 .. Len(fs) |-> F(fs)[k]]
      OBVIOUS
    <3> HIDE DEF F
    <3>2. F(fs) \in [1 .. Len(fs) -> FieldType]
      BY <2>2, <3>1
    <3>3. Len(fs) \in Nat
      OBVIOUS
    <3>4. QED
      BY <3>2, <3>3
  <2> HIDE DEF F
  <2>4. QED
    BY <2>1, <2>3
<1> HIDE DEF h
<1>4. QED
  BY <1>1, <1>2, <1>3, CanvasTyped, FieldsStep

\* A list without the fields of a key is a list of fields.
LEMMA WithoutTyped ==
  ASSUME NEW fs \in Seq(FieldType), NEW key
  PROVE  Without(fs, key) \in Seq(FieldType)
<1> DEFINE S == {i \in DOMAIN fs : fs[i].key # key}
           R == {p \in (DOMAIN fs) \X (DOMAIN fs) : p[1] < p[2]}
           n == Len(fs)
<1>1. n \in Nat /\ DOMAIN fs = 1 .. n
  OBVIOUS
<1>2. \A x, y \in 1 .. n : <<x, y>> \in R <=> x < y
  BY <1>1
<1>3. S \in SUBSET (1 .. n)
  BY <1>1
<1> HIDE DEF R
<1>4. StrictOrder(1 .. n, R)
  <2>1. \A x \in 1 .. n : <<x, x>> \notin R
    BY <1>1, <1>2
  <2>2. \A x, y, z \in 1 .. n : <<x, y>> \in R /\ <<y, z>> \in R => <<x, z>> \in R
    BY <1>1, <1>2
  <2>3. \A x, y \in 1 .. n : x # y => <<x, y>> \in R \/ <<y, x>> \in R
    BY <1>1, <1>2
  <2>4. QED
    BY <2>1, <2>2, <2>3 DEF StrictOrder
<1>5. IsFiniteSet(1 .. n)
  BY <1>1, FS_Interval
<1> HIDE DEF S
<1>6. IsFiniteSet(S) /\ StrictOrder(S, R)
  BY <1>3, <1>4, <1>5, FS_Subset, OrderOfPart
<1>7. /\ Cardinality(S) \in Nat /\ DOMAIN Listed(S, R) = 1 .. Cardinality(S)
      /\ \A k \in 1 .. Cardinality(S) : Listed(S, R)[k] \in S
  BY <1>6, ListedOnce
<1>8. Without(fs, key) = [k \in 1 .. Cardinality(S) |-> fs[Listed(S, R)[k]]]
  BY <1>7 DEF Without, S, R
<1>9. \A k \in 1 .. Cardinality(S) : fs[Listed(S, R)[k]] \in FieldType
  <2>1. \A j \in 1 .. n : fs[j] \in FieldType
    BY <1>1
  <2>2. QED
    BY <1>3, <1>7, <2>1
<1>10. QED
  BY <1>7, <1>8, <1>9

LEMMA RemoveFieldOK ==
  ASSUME LayoutInv, Steady, NEW id \in Ids, NEW key, RemoveField(id, key)
  PROVE  LayoutInv'
<1> DEFINE h == [i \in DOMAIN sections |-> Without(sections[i].fields, key)]
<1>1. /\ sections' = [i \in DOMAIN sections |->
                        IF sections[i].id \in {id}
                        THEN [sections[i] EXCEPT !.fields = Without(@, key)]
                        ELSE sections[i]]
      /\ shared' = shared \ {id} /\ UNCHANGED <<saved, ids, expanded, modal>>
  BY DEF RemoveField, MapFields, MapSec
<1>2. sections' = [i \in DOMAIN sections |->
                     IF sections[i].id \in {id} THEN [sections[i] EXCEPT !.fields = h[i]]
                     ELSE sections[i]]
  BY <1>1
<1>3. ASSUME NEW i \in DOMAIN sections PROVE h[i] \in Seq(FieldType)
  BY FieldsOf, WithoutTyped
<1> HIDE DEF h
<1>4. QED
  BY <1>1, <1>2, <1>3, CanvasTyped, FieldsStep

LEMMA AskFieldOK ==
  ASSUME LayoutInv, Steady, NEW id \in Ids, AskField(id)
  PROVE  LayoutInv'
<1>1. UNCHANGED <<sections, saved, shared, ids, expanded>>
      /\ modal' = [asks |-> "field", of |-> id]
  BY DEF AskField
<1>2. id \in 1 .. MaxIds
  BY CanvasTyped
<1>3. QED
  BY <1>1, <1>2, CanvasTyped, SameStep

LEMMA AddFieldToOK ==
  ASSUME LayoutInv, Steady, NEW key \in ExtraKeys \cup {CustomKey}, AddFieldTo(key)
  PROVE  LayoutInv'
<1> DEFINE f == [key |-> key, on |-> TRUE]
           h == [i \in DOMAIN sections |-> Append(sections[i].fields, f)]
<1>1. /\ sections' = [i \in DOMAIN sections |->
                        IF sections[i].id \in {modal.of}
                        THEN [sections[i] EXCEPT !.fields = Append(@, f)]
                        ELSE sections[i]]
      /\ shared' = shared \ {modal.of} /\ UNCHANGED <<saved, ids, expanded>> /\ modal' = None
  BY DEF AddFieldTo, MapFields, MapSec
<1>2. sections' = [i \in DOMAIN sections |->
                     IF sections[i].id \in {modal.of} THEN [sections[i] EXCEPT !.fields = h[i]]
                     ELSE sections[i]]
  BY <1>1
<1>3. f \in FieldType
  BY DEF FieldType
<1> HIDE DEF f
<1>4. ASSUME NEW i \in DOMAIN sections PROVE h[i] \in Seq(FieldType)
  BY <1>3, FieldsOf
<1> HIDE DEF h
<1>5. QED
  BY <1>1, <1>2, <1>4, FieldsStep

LEMMA AskStyleOK ==
  ASSUME LayoutInv, Steady, NEW id \in Ids, AskStyle(id)
  PROVE  LayoutInv'
<1>1. UNCHANGED <<sections, saved, shared, ids, expanded>>
      /\ modal' = [asks |-> "style", of |-> id]
  BY DEF AskStyle
<1>2. id \in 1 .. MaxIds
  BY CanvasTyped
<1>3. QED
  BY <1>1, <1>2, CanvasTyped, SameStep

LEMMA UpdateSecStyleOK ==
  ASSUME LayoutInv, Steady, NEW key \in StyleKeys, NEW changed \in BOOLEAN,
         UpdateSecStyle(key, changed)
  PROVE  LayoutInv'
<1> PICK x : x = modal.of
  OBVIOUS
<1>1. /\ sections' = [i \in DOMAIN sections |->
                        IF sections[i].id \in {x}
                        THEN [sections[i] EXCEPT !.style[key] = changed] ELSE sections[i]]
      /\ shared' = shared \ {x} /\ UNCHANGED <<saved, ids, expanded, modal>>
  BY DEF UpdateSecStyle, MapSec
<1>2. ASSUME NEW i \in DOMAIN sections
      PROVE  /\ sections'[i] \in SectionType /\ sections'[i].id = sections[i].id
             /\ sections'[i].order = sections[i].order
             /\ sections'[i].group = sections[i].group
  <2>1. sections[i] \in SectionType
    BY CanvasTyped
  <2>2. sections'[i] = sections[i]
        \/ sections'[i] = [sections[i] EXCEPT !.style = [@ EXCEPT ![key] = changed]]
    BY <1>1
  <2>3. [sections[i].style EXCEPT ![key] = changed] \in [StyleKeys -> BOOLEAN]
    BY <2>1 DEF SectionType
  <2>4. QED
    BY <2>1, <2>2, <2>3 DEF SectionType
<1>3. sections' = [i \in DOMAIN sections |-> sections'[i]]
  BY <1>1
<1>4. Kept(sections, sections')
  BY <1>2, <1>3, WrittenKept
<1>5. QED
  BY <1>1, <1>4, CanvasTyped, KeptStep

LEMMA CloseModalOK ==
  ASSUME LayoutInv, Steady, CloseModal
  PROVE  LayoutInv'
BY CanvasTyped, SameStep DEF CloseModal

LEMMA PickTemplateOK ==
  ASSUME LayoutInv, Steady, PickTemplate
  PROVE  LayoutInv'
<1>1. /\ sections' = saved /\ shared' = {saved[i].id : i \in DOMAIN saved} /\ expanded' = None
      /\ UNCHANGED <<saved, ids, modal>>
  BY DEF PickTemplate
<1>2. shared' \subseteq Ids'
  BY <1>1 DEF Ids
<1>3. Ordered'
  BY OrderStep DEF LayoutInv
<1>4. QED
  BY <1>1, <1>2, <1>3, CanvasTyped DEF LayoutInv, Shape, Sound

LEMMA HandleSaveOK ==
  ASSUME LayoutInv, Steady, HandleSave
  PROVE  LayoutInv'
<1>1. /\ saved' = sections /\ shared' = {} /\ UNCHANGED <<sections, ids, expanded, modal>>
  BY DEF HandleSave
<1>2. Ordered'
  BY OrderStep DEF LayoutInv
<1>3. QED
  BY <1>1, <1>2, CanvasTyped DEF LayoutInv, Shape, Sound

LEMMA MovedSections ==
  ASSUME LayoutInv, NEW from \in DOMAIN sections, NEW to \in DOMAIN sections
  PROVE  /\ Moved(sections, from, to) \in Seq(SectionType)
         /\ Len(Moved(sections, from, to)) = Len(sections)
         /\ DOMAIN Moved(sections, from, to) = 1 .. Len(sections)
         /\ \A k \in 1 .. Len(sections) :
              Moved(sections, from, to)[k] = sections[Source(from, to, k)]
<1>1. sections \in Seq(SectionType) /\ from \in 1 .. Len(sections) /\ to \in 1 .. Len(sections)
  BY CanvasTyped
<1>2. /\ Moved(sections, from, to) \in Seq(SectionType)
      /\ Len(Moved(sections, from, to)) = Len(sections)
      /\ \A k \in 1 .. Len(sections) :
           Moved(sections, from, to)[k] = sections[Source(from, to, k)]
  BY <1>1, MovedAt
<1>3. QED
  BY <1>2

LEMMA ReorderedSound ==
  ASSUME NEW n, 0 <= n, NEW s, Sound(s, n), NEW t \in Seq(SectionType), Len(t) = Len(s),
         \A i \in 1 .. Len(s) : t[i].id = s[i].id,
         \A i \in 1 .. Len(s) : t[i].group = s[i].group
  PROVE  Sound(t, n)
<1> DEFINE m == [k \in 1 .. Len(t) |-> k]
<1>1. /\ m \in [1 .. Len(t) -> 1 .. Len(s)]
      /\ \A k, l \in 1 .. Len(t) : m[k] = m[l] => k = l
      /\ \A k \in 1 .. Len(t) : m[k] = k
  OBVIOUS
<1> HIDE DEF m
<1>2. \A k \in 1 .. Len(t) : /\ t[k].id = s[m[k]].id
                             /\ t[k].group = s[m[k]].group \/ t[k].group = 0
  BY <1>1
<1>3. Len(t) <= MaxLive
  BY DEF Sound
<1>4. QED
  BY <1>1, <1>2, <1>3, SoundPart

LEMMA DragResult ==
  ASSUME LayoutInv, NEW from \in DOMAIN sections, NEW to \in DOMAIN sections,
         DragSection(from, to)
  PROVE  /\ sections' \in Seq(SectionType) /\ Len(sections') = Len(sections)
         /\ DOMAIN sections' = 1 .. Len(sections)
         /\ \A k \in 1 .. Len(sections) :
              /\ sections'[k] \in SectionType
              /\ sections'[k].id = sections[Source(from, to, k)].id
              /\ sections'[k].order = k - 1
              /\ sections'[k].group = sections[Source(from, to, k)].group
<1> DEFINE mv == Moved(sections, from, to)
<1> PICK n \in Nat : n = Len(sections)
  BY CanvasTyped
<1>1. sections' = [i \in DOMAIN mv |-> [mv[i] EXCEPT !.order = i - 1]]
  BY DEF DragSection
<1>2. /\ mv \in Seq(SectionType) /\ DOMAIN mv = 1 .. n
      /\ \A k \in 1 .. n : mv[k] = sections[Source(from, to, k)]
  BY MovedSections
<1>3. n <= MaxLive /\ MaxLive \in Nat
  BY CanvasTyped
<1> HIDE DEF mv
<1>4. ASSUME NEW k \in 1 .. n
      PROVE  /\ sections'[k] \in SectionType /\ sections'[k].id = mv[k].id
             /\ sections'[k].order = k - 1 /\ sections'[k].group = mv[k].group
  <2>1. mv[k] \in SectionType /\ k - 1 \in 0 .. MaxLive
    BY <1>2, <1>3
  <2>2. sections'[k] = [mv[k] EXCEPT !.order = k - 1]
    BY <1>1, <1>2
  <2>3. QED
    BY <2>1, <2>2 DEF SectionType
<1>5. sections' \in Seq(SectionType) /\ Len(sections') = n /\ DOMAIN sections' = 1 .. n
  <2>1. sections' = [k \in 1 .. n |-> sections'[k]]
    BY <1>1, <1>2
  <2>2. sections' \in [1 .. n -> SectionType]
    BY <1>4, <2>1
  <2>3. QED
    BY <2>2
<1>6. QED
  BY <1>2, <1>4, <1>5

LEMMA DragSectionOK ==
  ASSUME LayoutInv, Steady, NEW from \in DOMAIN sections, NEW to \in DOMAIN sections,
         DragSection(from, to)
  PROVE  LayoutInv'
<1> PICK n \in Nat : n = Len(sections)
  BY CanvasTyped
<1> DEFINE mv == Moved(sections, from, to)
           Rank(id) == (CHOOSE i \in DOMAIN mv : mv[i].id = id) - 1
<1>1. /\ sections' = [i \in DOMAIN mv |-> [mv[i] EXCEPT !.order = i - 1]]
      /\ saved' = [j \in DOMAIN saved |->
                     IF saved[j].id \in shared
                     THEN [saved[j] EXCEPT !.order = Rank(saved[j].id)] ELSE saved[j]]
      /\ UNCHANGED <<shared, ids, expanded, modal>>
  BY DEF DragSection
<1>2. /\ mv \in Seq(SectionType) /\ Len(mv) = n /\ DOMAIN mv = 1 .. n
      /\ \A k \in 1 .. n : mv[k] = sections[Source(from, to, k)]
  BY MovedSections
<1>3. /\ n \in Nat /\ n <= MaxLive /\ MaxLive \in Nat /\ DOMAIN sections = 1 .. n
      /\ from \in 1 .. n /\ to \in 1 .. n
  BY CanvasTyped
<1>4. /\ \A k \in 1 .. n : Source(from, to, k) \in 1 .. n
      /\ \A k, l \in 1 .. n : Source(from, to, k) = Source(from, to, l) => k = l
      /\ \A j \in 1 .. n : \E k \in 1 .. n : Source(from, to, k) = j
  <2>1. n \in Nat /\ from \in 1 .. n /\ to \in 1 .. n
    BY <1>3
  <2>2. \A k \in 1 .. n : Source(from, to, k) \in 1 .. n
    BY <2>1, SourceIn
  <2>3. \A k, l \in 1 .. n : Source(from, to, k) = Source(from, to, l) => k = l
    BY <2>1, SourceOnce
  <2>4. \A j \in 1 .. n : \E k \in 1 .. n : Source(from, to, k) = j
    BY <2>1, SourceOnto
  <2>5. QED
    BY <2>2, <2>3, <2>4
<1> HIDE DEF mv
<1>5. \A k \in 1 .. n : /\ sections'[k] \in SectionType /\ sections'[k].id = mv[k].id
                         /\ sections'[k].order = k - 1 /\ sections'[k].group = mv[k].group
  BY <1>2, DragResult
<1>6. sections' \in Seq(SectionType) /\ Len(sections') = n /\ DOMAIN sections' = 1 .. n
  BY DragResult
<1>7. Sound(sections', ids)
  <2> DEFINE m == [k \in 1 .. n |-> Source(from, to, k)]
  <2> PICK t \in Seq(SectionType) : t = sections'
    BY <1>6
  <2>0. \A k \in 1 .. n : m[k] = Source(from, to, k)
    OBVIOUS
  <2>1. Len(t) = n /\ Len(t) <= MaxLive
    BY <1>3, <1>6
  <2>2. m \in [1 .. Len(t) -> 1 .. Len(sections)]
    BY <1>4, <2>1
  <2> HIDE DEF m
  <2>3. ASSUME NEW k \in 1 .. Len(t), NEW l \in 1 .. Len(t), m[k] = m[l] PROVE k = l
    BY <1>4, <2>0, <2>1, <2>3
  <2>4. \A k \in 1 .. Len(t) : t[k].id = sections[m[k]].id
    BY <1>2, <1>5, <2>0, <2>1
  <2>5. \A k \in 1 .. Len(t) : t[k].group = sections[m[k]].group \/ t[k].group = 0
    BY <1>2, <1>5, <2>0, <2>1
  <2>6. 0 <= ids /\ Sound(sections, ids)
    BY CanvasTyped
  <2>7. Sound(t, ids)
    BY ONLY t \in Seq(SectionType), <2>1, <2>2, <2>3, <2>4, <2>5, <2>6, SoundPart
  <2>8. QED
    BY <2>7
<1>8. Ids' = Ids
  <2>1. \A k \in 1 .. n : sections'[k].id = sections[Source(from, to, k)].id
    BY <1>2, <1>5
  <2>2. ASSUME NEW k \in 1 .. n PROVE sections'[k].id \in Ids
    <3>1. Source(from, to, k) \in 1 .. n
      BY <1>4
    <3>2. QED
      BY <1>3, <2>1, <3>1 DEF Ids
  <2>3. ASSUME NEW j \in 1 .. n PROVE sections[j].id \in Ids'
    <3>1. PICK k \in 1 .. n : Source(from, to, k) = j
      BY <1>4
    <3>2. QED
      BY <1>6, <2>1, <3>1 DEF Ids
  <2>4. QED
    BY <1>3, <1>6, <2>2, <2>3 DEF Ids
<1>9. ASSUME NEW id \in shared PROVE Rank(id) \in 0 .. MaxLive
  <2>1. PICK j \in 1 .. n : sections[j].id = id
    BY <1>3, CanvasTyped DEF Ids
  <2>2. \E i \in DOMAIN mv : mv[i].id = id
    BY <1>2, <1>4, <2>1
  <2>3. PICK c \in 1 .. n : c = CHOOSE i \in DOMAIN mv : mv[i].id = id
    BY <1>2, <2>2
  <2>4. QED
    BY <1>3, <2>3
<1> HIDE DEF Rank
<1>10. Sound(saved', ids)
  <2>1. ASSUME NEW j \in DOMAIN saved
        PROVE  /\ saved'[j] \in SectionType /\ saved'[j].id = saved[j].id
               /\ saved'[j].group = saved[j].group
    <3>1. saved[j] \in SectionType
      BY CanvasTyped
    <3>2. CASE saved[j].id \in shared
      <4>1. PICK r \in 0 .. MaxLive : r = Rank(saved[j].id)
        BY <1>9, <3>2
      <4>2. saved'[j] = [saved[j] EXCEPT !.order = r]
        BY <1>1, <3>2, <4>1
      <4>3. QED
        BY <3>1, <4>2 DEF SectionType
    <3>3. CASE saved[j].id \notin shared
      BY <1>1, <3>1, <3>3
    <3>4. QED
      BY <3>2, <3>3
  <2>2. DOMAIN saved = 1 .. Len(saved) /\ Len(saved) \in Nat
    BY CanvasTyped
  <2>3. saved' = [j \in 1 .. Len(saved) |-> saved'[j]]
    BY <1>1, <2>2
  <2>4. saved' \in [1 .. Len(saved) -> SectionType]
    BY <2>1, <2>2, <2>3
  <2>5. saved' \in Seq(SectionType) /\ Len(saved') = Len(saved)
    BY <2>2, <2>4
  <2>6. PICK t \in Seq(SectionType) : t = saved'
    BY <2>5
  <2>7. /\ Len(t) = Len(saved)
        /\ \A i \in 1 .. Len(saved) : t[i].id = saved[i].id
        /\ \A i \in 1 .. Len(saved) : t[i].group = saved[i].group
    BY <2>1, <2>2, <2>5, <2>6
  <2>8. Sound(t, ids)
    BY <2>7, CanvasTyped, ReorderedSound
  <2>9. QED
    BY <2>6, <2>8
<1>12. Drags /\ InPlace(sections')
  BY <1>5, <1>6 DEF Drags, InPlace
<1>13. Ordered'
  BY <1>12, OrderStep DEF LayoutInv
<1>14. /\ shared' \subseteq Ids' /\ ids' \in 0 .. MaxIds
       /\ expanded' \in 1 .. MaxIds \cup {None}
       /\ modal' \in [asks : {"field", "style"}, of : 1 .. MaxIds] \cup {None}
  BY <1>1, <1>8, CanvasTyped
<1>15. Sound(sections', ids') /\ Sound(saved', ids')
  BY <1>1, <1>7, <1>10
<1>16. QED
  BY <1>13, <1>14, <1>15 DEF LayoutInv, Shape, Sound

LEMMA CanvasStepOK ==
  ASSUME LayoutInv, CanvasNext, 1 \in Base
  PROVE  LayoutInv'
<1>1. Steady /\ CanvasStep
  BY DEF CanvasNext
<1>2. ASSUME Drags PROVE LayoutInv'
  BY <1>1, <1>2, DragSectionOK DEF Drags
<1>3. ASSUME Removes PROVE LayoutInv'
  BY <1>1, <1>3, RemoveSectionOK DEF Removes
<1>4. ASSUME NEW type \in {"info", "table", "note"}, AddSection(type) PROVE LayoutInv'
  BY <1>1, <1>4, AddSectionOK
<1>5. ASSUME Pairing PROVE LayoutInv'
  <2>1. Ids \subseteq 1 .. MaxIds
    BY CanvasTyped
  <2>2. QED
    BY <1>1, <1>5, <2>1, ExpandOK, UngroupOK, ToggleColGroupOK DEF Pairing
<1>6. ASSUME FieldEdits PROVE LayoutInv'
  <2>1. ASSUME NEW key \in ExtraKeys, AddExtraField(key) PROVE LayoutInv'
    BY <1>1, <2>1, AddFieldToOK DEF AddExtraField
  <2>2. ASSUME NEW key \in ExtraKeys \cup {CustomKey}, AddCustomField(key) PROVE LayoutInv'
    BY <1>1, <2>2, AddFieldToOK DEF AddCustomField
  <2>3. ASSUME NEW id \in Ids, NEW key \in FieldKeys(id),
               ToggleField(id, key) \/ RemoveField(id, key)
        PROVE  LayoutInv'
    BY <1>1, <2>3, ToggleFieldOK, RemoveFieldOK
  <2>4. ASSUME NEW id \in Ids, NEW from \in 1 .. MaxFields, NEW to \in 1 .. MaxFields,
               DragField(id, from, to)
        PROVE  LayoutInv'
    BY <1>1, <2>4, DragFieldOK
  <2>5. ASSUME NEW id \in Ids, AskField(id) PROVE LayoutInv'
    BY <1>1, <2>5, AskFieldOK
  <2>6. QED
    BY <1>6, <2>1, <2>2, <2>3, <2>4, <2>5 DEF FieldEdits
<1>7. ASSUME StyleEdits PROVE LayoutInv'
  <2>1. ASSUME ResetStyle PROVE LayoutInv'
    <3>1. PICK type : type = Get(modal.of).type
      OBVIOUS
    <3>2. UpdateSecStyle(LastReset(type), FALSE)
      BY <2>1, <3>1 DEF ResetStyle
    <3>3. LastReset(type) \in StyleKeys
      BY DEF LastReset, StyleKeys
    <3>4. QED
      BY <1>1, <3>2, <3>3, UpdateSecStyleOK
  <2>2. QED
    BY <1>1, <1>7, <2>1, AskStyleOK, UpdateSecStyleOK DEF StyleEdits
<1>8. ASSUME PickTemplate \/ HandleSave \/ CloseModal PROVE LayoutInv'
  BY <1>1, <1>8, PickTemplateOK, HandleSaveOK, CloseModalOK
<1>9. CASE /\ at = "sections"
           /\ \/ PickTemplate \/ HandleSave \/ SetSecLabel(1) \/ Drags \/ Removes
              \/ AddSection("info")
  BY <1>1, <1>2, <1>3, <1>4, <1>8, <1>9, SetSecLabelOK
<1>10. CASE /\ at = "groups"
            /\ \/ Pairing \/ PickTemplate \/ HandleSave \/ Removes
               \/ \E id \in Ids : ToggleSection(id)
               \/ \E type \in CustomTypes : AddSection(type)
            /\ Len(sections') <= 3
  <2>1. CustomTypes \subseteq {"info", "table", "note"}
    BY LayoutAssumption
  <2>2. QED
    BY <1>1, <1>3, <1>4, <1>5, <1>8, <1>10, <2>1, ToggleSectionOK
<1>11. CASE at = "fields" /\ (FieldEdits \/ CloseModal \/ Expand(1))
  <2>1. 1 \in 1 .. MaxIds
    BY LayoutAssumption DEF Base
  <2>2. QED
    BY <1>1, <1>6, <1>8, <1>11, <2>1, ExpandOK
<1>12. CASE at = "style" /\ (StyleEdits \/ CloseModal)
  BY <1>7, <1>8, <1>12
<1>13. QED
  BY <1>1, <1>9, <1>10, <1>11, <1>12 DEF CanvasStep

LEMMA CanvasIdle ==
  ASSUME LayoutInv, UNCHANGED <<sections, saved, shared, ids, expanded, modal, steady>>
  PROVE  LayoutInv'
<1>1. Ids' = Ids
  BY DEF Ids
<1>2. QED
  BY <1>1 DEF LayoutInv, Shape, Ordered

LEMMA CanvasStart ==
  ASSUME Init, steady = "ordered"
  PROVE  LayoutInv
<1>0. BaseTypes \in Seq({"info", "table", "note"})
  BY LayoutAssumption
<1> PICK n \in Nat : n = Len(BaseTypes)
  BY <1>0
<1>1. /\ n <= MaxIds /\ n <= MaxLive /\ MaxIds \in Nat /\ MaxLive \in Nat
      /\ \A i \in 1 .. n : BaseTypes[i] \in {"info", "table", "note"}
  <2>1. n <= MaxIds /\ n <= MaxLive
    BY LayoutAssumption
  <2>2. MaxIds \in Nat /\ MaxLive \in Nat
    BY LayoutAssumption
  <2>3. \A i \in 1 .. n : BaseTypes[i] \in {"info", "table", "note"}
    BY <1>0
  <2>4. QED
    BY <2>1, <2>2, <2>3
<1>2. /\ sections = [i \in 1 .. n |-> NewSection(i, BaseTypes[i], i - 1)]
      /\ saved = sections /\ shared = 1 .. n /\ ids = n /\ expanded = None /\ modal = None
  BY DEF Init, Base
<1>3. ASSUME NEW i \in 1 .. n
      PROVE  /\ sections[i] \in SectionType /\ sections[i].id = i /\ sections[i].order = i - 1
             /\ sections[i].group = 0
  <2>1. PICK type \in {"info", "table", "note"} : type = BaseTypes[i]
    BY <1>1
  <2>2. sections[i] = NewSection(i, type, i - 1)
    BY <1>2, <2>1
  <2>3. i \in 1 .. MaxIds /\ i - 1 \in 0 .. MaxLive
    <3>1. n <= MaxIds /\ n <= MaxLive /\ MaxIds \in Nat /\ MaxLive \in Nat
      BY <1>1
    <3>2. QED
      BY <3>1
  <2>4. QED
    BY <2>2, <2>3, NewSectionTyped
<1>4. sections \in Seq(SectionType) /\ Len(sections) = n /\ DOMAIN sections = 1 .. n
  <2>1. sections \in [1 .. n -> SectionType]
    BY <1>2, <1>3
  <2>2. QED
    BY <1>1, <2>1
<1>5. Sound(sections, n)
  BY <1>1, <1>3, <1>4 DEF Sound
<1>6. InPlace(sections)
  BY <1>3, <1>4 DEF InPlace
<1>7. shared \subseteq Ids
  BY <1>2, <1>3, <1>4 DEF Ids
<1>8. QED
  BY <1>1, <1>2, <1>5, <1>6, <1>7 DEF LayoutInv, Shape, Ordered

LEMMA CanvasProperties ==
  ASSUME LayoutInv
  PROVE  TypeOK /\ GroupsArePairs
<1>1. IsInjective([i \in DOMAIN sections |-> sections[i].id])
  BY DEF IsInjective, LayoutInv, Shape, Sound
<1>2. QED
  BY <1>1, CanvasTyped DEF TypeOK, GroupsArePairs, Sound

-----------------------------------------------------------------------------
LEMMA MovedItem ==
  ASSUME NEW S, NEW s \in Seq(S), NEW from \in 1 .. Len(s), NEW to \in 1 .. Len(s),
         NEW k \in 1 .. Len(s)
  PROVE  Moved(s, from, to)[k] = s[Source(from, to, k)]
BY MovedAt

LEMMA DragShown ==
  ASSUME LayoutInv, steady # "off"
  PROVE  DragMovesShown
<1> DEFINE IdsShown(secs) == [k \in DOMAIN secs |-> secs[SortedOf(secs)[k]].id]
<1>1. InPlace(sections)
  BY DEF LayoutInv, Ordered
<1>2. ASSUME NEW from \in DOMAIN sections, NEW to \in DOMAIN sections, DragSection(from, to)
      PROVE  IdsShown(sections') = Moved(IdsShown(sections), from, to)
  <2> PICK n \in Nat : n = Len(sections)
    BY CanvasTyped
  <2>1. DOMAIN sections = 1 .. n /\ from \in 1 .. n /\ to \in 1 .. n
    BY CanvasTyped
  <2>2. /\ DOMAIN sections' = 1 .. n
        /\ \A k \in 1 .. n : /\ sections'[k].id = sections[Source(from, to, k)].id
                             /\ sections'[k].order = k - 1
    BY <1>2, DragResult
  <2>3. InPlace(sections')
    BY <2>2 DEF InPlace
  <2>4. \A k \in 1 .. n : SortedOf(sections)[k] = k
    BY <1>1, <2>1, InPlaceShown
  <2>5. \A k \in 1 .. n : SortedOf(sections')[k] = k
    BY <2>2, <2>3, InPlaceShown
  <2>6. \A k \in 1 .. n : sections[k].id \in Int /\ Source(from, to, k) \in 1 .. n
    BY <2>1, CanvasTyped, SectionFields, SourceIn
  <2>7. [k \in 1 .. n |-> sections[k].id] \in Seq(Int)
    BY <2>6
  <2>8. PICK u \in Seq(Int) : u = [k \in 1 .. n |-> sections[k].id]
    BY <2>7
  <2>9. u \in Seq(Int) /\ Len(u) = n /\ \A k \in 1 .. n : u[k] = sections[k].id
    BY <2>8
  <2>10. from \in 1 .. Len(u) /\ to \in 1 .. Len(u)
    BY <2>1, <2>9
  <2>11. PICK w \in Seq(Int) : w = Moved(u, from, to)
    BY <2>9, <2>10, MovedAt
  <2>12. Len(w) = n
    BY <2>9, <2>10, <2>11, MovedAt
  <2>13. ASSUME NEW k \in 1 .. n PROVE w[k] = sections'[k].id
    <3>1. w[k] = u[Source(from, to, k)]
      BY <2>9, <2>10, <2>11, MovedItem
    <3>2. QED
      BY <2>2, <2>6, <2>9, <3>1
  <2>14. w = [k \in 1 .. n |-> sections'[k].id]
    BY <2>12, <2>13
  <2>15. IdsShown(sections) = u
    BY <2>1, <2>4, <2>8
  <2>16. IdsShown(sections') = w
    BY <2>2, <2>5, <2>14
  <2>17. QED
    BY <2>11, <2>15, <2>16
<1>3. QED
  BY <1>2 DEF DragMovesShown

-----------------------------------------------------------------------------
(***************************************************************************)
(* The preview.                                                            *)
(***************************************************************************)
LEMMA EnabledOnce ==
  ASSUME LayoutInv
  PROVE  /\ Len(Enabled) \in Nat /\ DOMAIN Enabled = 1 .. Len(Enabled)
         /\ \A k \in 1 .. Len(Enabled) : Enabled[k] \in On
         /\ \A i \in On : \E k \in 1 .. Len(Enabled) : Enabled[k] = i
<1> DEFINE m == Cardinality(On)
           R == Precedes(sections)
<1> PICK n \in Nat : n = Len(sections)
  BY CanvasTyped
<1>1. DOMAIN sections = 1 .. n /\ On \in SUBSET (1 .. n)
  BY CanvasTyped DEF On
<1>2. \A i \in 1 .. n : sections[i].order \in Int
  BY <1>1, CanvasTyped, SectionFields
<1>3. StrictOrder(1 .. n, R)
  BY <1>1, <1>2, PrecedesOrder
<1>4. StrictOrder(On, R)
  BY <1>1, <1>3, OrderOfPart
<1>5. IsFiniteSet(On)
  <2>1. IsFiniteSet(1 .. n)
    BY FS_Interval
  <2>2. QED
    BY <1>1, <2>1, FS_Subset
<1> HIDE DEF R
<1>6. /\ m \in Nat /\ DOMAIN Listed(On, R) = 1 .. m /\ Len(Listed(On, R)) = m
      /\ \A k \in 1 .. m : Listed(On, R)[k] \in On
      /\ \A x \in On : /\ Cardinality(Below(On, R, x)) + 1 \in 1 .. m
                       /\ Listed(On, R)[Cardinality(Below(On, R, x)) + 1] = x
  BY <1>4, <1>5, ListedOnce
<1>7. Enabled = Listed(On, R)
  BY DEF Enabled, R
<1>8. QED
  BY <1>6, <1>7

\* What Placed stands for.
Start == [rows |-> <<>>, used |-> {}]
Fills(f, j) == f = [k \in 0 .. j |-> IF k = 0 THEN Start ELSE Place(f[k - 1], Enabled[k])]

LEMMA PlacedUpTo ==
  ASSUME NEW n \in Nat
  PROVE  \E f : Fills(f, n)
<1> SUFFICES ASSUME ~\E f : Fills(f, n) PROVE FALSE
  OBVIOUS
<1> DEFINE Bad == {j \in Nat : ~\E f : Fills(f, j)}
<1>1. Bad \subseteq Nat /\ Bad # {}
  OBVIOUS
<1>2. PICK j \in Bad : \A y \in Bad : ~ (<<y, j>> \in OpToRel(<, Nat))
  <2> HIDE DEF Bad
  <2>1. QED
    BY <1>1, NatLessThanWellFounded, WFMin
<1>3. j \in Nat /\ ~\E f : Fills(f, j)
  OBVIOUS
<1>4. CASE j = 0
  <2>1. Fills([k \in 0 .. 0 |-> Start], 0)
    BY DEF Fills
  <2>2. QED
    BY <1>3, <1>4, <2>1
<1>5. CASE j # 0
  <2>1. j - 1 \in Nat /\ j - 1 < j
    BY <1>3, <1>5
  <2>2. j - 1 \notin Bad
    BY <1>2, <2>1 DEF OpToRel
  <2>3. PICK f : Fills(f, j - 1)
    BY <2>1, <2>2
  <2>4. /\ \A k \in 0 .. j - 1 : f[k] = IF k = 0 THEN Start ELSE Place(f[k - 1], Enabled[k])
    BY <2>3 DEF Fills
  <2> DEFINE g == [k \in 0 .. j |-> IF k = j THEN Place(f[j - 1], Enabled[j]) ELSE f[k]]
  <2>5. ASSUME NEW k \in 0 .. j
        PROVE  g[k] = IF k = 0 THEN Start ELSE Place(g[k - 1], Enabled[k])
    <3>1. CASE k = j
      <4>1. g[k] = Place(f[j - 1], Enabled[j]) /\ g[j - 1] = f[j - 1] /\ k # 0
        BY <1>3, <1>5, <3>1
      <4>2. QED
        BY <3>1, <4>1
    <3>2. CASE k # j
      <4>1. k \in 0 .. j - 1 /\ g[k] = f[k]
        BY <1>3, <3>2
      <4>2. CASE k = 0
        BY <2>4, <4>1, <4>2
      <4>3. CASE k # 0
        <5>1. g[k - 1] = f[k - 1]
          BY <1>3, <4>1, <4>3
        <5>2. QED
          BY <2>4, <4>1, <4>3, <5>1
      <4>4. QED
        BY <4>2, <4>3
    <3>3. QED
      BY <3>1, <3>2
  <2>6. g = [k \in 0 .. j |-> g[k]]
    OBVIOUS
  <2> HIDE DEF g
  <2>7. Fills(g, j)
    BY <2>5, <2>6 DEF Fills
  <2>8. QED
    BY <1>3, <2>7
<1>6. QED
  BY <1>4, <1>5

LEMMA PlacedSteps ==
  ASSUME LayoutInv
  PROVE  /\ Placed[0] = Start
         /\ \A k \in 1 .. Len(Enabled) : Placed[k] = Place(Placed[k - 1], Enabled[k])
<1> PICK n \in Nat : n = Len(Enabled)
  BY EnabledOnce
<1>1. \E f : f = [k \in 0 .. n |-> IF k = 0 THEN Start ELSE Place(f[k - 1], Enabled[k])]
  BY PlacedUpTo DEF Fills
<1>2. Placed = CHOOSE f :
        f = [k \in 0 .. n |-> IF k = 0 THEN Start ELSE Place(f[k - 1], Enabled[k])]
  BY DEF Placed, Start
<1>3. Placed = [k \in 0 .. n |-> IF k = 0 THEN Start ELSE Place(Placed[k - 1], Enabled[k])]
  BY <1>1, <1>2
<1>4. \A k \in 0 .. n :
        Placed[k] = IF k = 0 THEN Start ELSE Place(Placed[k - 1], Enabled[k])
  BY <1>3
<1>5. 0 \in 0 .. n /\ \A k \in 1 .. n : k \in 0 .. n /\ k # 0
  OBVIOUS
<1>6. QED
  BY <1>4, <1>5

\* Of ids: with a section that is on, those of its group are among them.
Closed(N) ==
  \A a, b \in On :
    a # b /\ sections[a].group # 0 /\ sections[a].group = sections[b].group =>
      (sections[a].id \in N <=> sections[b].id \in N)

OneGroup(N) ==
  \A a, b \in On : a # b /\ sections[a].id \in N /\ sections[b].id \in N =>
                     sections[a].group = sections[b].group

\* The preview after k of the sections that are on.
Laid(rows, used, k) ==
  /\ rows \in Seq(Seq(Int))
  /\ \A r \in 1 .. Len(rows) :
       ToSet(rows[r]) \subseteq used /\ Closed(ToSet(rows[r])) /\ OneGroup(ToSet(rows[r]))
  /\ \A x \in used : \E r \in 1 .. Len(rows) : x \in ToSet(rows[r])
  /\ \A r, q \in 1 .. Len(rows) : \A x \in ToSet(rows[r]) : x \in ToSet(rows[q]) => r = q
  /\ Closed(used)
  /\ \A l \in 1 .. k : sections[Enabled[l]].id \in used

LEMMA MembersOfPair ==
  ASSUME NEW a \in Int, NEW b \in Int
  PROVE  /\ <<a>> \in Seq(Int) /\ ToSet(<<a>>) = {a}
         /\ <<a, b>> \in Seq(Int) /\ ToSet(<<a, b>>) = {a, b}
<1>1. <<a>> \in Seq(Int) /\ <<a, b>> \in Seq(Int)
  OBVIOUS
<1>2. ToSet(<<a>>) = {a}
  <2>1. DOMAIN <<a>> = {1} /\ <<a>>[1] = a
    OBVIOUS
  <2>2. QED
    BY <2>1 DEF ToSet
<1>3. ToSet(<<a, b>>) = {a, b}
  <2>1. DOMAIN <<a, b>> = {1, 2} /\ <<a, b>>[1] = a /\ <<a, b>>[2] = b
    OBVIOUS
  <2>2. QED
    BY <2>1 DEF ToSet
<1>4. QED
  BY <1>1, <1>2, <1>3

LEMMA SectionsOn ==
  ASSUME LayoutInv
  PROVE  /\ \A a \in On : sections[a].id \in Int /\ sections[a].group \in Int
         /\ \A a, b \in On : sections[a].id = sections[b].id => a = b
         /\ \A a, b, c \in On :
              /\ sections[a].group # 0
              /\ sections[a].group = sections[b].group /\ sections[b].group = sections[c].group
              => a = b \/ b = c \/ a = c
<1>1. On \subseteq DOMAIN sections
  BY DEF On
<1>2. \A a \in On : sections[a].id \in Int /\ sections[a].group \in Int
  BY <1>1, CanvasTyped, SectionFields
<1>3. QED
  BY <1>1, <1>2, CanvasTyped DEF Sound

LEMMA RowPlaced ==
  ASSUME LayoutInv, NEW i \in On, NEW used, Closed(used), sections[i].id \notin used
  PROVE  /\ Row(i, used) \in Seq(Int) /\ sections[i].id \in ToSet(Row(i, used))
         /\ ToSet(Row(i, used)) \cap used = {}
         /\ Closed(ToSet(Row(i, used))) /\ OneGroup(ToSet(Row(i, used)))
<1> PICK x \in Int : x = sections[i].id
  BY SectionsOn
<1> DEFINE g == sections[i].group
           Ms == Mates(i, used)
<1>1. CASE g # 0 /\ Ms # {}
  <2> DEFINE first == CHOOSE k \in Ms : \A l \in Ms : k <= l
  <2>1. Ms \subseteq Nat /\ Ms \subseteq 1 .. Len(Enabled)
    BY EnabledOnce DEF Mates
  <2>2. \E k \in Ms : \A l \in Ms : k <= l
    <3> HIDE DEF Ms
    <3>1. PICK k \in Ms : \A l \in Ms : ~ (<<l, k>> \in OpToRel(<, Nat))
      BY <1>1, <2>1, NatLessThanWellFounded, WFMin
    <3>2. \A l \in Ms : ~ (l < k)
      BY <2>1, <3>1 DEF OpToRel
    <3>3. QED
      BY <2>1, <3>2
  <2>3. first \in Ms
    BY <2>2
  <2> HIDE DEF first
  <2> PICK j : j = Enabled[first]
    OBVIOUS
  <2>4. /\ j \in On /\ sections[j].group = g /\ sections[j].id # x /\ sections[j].id \notin used
    BY <2>1, <2>3, EnabledOnce DEF Mates
  <2> PICK y \in Int : y = sections[j].id
    BY <2>4, SectionsOn
  <2>5. Row(i, used) = <<x, y>>
    BY <1>1 DEF Row, Leading, first
  <2>6. /\ Row(i, used) \in Seq(Int) /\ ToSet(Row(i, used)) = {x, y}
    BY ONLY <2>5, x \in Int, y \in Int, MembersOfPair
  <2>7. \A a \in On : sections[a].id \in {x, y} => a = i \/ a = j
    BY <2>4, SectionsOn
  <2>8. \A a \in On : sections[a].group = g => a = i \/ a = j
    BY <1>1, <2>4, SectionsOn
  <2>9. Closed({x, y}) /\ OneGroup({x, y})
    BY <2>4, <2>7, <2>8 DEF Closed, OneGroup
  <2>10. QED
    BY <2>4, <2>6, <2>9
<1>2. CASE ~(g # 0 /\ Ms # {})
  <2>1. Row(i, used) = <<x>>
    BY <1>2 DEF Row
  <2>2. Row(i, used) \in Seq(Int) /\ ToSet(Row(i, used)) = {x}
    BY <2>1, MembersOfPair
  <2>3. \A a \in On : sections[a].id = x => a = i
    BY SectionsOn
  <2>4. ASSUME NEW a \in On, a # i, g # 0, sections[a].group = g PROVE FALSE
    <3>1. sections[a].id # x
      BY <2>3, <2>4
    <3>2. sections[a].id \notin used
      BY <2>4 DEF Closed
    <3>3. PICK k \in 1 .. Len(Enabled) : Enabled[k] = a
      BY EnabledOnce
    <3>4. k \in Ms
      BY <2>4, <3>1, <3>2, <3>3, EnabledOnce DEF Mates
    <3>5. QED
      BY <1>2, <2>4, <3>4
  <2>5. Closed({x}) /\ OneGroup({x})
    BY <2>3, <2>4 DEF Closed, OneGroup
  <2>6. QED
    BY <2>2, <2>5
<1>3. QED
  BY <1>1, <1>2

LEMMA LaidStep ==
  ASSUME LayoutInv, NEW acc, NEW k \in 1 .. Len(Enabled), Laid(acc.rows, acc.used, k - 1)
  PROVE  Laid(Place(acc, Enabled[k]).rows, Place(acc, Enabled[k]).used, k)
<1> PICK rows : rows = acc.rows
  OBVIOUS
<1> PICK used : used = acc.used
  OBVIOUS
<1> PICK i : i = Enabled[k]
  OBVIOUS
<1>0. i \in On /\ k \in Nat
  BY EnabledOnce
<1>1. /\ rows \in Seq(Seq(Int))
      /\ \A r \in 1 .. Len(rows) :
           ToSet(rows[r]) \subseteq used /\ Closed(ToSet(rows[r])) /\ OneGroup(ToSet(rows[r]))
      /\ \A x \in used : \E r \in 1 .. Len(rows) : x \in ToSet(rows[r])
      /\ \A r, q \in 1 .. Len(rows) : \A x \in ToSet(rows[r]) : x \in ToSet(rows[q]) => r = q
      /\ Closed(used)
      /\ \A l \in 1 .. k - 1 : sections[Enabled[l]].id \in used
  BY DEF Laid
<1>2. CASE sections[i].id \in used
  <2>1. Place(acc, i) = acc
    BY <1>2 DEF Place
  <2>2. \A l \in 1 .. k : sections[Enabled[l]].id \in used
    BY <1>0, <1>1, <1>2
  <2>3. QED
    BY <1>1, <2>1, <2>2 DEF Laid
<1>3. CASE sections[i].id \notin used
  <2> PICK row \in Seq(Int) : row = Row(i, used)
    BY <1>0, <1>1, <1>3, RowPlaced
  <2> PICK N : N = ToSet(row)
    OBVIOUS
  <2>1. sections[i].id \in N /\ N \cap used = {} /\ Closed(N) /\ OneGroup(N)
    BY <1>0, <1>1, <1>3, RowPlaced
  <2>2. Place(acc, i).rows = Append(rows, row) /\ Place(acc, i).used = used \cup N
    BY <1>3 DEF Place
  <2> PICK n \in Nat : n = Len(rows)
    BY <1>1
  <2> PICK rs : rs = Append(rows, row)
    OBVIOUS
  <2>3. /\ rs \in Seq(Seq(Int)) /\ Len(rs) = n + 1 /\ rs[n + 1] = row
        /\ \A r \in 1 .. n : rs[r] = rows[r]
    BY <1>1, AppendProperties
  <2>4. \A r \in 1 .. n + 1 :
          ToSet(rs[r]) \subseteq used \cup N /\ Closed(ToSet(rs[r])) /\ OneGroup(ToSet(rs[r]))
    BY <1>1, <2>1, <2>3
  <2>5. \A x \in used \cup N : \E r \in 1 .. n + 1 : x \in ToSet(rs[r])
    <3>1. ASSUME NEW x \in used PROVE \E r \in 1 .. n + 1 : x \in ToSet(rs[r])
      <4>1. PICK r \in 1 .. n : x \in ToSet(rows[r])
        BY <1>1
      <4>2. r \in 1 .. n + 1 /\ x \in ToSet(rs[r])
        BY <2>3, <4>1
      <4>3. QED
        BY <4>2
    <3>2. ASSUME NEW x \in N PROVE \E r \in 1 .. n + 1 : x \in ToSet(rs[r])
      <4>1. n + 1 \in 1 .. n + 1 /\ x \in ToSet(rs[n + 1])
        BY <2>3
      <4>2. QED
        BY <4>1
    <3>3. QED
      BY <3>1, <3>2
  <2>6. ASSUME NEW r \in 1 .. n + 1, NEW q \in 1 .. n + 1, NEW x \in ToSet(rs[r]),
               x \in ToSet(rs[q])
        PROVE  r = q
    <3>1. CASE r = n + 1 \/ q = n + 1
      <4>1. \A p \in 1 .. n : ToSet(rs[p]) \subseteq used
        BY <1>1, <2>3
      <4>2. x \in used => r = n + 1 /\ q = n + 1
        BY <2>1, <2>3, <2>6, <3>1
      <4>3. x \notin used => r = n + 1 /\ q = n + 1
        BY <2>6, <4>1
      <4>4. QED
        BY <4>2, <4>3
    <3>2. CASE r # n + 1 /\ q # n + 1
      <4>1. r \in 1 .. n /\ q \in 1 .. n
        BY <3>2
      <4>2. x \in ToSet(rows[r]) /\ x \in ToSet(rows[q])
        BY <2>3, <2>6, <4>1
      <4>3. QED
        BY <1>1, <4>1, <4>2
    <3>3. QED
      BY <3>1, <3>2
  <2>7. Closed(used \cup N)
    BY <1>1, <2>1 DEF Closed
  <2>8. ASSUME NEW l \in 1 .. k PROVE sections[Enabled[l]].id \in used \cup N
    <3>1. CASE l = k
      BY <2>1, <3>1
    <3>2. CASE l # k
      <4>1. l \in 1 .. k - 1
        BY <1>0, <3>2
      <4>2. QED
        BY <1>1, <4>1
    <3>3. QED
      BY <3>1, <3>2
  <2>9. Laid(rs, used \cup N, k)
    <3>1. rs \in Seq(Seq(Int)) /\ 1 .. Len(rs) = 1 .. n + 1
      BY <2>3
    <3>2. \A r \in 1 .. Len(rs) : ToSet(rs[r]) \subseteq used \cup N
                                /\ Closed(ToSet(rs[r])) /\ OneGroup(ToSet(rs[r]))
      BY <2>4, <3>1
    <3>3. \A x \in used \cup N : \E r \in 1 .. Len(rs) : x \in ToSet(rs[r])
      BY <2>5, <3>1
    <3>4. \A r, q \in 1 .. Len(rs) : \A x \in ToSet(rs[r]) : x \in ToSet(rs[q]) => r = q
      <4> SUFFICES ASSUME NEW r \in 1 .. Len(rs), NEW q \in 1 .. Len(rs),
                          NEW x \in ToSet(rs[r]), x \in ToSet(rs[q])
                   PROVE  r = q
        OBVIOUS
      <4>1. r \in 1 .. n + 1 /\ q \in 1 .. n + 1
        BY <3>1
      <4>2. QED
        BY <2>6, <4>1
    <3>5. QED
      BY <2>7, <2>8, <3>1, <3>2, <3>3, <3>4, Zenon DEF Laid
  <2>10. QED
    BY <2>2, <2>9
<1>4. QED
  BY <1>2, <1>3

LEMMA AllLaid ==
  ASSUME LayoutInv
  PROVE  Laid(Preview, Placed[Len(Enabled)].used, Len(Enabled))
<1> PICK n \in Nat : n = Len(Enabled)
  BY EnabledOnce
<1> DEFINE Holds(k) == Laid(Placed[k].rows, Placed[k].used, k)
           Bad == {k \in 0 .. n : ~Holds(k)}
<1>1. Holds(0)
  <2>1. Placed[0].rows = <<>> /\ Placed[0].used = {}
    BY PlacedSteps DEF Start
  <2>2. Laid(<<>>, {}, 0)
    BY DEF Laid, Closed
  <2>3. QED
    BY <2>1, <2>2
<1>2. \A k \in 1 .. n : Holds(k - 1) => Holds(k)
  <2> SUFFICES ASSUME NEW k \in 1 .. n, Holds(k - 1) PROVE Holds(k)
    OBVIOUS
  <2>1. PICK acc : acc = Placed[k - 1]
    OBVIOUS
  <2>2. Laid(acc.rows, acc.used, k - 1)
    BY <2>1
  <2>3. Laid(Place(acc, Enabled[k]).rows, Place(acc, Enabled[k]).used, k)
    BY <2>2, LaidStep
  <2>4. Placed[k] = Place(acc, Enabled[k])
    BY <2>1, PlacedSteps
  <2>5. QED
    BY <2>3, <2>4
<1> HIDE DEF Holds
<1>3. Bad = {}
  <2> SUFFICES ASSUME Bad # {} PROVE FALSE
    OBVIOUS
  <2>1. Bad \subseteq Nat
    OBVIOUS
  <2>2. PICK j \in Bad : \A y \in Bad : ~ (<<y, j>> \in OpToRel(<, Nat))
    <3> HIDE DEF Bad
    <3>1. QED
      BY <2>1, NatLessThanWellFounded, WFMin
  <2>3. j \in 0 .. n /\ ~Holds(j) /\ j # 0
    BY <1>1
  <2>4. j - 1 \in 0 .. n /\ j - 1 \in Nat /\ j \in Nat /\ j - 1 < j /\ j \in 1 .. n
    BY <2>3
  <2>5. j - 1 \notin Bad
    BY <2>2, <2>4 DEF OpToRel
  <2>6. Holds(j - 1)
    BY <2>4, <2>5
  <2>7. QED
    BY <1>2, <2>3, <2>4, <2>6
<1>4. Holds(n)
  BY <1>3
<1>5. QED
  BY <1>4 DEF Holds, Preview

LEMMA PreviewOK ==
  ASSUME LayoutInv
  PROVE  PreviewComplete
<1> PICK rows : rows = Preview
  OBVIOUS
<1> PICK used : used = Placed[Len(Enabled)].used
  OBVIOUS
<1> DEFINE RowsOf(i) == {r \in DOMAIN rows : sections[i].id \in ToSet(rows[r])}
<1>1. Laid(rows, used, Len(Enabled))
  BY AllLaid
<1>2. /\ DOMAIN rows = 1 .. Len(rows)
      /\ \A r \in 1 .. Len(rows) : Closed(ToSet(rows[r])) /\ OneGroup(ToSet(rows[r]))
      /\ \A x \in used : \E r \in 1 .. Len(rows) : x \in ToSet(rows[r])
      /\ \A r, q \in 1 .. Len(rows) : \A x \in ToSet(rows[r]) : x \in ToSet(rows[q]) => r = q
  BY <1>1 DEF Laid
<1>3. \A i \in On : sections[i].id \in used
  BY <1>1, EnabledOnce DEF Laid
<1>4. ASSUME NEW i \in On
      PROVE  \E r \in DOMAIN rows : RowsOf(i) = {r}
  <2>1. PICK r \in 1 .. Len(rows) : sections[i].id \in ToSet(rows[r])
    BY <1>2, <1>3
  <2>2. RowsOf(i) = {r}
    BY <1>2, <2>1
  <2>3. QED
    BY <1>2, <2>1, <2>2
<1>5. \A i \in On : Cardinality(RowsOf(i)) = 1
  BY <1>4, FS_Singleton
<1>6. ASSUME NEW i \in On, NEW j \in On, i # j, sections[i].group # 0
      PROVE  sections[i].group = sections[j].group <=> RowsOf(i) = RowsOf(j)
  <2>1. ASSUME sections[i].group = sections[j].group PROVE RowsOf(i) = RowsOf(j)
    <3>1. \A r \in 1 .. Len(rows) :
            sections[i].id \in ToSet(rows[r]) <=> sections[j].id \in ToSet(rows[r])
      BY <1>2, <1>6, <2>1 DEF Closed
    <3>2. QED
      BY <1>2, <3>1
  <2>2. ASSUME RowsOf(i) = RowsOf(j) PROVE sections[i].group = sections[j].group
    <3>1. PICK r \in DOMAIN rows : RowsOf(i) = {r}
      BY <1>4
    <3>2. sections[i].id \in ToSet(rows[r]) /\ sections[j].id \in ToSet(rows[r])
      BY <2>2, <3>1
    <3>3. QED
      BY <1>2, <1>6, <3>2 DEF OneGroup
  <2>3. QED
    BY <2>1, <2>2
<1>7. QED
  BY <1>5, <1>6 DEF PreviewComplete

-----------------------------------------------------------------------------
(***************************************************************************)
(* The page that is open.                                                  *)
(***************************************************************************)
EditorsInv ==
  /\ at \in Canvas => LayoutInv
  /\ at = "templates" => TemplatesInv
  /\ at = "users" => UsersInv
  /\ at = "companies" => CompaniesInv
  /\ at \in Employee => EmployeeInv
  /\ at \in Account => ProfileInv

LEMMA EditorsStart == ASSUME MCInit PROVE EditorsInv
<1> USE DEF Canvas, Employee, Account
<1>1. steady = "ordered" /\ dirty = FALSE
  BY DEF MCInit
<1>2. CASE at \in Canvas /\ Init
  BY <1>1, <1>2, CanvasStart DEF EditorsInv
<1>3. CASE at = "templates" /\ T!Init
  BY <1>3, TemplatesInit DEF EditorsInv
<1>4. CASE at = "users" /\ U!Init
  BY <1>4, UsersInit DEF EditorsInv
<1>5. CASE at = "companies" /\ C!Init
  BY <1>5, CompaniesInit DEF EditorsInv
<1>6. CASE at \in Employee /\ E!Init
  BY <1>1, <1>6, EmployeeInit DEF EditorsInv
<1>7. CASE at \in Account /\ P!Init
  BY <1>7, ProfileInit DEF EditorsInv
<1>8. QED
  BY <1>2, <1>3, <1>4, <1>5, <1>6, <1>7 DEF MCInit

LEMMA EditorsStep == ASSUME EditorsInv, [MCNext]_everything PROVE EditorsInv'
<1> USE DEF Canvas, Employee, Account
<1>1. at' = at
  BY DEF MCNext, everything
<1>2. CASE UNCHANGED everything
  <2>1. UNCHANGED <<sections, saved, shared, ids, expanded, modal, steady>>
    BY <1>2 DEF everything, layoutVars
  <2>2. QED
    BY <1>1, <1>2, <2>1, CanvasIdle, TemplatesStep, UsersStep, CompaniesStep, EmployeeKept,
       ProfileStep
       DEF EditorsInv
<1>3. CASE CanvasNext
  <2>1. at \in Canvas /\ 1 \in Base
    BY <1>3, AssumptionsOfPages DEF CanvasNext
  <2>2. LayoutInv'
    BY <1>3, <2>1, CanvasStepOK DEF EditorsInv
  <2>3. QED
    BY <1>1, <2>1, <2>2 DEF EditorsInv
<1>4. CASE TemplatesNext
  <2>1. at = "templates"
    BY <1>4 DEF TemplatesNext
  <2>2. TemplatesInv'
    BY <1>4, <2>1, TemplatesStep DEF EditorsInv
  <2>3. QED
    BY <1>1, <2>1, <2>2 DEF EditorsInv
<1>5. CASE UsersNext
  <2>1. at = "users"
    BY <1>5 DEF UsersNext
  <2>2. UsersInv'
    BY <1>5, <2>1, UsersStep DEF EditorsInv
  <2>3. QED
    BY <1>1, <2>1, <2>2 DEF EditorsInv
<1>6. CASE CompaniesNext
  <2>1. at = "companies"
    BY <1>6 DEF CompaniesNext
  <2>2. CompaniesInv'
    BY <1>6, <2>1, CompaniesStep DEF EditorsInv
  <2>3. QED
    BY <1>1, <2>1, <2>2 DEF EditorsInv
<1>7. CASE EmployeeNext
  <2>1. at \in Employee
    BY <1>7 DEF EmployeeNext
  <2>2. EmployeeInv'
    BY <1>7, <2>1, EmployeeKept DEF EditorsInv
  <2>3. QED
    BY <1>1, <2>1, <2>2 DEF EditorsInv
<1>8. CASE ProfileNext
  <2>1. at \in Account
    BY <1>8 DEF ProfileNext
  <2>2. ProfileInv'
    BY <1>8, <2>1, ProfileStep DEF EditorsInv
  <2>3. QED
    BY <1>1, <2>1, <2>2 DEF EditorsInv
<1>9. QED
  BY <1>2, <1>3, <1>4, <1>5, <1>6, <1>7, <1>8 DEF MCNext

\* Whichever page is open, its state stays in the invariant of that page: what a call
\* under way may answer, what the form, the flags and the list have to do with it, and
\* how the two copies of a layout are named, paired and ordered.
THEOREM EditorsInductive == MCSpec => []EditorsInv
<1>1. MCInit => EditorsInv
  BY EditorsStart
<1>2. EditorsInv /\ [MCNext]_everything => EditorsInv'
  BY EditorsStep
<1>3. QED
  BY <1>1, <1>2, PTL DEF MCSpec

\* Each page keeps its state in the types of what its code holds, the layout with no two
\* sections of one id.
THEOREM EditorsTyped == MCSpec => []TypesOK
<1>1. EditorsInv => TypesOK
  <2> SUFFICES ASSUME EditorsInv PROVE TypesOK
    OBVIOUS
  <2>1. at \in Canvas => TypeOK
    BY CanvasProperties DEF EditorsInv
  <2>2. at = "templates" => T!TypeOK
    BY DEF EditorsInv, TemplatesInv
  <2>3. at = "users" => U!TypeOK
    BY DEF EditorsInv, UsersInv
  <2>4. at = "companies" => C!TypeOK
    BY DEF EditorsInv, CompaniesInv
  <2>5. at \in Employee => E!TypeOK
    BY DEF EditorsInv, EmployeeInv, EmployeeTyped
  <2>6. at \in Account => P!TypeOK
    BY DEF EditorsInv, ProfileInv, ProfileTyped
  <2>7. QED
    BY <2>1, <2>2, <2>3, <2>4, <2>5, <2>6 DEF TypesOK
<1>2. QED
  BY <1>1, EditorsInductive, PTL

\* However the sections are paired, removed, picked again or saved, they are paired two
\* by two, and the loop of the preview, which skips what it has placed, shows each section
\* that is on once and the two of a pair side by side; and of a user who waits for each
\* answer no template gets the layout of another (PayslipBuilder.tsx:297, 744).
THEOREM LayoutsAreSound == MCSpec => []BuilderSound
<1>1. EditorsInv => BuilderSound
  <2> SUFFICES ASSUME EditorsInv PROVE BuilderSound
    OBVIOUS
  <2>1. at = "groups" => GroupsArePairs /\ PreviewComplete
    BY CanvasProperties, PreviewOK DEF EditorsInv, Canvas
  <2>2. at = "templates" /\ alone => T!LayoutOfSelected /\ T!LayoutsKept
    BY DEF EditorsInv, TemplatesInv, OneTemplate
  <2>3. QED
    BY <2>1, <2>2 DEF BuilderSound
<1>2. QED
  BY <1>1, EditorsInductive, PTL

\* The drop index is that of the sorted canvas and the splice is on the array: while the
\* array is in the order it shows, the section that was taken is the one that moves, to
\* the place where it was dropped (PayslipBuilder.tsx:229, 330).
THEOREM DragsMoveWhatIsShown == MCSpec => SteadyDragMovesShown
<1>1. EditorsInv => (at = "sections" /\ steady # "off" => DragMovesShown)
  BY DragShown DEF EditorsInv, Canvas
<1>2. EditorsInv /\ [MCNext]_everything
        => [at = "sections" /\ steady # "off" => DragMovesShown]_everything
  BY <1>1
<1>3. QED
  BY <1>2, EditorsInductive, PTL DEF MCSpec, SteadyDragMovesShown

\* The last step of a new user is reached only through the steps that are complete; and
\* the form of one company is never saved as another's, nor as a new one
\* (MultiStepForm.tsx:27, CompanyList.tsx:84).
THEOREM FormsStayTrue == MCSpec => []FormsAreTrue
<1>1. EditorsInv => FormsAreTrue
  BY UsersReview DEF EditorsInv, CompaniesInv, FormsAreTrue
<1>2. QED
  BY <1>1, EditorsInductive, PTL

\* Of the calls that a button stands for there is one under way at most, though any number
\* of others are, and though each page has one flag for several buttons.
THEOREM CallsOfAButton == MCSpec => []OneCallEach
<1>1. EditorsInv => OneCallEach
  <2> SUFFICES ASSUME EditorsInv PROVE OneCallEach
    OBVIOUS
  <2>1. at = "templates" => T!OneSave
    BY DEF EditorsInv, TemplatesInv
  <2>2. at = "users" => U!OneSave
    BY DEF EditorsInv, UsersInv
  <2>3. at \in Employee => E!OneOfAKind
    BY EmployeeOneOfAKind DEF EditorsInv
  <2>4. at \in Account => P!OnePerFlag
    BY ProfileOnePerFlag DEF EditorsInv
  <2>5. QED
    BY <2>1, <2>2, <2>3, <2>4 DEF OneCallEach
<1>2. QED
  BY <1>1, EditorsInductive, PTL

\* Once the calls of a user who waits for them have ended, the form of an employee and the
\* profile show what the server keeps, whichever of the calls were answered in between;
\* and the code that is asked for is of the kind that the server waits for.
THEOREM FormsShowServer == MCSpec => []ShowsServer
<1>1. EditorsInv => ShowsServer
  BY EmployeeShowsServer, ProfileShowsServer DEF EditorsInv, ShowsServer
<1>2. QED
  BY <1>1, EditorsInductive, PTL
=============================================================================
