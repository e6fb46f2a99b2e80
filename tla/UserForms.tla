------------------------------ MODULE UserForms -------------------------------
(***************************************************************************)
(* The two forms of pages/auth/UserManagement.tsx above its list of users: *)
(* the one in three steps (components/MultiStepForm.tsx) that creates a    *)
(* user, and the one that edits a row.  A user of the form is one person;  *)
(* names, passwords and addresses are only told to be good or not.         *)
(***************************************************************************)
EXTENDS Integers, FiniteSets, Functions

CONSTANTS
  Users,      \* ids of users, of those created too
  Companies,
  Names,      \* what a row holds beside the role, e.g. the name
  Calls,      \* bound: saves under way at once
  None

UserFormsAssumption ==
  None \notin Users \cup Companies \cup Names

VARIABLES
  isMaster,               \* who works on the page
  companies,              \* those there are to choose from
  users,                  \* the server's: None, or [name, role, company]
  showForm, step, form,   \* the form that creates
  editTarget, editForm,   \* the row that is edited
  loading,
  call

creating == <<showForm, step, form>>
editing == <<editTarget, editForm>>
vars == <<isMaster, companies, users, creating, editing, loading, call>>

Roles == {"master", "worker"}  \* and as the second: admin, supervisor

\* account: three letters at least, and four of a password that is typed twice;
\* profile: a name, an address of mail and a telephone number.
Empty == [account |-> FALSE, role |-> "worker", company |-> None, profile |-> FALSE]
Forms == [account : BOOLEAN, role : Roles, company : Companies \cup {None}, profile : BOOLEAN]

NoEdit == [name |-> None, role |-> "worker"]

Free == [op |-> "free"]
Busy(q) == call[q] # Free

Send(c) == \E q \in Calls : ~Busy(q) /\ call' = [call EXCEPT ![q] = c]

Init ==
  /\ isMaster \in BOOLEAN /\ companies = {}
  /\ users \in [Users -> {None} \cup [name : Names, role : {"worker"}, company : Companies]]
  /\ showForm = FALSE /\ step = 0 /\ form = Empty
  /\ editTarget = None /\ editForm = NoEdit
  /\ loading = FALSE /\ call = [q \in Calls |-> Free]

-----------------------------------------------------------------------------
\* A master is given the list of companies; that it fails does not matter.
LoadCompanies ==
  /\ isMaster /\ companies = {} /\ companies' = Companies
  /\ UNCHANGED <<isMaster, users, creating, editing, loading, call>>

\* "+ New User" and "Cancel".
ToggleForm ==
  /\ showForm' = ~showForm /\ step' = 0 /\ form' = Empty
  /\ UNCHANGED <<isMaster, companies, users, editing, loading, call>>

\* On the first step; that somebody is a master takes the company away.
TypeAccount ==
  /\ showForm /\ step = 0
  /\ \/ \E ok \in BOOLEAN : form' = [form EXCEPT !.account = ok]
     \/ \E r \in Roles :
          form' = [form EXCEPT !.role = r, !.company = IF r = "master" THEN None ELSE @]
     \/ /\ isMaster /\ form.role # "master"
        /\ \E c \in companies \cup {None} : form' = [form EXCEPT !.company = c]
  /\ UNCHANGED <<isMaster, companies, users, showForm, step, editing, loading, call>>

TypeProfile ==
  /\ showForm /\ step = 1
  /\ \E ok \in BOOLEAN : form' = [form EXCEPT !.profile = ok]
  /\ UNCHANGED <<isMaster, companies, users, showForm, step, editing, loading, call>>

CanAdvance ==
  CASE step = 0 -> form.account /\ (~isMaster \/ form.role = "master" \/ form.company # None)
    [] step = 1 -> form.profile
    [] OTHER -> TRUE

\* Mutant: the last step has the button too.
NextStepOnLast ==
  /\ showForm /\ CanAdvance
  /\ step' = step + 1
  /\ UNCHANGED <<isMaster, companies, users, showForm, form, editing, loading, call>>

NextStep ==
  /\ showForm /\ step < 2 /\ CanAdvance
  /\ step' = step + 1
  /\ UNCHANGED <<isMaster, companies, users, showForm, form, editing, loading, call>>

Back ==
  /\ showForm /\ step > 0
  /\ step' = step - 1
  /\ UNCHANGED <<isMaster, companies, users, showForm, form, editing, loading, call>>

\* Mutant: a step ahead is a link as well.
StepClickAny(i) ==
  /\ showForm /\ i # step
  /\ step' = i
  /\ UNCHANGED <<isMaster, companies, users, showForm, form, editing, loading, call>>

\* A step of the bar: the page turns only back to one.
StepClick(i) ==
  /\ showForm /\ i < step
  /\ step' = i
  /\ UNCHANGED <<isMaster, companies, users, showForm, form, editing, loading, call>>

\* The button is on the last step.
HandleCreate ==
  /\ showForm /\ step = 2 /\ ~loading
  /\ IF ~form.account
     THEN step' = 0 /\ UNCHANGED <<loading, call>>
     ELSE /\ loading' = TRUE /\ UNCHANGED step
          /\ Send([op |-> "create", form |-> form, served |-> FALSE])
  /\ UNCHANGED <<isMaster, companies, users, showForm, form, editing>>

OpenEdit(u) ==
  /\ users[u] # None
  /\ editTarget' = u /\ editForm' = [name |-> users[u].name, role |-> users[u].role]
  /\ showForm' = FALSE
  /\ UNCHANGED <<isMaster, companies, users, step, form, loading, call>>

TypeEdit ==
  /\ editTarget # None
  /\ \E n \in Names \cup {None}, r \in Roles : editForm' = [name |-> n, role |-> r]
  /\ UNCHANGED <<isMaster, companies, users, creating, editTarget, loading, call>>

CloseEdit ==
  /\ editTarget # None /\ editTarget' = None
  /\ UNCHANGED <<isMaster, companies, users, creating, editForm, loading, call>>

HandleEditSave ==
  /\ editTarget # None /\ ~loading
  /\ loading' = TRUE
  /\ Send([op |-> "update", of |-> editTarget, form |-> editForm, served |-> FALSE])
  /\ UNCHANGED <<isMaster, companies, users, creating, editing>>

-----------------------------------------------------------------------------
\* The server gives a user that no master creates to the company of who does; an
\* empty field keeps what is there.
Serve(q) ==
  LET c == call[q]
  IN /\ Busy(q) /\ ~c.served
     /\ \/ /\ c.op = "create"
           /\ \E u \in Users, n \in Names, own \in Companies :
                /\ users[u] = None
                /\ users' = [users EXCEPT ![u] =
                     [name |-> n, role |-> c.form.role,
                      company |-> IF isMaster THEN c.form.company ELSE own]]
        \/ /\ c.op = "update" /\ users[c.of] # None
           /\ users' = [users EXCEPT ![c.of].role = c.form.role,
                                     ![c.of].name = IF c.form.name = None THEN @ ELSE c.form.name]
     /\ call' = [call EXCEPT ![q].served = TRUE]
     /\ UNCHANGED <<isMaster, companies, creating, editing, loading>>

\* The list is asked for again as well.
Created(q) ==
  /\ call[q].op = "create"
  /\ showForm' = FALSE /\ step' = 0 /\ form' = Empty
  /\ UNCHANGED editing

Updated(q) ==
  /\ call[q].op = "update"
  /\ editTarget' = None
  /\ UNCHANGED <<creating, editForm>>

Answer(q) ==
  /\ Busy(q) /\ call[q].served
  /\ Created(q) \/ Updated(q)
  /\ loading' = FALSE /\ call' = [call EXCEPT ![q] = Free]
  /\ UNCHANGED <<isMaster, companies, users>>

Fail(q) ==
  /\ Busy(q)
  /\ loading' = FALSE /\ call' = [call EXCEPT ![q] = Free]
  /\ UNCHANGED <<isMaster, companies, users, creating, editing>>

User ==
  \/ ToggleForm \/ TypeAccount \/ TypeProfile \/ NextStep \/ Back \/ HandleCreate
  \/ \E i \in 0 .. 2 : StepClick(i)
  \/ \E u \in Users : OpenEdit(u)
  \/ TypeEdit \/ CloseEdit \/ HandleEditSave

Next == LoadCompanies \/ User \/ \E q \in Calls : Serve(q) \/ Answer(q) \/ Fail(q)

Spec == Init /\ [][Next]_vars

-----------------------------------------------------------------------------
\* The forms, and which calls are under way.
TypeOK ==
  /\ isMaster \in BOOLEAN /\ companies \in {{}, Companies}
  /\ users \in [Users -> {None} \cup [name : Names, role : Roles, company : Companies \cup {None}]]
  /\ showForm \in BOOLEAN /\ step \in 0 .. 2 /\ form \in Forms
  /\ editTarget \in Users \cup {None}
  /\ editForm \in [name : Names \cup {None}, role : Roles]
  /\ loading \in BOOLEAN
  /\ call \in [Calls -> {Free} \cup [op : {"create"}, form : Forms, served : BOOLEAN]
                        \cup [op : {"update"}, of : Users, form : [name : Names \cup {None}, role : Roles],
                              served : BOOLEAN]]

\* The review shows a form whose earlier steps were gone through as they are now:
\* what the last button sends needs no check of the company, the name and the mail
\* beyond those of handleCreate, and there is none.
ReviewIsComplete ==
  showForm /\ step = 2 =>
    /\ form.account /\ form.profile
    /\ ~isMaster \/ form.role = "master" \/ form.company # None

\* A save that is under way is the only one: each button waits for the other.
OneSave ==
  /\ \A p, q \in Calls : Busy(p) /\ Busy(q) => p = q
  /\ \A q \in Calls : Busy(q) => loading
=============================================================================
