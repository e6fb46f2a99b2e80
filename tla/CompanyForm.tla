----------------------------- MODULE CompanyForm ------------------------------
(***************************************************************************)
(* The form of pages/companies/CompanyList.tsx, which creates a company    *)
(* or edits one of the list: one form for both, and one flag, loading, for *)
(* the form and the list.  What is typed is told apart by the company it   *)
(* was taken from only.                                                    *)
(***************************************************************************)
EXTENDS Integers, FiniteSets

CONSTANTS
  Companies,  \* ids of companies, of those created too
  Calls,      \* bound: calls under way at once
  None

CompanyFormAssumption == None \notin Companies

VARIABLES
  known,                       \* the server's companies
  shown,                       \* those that are listed
  showForm, editTarget, form,  \* form: the company it was filled from, None when blank
  loading,
  call

editor == <<showForm, editTarget, form>>
vars == <<known, shown, editor, loading, call>>

Free == [op |-> "free"]
Busy(q) == call[q] # Free
Send(c) == \E q \in Calls : ~Busy(q) /\ call' = [call EXCEPT ![q] = c]

List == [op |-> "list", served |-> FALSE]
Idle == [q \in Calls |-> Free]

Init ==
  /\ known \in SUBSET Companies /\ shown = {}
  /\ showForm = FALSE /\ editTarget = None /\ form = None
  /\ loading = TRUE
  /\ \E q \in Calls : call = [Idle EXCEPT ![q] = List]

-----------------------------------------------------------------------------
\* What is typed or turned in the list asks for it again.
Fetch ==
  /\ loading' = TRUE /\ Send(List)
  /\ UNCHANGED <<known, shown, editor>>

\* "+ New Company", and "Cancel" above the form.
ToggleForm ==
  /\ showForm' = ~showForm /\ editTarget' = None /\ form' = None
  /\ UNCHANGED <<known, shown, loading, call>>

\* "Cancel" in the form.
CancelForm ==
  /\ showForm
  /\ showForm' = FALSE /\ editTarget' = None
  /\ UNCHANGED <<known, shown, form, loading, call>>

OpenEdit(c) ==
  /\ c \in shown
  /\ editTarget' = c /\ form' = c /\ showForm' = TRUE
  /\ UNCHANGED <<known, shown, loading, call>>

HandleCreate ==
  /\ showForm /\ editTarget = None /\ ~loading
  /\ loading' = TRUE
  /\ Send([op |-> "create", form |-> form, served |-> FALSE])
  /\ UNCHANGED <<known, shown, editor>>

HandleEdit ==
  /\ showForm /\ editTarget # None /\ ~loading
  /\ loading' = TRUE
  /\ Send([op |-> "update", of |-> editTarget, form |-> form, served |-> FALSE])
  /\ UNCHANGED <<known, shown, editor>>

-----------------------------------------------------------------------------
Serve(q) ==
  LET Done == call' = [call EXCEPT ![q].served = TRUE]
  IN /\ Busy(q) /\ ~call[q].served
     /\ \/ /\ call[q].op = "list" /\ UNCHANGED known
           /\ call' = [call EXCEPT ![q] = [op |-> "list", rows |-> known, served |-> TRUE]]
        \/ /\ call[q].op = "create" /\ Done
           /\ \E c \in Companies \ known : known' = known \cup {c}
        \/ /\ call[q].op = "update" /\ call[q].of \in known /\ Done
           /\ UNCHANGED known
     /\ UNCHANGED <<shown, editor, loading>>

Listed(q) ==
  /\ call[q].op = "list"
  /\ shown' = call[q].rows /\ loading' = FALSE
  /\ call' = [call EXCEPT ![q] = Free]
  /\ UNCHANGED editor

\* The list is asked for, which raises the flag, and then the flag is lowered.
Saved(q) ==
  /\ call[q].op \in {"create", "update"}
  /\ showForm' = FALSE /\ form' = None
  /\ editTarget' = IF call[q].op = "update" THEN None ELSE editTarget
  /\ loading' = FALSE
  /\ call' = [call EXCEPT ![q] = List]
  /\ UNCHANGED shown

Answer(q) ==
  /\ Busy(q) /\ call[q].served
  /\ Listed(q) \/ Saved(q)
  /\ UNCHANGED known

Fail(q) ==
  /\ Busy(q)
  /\ loading' = FALSE /\ call' = [call EXCEPT ![q] = Free]
  /\ UNCHANGED <<known, shown, editor>>

User ==
  \/ Fetch \/ ToggleForm \/ CancelForm \/ HandleCreate \/ HandleEdit
  \/ \E c \in Companies : OpenEdit(c)

Next == User \/ \E q \in Calls : Serve(q) \/ Answer(q) \/ Fail(q)

Spec == Init /\ [][Next]_vars

-----------------------------------------------------------------------------
\* The list, the form and the calls.
TypeOK ==
  /\ known \subseteq Companies /\ shown \subseteq Companies
  /\ {showForm, loading} \subseteq BOOLEAN
  /\ {editTarget, form} \subseteq Companies \cup {None}
  /\ call \in [Calls -> {Free, List}
       \cup [op : {"list"}, rows : SUBSET Companies, served : {TRUE}]
       \cup [op : {"create"}, form : Companies \cup {None}, served : BOOLEAN]
       \cup [op : {"update"}, of : Companies, form : Companies \cup {None}, served : BOOLEAN]]

\* The form that is shown is of the company its title names, or is blank: what
\* is left of one company is never saved as another's, nor as a new one.
FormOfTarget == showForm => form = editTarget

SavesOwnForm ==
  \A q \in Calls : /\ call[q].op = "update" => call[q].form = call[q].of
                   /\ call[q].op = "create" => call[q].form = None
=============================================================================
