-------------------------- MODULE PayslipTemplates --------------------------
(***************************************************************************)
(* The payslip template builder (frontend/src/pages/payroll/               *)
(* PayslipBuilder.tsx) and its calls of the templates interface: which     *)
(* template is selected, whose layout and branding is being edited, and    *)
(* what the calls under way will do to both when they are answered.        *)
(*                                                                         *)
(* A layout is known by the template it was taken from.  A call is sent,   *)
(* served, and answered; it may also fail, before or after it was served   *)
(* (the client gives up after ten seconds, api/axiosConfig.ts:5).          *)
(***************************************************************************)
EXTENDS FiniteSets

CONSTANTS
  Templates,   \* ids of templates, bound of those ever created
  First,       \* those there are when the page opens
  Calls,       \* bound: calls under way at once
  None

TemplatesAssumption ==
  /\ First \subseteq Templates
  /\ None \notin Templates

VARIABLES
  stored,     \* the server's templates: the one each layout was taken from
  templates,  \* the list of the page
  selected, layout, saving,
  call        \* the calls under way

vars == <<stored, templates, selected, layout, saving, call>>

Free == [op |-> "free"]
Waits(q) == call[q] # Free
Existing == {t \in Templates : stored[t] # None}

\* The effect that loads the page, before its first answer.
Init ==
  /\ stored = [t \in Templates |-> IF t \in First THEN t ELSE None]
  /\ templates = {} /\ selected = None /\ layout = None /\ saving = FALSE
  /\ \E q \in Calls : call = [p \in Calls |-> IF p = q THEN [op |-> "load", served |-> FALSE]
                                             ELSE Free]

Send(q, c) == ~Waits(q) /\ call' = [call EXCEPT ![q] = c]

\* While there is no layout the page shows nothing but the creation.
Shown(t) == layout # None /\ t \in templates

PickTemplate(t) ==
  /\ Shown(t)
  /\ selected' = t /\ layout' = t
  /\ UNCHANGED <<stored, templates, saving, call>>

HandleSave(q) ==
  /\ selected # None /\ layout # None /\ ~saving
  /\ saving' = TRUE
  /\ Send(q, [op |-> "save", of |-> selected, layout |-> layout, served |-> FALSE])
  /\ UNCHANGED <<stored, templates, selected, layout>>

\* The dialog stays until the answer, and its button is not disabled.
HandleCreate(q) ==
  /\ Send(q, [op |-> "create", served |-> FALSE])
  /\ UNCHANGED <<stored, templates, selected, layout, saving>>

\* The handler knows the selection of the render in which it was clicked.
HandleDelete(q, t) ==
  /\ Shown(t)
  /\ Send(q, [op |-> "delete", of |-> t, clears |-> selected = t, served |-> FALSE])
  /\ UNCHANGED <<stored, templates, selected, layout, saving>>

HandleDuplicate(q, t) ==
  /\ Shown(t)
  /\ Send(q, [op |-> "duplicate", of |-> t, served |-> FALSE])
  /\ UNCHANGED <<stored, templates, selected, layout, saving>>

\* Making the selected template the default, or giving it to a company.
HandleUpdate(q) ==
  /\ selected # None /\ layout # None
  /\ Send(q, [op |-> "update", of |-> selected, served |-> FALSE])
  /\ UNCHANGED <<stored, templates, selected, layout, saving>>

-----------------------------------------------------------------------------
\* The server: a template that is gone cannot be changed.
Serve(q) ==
  LET c == call[q]
      Done(change) == [change EXCEPT !.served = TRUE]
  IN /\ Waits(q) /\ ~c.served
     /\ \/ /\ c.op \in {"load", "list"}
           /\ call' = [call EXCEPT ![q] = [op |-> c.op, list |-> Existing, served |-> TRUE]]
           /\ UNCHANGED stored
        \/ /\ c.op = "save" /\ c.of \in Existing
           /\ stored' = [stored EXCEPT ![c.of] = c.layout]
           /\ call' = [call EXCEPT ![q] = Done(c)]
        \/ /\ c.op = "update" /\ c.of \in Existing
           /\ call' = [call EXCEPT ![q] = Done(c)]
           /\ UNCHANGED stored
        \/ /\ c.op = "delete" /\ c.of \in Existing
           /\ stored' = [stored EXCEPT ![c.of] = None]
           /\ call' = [call EXCEPT ![q] = Done(c)]
        \/ /\ c.op \in {"create", "duplicate"}
           /\ c.op = "duplicate" => c.of \in Existing
           /\ \E t \in Templates \ Existing :
                /\ stored' = [stored EXCEPT ![t] = t]
                /\ call' = [call EXCEPT ![q] = [op |-> c.op, of |-> t, served |-> TRUE]]
     /\ UNCHANGED <<templates, selected, layout, saving>>

\* After a change the list is asked for again.
Reload(q) == call' = [call EXCEPT ![q] = [op |-> "list", served |-> FALSE]]
End(q) == call' = [call EXCEPT ![q] = Free]

Loaded(q) ==
  /\ call[q].op = "load"
  /\ templates' = call[q].list
  /\ IF call[q].list = {} THEN UNCHANGED <<selected, layout>>
     ELSE \E t \in call[q].list : selected' = t /\ layout' = t
  /\ End(q) /\ UNCHANGED saving

Listed(q) ==
  /\ call[q].op = "list"
  /\ templates' = call[q].list
  /\ End(q) /\ UNCHANGED <<selected, layout, saving>>

Saved(q) ==
  /\ call[q].op = "save"
  /\ selected' = call[q].of /\ saving' = FALSE
  /\ Reload(q) /\ UNCHANGED <<templates, layout>>

Updated(q) ==
  /\ call[q].op = "update"
  /\ selected' = call[q].of
  /\ Reload(q) /\ UNCHANGED <<templates, layout, saving>>

\* Mutant: the new template is selected, and the canvas stays.
CreatedUnshown(q) ==
  /\ call[q].op \in {"create", "duplicate"}
  /\ selected' = call[q].of /\ UNCHANGED layout
  /\ Reload(q) /\ UNCHANGED <<templates, saving>>

Created(q) ==
  /\ call[q].op \in {"create", "duplicate"}
  /\ selected' = call[q].of /\ layout' = call[q].of
  /\ Reload(q) /\ UNCHANGED <<templates, saving>>

Deleted(q) ==
  /\ call[q].op = "delete"
  /\ IF call[q].clears THEN selected' = None /\ layout' = None
     ELSE UNCHANGED <<selected, layout>>
  /\ Reload(q) /\ UNCHANGED <<templates, saving>>

Answer(q) ==
  /\ Waits(q) /\ call[q].served
  /\ Loaded(q) \/ Listed(q) \/ Saved(q) \/ Updated(q) \/ Created(q) \/ Deleted(q)
  /\ UNCHANGED stored

\* Mutant: every error resets the flag.
FailResets(q) ==
  /\ Waits(q)
  /\ saving' = FALSE
  /\ End(q)
  /\ UNCHANGED <<stored, templates, selected, layout>>

\* An error shows an alert; only the flag of a save is reset.
Fail(q) ==
  /\ Waits(q)
  /\ saving' = IF call[q].op = "save" THEN FALSE ELSE saving
  /\ End(q)
  /\ UNCHANGED <<stored, templates, selected, layout>>

User ==
  \/ \E t \in Templates : PickTemplate(t)
  \/ \E q \in Calls : HandleSave(q) \/ HandleCreate(q) \/ HandleUpdate(q)
  \/ \E q \in Calls, t \in Templates : HandleDelete(q, t) \/ HandleDuplicate(q, t)

Next == User \/ \E q \in Calls : Serve(q) \/ Answer(q) \/ Fail(q)

Spec == Init /\ [][Next]_vars

-----------------------------------------------------------------------------
Call ==
  {Free} \cup [op : {"load", "list", "create"}, served : BOOLEAN]
  \cup [op : {"load", "list"}, list : SUBSET Templates, served : {TRUE}]
  \cup [op : {"create", "update", "duplicate"}, of : Templates, served : BOOLEAN]
  \cup [op : {"save"}, of : Templates, layout : Templates, served : BOOLEAN]
  \cup [op : {"delete"}, of : Templates, clears : BOOLEAN, served : BOOLEAN]

\* The values of the page's state and of its calls.
TypeOK ==
  /\ stored \in [Templates -> Templates \cup {None}]
  /\ templates \subseteq Templates
  /\ {selected, layout} \subseteq Templates \cup {None}
  /\ saving \in BOOLEAN
  /\ call \in [Calls -> Call]

\* At most one save is under way, and the flag says whether there is one.
OneSave ==
  /\ saving <=> \E q \in Calls : call[q].op = "save"
  /\ \A p, q \in Calls : call[p].op = "save" /\ call[q].op = "save" => p = q

\* The layout that is edited is that of the selected template.
LayoutOfSelected == layout = selected

\* No template holds the layout of another one.
LayoutsKept == \A t \in Existing : stored[t] = t
=============================================================================
