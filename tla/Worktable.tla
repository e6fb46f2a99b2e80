------------------------------- MODULE Worktable -------------------------------
(***************************************************************************)
(* The pages that list rows with a status and act on them: payroll runs,   *)
(* advances, salary structures, invoices, a subscription, vehicles and     *)
(* their assignments, roles, holidays, jobs and supervisors.  They differ  *)
(* in the operations, in which of them wait for one another, and in        *)
(* whether the list is loaded again or changed in place.                   *)
(***************************************************************************)
EXTENDS Integers, FiniteSets, Null

CONSTANTS
  Rows,
  Calls   \* bound: calls under way at once

ASSUME WorktableAssumption == None \notin Rows

VARIABLES
  page,
  rows,    \* the server's: [Rows -> a status], "none" before and "gone" after
  shown,   \* as the page last knew them
  busy,    \* creating, saving or busy: what disables the buttons
  dialog,  \* the operation and the row that a dialog asks about
  call

vars == <<page, rows, shown, busy, dialog, call>>

-----------------------------------------------------------------------------
\* from: the statuses that have the button; needs: those the server accepts; to: the
\* status that it leaves, or "same".
Op(name, from, needs, to) == [name |-> name, from |-> from, needs |-> needs, to |-> to]
Delete(from, needs) == Op("delete", from, needs, "gone")

\* new: the status of a row that is created, None where none is.  chain: an operation
\* on the row that is sent once it is made.  flagged: the operations that set busy and
\* wait for it; held: until the list is loaded again.  dialogs: those that a dialog
\* asks about, which stays over a failure if keeps.  patch: the list is changed in
\* place.  refresh: the list can be loaded by hand.
Page(ops, new, flagged, dialogs) ==
  [ops |-> ops, new |-> new, chain |-> None, flagged |-> flagged, held |-> FALSE,
   dialogs |-> dialogs, keeps |-> FALSE, patch |-> FALSE, refresh |-> FALSE]

DraftOps == {Op("finalize", {"draft"}, {"draft"}, "completed"), Delete({"draft"}, {"draft"})}
PayrollRunPage == Page(DraftOps, "draft", {"create"}, {})
PayrollDetail == Page({Op("finalize", {"draft"}, {"draft"}, "completed")}, None, {}, {})
AdvanceState == {"active", "repaid"}
AdvanceOps == {Delete(AdvanceState, AdvanceState)}
Advances == Page(AdvanceOps, "active", {"create"}, {})
StructureOps == {Delete({"saved"}, {"saved"})}
SalaryStructures == Page(StructureOps, "saved", {"create"}, {})
InvoiceOps ==
  {Op("paid", {"draft", "sent"}, {"draft", "sent", "paid"}, "paid"),
   Op("void", {"draft", "sent"}, {"draft", "sent", "void"}, "void")}
InvoiceList ==
  [Page(InvoiceOps, None, {"paid", "void"}, {}) EXCEPT !.held = TRUE, !.refresh = TRUE]
\* The form saves the status chosen in it; a licence is granted or revoked under any.
Term == {"active", "suspended"}
SubscriptionOps ==
  {Op("suspend", {"active"}, Term, "suspended"), Op("activate", {"suspended"}, Term, "active"),
   Op("license", Term, Term, "same")}
  \cup {Op("save", Term, Term, status) : status \in Term}
SubscriptionDetail ==
  [Page(SubscriptionOps, None, {"suspend", "activate", "license", "save"}, {}) EXCEPT !.held = TRUE]
\* Running a job changes no row, so its button, disabled for as long, is left out.
Switch == {"on", "off"}
JobOps == {Op("off", {"on"}, Switch, "off"), Op("on", {"off"}, Switch, "on"), Delete(Switch, Switch)}
JobList == [Page(JobOps, None, {}, {}) EXCEPT !.patch = TRUE]
VehicleOps == {Delete({"available", "maintenance"}, {"available", "maintenance", "assigned"})}
VehicleList == Page(VehicleOps, None, {}, {"delete"})
ReleaseOp == Op("release", {"assigned"}, {"assigned"}, "available")
AssignVehicle ==
  Page({Op("assign", {"available"}, {"available"}, "assigned"), ReleaseOp},
       None, {"assign"}, {"release"})
\* For the master, who may edit the roles of the system as well.
RoleOps ==
  {Delete({"custom"}, {"custom"}),
   Op("edit", {"custom", "system"}, {"custom", "system"}, "same")}
RolesPermissions == Page(RoleOps, "custom", {}, {"delete"})
HolidayOps == {Delete({"saved"}, {"saved"})}
HolidayPanel == Page(HolidayOps, "saved", {}, {})
Enable == Op("enable", {"disabled", "enabled"}, {"disabled", "enabled"}, "enabled")
SupervisorOps == {Enable, Op("disable", {"enabled"}, {"disabled", "enabled"}, "disabled")}
PhysicalAttendance ==
  [Page(SupervisorOps, "disabled",
        {"create", "enable", "disable"}, {"create", "enable", "disable"})
   EXCEPT !.chain = Enable, !.held = TRUE, !.keeps = TRUE, !.refresh = TRUE]

Pages == {PayrollRunPage, PayrollDetail, Advances, SalaryStructures, InvoiceList, SubscriptionDetail,
          JobList, VehicleList, AssignVehicle, RolesPermissions, HolidayPanel, PhysicalAttendance}

Statuses(p) ==
  ((UNION {o.from \cup o.needs \cup {o.to} : o \in p.ops}) \ {"same"})
  \cup ({p.new} \ {None}) \cup {"none", "gone"}

Create == Op("create", {}, {"none"}, page.new)
Flags(o) == o.name \in page.flagged

Free == [kind |-> "free"]
Busy(q) == call[q] # Free
Loading(held) == [kind |-> "load", held |-> held, stage |-> "sent"]
Doing(o, r) == [kind |-> "do", op |-> o, row |-> r, chained |-> FALSE, stage |-> "sent"]
Send(c) == \E q \in Calls : ~Busy(q) /\ call' = [call EXCEPT ![q] = c]

Init ==
  /\ page \in Pages
  /\ rows \in [Rows -> (UNION {o.from : o \in page.ops}) \cup {"none"}]
  /\ (page.new = None => \A r \in Rows : rows[r] # "none")
  /\ shown = [r \in Rows |-> "none"] /\ busy = FALSE /\ dialog = None
  /\ \E q \in Calls : call = [p \in Calls |-> IF p = q THEN Loading(FALSE) ELSE Free]

-----------------------------------------------------------------------------
Start(o, r) ==
  /\ Flags(o) => ~busy
  /\ busy' = (busy \/ Flags(o)) /\ Send(Doing(o, r))
  /\ UNCHANGED <<page, rows, shown>>

\* A button of a row, whose question, if there is one, stops the page.
Click(o, r) ==
  /\ shown[r] \in o.from /\ o.name \notin page.dialogs /\ dialog = None
  /\ Start(o, r) /\ UNCHANGED dialog

Open(o, r) ==
  /\ shown[r] \in o.from /\ o.name \in page.dialogs /\ dialog = None
  /\ dialog' = [op |-> o, row |-> r]
  /\ UNCHANGED <<page, rows, shown, busy, call>>

Add ==
  /\ page.new # None /\ dialog = None
  /\ IF "create" \in page.dialogs
     THEN dialog' = [op |-> Create, row |-> None] /\ UNCHANGED <<page, rows, shown, busy, call>>
     ELSE Start(Create, None) /\ UNCHANGED dialog

Confirm == dialog # None /\ Start(dialog.op, dialog.row) /\ UNCHANGED dialog

Dismiss ==
  /\ dialog # None /\ dialog' = None
  /\ UNCHANGED <<page, rows, shown, busy, call>>

Refresh ==
  /\ page.refresh /\ dialog = None /\ Send(Loading(FALSE))
  /\ UNCHANGED <<page, rows, shown, busy, dialog>>

-----------------------------------------------------------------------------
Serve(q) ==
  LET c == call[q]
  IN /\ Busy(q) /\ c.stage = "sent"
     /\ \/ /\ c.kind = "load" /\ UNCHANGED rows
           /\ call' = [call EXCEPT ![q] = [kind |-> "load", held |-> c.held, stage |-> "done", rows |-> rows]]
        \/ /\ c.kind = "do"
           /\ \E r \in IF c.op.name = "create" THEN Rows ELSE {c.row} :
                /\ rows[r] \in c.op.needs
                /\ rows' = [rows EXCEPT ![r] = IF c.op.to = "same" THEN @ ELSE c.op.to]
                /\ call' = [call EXCEPT ![q].stage = "done", ![q].row = r]
        \/ /\ c.kind = "do" /\ c.op.name # "create" /\ rows[c.row] \notin c.op.needs
           /\ call' = [call EXCEPT ![q].stage = "refused"] /\ UNCHANGED rows
     /\ UNCHANGED <<page, shown, busy, dialog>>

Loaded(q) ==
  /\ call[q].kind = "load" /\ call[q].stage = "done"
  /\ shown' = call[q].rows /\ busy' = (busy /\ ~call[q].held)
  /\ call' = [call EXCEPT ![q] = Free]
  /\ UNCHANGED <<page, rows, dialog>>

\* A job's switch turns whatever it shows by now.
Patch(o, r) ==
  shown' = [shown EXCEPT ![r] = CASE o.to = "gone" -> "gone"
                                  [] o.to = "same" -> @
                                  [] OTHER -> IF @ = "on" THEN "off" ELSE "on"]

CloseDialog(o) == dialog' = IF o.name \in page.dialogs THEN None ELSE dialog

\* Mutant: busy ends before the list is loaded again.
ReloadFreed(q) ==
  IF page.patch
  THEN Patch(call[q].op, call[q].row) /\ call' = [call EXCEPT ![q] = Free] /\ UNCHANGED busy
  ELSE /\ call' = [call EXCEPT ![q] = Loading(page.held /\ Flags(call[q].op))]
       /\ busy' = (busy /\ ~Flags(call[q].op))
       /\ UNCHANGED shown

Reload(q) ==
  IF page.patch
  THEN Patch(call[q].op, call[q].row) /\ call' = [call EXCEPT ![q] = Free] /\ UNCHANGED busy
  ELSE /\ call' = [call EXCEPT ![q] = Loading(page.held /\ Flags(call[q].op))]
       /\ busy' = (busy /\ (~Flags(call[q].op) \/ page.held))
       /\ UNCHANGED shown

\* What was done; the operation that follows a creation is part of it.
Done(q) ==
  /\ call[q].kind = "do" /\ call[q].stage = "done"
  /\ IF call[q].op.name = "create" /\ page.chain # None
     THEN /\ call' = [call EXCEPT ![q] = [Doing(page.chain, call[q].row) EXCEPT !.chained = TRUE]]
          /\ UNCHANGED <<shown, busy, dialog>>
     ELSE Reload(q) /\ CloseDialog(call[q].op)
  /\ UNCHANGED <<page, rows>>

\* A call that fails, refused, lost or unanswered; the account whose site could not
\* be set is there, and the list says so.
Fail(q) ==
  /\ Busy(q)
  /\ IF call[q].kind = "do" /\ call[q].chained
     THEN Reload(q) /\ CloseDialog(call[q].op)
     ELSE /\ call' = [call EXCEPT ![q] = Free]
          /\ busy' = (busy /\ ~(IF call[q].kind = "load" THEN call[q].held ELSE Flags(call[q].op)))
          /\ IF call[q].kind = "load" \/ page.keeps THEN UNCHANGED dialog ELSE CloseDialog(call[q].op)
          /\ UNCHANGED shown
  /\ UNCHANGED <<page, rows>>

\* Somebody else, on another page or at another desk.
Elsewhere(r) ==
  /\ \E to \in Statuses(page) \ {"none", rows[r]} :
       rows[r] \notin {"none", "gone"} /\ rows' = [rows EXCEPT ![r] = to]
  /\ UNCHANGED <<page, shown, busy, dialog, call>>

User == Add \/ Confirm \/ Dismiss \/ Refresh \/ \E o \in page.ops, r \in Rows : Click(o, r) \/ Open(o, r)

Answers == \E q \in Calls : Serve(q) \/ Loaded(q) \/ Done(q) \/ Fail(q)

Next == User \/ Answers \/ \E r \in Rows : Elsewhere(r)

Spec == Init /\ [][Next]_vars

-----------------------------------------------------------------------------
\* The rows, what is shown of them and the calls.
TypeOK ==
  /\ page \in Pages /\ busy \in BOOLEAN
  /\ rows \in [Rows -> Statuses(page)] /\ shown \in [Rows -> Statuses(page)]
  /\ (dialog # None => dialog.op \in page.ops \cup {Create} /\ dialog.row \in Rows \cup {None})
  /\ \A q \in Calls : Busy(q) => call[q].stage \in {"sent", "done", "refused"}

\* While busy is set one call holds it, and while it is not none does.
Holds(q) == Busy(q) /\ IF call[q].kind = "load" THEN call[q].held ELSE Flags(call[q].op)
BusyIsHeld ==
  /\ busy <=> \E q \in Calls : Holds(q)
  /\ \A p, q \in Calls : Holds(p) /\ Holds(q) => p = q

Quiet == \A q \in Calls : ~Busy(q)

\* Once every call has ended, the list is the server's.
ShowsServer == Quiet => shown = rows

\* A page that is busy until its list is loaded again never asks for what the server
\* refuses.
ActsOnCurrent == page.held => \A q \in Calls : Busy(q) => call[q].stage # "refused"
=============================================================================
