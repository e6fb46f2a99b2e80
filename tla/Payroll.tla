------------------------------ MODULE Payroll -------------------------------
(***************************************************************************)
(* Payroll runs and the advances they recover: routers/payroll.py and      *)
(* services/payroll_service.py.                                            *)
(*                                                                         *)
(* A run is drawn up as a draft, with one item per employee that says what *)
(* is withheld for the employee's advances; finalizing it takes a monthly  *)
(* deduction off each active advance; a draft can be cancelled.  What an   *)
(* item pays is in Pay.tla; here an item is whether it withholds anything. *)
(*                                                                         *)
(* As in Attendance a handler reads, and commits later.  Finalizing reads  *)
(* twice: the status of the run (the router's query, whose copy the        *)
(* service's query does not refresh), and then the items and the advances, *)
(* whose new balances it computes from what it read.                       *)
(***************************************************************************)
EXTENDS Integers, FiniteSets, Rounding

CONSTANTS
  Employees,    \* workers and supervisors
  Companies,
  CompanyOf,    \* the company of each employee
  Scopes,       \* companies of the callers; None is a master without company
  Periods,      \* months of years
  Amounts,      \* bound: amounts of advances
  Months,       \* bound: repayment months
  MaxAdvances,  \* bound: advances ever given
  MaxRuns,      \* bound: runs ever created
  Requests,     \* worker threads
  None          \* SQL NULL, and the content of a row id that holds no row

AdvanceIds == 1 .. MaxAdvances
RunIds     == 1 .. MaxRuns

\* schemas/payroll.py: amount > 0, repayment_months >= 1.
ASSUME PayrollAssumption ==
  /\ MaxAdvances \in Nat /\ MaxRuns \in Nat
  /\ Amounts \subseteq Nat \ {0} /\ Months \subseteq Nat \ {0}
  /\ CompanyOf \in [Employees -> Companies]
  /\ Scopes \subseteq Companies \cup {None}

VARIABLES
  employees,    \* users rows that exist
  advances,     \* row id -> advance, or None
  nextAdvance,
  runs,         \* row id -> payroll run, or None
  nextRun,
  request       \* what the handler in each thread has read and is to commit

vars == <<employees, advances, nextAdvance, runs, nextRun, request>>
tables == <<employees, advances, nextAdvance, runs, nextRun>>

-----------------------------------------------------------------------------
Advance ==
  [employee : Employees, amount : Nat, monthly : Nat, remaining : Nat,
   status : {"active", "repaid"}]

\* items: for each employee with an item, whether something is withheld for
\* advances; None without an item.
Run ==
  [company : Companies \cup {None}, period : Periods, status : {"draft", "completed"},
   items : [Employees -> {"withholding", "plain", None}]]

ASSUME NoneAssumption ==
  /\ None \notin Advance /\ None \notin Run /\ None \notin Companies
  /\ None \notin {"withholding", "plain"}

Idle == [op |-> "idle"]

\* read: the advances a finalize will write, as it read them; items: the
\* employees whose items it will mark as finalized.
Request ==
  {Idle}
    \cup [op : {"create"}, run : Run]
    \cup [op : {"check", "cancel"}, id : RunIds]
    \cup [op : {"finalize"}, id : RunIds, items : SUBSET Employees,
          read : [AdvanceIds -> Advance \cup {None}]]

TypeOK ==
  /\ employees \subseteq Employees
  /\ advances \in [AdvanceIds -> Advance \cup {None}]
  /\ nextAdvance \in 1 .. MaxAdvances + 1
  /\ runs \in [RunIds -> Run \cup {None}]
  /\ nextRun \in 1 .. MaxRuns + 1
  /\ request \in [Requests -> Request]

LiveAdvances == {a \in AdvanceIds : advances[a] # None}
LiveRuns     == {i \in RunIds : runs[i] # None}

ActiveOf(e) ==
  {a \in LiveAdvances : advances[a].employee = e /\ advances[a].status = "active"}

\* _get_advance_deduction is the sum of the monthly deductions of the active
\* advances; what is told apart here is whether it is above zero.
Item(e) ==
  IF \E a \in ActiveOf(e) : advances[a].monthly > 0 THEN "withholding" ELSE "plain"

Init ==
  /\ employees = Employees
  /\ advances = [a \in AdvanceIds |-> None]
  /\ nextAdvance = 1
  /\ runs = [i \in RunIds |-> None]
  /\ nextRun = 1
  /\ request = [r \in Requests |-> Idle]

-----------------------------------------------------------------------------
(***************************************************************************)
(* Handlers of one step, and the first steps of the others.                *)
(***************************************************************************)
Free(r) == request[r] = Idle

Begin(r, work) ==
  /\ Free(r)
  /\ request' = [request EXCEPT ![r] = work]
  /\ UNCHANGED tables

NewAdvance(e, amount, months) ==
  [employee |-> e, amount |-> amount, monthly |-> HalfUp(amount, months),
   remaining |-> amount, status |-> "active"]

\* POST /payroll/advances.
CreateAdvance(r) ==
  /\ Free(r)
  /\ nextAdvance <= MaxAdvances
  /\ \E e \in employees, amount \in Amounts, months \in Months :
       advances' = [advances EXCEPT ![nextAdvance] = NewAdvance(e, amount, months)]
  /\ nextAdvance' = nextAdvance + 1
  /\ UNCHANGED <<employees, runs, nextRun, request>>

\* DELETE /payroll/advances/{id}.
DeleteAdvance(r) ==
  /\ Free(r)
  /\ \E a \in LiveAdvances : advances' = [advances EXCEPT ![a] = None]
  /\ UNCHANGED <<employees, nextAdvance, runs, nextRun, request>>

WithoutItem(run, e) ==
  IF run = None THEN None ELSE [run EXCEPT !.items = [@ EXCEPT ![e] = None]]

\* DELETE /employees/{id}: the database deletes the advances and the items.
DeleteEmployee(r) ==
  /\ Free(r)
  /\ \E e \in employees :
       /\ employees' = employees \ {e}
       /\ advances' = [a \in AdvanceIds |->
                         IF a \in LiveAdvances /\ advances[a].employee = e
                         THEN None ELSE advances[a]]
       /\ runs' = [i \in RunIds |-> WithoutItem(runs[i], e)]
  /\ UNCHANGED <<nextAdvance, nextRun, request>>

\* The run that stops a new one; a master without company asks for any.
Existing(scope, p) ==
  {i \in LiveRuns : /\ runs[i].period = p
                    /\ scope # None => runs[i].company = scope}

Paid(scope) == {e \in employees : scope # None => CompanyOf[e] = scope}

NewRun(scope, p) ==
  [company |-> scope, period |-> p, status |-> "draft",
   items |-> [e \in Employees |-> IF e \in Paid(scope) THEN Item(e) ELSE None]]

\* POST /payroll/runs, up to the commit.
CreateRun(r) ==
  \E scope \in Scopes, p \in Periods :
    /\ Existing(scope, p) = {}
    /\ Begin(r, [op |-> "create", run |-> NewRun(scope, p)])

\* Mutant: the status is not tested.
FinalizeAnyRun(r) ==
  \E i \in LiveRuns : Begin(r, [op |-> "check", id |-> i])

\* POST /payroll/runs/{id}/finalize: the run is read and must be a draft.
FinalizeRun(r) ==
  \E i \in LiveRuns :
    /\ runs[i].status = "draft"
    /\ Begin(r, [op |-> "check", id |-> i])

\* Mutant: the status is not tested.
CancelAnyRun(r) ==
  \E i \in LiveRuns : Begin(r, [op |-> "cancel", id |-> i])

\* DELETE /payroll/runs/{id}, up to the commit.
CancelRun(r) ==
  \E i \in LiveRuns :
    /\ runs[i].status # "completed"
    /\ Begin(r, [op |-> "cancel", id |-> i])

-----------------------------------------------------------------------------
(***************************************************************************)
(* Second reads and commits.                                               *)
(***************************************************************************)
Recovers(i, a) ==
  /\ a \in LiveAdvances
  /\ advances[a].status = "active"
  /\ runs[i].items[advances[a].employee] = "withholding"

\* The finalizing handler reads the items, and the active advances of those
\* from whom something is withheld.  An item it finds finalized it leaves alone.
ReadAdvances(r) ==
  /\ request[r].op = "check"
  /\ LET i == request[r].id IN
       request' = [request EXCEPT ![r] =
         [op |-> "finalize", id |-> i,
          items |-> {e \in Employees : /\ i \in LiveRuns
                                       /\ runs[i].status = "draft"
                                       /\ runs[i].items[e] # None},
          read |-> [a \in AdvanceIds |-> IF i \in LiveRuns /\ Recovers(i, a)
                                         THEN advances[a] ELSE None]]]
  /\ UNCHANGED tables

\* Mutant: the balance may go below zero.
ReducedUnbounded(advance) ==
  LET left == advance.remaining - advance.monthly
  IN  [advance EXCEPT !.remaining = left,
                      !.status = IF left <= 0 THEN "repaid" ELSE @]

\* Mutant: an advance with nothing left is not yet repaid.
ReducedLate(advance) ==
  LET left == MaxOf(0, advance.remaining - advance.monthly)
  IN  [advance EXCEPT !.remaining = left,
                      !.status = IF left < 0 THEN "repaid" ELSE @]

Reduced(advance) ==
  LET left == MaxOf(0, advance.remaining - advance.monthly)
  IN  [advance EXCEPT !.remaining = left,
                      !.status = IF left <= 0 THEN "repaid" ELSE @]

Written(current, read, new) == IF new = read THEN current ELSE new

\* The columns that differ from those read are written.
Recovered(current, read) ==
  IF read = None \/ current = None THEN current
  ELSE [current EXCEPT
          !.remaining = Written(@, read.remaining, Reduced(read).remaining),
          !.status    = Written(@, read.status, Reduced(read).status)]

\* Every row to be updated is still there.
Applicable(work) ==
  /\ work.id \in LiveRuns
  /\ \A e \in work.items : runs[work.id].items[e] # None
  /\ \A a \in AdvanceIds :
       work.read[a] # None /\ Reduced(work.read[a]) # work.read[a] => a \in LiveAdvances

Finish(r) == request' = [request EXCEPT ![r] = Idle]

\* Mutant: the advances are committed apart from the run.
CommitFinalizeApart(r) ==
  /\ request[r].op = "finalize"
  /\ runs' = [i \in RunIds |-> IF i = request[r].id /\ i \in LiveRuns
                               THEN [runs[i] EXCEPT !.status = "completed"] ELSE runs[i]]
  /\ advances' = [a \in AdvanceIds |-> Recovered(advances[a], request[r].read[a])]
  /\ Finish(r)
  /\ UNCHANGED <<employees, nextAdvance, nextRun>>

CommitFinalize(r) ==
  /\ request[r].op = "finalize"
  /\ Applicable(request[r])
  /\ runs' = [runs EXCEPT ![request[r].id] = [@ EXCEPT !.status = "completed"]]
  /\ advances' = [a \in AdvanceIds |-> Recovered(advances[a], request[r].read[a])]
  /\ Finish(r)
  /\ UNCHANGED <<employees, nextAdvance, nextRun>>

\* The foreign keys of the items.
Insertable(run) == \A e \in Employees : run.items[e] # None => e \in employees

CommitRun(r) ==
  /\ request[r].op = "create"
  /\ nextRun <= MaxRuns
  /\ Insertable(request[r].run)
  /\ runs' = [runs EXCEPT ![nextRun] = request[r].run]
  /\ nextRun' = nextRun + 1
  /\ Finish(r)
  /\ UNCHANGED <<employees, advances, nextAdvance>>

\* The run and its items are deleted, whatever the run has become.
CommitCancel(r) ==
  /\ request[r].op = "cancel"
  /\ runs' = [runs EXCEPT ![request[r].id] = None]
  /\ Finish(r)
  /\ UNCHANGED <<employees, advances, nextAdvance, nextRun>>

\* A foreign key fails or a row to update is gone: nothing is written.
Rollback(r) ==
  /\ \/ request[r].op = "create" /\ ~ Insertable(request[r].run)
     \/ request[r].op = "finalize" /\ ~ Applicable(request[r])
  /\ Finish(r)
  /\ UNCHANGED tables

\* The server process is replaced: what was not committed is lost.
Restart ==
  /\ request' = [r \in Requests |-> Idle]
  /\ UNCHANGED tables

Handler(r) ==
  \/ CreateAdvance(r)
  \/ DeleteAdvance(r)
  \/ DeleteEmployee(r)
  \/ CreateRun(r)
  \/ FinalizeRun(r)
  \/ CancelRun(r)

Commit(r) ==
  \/ ReadAdvances(r)
  \/ CommitFinalize(r)
  \/ CommitRun(r)
  \/ CommitCancel(r)
  \/ Rollback(r)

Next ==
  \/ \E r \in Requests : Handler(r) \/ Commit(r)
  \/ Restart

Spec == Init /\ [][Next]_vars

-----------------------------------------------------------------------------
(***************************************************************************)
(* Properties.                                                             *)
(***************************************************************************)

\* What is left of an advance stays within its amount, and an active advance
\* has something left, although overlapping runs write balances they computed
\* from copies that are out of date.
ActiveOwes ==
  \A a \in LiveAdvances :
    /\ advances[a].remaining <= advances[a].amount
    /\ advances[a].status = "active" => advances[a].remaining > 0

\* A repaid advance is never collected again: no stale copy makes it active.
RepaidStaysRepaid ==
  \A a \in LiveAdvances :
    advances[a].status = "repaid" /\ advances'[a] # None => advances'[a].status = "repaid"

\* A run that was cancelled takes nothing off any advance and does not come
\* back, although a finalize read it as a draft before.
CancelledRecoversNothing ==
  \A r \in Requests :
    request[r].op = "finalize" /\ request'[r] = Idle /\ runs[request[r].id] = None
      => UNCHANGED <<advances, runs>>

\* No late step of an overlapping handler collects what is settled: an advance
\* that is repaid, or one that a cancelled run would have reduced.
StaysSettled == [][RepaidStaysRepaid /\ CancelledRecoversNothing]_vars
=============================================================================
