--------------------------- MODULE PayrollProofs ----------------------------
(***************************************************************************)
(* Proofs about Payroll, for every set of employees, callers and threads   *)
(* and every bound.  A balance is written from a copy that may be out of   *)
(* date, so the inductive invariant says what such a copy can be: active   *)
(* when it was read, with something left, and of the same amount as the    *)
(* row is if the row is still there.                                       *)
(***************************************************************************)
EXTENDS MCPayroll, FiniteSetTheorems, TLAPS

\* Row ids not yet handed out hold no advance.
FreshAdvances == \A a \in AdvanceIds : a >= nextAdvance => advances[a] = None

\* What a finalize read of an advance.
CopyOK(a, copy) ==
  /\ a < nextAdvance
  /\ copy.status = "active"
  /\ 0 < copy.remaining
  /\ copy.remaining <= copy.amount
  /\ advances[a] # None => advances[a].amount = copy.amount

CopiesOK ==
  \A r \in Requests : request[r].op = "finalize" =>
    \A a \in AdvanceIds : request[r].read[a] # None => CopyOK(a, request[r].read[a])

IInv == TypeOK /\ ActiveOwes /\ FreshAdvances /\ CopiesOK

-----------------------------------------------------------------------------
\* The monthly deduction is an amount of money.
LEMMA HalfUpNat ==
  ASSUME NEW n \in Nat, NEW d \in Nat \ {0}
  PROVE  HalfUp(n, d) \in Nat
<1>1. 2 * n + d \in Nat /\ 2 * d \in Nat \ {0}
  OBVIOUS
<1>2. \A p \in Nat, q \in Nat \ {0} : p \div q \in Nat
  OBVIOUS
<1>3. QED
  BY <1>1, <1>2 DEF HalfUp

\* Taking a monthly deduction off an active advance leaves an advance of the
\* same amount that is active exactly when something is left.
LEMMA ReducedAdvance ==
  ASSUME NEW adv \in Advance, adv.status = "active", adv.remaining <= adv.amount
  PROVE  /\ Reduced(adv) \in Advance
         /\ Reduced(adv).amount = adv.amount
         /\ Reduced(adv).remaining <= adv.amount
         /\ Reduced(adv).status = "active" <=> Reduced(adv).remaining > 0
<1> DEFINE left == MaxOf(0, adv.remaining - adv.monthly)
<1>1. left \in Nat /\ left <= adv.amount
  BY DEF MaxOf, Advance
<1> HIDE DEF left
<1>2. Reduced(adv) = [adv EXCEPT !.remaining = left,
                                 !.status = IF left <= 0 THEN "repaid" ELSE @]
  BY DEF Reduced, left
<1>3. /\ Reduced(adv).employee = adv.employee /\ Reduced(adv).amount = adv.amount
      /\ Reduced(adv).monthly = adv.monthly /\ Reduced(adv).remaining = left
      /\ Reduced(adv).status = IF left <= 0 THEN "repaid" ELSE "active"
  BY <1>2 DEF Advance
<1>4. Reduced(adv) \in Advance
  BY <1>1, <1>2, <1>3 DEF Advance
<1>5. QED
  BY <1>1, <1>3, <1>4

\* What a commit leaves of a row, when the copy it was computed from was
\* active: a balance within the amount, above zero while the row is active,
\* and a status that has not gone back to active.
LEMMA RecoveredAdvance ==
  ASSUME NEW current \in Advance, NEW copy \in Advance,
         copy.status = "active", 0 < copy.remaining, copy.remaining <= copy.amount,
         current.amount = copy.amount, current.remaining <= current.amount,
         current.status = "active" => current.remaining > 0
  PROVE  LET new == Recovered(current, copy)
         IN  /\ new \in Advance
             /\ new.amount = current.amount
             /\ new.remaining <= new.amount
             /\ new.status = "active" => new.remaining > 0
             /\ current.status = "repaid" => new.status = "repaid"
<1> DEFINE next == Reduced(copy)
<1>1. /\ next \in Advance
      /\ next.remaining <= copy.amount
      /\ next.status = "active" <=> next.remaining > 0
  BY ReducedAdvance
<1> HIDE DEF next
<1>2. current # None /\ copy # None
  BY NoneAssumption
<1>3. Recovered(current, copy) =
        [current EXCEPT
           !.remaining = IF next.remaining = copy.remaining THEN @ ELSE next.remaining,
           !.status    = IF next.status = copy.status THEN @ ELSE next.status]
  BY <1>2 DEF Recovered, Written, next
<1>4. QED
  BY <1>1, <1>3 DEF Advance

-----------------------------------------------------------------------------
LEMMA InitIInv == Init => IInv
<1> SUFFICES ASSUME Init PROVE IInv
  OBVIOUS
<1>1. TypeOK
  BY PayrollAssumption DEF Init, TypeOK, Request, Idle
<1>2. ActiveOwes /\ FreshAdvances /\ CopiesOK
  BY DEF Init, ActiveOwes, LiveAdvances, FreshAdvances, CopiesOK, Idle
<1>3. QED
  BY <1>1, <1>2 DEF IInv

\* An action keeps the invariant when it keeps the types, leaves every advance
\* either as before or with a fair balance, and lets requests read only copies
\* of the present rows.
LEMMA StepIInv ==
  ASSUME IInv, TypeOK', nextAdvance' >= nextAdvance,
         \A a \in AdvanceIds : advances'[a] # None =>
           /\ a < nextAdvance'
           /\ a < nextAdvance =>
                advances[a] # None /\ advances'[a].amount = advances[a].amount
           /\ advances'[a].remaining <= advances'[a].amount
           /\ advances'[a].status = "active" => advances'[a].remaining > 0,
         \A r \in Requests :
           \/ request'[r] = request[r]
           \/ request'[r].op # "finalize"
           \/ \A a \in AdvanceIds : request'[r].read[a] # None =>
                CopyOK(a, request'[r].read[a])
  PROVE  IInv'
<1>1. nextAdvance \in Nat /\ nextAdvance' \in Nat /\ AdvanceIds \subseteq Nat
  BY PayrollAssumption DEF IInv, TypeOK, AdvanceIds
<1>2. ActiveOwes'
  BY DEF ActiveOwes, LiveAdvances
<1>3. FreshAdvances'
  BY <1>1 DEF FreshAdvances
<1>4. CopiesOK'
  <2> SUFFICES ASSUME NEW r \in Requests, request'[r].op = "finalize",
                      NEW a \in AdvanceIds, request'[r].read[a] # None
               PROVE  CopyOK(a, request[r].read[a])'
    BY DEF CopiesOK
  <2>1. CopyOK(a, request'[r].read[a])
    BY DEF IInv, CopiesOK
  <2>2. QED
    BY <1>1, <2>1 DEF CopyOK
<1>5. QED
  BY <1>2, <1>3, <1>4 DEF IInv

\* The advances of a state of the invariant satisfy what StepIInv asks of the
\* next ones.
LEMMA Present ==
  ASSUME IInv, NEW a \in AdvanceIds, advances[a] # None
  PROVE  /\ advances[a] \in Advance
         /\ a < nextAdvance
         /\ advances[a].remaining <= advances[a].amount
         /\ advances[a].status = "active" => advances[a].remaining > 0
<1>1. a \in Nat /\ nextAdvance \in Nat
  BY PayrollAssumption DEF IInv, TypeOK, AdvanceIds
<1>2. QED
  BY <1>1 DEF IInv, TypeOK, ActiveOwes, LiveAdvances, FreshAdvances

\* A step that leaves the tables alone and lets each request as it was or puts
\* one there that is no finalize with copies.
LEMMA QuietIInv ==
  ASSUME IInv, UNCHANGED tables, request' \in [Requests -> Request],
         \A r \in Requests :
           request'[r] = request[r] \/ request'[r].op # "finalize"
  PROVE  IInv'
<1>1. TypeOK'
  BY DEF IInv, TypeOK, tables
<1>2. advances' = advances /\ nextAdvance' = nextAdvance /\ nextAdvance \in Nat
  BY DEF IInv, TypeOK, tables
<1>3. QED
  BY <1>1, <1>2, Present, StepIInv

-----------------------------------------------------------------------------
LEMMA CreateAdvanceIInv ==
  ASSUME IInv, NEW r \in Requests, CreateAdvance(r)
  PROVE  IInv'
<1>1. PICK e \in employees, amount \in Amounts, months \in Months :
        advances' = [advances EXCEPT ![nextAdvance] = NewAdvance(e, amount, months)]
  BY DEF CreateAdvance
<1> DEFINE new == NewAdvance(e, amount, months)
<1>2. amount \in Nat \ {0} /\ months \in Nat \ {0} /\ e \in Employees
  BY PayrollAssumption DEF IInv, TypeOK
<1>3. new \in Advance /\ new.remaining = new.amount /\ new.amount > 0
  BY <1>2, HalfUpNat DEF NewAdvance, Advance
<1> HIDE DEF new
<1>4. nextAdvance \in Nat /\ nextAdvance \in AdvanceIds /\ nextAdvance' = nextAdvance + 1
  BY PayrollAssumption DEF CreateAdvance, IInv, TypeOK, AdvanceIds
<1>5. \A a \in AdvanceIds :
        advances'[a] = IF a = nextAdvance THEN new ELSE advances[a]
  BY <1>1 DEF IInv, TypeOK, new
<1>6. TypeOK'
  <2>1. advances' \in [AdvanceIds -> Advance \cup {None}]
    BY <1>1, <1>3 DEF IInv, TypeOK, new
  <2>2. nextAdvance' \in 1 .. MaxAdvances + 1
    BY <1>4, PayrollAssumption DEF CreateAdvance, IInv, TypeOK
  <2>3. QED
    BY <2>1, <2>2 DEF CreateAdvance, IInv, TypeOK
<1>7. request' = request
  BY DEF CreateAdvance
<1>8. ASSUME NEW a \in AdvanceIds, advances'[a] # None
      PROVE  /\ a < nextAdvance'
             /\ a < nextAdvance =>
                  advances[a] # None /\ advances'[a].amount = advances[a].amount
             /\ advances'[a].remaining <= advances'[a].amount
             /\ advances'[a].status = "active" => advances'[a].remaining > 0
  <2>1. CASE a = nextAdvance
    BY <1>3, <1>4, <1>5, <2>1 DEF Advance
  <2>2. CASE a # nextAdvance
    <3>1. advances'[a] = advances[a]
      BY <1>5, <2>2
    <3>2. a \in Nat
      BY DEF AdvanceIds
    <3>3. QED
      BY <1>4, <1>8, <3>1, <3>2, Present
  <2>3. QED
    BY <2>1, <2>2
<1>9. nextAdvance' >= nextAdvance
  BY <1>4
<1>10. QED
  BY <1>6, <1>7, <1>8, <1>9, StepIInv

\* Removing advances, and changing the other tables, keeps the invariant.
LEMMA RemovalIInv ==
  ASSUME IInv, TypeOK', nextAdvance' = nextAdvance, request' = request,
         \A a \in AdvanceIds : advances'[a] \in {advances[a], None}
  PROVE  IInv'
<1>1. nextAdvance \in Nat
  BY DEF IInv, TypeOK
<1>2. \A a \in AdvanceIds : advances'[a] # None => advances'[a] = advances[a]
  OBVIOUS
<1>3. QED
  BY <1>1, <1>2, Present, StepIInv

LEMMA DeleteAdvanceIInv ==
  ASSUME IInv, NEW r \in Requests, DeleteAdvance(r)
  PROVE  IInv'
<1>1. PICK d \in AdvanceIds : advances' = [advances EXCEPT ![d] = None]
  BY DEF DeleteAdvance, LiveAdvances
<1>2. TypeOK'
  BY <1>1 DEF DeleteAdvance, IInv, TypeOK
<1>3. \A a \in AdvanceIds : advances'[a] \in {advances[a], None}
  BY <1>1 DEF IInv, TypeOK
<1>4. nextAdvance' = nextAdvance /\ request' = request
  BY DEF DeleteAdvance
<1>5. QED
  BY <1>2, <1>3, <1>4, RemovalIInv

\* A run without one of its items is a run.
LEMMA WithoutItemRun ==
  ASSUME NEW run \in Run \cup {None}, NEW e \in Employees
  PROVE  WithoutItem(run, e) \in Run \cup {None}
<1>1. CASE run = None
  BY <1>1 DEF WithoutItem
<1>2. CASE run # None
  <2>1. [run.items EXCEPT ![e] = None] \in [Employees -> {"withholding", "plain", None}]
    BY <1>2 DEF Run
  <2>2. WithoutItem(run, e) = [run EXCEPT !.items = [run.items EXCEPT ![e] = None]]
    BY <1>2 DEF WithoutItem
  <2>3. QED
    BY <1>2, <2>1, <2>2 DEF Run
<1>3. QED
  BY <1>1, <1>2

LEMMA DeleteEmployeeIInv ==
  ASSUME IInv, NEW r \in Requests, DeleteEmployee(r)
  PROVE  IInv'
<1>1. PICK e \in employees :
        /\ employees' = employees \ {e}
        /\ advances' = [a \in AdvanceIds |->
                          IF a \in LiveAdvances /\ advances[a].employee = e
                          THEN None ELSE advances[a]]
        /\ runs' = [i \in RunIds |-> WithoutItem(runs[i], e)]
  BY DEF DeleteEmployee
<1>2. nextAdvance' = nextAdvance /\ request' = request /\ nextRun' = nextRun
  BY DEF DeleteEmployee
<1>3. TypeOK'
  <2>1. e \in Employees
    BY DEF IInv, TypeOK
  <2>2. runs' \in [RunIds -> Run \cup {None}]
    BY <1>1, <2>1, WithoutItemRun DEF IInv, TypeOK
  <2>3. employees' \subseteq Employees /\ advances' \in [AdvanceIds -> Advance \cup {None}]
    BY <1>1 DEF IInv, TypeOK
  <2>4. QED
    BY <1>2, <2>2, <2>3 DEF IInv, TypeOK
<1>4. \A a \in AdvanceIds : advances'[a] \in {advances[a], None}
  BY <1>1
<1>5. QED
  BY <1>2, <1>3, <1>4, RemovalIInv

\* Beginning a handler, none of which begins with a finalize.
LEMMA BeginIInv ==
  ASSUME IInv, NEW r \in Requests, NEW work \in Request, work.op # "finalize",
         Begin(r, work)
  PROVE  IInv'
<1>1. /\ UNCHANGED tables
      /\ request' \in [Requests -> Request]
      /\ \A q \in Requests : request'[q] = request[q] \/ request'[q].op # "finalize"
  BY DEF Begin, IInv, TypeOK
<1>2. QED
  BY <1>1, QuietIInv

LEMMA CreateRunIInv ==
  ASSUME IInv, NEW r \in Requests, CreateRun(r)
  PROVE  IInv'
<1>1. PICK scope \in Scopes, p \in Periods :
        Begin(r, [op |-> "create", run |-> NewRun(scope, p)])
  BY DEF CreateRun
<1> DEFINE run == NewRun(scope, p)
<1>2. run \in Run
  <2>1. \A e \in Employees : Item(e) \in {"withholding", "plain"}
    BY DEF Item
  <2>2. scope \in Companies \cup {None}
    BY PayrollAssumption
  <2>3. QED
    BY <2>1, <2>2 DEF NewRun, Run
<1> HIDE DEF run
<1>3. [op |-> "create", run |-> run] \in Request
  BY <1>2 DEF Request
<1>4. Begin(r, [op |-> "create", run |-> run])
  BY <1>1 DEF run
<1>5. QED
  BY <1>3, <1>4, BeginIInv

LEMMA OpenRunIInv ==
  ASSUME IInv, NEW r \in Requests, NEW i \in RunIds, NEW op \in {"check", "cancel"},
         Begin(r, [op |-> op, id |-> i])
  PROVE  IInv'
<1>1. [op |-> op, id |-> i] \in Request
  BY DEF Request
<1>2. QED
  BY <1>1, BeginIInv

LEMMA ReadAdvancesIInv ==
  ASSUME IInv, NEW r \in Requests, ReadAdvances(r)
  PROVE  IInv'
<1> DEFINE i == request[r].id
           items == {e \in Employees : /\ i \in LiveRuns
                                       /\ runs[i].status = "draft"
                                       /\ runs[i].items[e] # None}
           read == [a \in AdvanceIds |-> IF i \in LiveRuns /\ Recovers(i, a)
                                         THEN advances[a] ELSE None]
           work == [op |-> "finalize", id |-> i, items |-> items, read |-> read]
<1>1. request' = [request EXCEPT ![r] = work] /\ UNCHANGED tables
  BY DEF ReadAdvances
<1>2. i \in RunIds
  BY DEF ReadAdvances, IInv, TypeOK, Request, Idle
<1>3. read \in [AdvanceIds -> Advance \cup {None}]
  BY DEF IInv, TypeOK
<1>4. ASSUME NEW a \in AdvanceIds, read[a] # None
      PROVE  CopyOK(a, read[a])
  <2>1. read[a] = advances[a] /\ advances[a] # None /\ advances[a].status = "active"
    BY <1>4 DEF Recovers, LiveAdvances
  <2>2. QED
    BY <2>1, Present DEF CopyOK
<1>5. items \in SUBSET Employees
  OBVIOUS
<1> HIDE DEF i, items, read
<1>6. work \in Request
  BY <1>2, <1>3, <1>5 DEF Request
<1>7. TypeOK'
  BY <1>1, <1>6 DEF IInv, TypeOK, tables
<1>8. \A q \in Requests :
        request'[q] = request[q] \/ (q = r /\ request'[q].read = read)
  BY <1>1 DEF IInv, TypeOK
<1>9. advances' = advances /\ nextAdvance' = nextAdvance /\ nextAdvance \in Nat
  BY <1>1 DEF IInv, TypeOK, tables
<1>10. QED
  BY <1>4, <1>7, <1>8, <1>9, Present, StepIInv

\* What is in flight has the parts its operation says.
LEMMA RequestParts ==
  ASSUME NEW req \in Request
  PROVE  /\ req.op = "create" => req.run \in Run
         /\ req.op \in {"check", "cancel", "finalize"} => req.id \in RunIds
         /\ req.op = "finalize" => req.read \in [AdvanceIds -> Advance \cup {None}]
BY DEF Request, Idle

LEMMA FinishRequests ==
  ASSUME IInv, NEW r \in Requests, Finish(r)
  PROVE  /\ request' \in [Requests -> Request]
         /\ \A q \in Requests : request'[q] = request[q] \/ request'[q].op # "finalize"
<1>1. Idle \in Request /\ Idle.op # "finalize"
  BY DEF Request, Idle
<1>2. QED
  BY <1>1 DEF Finish, IInv, TypeOK

\* What CommitFinalize does to an advance.
LEMMA CommitFinalizeAdvances ==
  ASSUME IInv, NEW r \in Requests, CommitFinalize(r),
         NEW a \in AdvanceIds, advances'[a] # None
  PROVE  /\ advances[a] # None
         /\ advances'[a] \in Advance
         /\ advances'[a].amount = advances[a].amount
         /\ advances'[a].remaining <= advances'[a].amount
         /\ advances'[a].status = "active" => advances'[a].remaining > 0
         /\ advances[a].status = "repaid" => advances'[a].status = "repaid"
<1> DEFINE copy == request[r].read[a]
<1>1. advances'[a] = Recovered(advances[a], copy)
  BY DEF CommitFinalize
<1>2. request[r] \in Request /\ request[r].op = "finalize"
  BY DEF CommitFinalize, IInv, TypeOK
<1>3. copy \in Advance \cup {None}
  BY <1>2, RequestParts
<1>4. copy # None => CopyOK(a, copy)
  BY <1>2 DEF IInv, CopiesOK
<1> HIDE DEF copy
<1>5. CASE copy = None \/ advances[a] = None
  <2>1. advances'[a] = advances[a]
    BY <1>1, <1>5 DEF Recovered
  <2>2. QED
    BY <2>1, Present
<1>6. CASE copy # None /\ advances[a] # None
  <2>1. advances[a].remaining <= advances[a].amount /\ advances[a] \in Advance
        /\ (advances[a].status = "active" => advances[a].remaining > 0)
    BY <1>6, Present
  <2>2. /\ copy \in Advance /\ copy.status = "active" /\ 0 < copy.remaining
        /\ copy.remaining <= copy.amount /\ advances[a].amount = copy.amount
    BY <1>3, <1>4, <1>6 DEF CopyOK
  <2>3. QED
    BY <1>1, <1>6, <2>1, <2>2, RecoveredAdvance
<1>7. QED
  BY <1>5, <1>6

LEMMA CommitFinalizeIInv ==
  ASSUME IInv, NEW r \in Requests, CommitFinalize(r)
  PROVE  IInv'
<1>1. request[r] \in Request /\ request[r].id \in RunIds
  BY RequestParts DEF CommitFinalize, IInv, TypeOK
<1>2. runs[request[r].id] \in Run
  BY <1>1 DEF CommitFinalize, Applicable, LiveRuns, IInv, TypeOK
<1>3. runs' \in [RunIds -> Run \cup {None}]
  <2>1. [runs[request[r].id] EXCEPT !.status = "completed"] \in Run
    BY <1>2 DEF Run
  <2>2. QED
    BY <2>1 DEF CommitFinalize, IInv, TypeOK
<1>4. advances' \in [AdvanceIds -> Advance \cup {None}]
  <2>1. DOMAIN advances' = AdvanceIds
        /\ advances' = [a \in AdvanceIds |-> advances'[a]]
    BY DEF CommitFinalize
  <2>2. \A a \in AdvanceIds : advances'[a] \in Advance \cup {None}
    BY CommitFinalizeAdvances
  <2>3. QED
    BY <2>1, <2>2
<1>5. Finish(r) /\ nextAdvance' = nextAdvance /\ nextRun' = nextRun
      /\ employees' = employees
  BY DEF CommitFinalize
<1>6. TypeOK'
  BY <1>3, <1>4, <1>5, FinishRequests DEF IInv, TypeOK
<1>7. nextAdvance \in Nat
  BY DEF IInv, TypeOK
<1>8. \A a \in AdvanceIds : advances'[a] # None => a < nextAdvance
  BY CommitFinalizeAdvances, Present
<1>9. QED
  BY <1>5, <1>6, <1>7, <1>8, CommitFinalizeAdvances, FinishRequests, StepIInv

\* A commit that changes runs only.
LEMMA RunsIInv ==
  ASSUME IInv, NEW r \in Requests, Finish(r), runs' \in [RunIds -> Run \cup {None}],
         nextRun' \in 1 .. MaxRuns + 1,
         UNCHANGED <<employees, advances, nextAdvance>>
  PROVE  IInv'
<1>1. TypeOK'
  BY FinishRequests DEF IInv, TypeOK
<1>2. nextAdvance \in Nat
  BY DEF IInv, TypeOK
<1>3. QED
  BY <1>1, <1>2, FinishRequests, Present, StepIInv

LEMMA CommitRunIInv ==
  ASSUME IInv, NEW r \in Requests, CommitRun(r)
  PROVE  IInv'
<1>1. request[r].run \in Run
  BY RequestParts DEF CommitRun, IInv, TypeOK
<1>2. runs' \in [RunIds -> Run \cup {None}]
  BY <1>1 DEF CommitRun, IInv, TypeOK
<1>3. nextRun' \in 1 .. MaxRuns + 1
  BY PayrollAssumption DEF CommitRun, IInv, TypeOK
<1>4. QED
  BY <1>2, <1>3, RunsIInv DEF CommitRun

LEMMA CommitCancelIInv ==
  ASSUME IInv, NEW r \in Requests, CommitCancel(r)
  PROVE  IInv'
<1>1. runs' \in [RunIds -> Run \cup {None}]
  BY DEF CommitCancel, IInv, TypeOK
<1>2. nextRun' \in 1 .. MaxRuns + 1
  BY DEF CommitCancel, IInv, TypeOK
<1>3. QED
  BY <1>1, <1>2, RunsIInv DEF CommitCancel

LEMMA NextIInv ==
  ASSUME IInv, [Next]_vars
  PROVE  IInv'
<1>1. ASSUME NEW r \in Requests, Handler(r) PROVE IInv'
  <2>1. CASE CreateAdvance(r)
    BY <2>1, CreateAdvanceIInv
  <2>2. CASE DeleteAdvance(r)
    BY <2>2, DeleteAdvanceIInv
  <2>3. CASE DeleteEmployee(r)
    BY <2>3, DeleteEmployeeIInv
  <2>4. CASE CreateRun(r)
    BY <2>4, CreateRunIInv
  <2>5. CASE FinalizeRun(r)
    BY <2>5, OpenRunIInv DEF FinalizeRun, LiveRuns
  <2>6. CASE CancelRun(r)
    BY <2>6, OpenRunIInv DEF CancelRun, LiveRuns
  <2>7. QED
    BY <1>1, <2>1, <2>2, <2>3, <2>4, <2>5, <2>6 DEF Handler
<1>2. ASSUME NEW r \in Requests, Commit(r) PROVE IInv'
  <2>1. CASE ReadAdvances(r)
    BY <2>1, ReadAdvancesIInv
  <2>2. CASE CommitFinalize(r)
    BY <2>2, CommitFinalizeIInv
  <2>3. CASE CommitRun(r)
    BY <2>3, CommitRunIInv
  <2>4. CASE CommitCancel(r)
    BY <2>4, CommitCancelIInv
  <2>5. CASE Rollback(r)
    BY <2>5, FinishRequests, QuietIInv DEF Rollback
  <2>6. QED
    BY <1>2, <2>1, <2>2, <2>3, <2>4, <2>5 DEF Commit
<1>3. CASE Restart
  <2>1. Idle \in Request /\ Idle.op # "finalize"
    BY DEF Request, Idle
  <2>2. QED
    BY <1>3, <2>1, QuietIInv DEF Restart
<1>4. CASE UNCHANGED vars
  <2>1. UNCHANGED tables /\ request' = request /\ request \in [Requests -> Request]
    BY <1>4 DEF vars, tables, IInv, TypeOK
  <2>2. QED
    BY <2>1, QuietIInv
<1>5. QED
  BY <1>1, <1>2, <1>3, <1>4 DEF Next

\* The inductive invariant holds in every reachable state.
THEOREM Invariance == Spec => []IInv
<1>1. Init => IInv
  BY InitIInv
<1>2. IInv /\ [Next]_vars => IInv'
  BY NextIInv
<1>3. QED
  BY <1>1, <1>2, PTL DEF Spec

\* The tables and the requests in flight stay well typed; balances, above all,
\* never go below zero.
THEOREM TypeCorrect == Spec => []TypeOK
<1>1. IInv => TypeOK
  BY DEF IInv
<1>2. QED
  BY <1>1, Invariance, PTL

\* However many runs are finalized at once, an advance never has more left than
\* its amount, and an active one always has something left.
THEOREM ActiveAdvancesOwe == Spec => []ActiveOwes
<1>1. IInv => ActiveOwes
  BY DEF IInv
<1>2. QED
  BY <1>1, Invariance, PTL

\* A repaid advance is never active again, whatever copy is written over it.
LEMMA StepRepaid == IInv /\ [Next]_vars => RepaidStaysRepaid
<1> DEFINE A == \A a \in LiveAdvances :
      advances[a].status = "repaid" /\ advances'[a] # None
        => advances'[a].status = "repaid"
<1>1. ASSUME IInv, [Next]_vars PROVE A
  <2>1. ASSUME advances' = advances PROVE A
    BY <2>1
  <2>2. ASSUME \A a \in AdvanceIds : advances'[a] \in {advances[a], None} PROVE A
    BY <2>2 DEF LiveAdvances
  <2>3. ASSUME NEW r \in Requests, Handler(r) PROVE A
    <3>1. CASE CreateAdvance(r)
      <4>1. nextAdvance \notin LiveAdvances
        BY <1>1 DEF IInv, TypeOK, FreshAdvances, LiveAdvances, AdvanceIds
      <4>2. \A a \in LiveAdvances : advances'[a] = advances[a]
        BY <1>1, <3>1, <4>1 DEF CreateAdvance, IInv, TypeOK, LiveAdvances
      <4>3. QED
        BY <4>2
    <3>2. CASE DeleteAdvance(r)
      BY <1>1, <2>2, <3>2 DEF DeleteAdvance, IInv, TypeOK
    <3>3. CASE DeleteEmployee(r)
      BY <2>2, <3>3 DEF DeleteEmployee
    <3>4. CASE CreateRun(r) \/ FinalizeRun(r) \/ CancelRun(r)
      BY <2>1, <3>4 DEF CreateRun, FinalizeRun, CancelRun, Begin, tables
    <3>5. QED
      BY <2>3, <3>1, <3>2, <3>3, <3>4 DEF Handler
  <2>4. ASSUME NEW r \in Requests, CommitFinalize(r) PROVE A
    BY <1>1, <2>4, CommitFinalizeAdvances DEF LiveAdvances
  <2>5. QED
    BY <1>1, <2>1, <2>3, <2>4
       DEF Next, Commit, ReadAdvances, CommitRun, CommitCancel, Rollback, Restart, vars,
           tables
<1>2. QED
  BY <1>1 DEF RepaidStaysRepaid

\* A finalize whose run is gone ends without a change of advances and runs: its
\* commit needs the run, and a restart or a rollback writes nothing.
LEMMA StepCancelled == IInv /\ [Next]_vars => CancelledRecoversNothing
<1> SUFFICES ASSUME IInv, [Next]_vars, NEW r \in Requests,
                    request[r].op = "finalize", request'[r] = Idle,
                    runs[request[r].id] = None
             PROVE  UNCHANGED <<advances, runs>>
  BY DEF CancelledRecoversNothing
<1>1. request \in [Requests -> Request] /\ request[r] # Idle
  BY DEF IInv, TypeOK, Idle
<1>2. CASE UNCHANGED vars \/ Restart
  BY <1>2 DEF vars, Restart, tables
<1>3. ASSUME NEW q \in Requests, Handler(q) PROVE FALSE
  <2>1. request[q] = Idle /\ (request' = request \/ \E work : request' = [request EXCEPT ![q] = work])
    BY <1>3 DEF Handler, CreateAdvance, DeleteAdvance, DeleteEmployee, CreateRun,
                FinalizeRun, CancelRun, Begin, Free
  <2>2. request'[r] = request[r]
    BY <1>1, <2>1
  <2>3. QED
    BY <1>1, <2>2
<1>4. ASSUME NEW q \in Requests, Commit(q) PROVE UNCHANGED <<advances, runs>>
  <2>1. \E work : request' = [request EXCEPT ![q] = work]
    BY <1>4 DEF Commit, ReadAdvances, CommitFinalize, CommitRun, CommitCancel, Rollback, Finish
  <2>2. q = r
    BY <1>1, <2>1
  <2>3. ~ Applicable(request[r])
    BY DEF Applicable, LiveRuns
  <2>4. Rollback(r)
    BY <1>4, <2>2, <2>3 DEF Commit, ReadAdvances, CommitFinalize, CommitRun, CommitCancel
  <2>5. QED
    BY <2>4 DEF Rollback, tables
<1>5. QED
  BY <1>2, <1>3, <1>4 DEF Next

\* What is settled is not collected: a repaid advance, or one of a cancelled run.
THEOREM NeverCollectedAgain == Spec => StaysSettled
<1>1. IInv /\ [Next]_vars => RepaidStaysRepaid /\ CancelledRecoversNothing
  BY StepRepaid, StepCancelled
<1>2. QED
  BY <1>1, Invariance, PTL DEF Spec, StaysSettled

-----------------------------------------------------------------------------
(***************************************************************************)
(* What holds as long as handlers have not overlapped (MCPayroll): the     *)
(* copies of the handler at work are what the tables hold.                 *)
(***************************************************************************)
FreshRuns == \A i \in RunIds : i >= nextRun => runs[i] = None

Withheld(e) ==
  {i \in LiveRuns : runs[i].status = "completed" /\ runs[i].items[e] = "withholding"}

Repaid(a) == advances[a].status = "repaid" => advances[a].remaining = 0

Bounded(a) ==
  advances[a].amount - advances[a].remaining
    <= advances[a].monthly * Cardinality(Withheld(advances[a].employee))

SameMonth(run, other) == run.company = other.company /\ run.period = other.period

OneForMonth == \A i, j \in LiveRuns : SameMonth(runs[i], runs[j]) => i = j

Fresh(req) ==
  /\ req.op = "create" =>
       req.run.status = "draft" /\ \A i \in LiveRuns : ~ SameMonth(runs[i], req.run)
  /\ req.op \in {"check", "finalize"} =>
       req.id \in LiveRuns /\ runs[req.id].status = "draft"
  /\ req.op = "cancel" => req.id \in LiveRuns /\ runs[req.id].status # "completed"
  /\ req.op = "finalize" =>
       req.read = [a \in AdvanceIds |-> IF Recovers(req.id, a) THEN advances[a] ELSE None]

TablesSound ==
  /\ FreshRuns
  /\ \A a \in LiveAdvances : Repaid(a) /\ Bounded(a)
  /\ OneForMonth

AloneInv == alone => TablesSound /\ \A r \in Requests : Fresh(request[r])

\* More runs, more withheld.
LEMMA MoreWithheld ==
  ASSUME NEW m \in Nat, NEW S \in SUBSET RunIds, NEW T \in SUBSET S
  PROVE  m * Cardinality(T) <= m * Cardinality(S)
<1>1. IsFiniteSet(RunIds)
  BY FS_Interval, PayrollAssumption DEF RunIds
<1>2. IsFiniteSet(S) /\ IsFiniteSet(T)
  BY <1>1, FS_Subset
<1>3. Cardinality(S) \in Nat /\ Cardinality(T) \in Nat /\ Cardinality(T) <= Cardinality(S)
  BY <1>2, FS_Subset, FS_CardinalityType
<1>4. \A n, k \in Nat : n <= k => m * n <= m * k
  OBVIOUS
<1>5. QED
  BY <1>3, <1>4

LEMMA OneMoreWithheld ==
  ASSUME NEW m \in Nat, NEW S \in SUBSET RunIds, NEW i \in RunIds, i \notin S
  PROVE  m * Cardinality(S \cup {i}) = m * Cardinality(S) + m
<1>1. IsFiniteSet(RunIds)
  BY FS_Interval, PayrollAssumption DEF RunIds
<1>2. IsFiniteSet(S)
  BY <1>1, FS_Subset
<1>3. Cardinality(S) \in Nat /\ Cardinality(S \cup {i}) = Cardinality(S) + 1
  BY <1>2, FS_AddElement, FS_CardinalityType
<1>4. \A n \in Nat : m * (n + 1) = m * n + m
  OBVIOUS
<1>5. QED
  BY <1>3, <1>4

\* Nothing in flight after a step of the only handler at work, unless it is that one.
LEMMA OthersIdle ==
  ASSUME IInv, NEW r \in Requests, Handler(r) \/ Commit(r), Alone(r)
  PROVE  \A q \in Requests \ {r} : request'[q] = Idle
BY DEF Handler, Commit, CreateAdvance, DeleteAdvance, DeleteEmployee, CreateRun,
       FinalizeRun, CancelRun, Begin, ReadAdvances, CommitFinalize, CommitRun,
       CommitCancel, Rollback, Finish, Alone, IInv, TypeOK

LEMMA IdleFresh == Fresh(Idle) /\ Fresh(Idle)'
BY DEF Fresh, Idle

LEMMA StepAlone ==
  ASSUME IInv, NEW r \in Requests, Handler(r) \/ Commit(r), Alone(r),
         TablesSound', Fresh(request[r])'
  PROVE  AloneInv'
<1>1. ASSUME NEW q \in Requests PROVE Fresh(request[q])'
  <2>1. CASE q = r
    BY <2>1
  <2>2. CASE q # r
    BY <2>2, OthersIdle, IdleFresh
  <2>3. QED
    BY <2>1, <2>2
<1>2. QED
  BY <1>1 DEF AloneInv

\* A step that leaves the tables alone.
LEMMA TablesKept == TablesSound /\ UNCHANGED tables => TablesSound'
<1> SUFFICES ASSUME TablesSound, UNCHANGED tables PROVE TablesSound'
  OBVIOUS
<1>1. FreshRuns' /\ OneForMonth'
  BY DEF TablesSound, tables, FreshRuns, OneForMonth, SameMonth, LiveRuns
<1>2. \A e : Withheld(e)' = Withheld(e)
  BY DEF tables, Withheld, LiveRuns
<1>3. \A a \in LiveAdvances' : Repaid(a)' /\ Bounded(a)'
  BY <1>2 DEF TablesSound, tables, LiveAdvances, Repaid, Bounded
<1>4. QED
  BY <1>1, <1>3 DEF TablesSound

\* An advance a step leaves as it is stays bounded when no run is taken away.
LEMMA BoundKept ==
  ASSUME IInv, TypeOK', TablesSound, NEW a \in AdvanceIds, advances[a] # None,
         advances'[a] = advances[a],
         Withheld(advances[a].employee) \subseteq Withheld(advances[a].employee)'
  PROVE  Repaid(a)' /\ Bounded(a)'
<1>1. PICK e, m, owed, left :
        /\ e = advances[a].employee /\ m = advances[a].monthly
        /\ owed = advances[a].amount /\ left = advances[a].remaining
  OBVIOUS
<1>2. m \in Nat /\ owed \in Nat /\ left \in Nat
  BY <1>1, Present DEF Advance
<1>3. m * Cardinality(Withheld(e)) <= m * Cardinality(Withheld(e)')
  <2>1. Withheld(e)' \subseteq RunIds /\ Withheld(e) \subseteq Withheld(e)'
    BY <1>1 DEF Withheld, LiveRuns
  <2>2. QED
    BY <1>2, <2>1, MoreWithheld
<1>4. Repaid(a) /\ owed - left <= m * Cardinality(Withheld(e))
  BY <1>1 DEF TablesSound, LiveAdvances, Bounded
<1>5. owed - left <= m * Cardinality(Withheld(e)')
  <2>1. Withheld(e) \subseteq RunIds /\ Withheld(e)' \subseteq RunIds
    BY DEF Withheld, LiveRuns
  <2>2. IsFiniteSet(Withheld(e)) /\ IsFiniteSet(Withheld(e)')
    <3>1. IsFiniteSet(RunIds)
      BY FS_Interval, PayrollAssumption DEF RunIds
    <3>2. QED
      BY <2>1, <3>1, FS_Subset
  <2>3. m * Cardinality(Withheld(e)) \in Int /\ m * Cardinality(Withheld(e)') \in Int
    BY <1>2, <2>2, FS_CardinalityType
  <2>4. QED
    BY <1>2, <1>3, <1>4, <2>3
<1>6. QED
  BY <1>1, <1>4, <1>5 DEF Repaid, Bounded

\* A run that loses one of its items keeps all else.
LEMMA WithoutItemKept ==
  ASSUME NEW run \in Run, NEW e \in Employees
  PROVE  /\ WithoutItem(run, e) # None
         /\ SameMonth(WithoutItem(run, e), run)
         /\ WithoutItem(run, e).status = run.status
         /\ \A f \in Employees \ {e} : WithoutItem(run, e).items[f] = run.items[f]
<1>1. run # None
  BY NoneAssumption
<1>2. WithoutItem(run, e) = [run EXCEPT !.items = [@ EXCEPT ![e] = None]]
  BY <1>1 DEF WithoutItem
<1>3. [run EXCEPT !.items = [@ EXCEPT ![e] = None]] \in Run
  BY <1>1, <1>2, WithoutItemRun DEF Run
<1>4. QED
  BY <1>2, <1>3, NoneAssumption DEF Run, SameMonth

LEMMA HandlerAlone ==
  ASSUME IInv, AloneInv, alone, NEW r \in Requests, Handler(r), Alone(r)
  PROVE  AloneInv'
<1>1. TypeOK'
  BY NextIInv DEF Next, IInv
<1>2. TablesSound
  BY DEF AloneInv
<1>3. request[r] = Idle
  BY DEF Handler, CreateAdvance, DeleteAdvance, DeleteEmployee, CreateRun, FinalizeRun,
         CancelRun, Begin, Free
<1>4. ASSUME NEW work, Begin(r, work), Fresh(work)' PROVE AloneInv'
  <2>1. request'[r] = work
    BY <1>4 DEF Begin, IInv, TypeOK
  <2>2. TablesSound'
    BY <1>2, <1>4, TablesKept DEF Begin
  <2>3. QED
    BY <1>4, <2>1, <2>2, StepAlone
<1>5. ASSUME request' = request, FreshRuns', OneForMonth',
             \A a \in LiveAdvances' : Repaid(a)' /\ Bounded(a)'
      PROVE  AloneInv'
  <2>1. Fresh(request[r])'
    BY <1>3, <1>5, IdleFresh
  <2>2. TablesSound'
    BY <1>5 DEF TablesSound
  <2>3. QED
    BY <2>1, <2>2, StepAlone
<1>6. ASSUME runs' = runs, nextRun' = nextRun
      PROVE  FreshRuns' /\ OneForMonth' /\ \A e : Withheld(e)' = Withheld(e)
  BY <1>2, <1>6 DEF TablesSound, FreshRuns, OneForMonth, SameMonth, LiveRuns, Withheld
<1>7. CASE CreateAdvance(r)
  <2>1. PICK k \in AdvanceIds : k = nextAdvance
    BY <1>7, PayrollAssumption DEF CreateAdvance, AdvanceIds, IInv, TypeOK
  <2>2. PICK e \in employees, amount \in Amounts, months \in Months :
          advances' = [advances EXCEPT ![k] = NewAdvance(e, amount, months)]
    BY <1>7, <2>1 DEF CreateAdvance
  <2>3. ASSUME NEW a \in LiveAdvances' PROVE Repaid(a)' /\ Bounded(a)'
    <3>1. CASE a = k
      <4>1. advances'[a] = NewAdvance(e, amount, months)
        BY <2>2, <3>1 DEF IInv, TypeOK
      <4>2. advances'[a].amount \in Nat /\ advances'[a].monthly \in Nat
        BY <1>1 DEF TypeOK, LiveAdvances, Advance
      <4>3. PICK m, n : m = advances'[a].monthly
                        /\ n = Cardinality(Withheld(advances[a].employee))'
        OBVIOUS
      <4>4. n \in Nat
        <5>1. PICK w : w = advances'[a].employee
          OBVIOUS
        <5>2. IsFiniteSet(RunIds) /\ Withheld(w)' \subseteq RunIds
          BY FS_Interval, PayrollAssumption DEF RunIds, Withheld, LiveRuns
        <5>3. Cardinality(Withheld(w)') \in Nat
          BY <5>2, FS_Subset, FS_CardinalityType
        <5>4. QED
          BY <4>3, <5>1, <5>3
      <4>5. m * n >= 0
        BY <4>2, <4>3, <4>4
      <4>6. QED
        BY <4>1, <4>2, <4>3, <4>5 DEF Repaid, Bounded, NewAdvance
    <3>2. CASE a # k
      <4>1. advances'[a] = advances[a] /\ a \in AdvanceIds /\ advances[a] # None
        BY <2>2, <3>2 DEF LiveAdvances, IInv, TypeOK
      <4>2. \A w : Withheld(w)' = Withheld(w)
        BY <1>6, <1>7 DEF CreateAdvance
      <4>3. QED
        BY <1>1, <1>2, <4>1, <4>2, BoundKept
    <3>3. QED
      BY <3>1, <3>2
  <2>4. QED
    BY <1>5, <1>6, <1>7, <2>3 DEF CreateAdvance
<1>8. CASE DeleteAdvance(r)
  <2>1. ASSUME NEW a \in LiveAdvances' PROVE Repaid(a)' /\ Bounded(a)'
    <3>1. advances'[a] = advances[a] /\ a \in AdvanceIds /\ advances[a] # None
      BY <1>8 DEF DeleteAdvance, LiveAdvances, IInv, TypeOK
    <3>2. \A w : Withheld(w)' = Withheld(w)
      BY <1>6, <1>8 DEF DeleteAdvance
    <3>3. QED
      BY <1>1, <1>2, <3>1, <3>2, BoundKept
  <2>2. QED
    BY <1>5, <1>6, <1>8, <2>1 DEF DeleteAdvance
<1>9. CASE DeleteEmployee(r)
  <2>1. PICK e \in Employees :
          /\ advances' = [a \in AdvanceIds |->
                            IF a \in LiveAdvances /\ advances[a].employee = e
                            THEN None ELSE advances[a]]
          /\ runs' = [i \in RunIds |-> WithoutItem(runs[i], e)]
    BY <1>9 DEF DeleteEmployee, IInv, TypeOK
  <2>2. ASSUME NEW i \in RunIds
        PROVE  /\ runs'[i] = None <=> runs[i] = None
               /\ runs[i] # None =>
                    /\ SameMonth(runs'[i], runs[i])
                    /\ runs'[i].status = runs[i].status
                    /\ \A f \in Employees \ {e} : runs'[i].items[f] = runs[i].items[f]
    <3>1. CASE runs[i] = None
      BY <2>1, <3>1 DEF WithoutItem
    <3>2. CASE runs[i] # None
      <4>1. runs[i] \in Run
        BY <3>2 DEF IInv, TypeOK
      <4>2. QED
        BY <2>1, <3>2, <4>1, WithoutItemKept
    <3>3. QED
      BY <3>1, <3>2
  <2>3. FreshRuns' /\ OneForMonth'
    <3>1. nextRun' = nextRun
      BY <1>9 DEF DeleteEmployee
    <3>2. QED
      BY <1>2, <2>2, <3>1 DEF TablesSound, FreshRuns, OneForMonth, LiveRuns, SameMonth
  <2>4. ASSUME NEW a \in LiveAdvances' PROVE Repaid(a)' /\ Bounded(a)'
    <3>1. /\ advances'[a] = advances[a] /\ a \in AdvanceIds /\ advances[a] # None
          /\ advances[a].employee \in Employees \ {e}
      <4>1. advances'[a] = advances[a] /\ a \in AdvanceIds /\ advances[a] # None
            /\ advances[a].employee # e
        BY <2>1 DEF LiveAdvances
      <4>2. QED
        BY <4>1, Present DEF Advance
    <3>2. \A f \in Employees \ {e} : Withheld(f) \subseteq Withheld(f)'
      BY <2>2 DEF Withheld, LiveRuns
    <3>3. Withheld(advances[a].employee) \subseteq Withheld(advances[a].employee)'
      <4>1. PICK f \in Employees \ {e} : f = advances[a].employee
        BY <3>1
      <4>2. f = advances'[a].employee
        BY <3>1, <4>1
      <4>3. QED
        BY <3>2, <4>1, <4>2
    <3>4. QED
      BY <1>1, <1>2, <3>1, <3>3, BoundKept
  <2>5. QED
    BY <1>5, <1>9, <2>3, <2>4 DEF DeleteEmployee
<1>10. CASE CreateRun(r)
  <2>1. PICK scope \in Scopes, p \in Periods :
          Existing(scope, p) = {} /\ Begin(r, [op |-> "create", run |-> NewRun(scope, p)])
    BY <1>10 DEF CreateRun
  <2>2. \A i \in LiveRuns : ~ SameMonth(runs[i], NewRun(scope, p))
    BY <2>1 DEF Existing, SameMonth, NewRun
  <2>3. PICK run : run = NewRun(scope, p)
    OBVIOUS
  <2>4. LiveRuns' = LiveRuns /\ runs' = runs
    BY <2>1 DEF Begin, tables, LiveRuns
  <2>5. Fresh([op |-> "create", run |-> run])'
    BY <2>2, <2>3, <2>4 DEF Fresh, SameMonth, NewRun
  <2>6. QED
    BY <1>4, <2>1, <2>3, <2>5
<1>11. CASE FinalizeRun(r)
  <2>1. PICK i \in LiveRuns :
          runs[i].status = "draft" /\ Begin(r, [op |-> "check", id |-> i])
    BY <1>11 DEF FinalizeRun
  <2>2. Fresh([op |-> "check", id |-> i])'
    BY <2>1 DEF Fresh, Begin, tables, LiveRuns
  <2>3. QED
    BY <1>4, <2>1, <2>2
<1>12. CASE CancelRun(r)
  <2>1. PICK i \in LiveRuns :
          runs[i].status # "completed" /\ Begin(r, [op |-> "cancel", id |-> i])
    BY <1>12 DEF CancelRun
  <2>2. Fresh([op |-> "cancel", id |-> i])'
    BY <2>1 DEF Fresh, Begin, tables, LiveRuns
  <2>3. QED
    BY <1>4, <2>1, <2>2
<1>13. QED
  BY <1>7, <1>8, <1>9, <1>10, <1>11, <1>12 DEF Handler

\* Taking a monthly deduction off an advance from its own row.
LEMMA RecoveredFresh ==
  ASSUME NEW adv \in Advance, adv.status = "active", adv.remaining <= adv.amount
  PROVE  LET new == Recovered(adv, adv)
         IN  /\ new.employee = adv.employee /\ new.amount = adv.amount
             /\ new.monthly = adv.monthly
             /\ new.remaining \in Nat /\ new.remaining >= adv.remaining - adv.monthly
             /\ new.status = "repaid" => new.remaining = 0
<1> DEFINE left == MaxOf(0, adv.remaining - adv.monthly)
<1>1. left \in Nat /\ left >= adv.remaining - adv.monthly
  BY DEF MaxOf, Advance
<1> HIDE DEF left
<1>2. Reduced(adv) = [adv EXCEPT !.remaining = left,
                                 !.status = IF left <= 0 THEN "repaid" ELSE @]
  BY DEF Reduced, left
<1>3. /\ Reduced(adv).remaining = left
      /\ Reduced(adv).status = IF left <= 0 THEN "repaid" ELSE "active"
  BY <1>2 DEF Advance
<1>4. adv # None
  BY NoneAssumption
<1>5. Recovered(adv, adv) =
        [adv EXCEPT !.remaining = left, !.status = IF left <= 0 THEN "repaid" ELSE "active"]
  BY <1>3, <1>4 DEF Recovered, Written
<1>6. QED
  BY <1>1, <1>5 DEF Advance

LEMMA CompletedRun ==
  ASSUME NEW run \in Run
  PROVE  LET new == [run EXCEPT !.status = "completed"]
         IN  /\ new \in Run /\ new # None /\ new.status = "completed"
             /\ new.items = run.items /\ SameMonth(new, run)
BY NoneAssumption DEF Run, SameMonth

\* A finalize completes the draft it read, and takes of each advance what the run
\* withholds.
LEMMA FinalizeAlone ==
  ASSUME IInv, TypeOK', AloneInv, alone, NEW r \in Requests, CommitFinalize(r)
  PROVE  TablesSound'
<1>1. PICK i \in RunIds : i = request[r].id
  BY RequestParts DEF CommitFinalize, IInv, TypeOK
<1>2. /\ TablesSound /\ i \in LiveRuns /\ runs[i].status = "draft"
      /\ request[r].read = [a \in AdvanceIds |-> IF Recovers(i, a) THEN advances[a] ELSE None]
  BY <1>1 DEF AloneInv, Fresh, CommitFinalize
<1>3. /\ runs' = [runs EXCEPT ![i] = [@ EXCEPT !.status = "completed"]]
      /\ nextRun' = nextRun
      /\ \A a \in AdvanceIds :
           advances'[a] = Recovered(advances[a], IF Recovers(i, a) THEN advances[a] ELSE None)
  BY <1>1, <1>2 DEF CommitFinalize
<1>4. runs[i] \in Run /\ runs \in [RunIds -> Run \cup {None}]
  BY <1>2 DEF LiveRuns, IInv, TypeOK
<1>5. /\ runs'[i] # None /\ runs'[i].status = "completed"
      /\ runs'[i].items = runs[i].items /\ SameMonth(runs'[i], runs[i])
      /\ \A j \in RunIds \ {i} : runs'[j] = runs[j]
  <2>1. runs'[i] = [runs[i] EXCEPT !.status = "completed"]
    BY <1>3, <1>4
  <2>2. QED
    BY <1>3, <1>4, <2>1, CompletedRun
<1>6. FreshRuns' /\ OneForMonth'
  BY <1>2, <1>3, <1>5 DEF TablesSound, FreshRuns, OneForMonth, LiveRuns, SameMonth
<1>7. \A e : /\ i \notin Withheld(e)
             /\ Withheld(e)' = IF runs[i].items[e] = "withholding"
                               THEN Withheld(e) \cup {i} ELSE Withheld(e)
  BY <1>2, <1>5 DEF Withheld, LiveRuns
<1>8. ASSUME NEW a \in LiveAdvances' PROVE Repaid(a)' /\ Bounded(a)'
  <2>1. a \in AdvanceIds /\ advances[a] # None /\ advances[a] \in Advance
    BY <1>3, Present DEF LiveAdvances, Recovered
  <2>2. CASE ~ Recovers(i, a)
    <3>1. advances'[a] = advances[a]
      BY <1>3, <2>1, <2>2 DEF Recovered
    <3>2. Withheld(advances[a].employee) \subseteq Withheld(advances[a].employee)'
      <4>1. PICK e : e = advances[a].employee
        OBVIOUS
      <4>2. Withheld(e) \subseteq Withheld(e)' /\ e = advances'[a].employee
        BY <1>7, <3>1, <4>1
      <4>3. QED
        BY <4>1, <4>2
    <3>3. QED
      BY <1>2, <2>1, <3>1, <3>2, BoundKept
  <2>3. CASE Recovers(i, a)
    <3>1. PICK e, m, owed, left, w :
            /\ e = advances[a].employee /\ m = advances[a].monthly
            /\ owed = advances[a].amount /\ left = advances[a].remaining
            /\ w = Withheld(e)
      OBVIOUS
    <3>2. m \in Nat /\ owed \in Nat /\ left \in Nat /\ left <= owed
      BY <2>1, <3>1, Present DEF Advance
    <3>3. advances'[a] = Recovered(advances[a], advances[a])
      BY <1>3, <2>1, <2>3
    <3>4. /\ advances'[a].employee = e /\ advances'[a].monthly = m
          /\ advances'[a].amount = owed /\ advances'[a].remaining \in Nat
          /\ advances'[a].remaining >= left - m
          /\ advances'[a].status = "repaid" => advances'[a].remaining = 0
      BY <2>1, <2>3, <3>1, <3>3, Present, RecoveredFresh DEF Recovers
    <3>5. Withheld(e)' = w \cup {i} /\ i \notin w /\ w \in SUBSET RunIds
      BY <1>7, <2>3, <3>1 DEF Recovers, Withheld, LiveRuns
    <3>6. m * Cardinality(w \cup {i}) = m * Cardinality(w) + m
      BY <3>2, <3>5, OneMoreWithheld
    <3>7. owed - left <= m * Cardinality(w)
      BY <1>2, <2>1, <3>1 DEF TablesSound, Bounded, LiveAdvances
    <3>8. m * Cardinality(w) \in Nat
      <4>1. IsFiniteSet(RunIds)
        BY FS_Interval, PayrollAssumption DEF RunIds
      <4>2. Cardinality(w) \in Nat
        BY <3>5, <4>1, FS_Subset, FS_CardinalityType
      <4>3. QED
        BY <3>2, <4>2
    <3>9. owed - advances'[a].remaining <= m * Cardinality(Withheld(e)')
      BY <3>2, <3>4, <3>5, <3>6, <3>7, <3>8
    <3>10. QED
      BY <3>4, <3>9 DEF Repaid, Bounded
  <2>4. QED
    BY <2>2, <2>3
<1>9. QED
  BY <1>6, <1>8 DEF TablesSound

\* A run comes into being, or a draft goes: no withholding is added or lost.
LEMMA DraftsAlone ==
  ASSUME IInv, TypeOK', TablesSound, UNCHANGED advances, FreshRuns', OneForMonth',
         NEW i \in RunIds, \A j \in RunIds \ {i} : runs'[j] = runs[j],
         runs[i] # None => runs[i].status = "draft",
         runs'[i] # None => runs'[i].status = "draft"
  PROVE  TablesSound'
<1>1. \A e : Withheld(e)' = Withheld(e)
  BY DEF Withheld, LiveRuns
<1>2. ASSUME NEW a \in LiveAdvances' PROVE Repaid(a)' /\ Bounded(a)'
  <2>1. a \in AdvanceIds /\ advances[a] # None /\ advances'[a] = advances[a]
    BY DEF LiveAdvances
  <2>2. QED
    BY <1>1, <2>1, BoundKept
<1>3. QED
  BY <1>2 DEF TablesSound

LEMMA CommitAlone ==
  ASSUME IInv, AloneInv, alone, NEW r \in Requests, Commit(r), Alone(r)
  PROVE  AloneInv'
<1>1. TypeOK'
  BY NextIInv DEF Next, IInv
<1>2. TablesSound /\ Fresh(request[r])
  BY DEF AloneInv
<1>3. ASSUME Finish(r), TablesSound' PROVE AloneInv'
  <2>1. request'[r] = Idle
    BY <1>3 DEF Finish, IInv, TypeOK
  <2>2. QED
    BY <1>3, <2>1, IdleFresh, StepAlone
<1>4. CASE ReadAdvances(r)
  <2>1. PICK i, items : /\ i = request[r].id
                        /\ request'[r] = [op |-> "finalize", id |-> i, items |-> items,
                             read |-> [a \in AdvanceIds |->
                               IF i \in LiveRuns /\ Recovers(i, a)
                               THEN advances[a] ELSE None]]
    BY <1>4 DEF ReadAdvances, IInv, TypeOK
  <2>2. i \in LiveRuns /\ runs[i].status = "draft"
    BY <1>2, <1>4, <2>1 DEF Fresh, ReadAdvances
  <2>3. Fresh(request[r])'
    <3>1. i \in LiveRuns' /\ runs'[i].status = "draft" /\ advances' = advances
      BY <1>4, <2>2 DEF ReadAdvances, tables, LiveRuns
    <3>2. \A a \in AdvanceIds : Recovers(i, a)' = Recovers(i, a)
      BY <1>4 DEF ReadAdvances, tables, Recovers, LiveAdvances
    <3>3. PICK read : read = [a \in AdvanceIds |-> IF Recovers(i, a) THEN advances[a] ELSE None]
      OBVIOUS
    <3>4. request'[r] = [op |-> "finalize", id |-> i, items |-> items, read |-> read]
      BY <2>1, <2>2, <3>3
    <3>5. read = [a \in AdvanceIds |-> IF Recovers(i, a)' THEN advances'[a] ELSE None]
      BY <3>1, <3>2, <3>3
    <3>6. QED
      BY <3>1, <3>4, <3>5 DEF Fresh
  <2>4. TablesSound'
    BY <1>2, <1>4, TablesKept DEF ReadAdvances
  <2>5. QED
    BY <2>3, <2>4, StepAlone
<1>5. CASE CommitFinalize(r)
  BY <1>1, <1>3, <1>5, FinalizeAlone DEF CommitFinalize
<1>6. CASE CommitRun(r)
  <2>0. PICK run : run = request[r].run
    OBVIOUS
  <2>1. PICK k \in RunIds : k = nextRun /\ run = request[r].run
    BY <1>6, <2>0, PayrollAssumption DEF CommitRun, RunIds, IInv, TypeOK
  <2>2. /\ runs[k] = None /\ runs' = [runs EXCEPT ![k] = run] /\ nextRun' = k + 1
        /\ runs \in [RunIds -> Run \cup {None}]
    BY <1>2, <1>6, <2>1 DEF CommitRun, TablesSound, FreshRuns, IInv, TypeOK, RunIds
  <2>3. run.status = "draft" /\ \A j \in LiveRuns : ~ SameMonth(runs[j], run)
    BY <1>2, <1>6, <2>1 DEF Fresh, CommitRun
  <2>4. FreshRuns'
    BY <1>2, <2>1, <2>2, PayrollAssumption DEF TablesSound, FreshRuns, RunIds
  <2>5. OneForMonth'
    BY <1>2, <2>2, <2>3 DEF TablesSound, OneForMonth, LiveRuns, SameMonth
  <2>6. TablesSound'
    BY <1>1, <1>2, <1>6, <2>2, <2>3, <2>4, <2>5, DraftsAlone DEF CommitRun
  <2>7. QED
    BY <1>3, <1>6, <2>6 DEF CommitRun
<1>7. CASE CommitCancel(r)
  <2>1. PICK i \in RunIds : i = request[r].id
    BY <1>7, RequestParts DEF CommitCancel, IInv, TypeOK
  <2>2. /\ i \in LiveRuns /\ runs[i].status = "draft"
        /\ runs' = [runs EXCEPT ![i] = None] /\ nextRun' = nextRun
        /\ runs \in [RunIds -> Run \cup {None}]
    BY <1>2, <1>7, <2>1 DEF Fresh, CommitCancel, LiveRuns, IInv, TypeOK, Run
  <2>3. FreshRuns' /\ OneForMonth'
    BY <1>2, <2>2 DEF TablesSound, FreshRuns, OneForMonth, LiveRuns, SameMonth
  <2>4. TablesSound'
    BY <1>1, <1>2, <1>7, <2>2, <2>3, DraftsAlone DEF CommitCancel
  <2>5. QED
    BY <1>3, <1>7, <2>4 DEF CommitCancel
<1>8. CASE Rollback(r)
  BY <1>2, <1>3, <1>8, TablesKept DEF Rollback
<1>9. QED
  BY <1>4, <1>5, <1>6, <1>7, <1>8 DEF Commit

LEMMA NextAlone == IInv /\ AloneInv /\ [MCNext]_<<vars, alone>> => AloneInv'
<1> SUFFICES ASSUME IInv, AloneInv, [MCNext]_<<vars, alone>>, alone' PROVE AloneInv'
  BY DEF AloneInv
<1>1. CASE Restart /\ UNCHANGED alone
  <2>1. TablesSound'
    BY <1>1, TablesKept DEF AloneInv, Restart
  <2>2. \A r \in Requests : Fresh(request[r])'
    BY <1>1, IdleFresh DEF Restart
  <2>3. QED
    BY <2>1, <2>2 DEF AloneInv
<1>2. CASE UNCHANGED <<vars, alone>>
  <2>1. TablesSound'
    BY <1>2, TablesKept DEF AloneInv, vars, tables
  <2>2. \A r \in Requests : Fresh(request[r])'
    BY <1>2 DEF AloneInv, vars, Fresh, LiveRuns, Recovers, LiveAdvances, SameMonth
  <2>3. QED
    BY <2>1, <2>2 DEF AloneInv
<1>3. QED
  BY <1>1, <1>2, HandlerAlone, CommitAlone DEF MCNext

LEMMA MCInvariance == MCSpec => [](IInv /\ AloneInv)
<1>1. MCInit => IInv
  BY InitIInv DEF MCInit
<1>2. MCInit => AloneInv
  BY IdleFresh DEF MCInit, Init, AloneInv, TablesSound, FreshRuns, OneForMonth, LiveRuns,
                   LiveAdvances
<1>3. [MCNext]_<<vars, alone>> => [Next]_vars
  BY DEF MCNext, Next, vars
<1>4. IInv /\ [Next]_vars => IInv'
  BY NextIInv
<1>5. QED
  BY <1>1, <1>2, <1>3, <1>4, NextAlone, PTL DEF MCSpec

\* As long as handlers have not overlapped, a repaid advance owes nothing, no more is
\* recovered of an advance than completed runs withheld, and a company has one run for
\* a month.
THEOREM SoundAlone == MCSpec => []RunsAlone
<1>1. AloneInv => RunsAlone
  BY DEF AloneInv, TablesSound, Repaid, Bounded, Withheld, OneForMonth, SameMonth,
         RunsAlone, RepaidOwesNothing, RecoveredByRuns, OneRunPerPeriod
<1>2. QED
  BY <1>1, MCInvariance, PTL

\* As long as handlers have not overlapped, a completed run is not deleted.
THEOREM CompletedKept == MCSpec => CompletedStays
<1> DEFINE Stay == alone' => \A i \in LiveRuns : runs[i].status = "completed" => runs'[i] # None
<1>1. IInv /\ AloneInv /\ [MCNext]_<<vars, alone>> => [Stay]_vars
  <2> SUFFICES ASSUME IInv, AloneInv, MCNext, alone', NEW i \in LiveRuns,
                      runs[i].status = "completed"
               PROVE  runs'[i] # None
    BY DEF vars
  <2>1. alone
    BY DEF MCNext
  <2>2. i \in RunIds /\ runs[i] \in Run
    BY DEF LiveRuns, IInv, TypeOK
  <2>3. CASE runs' = runs
    BY <2>3 DEF LiveRuns
  <2>4. ASSUME NEW r \in Requests, DeleteEmployee(r) PROVE runs'[i] # None
    <3>1. PICK e \in Employees : runs' = [j \in RunIds |-> WithoutItem(runs[j], e)]
      BY <2>4 DEF DeleteEmployee, IInv, TypeOK
    <3>2. WithoutItem(runs[i], e) # None
      BY <2>2, WithoutItemKept
    <3>3. QED
      BY <2>2, <3>1, <3>2
  <2>5. ASSUME NEW r \in Requests, CommitFinalize(r) PROVE runs'[i] # None
    <3>1. runs'[i] = runs[i] \/ runs'[i] = [runs[i] EXCEPT !.status = "completed"]
      BY <2>2, <2>5 DEF CommitFinalize, IInv, TypeOK
    <3>2. QED
      BY <2>2, <3>1, CompletedRun, NoneAssumption
  <2>6. ASSUME NEW r \in Requests, CommitRun(r) PROVE runs'[i] # None
    <3>1. nextRun # i
      BY <2>1, <2>2 DEF AloneInv, TablesSound, FreshRuns, LiveRuns, RunIds
    <3>2. QED
      BY <2>2, <2>6, <3>1, NoneAssumption DEF CommitRun, IInv, TypeOK
  <2>7. ASSUME NEW r \in Requests, CommitCancel(r) PROVE runs'[i] # None
    <3>1. request[r].id # i
      BY <2>1, <2>7 DEF AloneInv, Fresh, CommitCancel
    <3>2. QED
      BY <2>2, <2>7, <3>1 DEF CommitCancel, LiveRuns, IInv, TypeOK
  <2>8. QED
    BY <2>3, <2>4, <2>5, <2>6, <2>7
       DEF MCNext, Handler, Commit, CreateAdvance, DeleteAdvance, CreateRun, FinalizeRun,
           CancelRun, Begin, ReadAdvances, Rollback, Restart, tables
<1>2. QED
  BY <1>1, MCInvariance, PTL DEF MCSpec, CompletedStays
=============================================================================
