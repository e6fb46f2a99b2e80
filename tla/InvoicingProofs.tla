-------------------------- MODULE InvoicingProofs ---------------------------
(***************************************************************************)
(* Proofs about Invoicing, for every set of companies and threads and      *)
(* every bound.  The numbers in the table and those allocated stay below   *)
(* the id sequence, so that the next number always exists; an allocated    *)
(* one may be taken, and the commit that meets the unique constraint is    *)
(* what keeps the numbers apart.                                           *)
(***************************************************************************)
EXTENDS MCInvoicing, WellFoundedInduction, TLAPS

FreshIds == \A i \in Ids : i >= nextId => invoices[i] = None

NumbersBelow == \A i \in Live : invoices[i].number < nextId

AllocatedBelow ==
  \A r \in Requests : request[r].op = "insert" => request[r].number <= nextId

IInv ==
  /\ TypeOK
  /\ FreshIds
  /\ NumbersBelow
  /\ AllocatedBelow
  /\ NumbersUnique
  /\ PaidIsDated
  /\ AllocationsExclude

-----------------------------------------------------------------------------
\* What is in flight has the parts its operation says.
LEMMA RequestParts ==
  ASSUME NEW req \in Request
  PROVE  /\ req.op = "generate" => req.company \in Companies /\ req.year \in 1 .. MaxYear
                                   /\ req.seen \in SUBSET Ids
         /\ req.op = "insert" => req.company \in Companies /\ req.year \in 1 .. MaxYear
                                 /\ req.number \in Nat \ {0} /\ req.locked \in SUBSET Ids
         /\ req.op \in {"audit", "pay", "void"} => req.id \in Ids
         /\ req.op \in {"pay", "void"} => req.read \in Status
BY DEF Request, Idle

\* Of rows whose numbers are below the id sequence, there is a largest, and
\* the next number is one above it.
LEMMA NextNumberOK ==
  ASSUME IInv, NEW I \in SUBSET Live
  PROVE  /\ NextNumber(I) \in Nat \ {0}
         /\ NextNumber(I) <= nextId
         /\ \A m \in Numbers(I) : m < NextNumber(I)
<1> DEFINE T == {n \in Nat \ {0} : \A m \in Numbers(I) : m < n}
           Holds(n) == /\ \A m \in Numbers(I) : m < n
                       /\ n = 1 \/ n - 1 \in Numbers(I)
<1>1. /\ nextId \in Nat \ {0} /\ nextId <= MaxInvoices + 1 /\ MaxInvoices \in Nat
      /\ Numbers(I) \subseteq Nat \ {0}
      /\ \A m \in Numbers(I) : m < nextId
  BY InvoicingAssumption DEF IInv, TypeOK, NumbersBelow, Numbers, Live, Invoice
<1>2. nextId \in T
  BY <1>1
<1>3. PICK n \in T : \A y \in T : ~ (<<y, n>> \in OpToRel(<, Nat))
  <2>1. T \subseteq Nat /\ T # {}
    BY <1>2
  <2> HIDE DEF T
  <2>2. QED
    BY <2>1, NatLessThanWellFounded, WFMin
<1>4. \A y \in T : ~ (y < n)
  BY <1>3 DEF OpToRel
<1>5. n = 1 \/ n - 1 \in Numbers(I)
  <2> SUFFICES ASSUME n # 1 PROVE n - 1 \in Numbers(I)
    OBVIOUS
  <2>0. n \in Nat /\ n # 0 /\ n # 1
    OBVIOUS
  <2>1. n - 1 \in Nat \ {0} /\ n - 1 < n
    <3> HIDE DEF T, Holds
    <3>1. QED
      BY <2>0
  <2>2. n - 1 \notin T
    BY <1>4, <2>1
  <2>3. PICK m \in Numbers(I) : ~ (m < n - 1)
    BY <2>1, <2>2
  <2>4. m \in Nat /\ n \in Nat /\ m < n
    BY <1>1, <2>3
  <2>5. m = n - 1
    BY <2>3, <2>4
  <2>6. QED
    BY <2>3, <2>5
<1>6. n \in 1 .. MaxInvoices + 1 /\ n <= nextId
  <2>1. n \in Nat \ {0} /\ ~ (nextId < n)
    BY <1>2, <1>3, <1>4
  <2>2. QED
    BY <1>1, <2>1
<1>7. Holds(n)
  BY <1>3, <1>5
<1>8. \A k \in 1 .. MaxInvoices + 1 : Holds(k) => k = n
  <2> SUFFICES ASSUME NEW k \in 1 .. MaxInvoices + 1, Holds(k) PROVE k = n
    OBVIOUS
  <2>1. k \in T /\ k \in Nat /\ n \in Nat /\ ~ (k < n)
    BY <1>1, <1>4, <1>6
  <2>2. CASE k = 1
    BY <1>6, <2>1, <2>2
  <2>3. CASE k - 1 \in Numbers(I)
    <3>1. k - 1 < n
      BY <1>7, <2>3
    <3>2. QED
      BY <2>1, <3>1
  <2>4. QED
    BY <2>2, <2>3
<1>9. NextNumber(I) = n
  <2> HIDE DEF T
  <2>1. NextNumber(I) = CHOOSE k \in 1 .. MaxInvoices + 1 : Holds(k)
    BY DEF NextNumber
  <2> HIDE DEF Holds
  <2>2. QED
    BY <1>6, <1>7, <1>8, <2>1
<1>10. QED
  BY <1>1, <1>6, <1>7, <1>9

-----------------------------------------------------------------------------
\* What most steps do: rows keep their year and number or go, a paid one is
\* dated, and nobody allocates a number.
Kept ==
  /\ companies' \subseteq Companies
  /\ year' \in 1 .. MaxYear
  /\ nextId' = nextId
  /\ invoices' \in [Ids -> Invoice \cup {None}]
  /\ \A i \in Ids : invoices'[i] # None =>
       /\ invoices[i] # None
       /\ invoices'[i].year = invoices[i].year
       /\ invoices'[i].number = invoices[i].number
       /\ invoices'[i].status = "paid" => invoices'[i].paidAt
  /\ request' \in [Requests -> Request]
  /\ \A r \in Requests : request'[r].op = "insert" => request'[r] = request[r]

LEMMA KeptIInv == IInv /\ Kept => IInv'
<1> SUFFICES ASSUME IInv, Kept PROVE IInv'
  OBVIOUS
<1>1. TypeOK'
  BY DEF IInv, Kept, TypeOK
<1>2. FreshIds'
  BY DEF IInv, Kept, FreshIds
<1>3. NumbersBelow'
  BY DEF IInv, Kept, NumbersBelow, Live
<1>4. AllocatedBelow'
  BY DEF IInv, Kept, AllocatedBelow
<1>5. NumbersUnique'
  BY DEF IInv, Kept, NumbersUnique, Live
<1>6. PaidIsDated'
  BY DEF IInv, Kept, PaidIsDated, Live
<1>7. AllocationsExclude'
  BY DEF IInv, Kept, AllocationsExclude
<1>8. QED
  BY <1>1, <1>2, <1>3, <1>4, <1>5, <1>6, <1>7 DEF IInv

\* A step that writes no table and starts or ends a request is one of them.
LEMMA TablesKept ==
  ASSUME IInv, UNCHANGED tables, request' \in [Requests -> Request],
         \A r \in Requests : request'[r].op = "insert" => request'[r] = request[r]
  PROVE  Kept
BY DEF IInv, Kept, TypeOK, PaidIsDated, Live, tables

\* Taking up an operation is one of them.
LEMMA BeginKept ==
  ASSUME IInv, NEW r \in Requests, NEW work \in Request, work.op # "insert", Begin(r, work)
  PROVE  Kept
<1>1. request \in [Requests -> Request]
  BY DEF IInv, TypeOK
<1>2. /\ request' \in [Requests -> Request]
      /\ \A q \in Requests : request'[q].op = "insert" => request'[q] = request[q]
  BY <1>1 DEF Begin
<1>3. QED
  BY <1>2, TablesKept DEF Begin

\* A finished request is idle, and the others are as they were.
LEMMA FinishRequest ==
  ASSUME IInv, NEW r \in Requests, Finish(r)
  PROVE  /\ request' \in [Requests -> Request]
         /\ \A q \in Requests : request'[q].op = "insert" => request'[q] = request[q]
BY DEF IInv, TypeOK, Finish, Idle, Request

-----------------------------------------------------------------------------
LEMMA GenerateInvoiceKept ==
  ASSUME IInv, NEW r \in Requests, GenerateInvoice(r)
  PROVE  Kept
<1>1. PICK c \in companies :
        Begin(r, [op |-> "generate", company |-> c, year |-> year, seen |-> OfYear(year)])
  BY DEF GenerateInvoice
<1> DEFINE work == [op |-> "generate", company |-> c, year |-> year, seen |-> OfYear(year)]
<1>2. c \in Companies /\ year \in 1 .. MaxYear /\ OfYear(year) \in SUBSET Ids
  BY DEF IInv, TypeOK, OfYear, Live
<1>3. work \in Request /\ work.op # "insert"
  BY <1>2 DEF Request
<1>4. QED
  <2> HIDE DEF work
  <2>1. QED
    BY <1>1, <1>3, BeginKept DEF work

\* The statuses read are statuses.
LEMMA StatusKept ==
  ASSUME IInv, NEW r \in Requests, MarkPaid(r) \/ VoidInvoice(r)
  PROVE  Kept
<1>1. PICK i \in Live, op \in {"pay", "void"} :
        Begin(r, [op |-> op, id |-> i, read |-> invoices[i].status])
  BY DEF MarkPaid, VoidInvoice
<1> DEFINE work == [op |-> op, id |-> i, read |-> invoices[i].status]
<1>2. i \in Ids /\ invoices[i].status \in Status
  BY DEF IInv, TypeOK, Live, Invoice
<1>3. work \in Request /\ work.op # "insert"
  BY <1>2 DEF Request
<1>4. QED
  <2> HIDE DEF work
  <2>1. QED
    BY <1>1, <1>3, BeginKept DEF work

LEMMA DeleteCompanyKept ==
  ASSUME IInv, NEW r \in Requests, DeleteCompany(r)
  PROVE  Kept
<1>1. /\ companies' \subseteq companies
      /\ UNCHANGED <<year, nextId, request>>
      /\ invoices' \in [Ids -> Invoice \cup {None}]
      /\ \A i \in Ids : invoices'[i] # None => invoices'[i] = invoices[i]
  BY DEF IInv, TypeOK, DeleteCompany, Live
<1>2. QED
  BY <1>1 DEF IInv, Kept, TypeOK, PaidIsDated, Live

LEMMA CommitAuditKept ==
  ASSUME IInv, NEW r \in Requests, CommitAudit(r)
  PROVE  Kept
<1> DEFINE i == request[r].id
<1>1. i \in Live /\ i \in Ids /\ invoices[i] \in Invoice
  BY DEF IInv, TypeOK, CommitAudit, Live
<1> DEFINE row == [invoices[i] EXCEPT !.audited = TRUE]
<1>2. /\ row \in Invoice
      /\ row.year = invoices[i].year /\ row.number = invoices[i].number
      /\ row.status = invoices[i].status /\ row.paidAt = invoices[i].paidAt
  BY <1>1 DEF Invoice
<1>3. /\ invoices' = [invoices EXCEPT ![i] = row]
      /\ UNCHANGED <<companies, year, nextId>>
      /\ Finish(r)
  BY DEF CommitAudit
<1> HIDE DEF row, i
<1>4. QED
  BY <1>1, <1>2, <1>3, FinishRequest DEF IInv, Kept, TypeOK, PaidIsDated, Live

\* The status may be an older writer's; the payment it recorded stays.
LEMMA CommitStatusKept ==
  ASSUME IInv, NEW r \in Requests, CommitStatus(r)
  PROVE  Kept
<1> DEFINE i == request[r].id
<1>1. i \in Live /\ i \in Ids /\ invoices[i] \in Invoice /\ invoices[i] # None
  BY DEF IInv, TypeOK, CommitStatus, Live
<1>2. invoices[i].status = "paid" => invoices[i].paidAt
  BY <1>1 DEF IInv, PaidIsDated
<1> DEFINE row == WithStatus(invoices[i], request[r])
<1>3. /\ row \in Invoice
      /\ row.year = invoices[i].year /\ row.number = invoices[i].number
      /\ row.status = "paid" => row.paidAt
  <2>1. CASE request[r].op = "pay"
    BY <1>1, <2>1 DEF WithStatus, Written, Invoice, Status
  <2>2. CASE request[r].op # "pay"
    BY <1>1, <1>2, <2>2 DEF WithStatus, Written, Invoice, Status
  <2>3. QED
    BY <2>1, <2>2
<1>4. /\ invoices' = [invoices EXCEPT ![i] = row]
      /\ UNCHANGED <<companies, year, nextId>>
      /\ Finish(r)
  BY DEF CommitStatus
<1> HIDE DEF row, i
<1>5. QED
  BY <1>1, <1>3, <1>4, FinishRequest DEF IInv, Kept, TypeOK, PaidIsDated, Live

-----------------------------------------------------------------------------
\* What is locked was not, and the number is above all that are present.
LEMMA LockRowsIInv ==
  ASSUME IInv, NEW r \in Requests, LockRows(r)
  PROVE  IInv'
<1> DEFINE rows == request[r].seen \cap Live
           work == [op |-> "insert", company |-> request[r].company,
                    year |-> request[r].year, number |-> NextNumber(rows), locked |-> rows]
<1>1. /\ request \in [Requests -> Request] /\ request[r] \in Request
      /\ request[r].op = "generate" /\ request[r].seen \cap Locked = {}
      /\ request' = [request EXCEPT ![r] = work]
      /\ UNCHANGED tables
  BY DEF IInv, TypeOK, LockRows
<1>2. /\ request[r].company \in Companies /\ request[r].year \in 1 .. MaxYear
      /\ rows \in SUBSET Ids /\ rows \in SUBSET Live
  BY <1>1, RequestParts
<1>3. NextNumber(rows) \in Nat \ {0} /\ NextNumber(rows) <= nextId
  <2> HIDE DEF rows
  <2>1. QED
    BY <1>2, NextNumberOK
<1>4. /\ work \in Request /\ work.op = "insert"
      /\ work.number <= nextId
      /\ work.locked \cap Locked = {}
  <2>1. work \in Request
    BY <1>2, <1>3 DEF Request
  <2>2. QED
    BY <1>1, <1>3, <2>1
<1> HIDE DEF rows, work
<1>5. TypeOK'
  BY <1>1, <1>4 DEF IInv, TypeOK, tables
<1>6. FreshIds' /\ NumbersBelow' /\ NumbersUnique' /\ PaidIsDated'
  BY <1>1 DEF IInv, FreshIds, NumbersBelow, NumbersUnique, PaidIsDated, Live, tables
<1>7. AllocatedBelow'
  BY <1>1, <1>4 DEF IInv, AllocatedBelow, tables
<1>8. AllocationsExclude'
  <2>1. \A q \in Requests : request[q].op = "insert" => request[q].locked \subseteq Locked
    BY DEF Locked
  <2>2. QED
    BY <1>1, <1>4, <2>1 DEF IInv, AllocationsExclude
<1>9. QED
  BY <1>5, <1>6, <1>7, <1>8 DEF IInv

\* The unique constraint is tested where the row is inserted.
LEMMA CommitInvoiceIInv ==
  ASSUME IInv, NEW r \in Requests, CommitInvoice(r)
  PROVE  IInv'
<1> DEFINE new == NewInvoice(request[r])
           next == [op |-> "audit", id |-> nextId]
<1>1. /\ request \in [Requests -> Request] /\ request[r] \in Request
      /\ invoices \in [Ids -> Invoice \cup {None}]
      /\ request[r].op = "insert" /\ Insertable(request[r])
      /\ nextId \in Ids /\ nextId \in Nat \ {0} /\ MaxInvoices \in Nat
      /\ invoices' = [invoices EXCEPT ![nextId] = new]
      /\ request' = [request EXCEPT ![r] = next]
      /\ nextId' = nextId + 1
      /\ UNCHANGED <<companies, year>>
  BY InvoicingAssumption DEF IInv, TypeOK, CommitInvoice, Ids
<1>2. /\ request[r].company \in Companies /\ request[r].year \in 1 .. MaxYear
      /\ request[r].number \in Nat \ {0} /\ request[r].number <= nextId
  BY <1>1, RequestParts DEF IInv, AllocatedBelow
<1>3. /\ new \in Invoice /\ new # None
      /\ new.number = request[r].number /\ new.year = request[r].year
      /\ new.status = "draft"
  <2>1. new \in Invoice
    BY <1>2 DEF NewInvoice, Invoice, Status
  <2>2. new # None
    BY <2>1, NoneAssumption
  <2>3. QED
    BY <2>1, <2>2 DEF NewInvoice
<1>4. next \in Request /\ next.op # "insert"
  BY <1>1 DEF Request
<1>5. \A i \in Live : invoices[i].year = new.year => invoices[i].number # new.number
  BY <1>1, <1>3 DEF Insertable, Numbers, OfYear
<1>6. /\ Live' = Live \cup {nextId}
      /\ \A i \in Live : i # nextId /\ invoices'[i] = invoices[i]
      /\ invoices'[nextId] = new
  BY <1>1, <1>3 DEF Live, IInv, FreshIds
<1> HIDE DEF new, next
<1>7. TypeOK'
  BY <1>1, <1>3, <1>4 DEF IInv, TypeOK, Ids
<1>8. FreshIds'
  BY <1>1 DEF IInv, FreshIds, Ids
<1>9. NumbersBelow'
  <2>1. \A i \in Live : invoices[i].number \in Nat /\ invoices[i].number < nextId
    BY <1>1 DEF IInv, NumbersBelow, Live, Invoice
  <2>2. new.number < nextId + 1
    BY <1>1, <1>2, <1>3
  <2>3. QED
    BY <1>1, <1>6, <2>1, <2>2 DEF NumbersBelow
<1>10. AllocatedBelow'
  <2>1. \A q \in Requests :
          request[q].op = "insert" => request[q].number \in Nat /\ request[q].number <= nextId
    BY <1>1, RequestParts DEF IInv, AllocatedBelow
  <2>2. QED
    BY <1>1, <1>4, <2>1 DEF AllocatedBelow
<1>11. NumbersUnique'
  BY <1>5, <1>6 DEF IInv, NumbersUnique
<1>12. PaidIsDated'
  BY <1>3, <1>6 DEF IInv, PaidIsDated
<1>13. AllocationsExclude'
  BY <1>1, <1>4 DEF IInv, AllocationsExclude
<1>14. QED
  BY <1>7, <1>8, <1>9, <1>10, <1>11, <1>12, <1>13 DEF IInv

-----------------------------------------------------------------------------
LEMMA InitIInv == Init => IInv
<1> SUFFICES ASSUME Init PROVE IInv
  OBVIOUS
<1>1. TypeOK
  <2>1. request \in [Requests -> Request]
    BY DEF Init, Request
  <2>2. QED
    BY <2>1, InvoicingAssumption DEF Init, TypeOK
<1>2. Live = {}
  BY DEF Init, Live
<1>3. AllocatedBelow /\ AllocationsExclude
  <2>1. \A r \in Requests : request[r].op # "insert"
    BY DEF Init, Idle
  <2>2. QED
    BY <2>1 DEF AllocatedBelow, AllocationsExclude
<1>4. FreshIds
  BY DEF Init, FreshIds
<1>5. QED
  BY <1>1, <1>2, <1>3, <1>4 DEF IInv, NumbersBelow, NumbersUnique, PaidIsDated

LEMMA NextIInv == IInv /\ [Next]_vars => IInv'
<1> SUFFICES ASSUME IInv, [Next]_vars PROVE IInv'
  OBVIOUS
<1>1. ASSUME NEW r \in Requests, GenerateInvoice(r) PROVE IInv'
  BY <1>1, GenerateInvoiceKept, KeptIInv
<1>2. ASSUME NEW r \in Requests, MarkPaid(r) PROVE IInv'
  BY <1>2, StatusKept, KeptIInv
<1>3. ASSUME NEW r \in Requests, VoidInvoice(r) PROVE IInv'
  BY <1>3, StatusKept, KeptIInv
<1>4. ASSUME NEW r \in Requests, DeleteCompany(r) PROVE IInv'
  BY <1>4, DeleteCompanyKept, KeptIInv
<1>5. ASSUME NEW r \in Requests, LockRows(r) PROVE IInv'
  BY <1>5, LockRowsIInv
<1>6. ASSUME NEW r \in Requests, CommitInvoice(r) PROVE IInv'
  BY <1>6, CommitInvoiceIInv
<1>7. ASSUME NEW r \in Requests, CommitAudit(r) PROVE IInv'
  BY <1>7, CommitAuditKept, KeptIInv
<1>8. ASSUME NEW r \in Requests, CommitStatus(r) PROVE IInv'
  BY <1>8, CommitStatusKept, KeptIInv
<1>9. ASSUME NEW r \in Requests, Rollback(r) PROVE IInv'
  <2>1. Finish(r) /\ UNCHANGED tables
    BY <1>9 DEF Rollback
  <2>2. QED
    BY <2>1, FinishRequest, TablesKept, KeptIInv
<1>10. CASE NewYear
  <2>1. /\ year' \in 1 .. MaxYear
        /\ UNCHANGED <<companies, invoices, nextId, request>>
    BY <1>10, InvoicingAssumption DEF NewYear, IInv, TypeOK
  <2>2. Kept
    BY <2>1 DEF IInv, Kept, TypeOK, PaidIsDated, Live
  <2>3. QED
    BY <2>2, KeptIInv
<1>11. CASE Restart
  <2>1. /\ UNCHANGED tables
        /\ request' \in [Requests -> Request]
        /\ \A r \in Requests : request'[r].op # "insert"
    BY <1>11 DEF Restart, Idle, Request
  <2>2. QED
    BY <2>1, TablesKept, KeptIInv
<1>12. CASE UNCHANGED vars
  <2>1. UNCHANGED tables /\ request' = request /\ request' \in [Requests -> Request]
    BY <1>12 DEF vars, tables, IInv, TypeOK
  <2>2. QED
    BY <2>1, TablesKept, KeptIInv
<1>13. QED
  BY <1>1, <1>2, <1>3, <1>4, <1>5, <1>6, <1>7, <1>8, <1>9, <1>10, <1>11, <1>12
     DEF Next, Handler, Commit

\* The strengthened invariant of invoices and allocations in flight.
THEOREM Invariance == Spec => []IInv
BY InitIInv, NextIInv, PTL DEF Spec

\* The invoices and the requests in flight are well typed; in particular the
\* next number always exists.
THEOREM TypeCorrect == Spec => []TypeOK
<1>1. IInv => TypeOK
  BY DEF IInv
<1>2. QED
  BY <1>1, Invariance, PTL

\* No two invoices of a year share a number, whatever the overlap of
\* generations, deletions and restarts.
THEOREM NumbersStayUnique == Spec => []NumbersUnique
<1>1. IInv => NumbersUnique
  BY DEF IInv
<1>2. QED
  BY <1>1, Invariance, PTL

\* A paid invoice has a time of payment, whichever handler wrote last.
THEOREM PaidHasDate == Spec => []PaidIsDated
<1>1. IInv => PaidIsDated
  BY DEF IInv
<1>2. QED
  BY <1>1, Invariance, PTL

\* Two allocations of numbers in flight hold no row in common.
THEOREM OneAllocator == Spec => []AllocationsExclude
<1>1. IInv => AllocationsExclude
  BY DEF IInv
<1>2. QED
  BY <1>1, Invariance, PTL

\* The three together: the ledger is sound under every overlap.
THEOREM LedgerSound == Spec => []InvoicesSound
<1>1. IInv => InvoicesSound
  BY DEF IInv, InvoicesSound
<1>2. QED
  BY <1>1, Invariance, PTL

-----------------------------------------------------------------------------
(***************************************************************************)
(* The audit row of every invoice, as long as no restart has cut a handler *)
(* off (MCInvoicing).                                                      *)
(***************************************************************************)
Audit(i) == [op |-> "audit", id |-> i]

Covered(i) == invoices[i].audited \/ \E r \in Requests : request[r] = Audit(i)

\* What the two later commits make of a row.
LEMMA AuditedRow ==
  ASSUME NEW row \in Invoice
  PROVE  LET new == [row EXCEPT !.audited = TRUE]
         IN  /\ new \in Invoice /\ new # None /\ new.audited
             /\ new.year = row.year /\ new.number = row.number
             /\ new.status = row.status /\ new.paidAt = row.paidAt
BY NoneAssumption DEF Invoice

LEMMA StatusRow ==
  ASSUME NEW row \in Invoice, NEW work, work.op \in {"pay", "void"}
  PROVE  LET new == WithStatus(row, work)
         IN  /\ new \in Invoice /\ new # None
             /\ new.audited = row.audited
             /\ new.year = row.year /\ new.number = row.number
             /\ new.status \in {row.status, IF work.op = "pay" THEN "paid" ELSE "void"}
             /\ work.op = "void" => new.paidAt = row.paidAt
<1>1. CASE work.op = "pay"
  BY <1>1, NoneAssumption DEF WithStatus, Written, Invoice, Status
<1>2. CASE work.op = "void"
  BY <1>2, NoneAssumption DEF WithStatus, Written, Invoice, Status
<1>3. QED
  BY <1>1, <1>2

\* An invoice stays covered when it keeps its audit row and the request that is to
\* write it.
LEMMA CoveredKept ==
  ASSUME NEW i \in Ids, Covered(i), invoices[i].audited => invoices'[i].audited,
         \A r \in Requests : request[r] = Audit(i) => request'[r] = Audit(i)
  PROVE  Covered(i)'
BY DEF Covered, Audit

LEMMA NextAudited ==
  IInv /\ EveryInvoiceAudited /\ [MCNext]_<<vars, alone, cut>> => EveryInvoiceAudited'
<1> SUFFICES ASSUME IInv, EveryInvoiceAudited, [MCNext]_<<vars, alone, cut>>, ~ cut',
                    NEW i \in Live'
             PROVE  Covered(i)'
  BY DEF EveryInvoiceAudited, Covered, Audit
<1>1. /\ i \in Ids /\ invoices'[i] # None
      /\ request \in [Requests -> Request] /\ invoices \in [Ids -> Invoice \cup {None}]
  BY DEF Live, IInv, TypeOK
<1>0. ~ cut
  BY DEF MCNext
<1>2. invoices[i] # None => Covered(i) /\ i \in Live /\ invoices[i] \in Invoice
  BY <1>0, <1>1 DEF EveryInvoiceAudited, Covered, Audit, Live
<1>3. ASSUME NEW r \in Requests, request[r].op # "audit",
             \A q \in Requests \ {r} : request'[q] = request[q],
             invoices[i] # None, invoices[i].audited => invoices'[i].audited
      PROVE  Covered(i)'
  <2>1. \A q \in Requests : request[q] = Audit(i) => request'[q] = Audit(i)
    BY <1>3 DEF Audit
  <2>2. QED
    BY <1>1, <1>2, <1>3, <2>1, CoveredKept
<1>4. ASSUME NEW r \in Requests, Handler(r) PROVE Covered(i)'
  <2>1. request[r].op # "audit" /\ \A q \in Requests \ {r} : request'[q] = request[q]
    BY <1>1, <1>4 DEF Handler, GenerateInvoice, MarkPaid, VoidInvoice, DeleteCompany, Begin,
                      Idle
  <2>2. invoices'[i] = invoices[i]
    BY <1>1, <1>4 DEF Handler, GenerateInvoice, MarkPaid, VoidInvoice, DeleteCompany, Begin,
                      tables
  <2>3. QED
    BY <1>1, <1>3, <2>1, <2>2
<1>5. ASSUME NEW r \in Requests, Commit(r) PROVE Covered(i)'
  <2>1. \A q \in Requests \ {r} : request'[q] = request[q]
    BY <1>1, <1>5 DEF Commit, LockRows, CommitInvoice, CommitAudit, CommitStatus, Rollback,
                      Finish
  <2>2. CASE LockRows(r)
    BY <1>1, <1>3, <2>1, <2>2 DEF LockRows, tables
  <2>3. CASE CommitInvoice(r)
    <3>1. request'[r] = Audit(nextId)
      BY <1>1, <2>3 DEF CommitInvoice, Audit
    <3>2. CASE i = nextId
      BY <3>1, <3>2 DEF Covered
    <3>3. CASE i # nextId
      <4>1. invoices'[i] = invoices[i]
        BY <1>1, <2>3, <3>3 DEF CommitInvoice
      <4>2. QED
        BY <1>1, <1>3, <2>1, <2>3, <4>1 DEF CommitInvoice
    <3>4. QED
      BY <3>2, <3>3
  <2>4. CASE CommitAudit(r)
    <3>1. CASE request[r].id = i
      <4>1. i \in Live
        BY <2>4, <3>1 DEF CommitAudit
      <4>2. invoices'[i] = [invoices[i] EXCEPT !.audited = TRUE] /\ invoices[i] \in Invoice
        BY <1>1, <1>2, <2>4, <3>1, <4>1 DEF CommitAudit, Live
      <4>3. QED
        BY <4>2, AuditedRow DEF Covered
    <3>2. CASE request[r].id # i
      <4>1. invoices'[i] = invoices[i] /\ request[r] # Audit(i)
        BY <1>1, <2>4, <3>2 DEF CommitAudit, Audit
      <4>2. QED
        BY <1>1, <1>2, <2>1, <4>1, CoveredKept
    <3>3. QED
      BY <3>1, <3>2
  <2>5. CASE CommitStatus(r)
    <3>1. PICK k, work :
            /\ k \in Live /\ k = request[r].id /\ work = request[r] /\ work.op \in {"pay", "void"}
            /\ invoices' = [invoices EXCEPT ![k] = WithStatus(invoices[k], work)]
      BY <2>5 DEF CommitStatus
    <3>2. invoices[i] # None /\ invoices'[i].audited = invoices[i].audited
      <4>1. CASE i = k
        BY <1>1, <1>2, <3>1, <4>1, StatusRow DEF Live
      <4>2. CASE i # k
        BY <1>1, <3>1, <4>2
      <4>3. QED
        BY <4>1, <4>2
    <3>3. QED
      BY <1>3, <2>1, <3>1, <3>2
  <2>6. CASE Rollback(r)
    <3>1. invoices'[i] = invoices[i] /\ invoices[i] # None /\ i \in Live
      BY <1>1, <2>6 DEF Rollback, tables, Live
    <3>2. request[r] # Audit(i)
      BY <2>6, <3>1 DEF Rollback, Audit
    <3>3. Covered(i) /\ \A q \in Requests : request[q] = Audit(i) => request'[q] = Audit(i)
      BY <1>2, <2>1, <3>1, <3>2
    <3>4. QED
      BY <1>1, <3>1, <3>3, CoveredKept
  <2>7. QED
    BY <1>5, <2>2, <2>3, <2>4, <2>5, <2>6 DEF Commit
<1>6. CASE invoices' = invoices /\ request' = request
  BY <1>1, <1>2, <1>6, CoveredKept
<1>7. QED
  BY <1>1, <1>4, <1>5, <1>6 DEF MCNext, NewYear, Restart, tables, vars

-----------------------------------------------------------------------------
(***************************************************************************)
(* What holds as long as handlers have not overlapped (MCInvoicing).       *)
(***************************************************************************)
Fresh(req) ==
  /\ req.op = "generate" => req.seen = OfYear(req.year)
  /\ req.op = "insert" => \A m \in Numbers(OfYear(req.year)) : m < req.number
  /\ req.op = "pay" => invoices[req.id].status # "void"
  /\ req.op = "void" => invoices[req.id].status # "paid"

AloneInv == alone => \A r \in Requests : Fresh(request[r])

LEMMA IdleFresh == Fresh(Idle) /\ Fresh(Idle)'
BY DEF Fresh, Idle

\* What was fresh stays so when the invoices stay.
LEMMA FreshKept ==
  ASSUME NEW req, Fresh(req), invoices' = invoices
  PROVE  Fresh(req)'
<1>1. \A y : OfYear(y)' = OfYear(y) /\ Numbers(OfYear(y))' = Numbers(OfYear(y))
  BY DEF OfYear, Live, Numbers
<1>2. QED
  BY <1>1 DEF Fresh

LEMMA NextAlone == IInv /\ AloneInv /\ [MCNext]_<<vars, alone, cut>> => AloneInv'
<1> SUFFICES ASSUME IInv, AloneInv, [MCNext]_<<vars, alone, cut>>, alone',
                    NEW q \in Requests
             PROVE  Fresh(request[q])'
  BY DEF AloneInv
<1>1. Fresh(request[q]) /\ request \in [Requests -> Request]
  BY DEF MCNext, AloneInv, IInv, TypeOK
<1>2. CASE request'[q] = Idle
  BY <1>2, IdleFresh
<1>3. CASE request' = request /\ invoices' = invoices
  BY <1>1, <1>3, FreshKept
<1>4. ASSUME NEW r \in Requests, Handler(r) \/ Commit(r), Alone(r) PROVE Fresh(request[q])'
  <2>1. ASSUME q # r PROVE request'[q] = Idle
    BY <1>1, <1>4, <2>1
       DEF Alone, Handler, GenerateInvoice, MarkPaid, VoidInvoice, DeleteCompany, Begin,
           Commit, LockRows, CommitInvoice, CommitAudit, CommitStatus, Rollback, Finish
  <2> SUFFICES ASSUME q = r PROVE Fresh(request[r])'
    BY <1>2, <2>1
  <2>2. ASSUME NEW work, Begin(r, work), Fresh(work) PROVE Fresh(request[r])'
    BY <1>1, <2>2, FreshKept DEF Begin, tables
  <2>3. CASE GenerateInvoice(r)
    BY <2>2, <2>3 DEF GenerateInvoice, Fresh
  <2>4. CASE MarkPaid(r)
    BY <2>2, <2>4 DEF MarkPaid, Fresh
  <2>5. CASE VoidInvoice(r)
    BY <2>2, <2>5 DEF VoidInvoice, Fresh
  <2>6. CASE DeleteCompany(r)
    BY <2>6, IdleFresh DEF DeleteCompany
  <2>7. CASE LockRows(r)
    <3>1. PICK y, rows : y = request[r].year /\ rows = OfYear(y)
      OBVIOUS
    <3>2. request[r].seen = rows /\ rows \cap Live = rows /\ rows \in SUBSET Live
      BY <1>4, <2>7, <3>1 DEF MCNext, AloneInv, Fresh, LockRows, OfYear
    <3>3. PICK work : /\ request'[r] = work /\ work.op = "insert" /\ work.year = y
                      /\ work.number = NextNumber(rows)
      BY <1>1, <2>7, <3>1, <3>2 DEF LockRows
    <3>4. \A m \in Numbers(OfYear(y)) : m < work.number
      BY <3>1, <3>2, <3>3, NextNumberOK
    <3>5. Fresh(work)
      BY <3>3, <3>4 DEF Fresh
    <3>6. QED
      BY <2>7, <3>3, <3>5, FreshKept DEF LockRows, tables
  <2>8. CASE CommitInvoice(r)
    BY <1>1, <2>8 DEF CommitInvoice, Fresh
  <2>9. CASE CommitAudit(r) \/ CommitStatus(r) \/ Rollback(r)
    BY <1>1, <2>9, IdleFresh DEF CommitAudit, CommitStatus, Rollback, Finish
  <2>10. QED
    BY <1>4, <2>3, <2>4, <2>5, <2>6, <2>7, <2>8, <2>9 DEF Handler, Commit
<1>5. QED
  BY <1>1, <1>2, <1>3, <1>4 DEF MCNext, NewYear, Restart, tables, vars

LEMMA MCInvariance == MCSpec => [](IInv /\ AloneInv /\ EveryInvoiceAudited)
<1>1. MCInit => IInv
  BY InitIInv DEF MCInit
<1>2. MCInit => AloneInv
  BY IdleFresh DEF MCInit, Init, AloneInv
<1>3. MCInit => EveryInvoiceAudited
  BY DEF MCInit, Init, EveryInvoiceAudited, Live
<1>4. [MCNext]_<<vars, alone, cut>> => [Next]_vars
  BY DEF MCNext, Next, vars
<1>5. QED
  BY <1>1, <1>2, <1>3, <1>4, NextIInv, NextAlone, NextAudited, PTL DEF MCSpec

\* As long as no restart has cut a handler off between its two commits, every invoice
\* has its audit row or the handler that is about to write it.
THEOREM InvoicesAudited == MCSpec => []EveryInvoiceAudited
BY MCInvariance, PTL

\* A step of a handler alone: numbers grow, paid and void are final.
LEMMA StepSettles ==
  ASSUME IInv, AloneInv, alone, MCNext
  PROVE  NewestNumberHighest /\ PaidNeverVoided /\ VoidNeverPaid
<1> DEFINE Stays(i) == /\ invoices[i] # None
                       /\ invoices'[i].status = invoices[i].status
                       /\ invoices'[i].paidAt = invoices[i].paidAt
           Settles  == NewestNumberHighest /\ PaidNeverVoided /\ VoidNeverPaid
<1>1. invoices \in [Ids -> Invoice \cup {None}] /\ request \in [Requests -> Request]
  BY DEF IInv, TypeOK
<1>2. ASSUME \A i \in Live' : Stays(i) PROVE Settles
  BY <1>2 DEF NewestNumberHighest, PaidNeverVoided, VoidNeverPaid, Live
<1>3. ASSUME invoices' = invoices PROVE Settles
  BY <1>2, <1>3 DEF Live
<1>4. ASSUME NEW r \in Requests, DeleteCompany(r) PROVE Settles
  <2>1. \A i \in Ids : invoices'[i] # None => invoices'[i] = invoices[i]
    BY <1>4 DEF DeleteCompany
  <2>2. QED
    BY <1>2, <2>1 DEF Live
<1>5. ASSUME NEW r \in Requests, CommitInvoice(r) PROVE Settles
  <2>0. PICK new : new = NewInvoice(request[r])
    OBVIOUS
  <2>1. PICK k \in Ids : k = nextId /\ new = NewInvoice(request[r])
    BY <1>5, <2>0 DEF CommitInvoice, IInv, TypeOK, Ids
  <2>2. invoices' = [invoices EXCEPT ![k] = new] /\ invoices[k] = None
    BY <1>5, <2>1 DEF CommitInvoice, IInv, TypeOK, FreshIds, Ids
  <2>3. new.year = request[r].year /\ new.number = request[r].number
    BY <2>1 DEF NewInvoice
  <2>4. \A m \in Numbers(OfYear(new.year)) : m < new.number
    BY <1>5, <2>3 DEF AloneInv, Fresh, CommitInvoice
  <2>5. NewestNumberHighest
    BY <1>1, <2>2, <2>4 DEF NewestNumberHighest, Live, Numbers
  <2>6. QED
    BY <1>1, <2>2, <2>5 DEF PaidNeverVoided, VoidNeverPaid, Live
<1>6. ASSUME NEW r \in Requests, CommitAudit(r) PROVE Settles
  <2>1. PICK k \in Live : k = request[r].id
    BY <1>6 DEF CommitAudit
  <2>2. /\ invoices' = [invoices EXCEPT ![k] = [invoices[k] EXCEPT !.audited = TRUE]]
        /\ invoices[k] \in Invoice /\ k \in Ids
    BY <1>1, <1>6, <2>1 DEF CommitAudit, Live
  <2>3. \A i \in Live' : Stays(i)
    BY <1>1, <2>1, <2>2, AuditedRow DEF Live
  <2>4. QED
    BY <1>2, <2>3
<1>7. ASSUME NEW r \in Requests, CommitStatus(r) PROVE Settles
  <2>0. PICK work : work = request[r]
    OBVIOUS
  <2>1. PICK k \in Live : k = request[r].id /\ work = request[r]
    BY <1>7, <2>0 DEF CommitStatus
  <2>2. /\ invoices' = [invoices EXCEPT ![k] = WithStatus(invoices[k], work)]
        /\ invoices[k] \in Invoice /\ k \in Ids /\ work.op \in {"pay", "void"}
        /\ Fresh(work) /\ work.id = k
    BY <1>1, <1>7, <2>1 DEF CommitStatus, Live, AloneInv
  <2>3. PICK new : new = WithStatus(invoices[k], work)
    OBVIOUS
  <2>4. /\ new # None /\ invoices'[k] = new
        /\ new.status \in {invoices[k].status, IF work.op = "pay" THEN "paid" ELSE "void"}
        /\ work.op = "void" => new.paidAt = invoices[k].paidAt
    BY <1>1, <2>2, <2>3, StatusRow
  <2>5. Live' = Live /\ \A i \in Live \ {k} : invoices'[i] = invoices[i]
    BY <1>1, <2>2, <2>3, <2>4 DEF Live
  <2>6. NewestNumberHighest
    BY <2>5 DEF NewestNumberHighest
  <2>7. PaidNeverVoided
    BY <2>2, <2>4, <2>5 DEF PaidNeverVoided, Fresh
  <2>8. VoidNeverPaid
    BY <2>2, <2>4, <2>5 DEF VoidNeverPaid, Fresh
  <2>9. QED
    BY <2>6, <2>7, <2>8
<1>8. QED
  BY <1>3, <1>4, <1>5, <1>6, <1>7
     DEF MCNext, Handler, GenerateInvoice, MarkPaid, VoidInvoice, Begin, Commit, LockRows,
         Rollback, NewYear, Restart, tables

\* As long as handlers have not overlapped, a new invoice has the highest number of
\* its year, and no payment is voided nor a void invoice paid.
THEOREM SettledAlone == MCSpec => InvoicesSettle
<1> DEFINE Settle == alone' => NewestNumberHighest /\ PaidNeverVoided /\ VoidNeverPaid
<1>1. IInv /\ AloneInv /\ [MCNext]_<<vars, alone, cut>> => [Settle]_vars
  <2> SUFFICES ASSUME IInv, AloneInv, MCNext, alone'
               PROVE  NewestNumberHighest /\ PaidNeverVoided /\ VoidNeverPaid
    BY DEF vars
  <2>1. alone
    BY DEF MCNext
  <2>2. QED
    BY <2>1, StepSettles
<1>2. QED
  BY <1>1, MCInvariance, PTL DEF MCSpec, InvoicesSettle
=============================================================================
