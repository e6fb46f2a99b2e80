----------------------------- MODULE Invoicing ------------------------------
(***************************************************************************)
(* Invoices: services/invoice_service.py and routers/invoices.py.          *)
(*                                                                         *)
(* Generating an invoice is four steps.  Its SELECT ... FOR UPDATE first   *)
(* takes the snapshot of a statement under READ COMMITTED, and then waits  *)
(* for the locks of the rows it found; when it has them it drops the rows  *)
(* that were deleted meanwhile, but it does not see rows inserted since    *)
(* the snapshot.  The invoice is committed with the next number, which     *)
(* releases the locks, and the router adds the audit row in a transaction  *)
(* of its own.  The rows are locked in one step here.                      *)
(*                                                                         *)
(* mark-paid and void read the status, and commit it with their audit row  *)
(* later, waiting for whoever has locked the row.                          *)
(***************************************************************************)
EXTENDS Integers

CONSTANTS
  Companies,    \* companies with a subscription and licences to bill
  MaxYear,      \* bound: calendar years 1 .. MaxYear
  MaxInvoices,  \* bound: invoices ever inserted
  Requests,     \* worker threads
  None          \* the content of a row id that holds no row

Ids == 1 .. MaxInvoices

ASSUME InvoicingAssumption == MaxYear \in Nat \ {0} /\ MaxInvoices \in Nat

VARIABLES
  companies,  \* companies rows that exist
  year,       \* of the server's calendar
  invoices,   \* row id -> invoice, or None
  nextId,
  request     \* what the handler in each thread has read and is to commit

vars == <<companies, year, invoices, nextId, request>>
tables == <<companies, year, invoices, nextId>>

-----------------------------------------------------------------------------
Status == {"draft", "paid", "void"}

\* paidAt: whether a payment is recorded; audited: whether an AuditLog row
\* tells of its generation.
Invoice ==
  [company : Companies, year : 1 .. MaxYear, number : Nat \ {0}, status : Status,
   paidAt : BOOLEAN, audited : BOOLEAN]

ASSUME NoneAssumption == None \notin Invoice

Idle == [op |-> "idle"]

Request ==
  {Idle}
    \cup [op : {"generate"}, company : Companies, year : 1 .. MaxYear, seen : SUBSET Ids]
    \cup [op : {"insert"}, company : Companies, year : 1 .. MaxYear,
          number : Nat \ {0}, locked : SUBSET Ids]
    \cup [op : {"audit"}, id : Ids]
    \cup [op : {"pay", "void"}, id : Ids, read : Status]

TypeOK ==
  /\ companies \subseteq Companies
  /\ year \in 1 .. MaxYear
  /\ invoices \in [Ids -> Invoice \cup {None}]
  /\ nextId \in 1 .. MaxInvoices + 1
  /\ request \in [Requests -> Request]

Live == {i \in Ids : invoices[i] # None}

OfYear(y) == {i \in Live : invoices[i].year = y}

Numbers(I) == {invoices[i].number : i \in I}

Locked == UNION {request[r].locked : r \in {q \in Requests : request[q].op = "insert"}}

\* Mutant: gaps are filled.
FirstFreeNumber(I) ==
  CHOOSE n \in 1 .. MaxInvoices + 1 :
    /\ n \notin Numbers(I)
    /\ 1 .. n - 1 \subseteq Numbers(I)

\* Mutant: the first invoice of a year is number 0.
NumberFromZero(I) ==
  CHOOSE n \in 0 .. MaxInvoices :
    /\ \A m \in Numbers(I) : m < n
    /\ n = 0 \/ n - 1 \in Numbers(I)

\* next_invoice_number: one more than the largest.
NextNumber(I) ==
  CHOOSE n \in 1 .. MaxInvoices + 1 :
    /\ \A m \in Numbers(I) : m < n
    /\ n = 1 \/ n - 1 \in Numbers(I)

Init ==
  /\ companies = Companies
  /\ year = 1
  /\ invoices = [i \in Ids |-> None]
  /\ nextId = 1
  /\ request = [r \in Requests |-> Idle]

-----------------------------------------------------------------------------
Begin(r, work) ==
  /\ request[r] = Idle
  /\ request' = [request EXCEPT ![r] = work]
  /\ UNCHANGED tables

Finish(r) == request' = [request EXCEPT ![r] = Idle]

\* POST /invoices/generate, up to the snapshot of the numbers of the year.
GenerateInvoice(r) ==
  \E c \in companies :
    Begin(r, [op |-> "generate", company |-> c, year |-> year, seen |-> OfYear(year)])

\* The rows of the snapshot are locked and the number is allocated.
LockRows(r) ==
  /\ request[r].op = "generate"
  /\ request[r].seen \cap Locked = {}
  /\ LET rows == request[r].seen \cap Live
     IN  request' = [request EXCEPT ![r] =
           [op |-> "insert", company |-> request[r].company, year |-> request[r].year,
            number |-> NextNumber(rows), locked |-> rows]]
  /\ UNCHANGED tables

NewInvoice(work) ==
  [company |-> work.company, year |-> work.year, number |-> work.number,
   status |-> "draft", paidAt |-> FALSE, audited |-> FALSE]

\* Mutant: no unique constraint on the number.
InsertableTwice(work) == work.company \in companies

\* The foreign key and the unique constraint on the number.
Insertable(work) ==
  /\ work.company \in companies
  /\ work.number \notin Numbers(OfYear(work.year))

\* Mutant: the invoice is committed and the answer sent.
CommitInvoiceOnly(r) ==
  /\ request[r].op = "insert"
  /\ nextId <= MaxInvoices
  /\ Insertable(request[r])
  /\ invoices' = [invoices EXCEPT ![nextId] = NewInvoice(request[r])]
  /\ nextId' = nextId + 1
  /\ Finish(r)
  /\ UNCHANGED <<companies, year>>

CommitInvoice(r) ==
  /\ request[r].op = "insert"
  /\ nextId <= MaxInvoices
  /\ Insertable(request[r])
  /\ invoices' = [invoices EXCEPT ![nextId] = NewInvoice(request[r])]
  /\ nextId' = nextId + 1
  /\ request' = [request EXCEPT ![r] = [op |-> "audit", id |-> nextId]]
  /\ UNCHANGED <<companies, year>>

\* The second commit: the audit row names the company, which must exist.
CommitAudit(r) ==
  /\ request[r].op = "audit"
  /\ request[r].id \in Live
  /\ invoices' = [invoices EXCEPT ![request[r].id] = [@ EXCEPT !.audited = TRUE]]
  /\ Finish(r)
  /\ UNCHANGED <<companies, year, nextId>>

\* POST /invoices/{id}/mark-paid; an invoice may be marked paid again.
MarkPaid(r) ==
  \E i \in Live :
    /\ invoices[i].status # "void"
    /\ Begin(r, [op |-> "pay", id |-> i, read |-> invoices[i].status])

\* POST /invoices/{id}/void.
VoidInvoice(r) ==
  \E i \in Live :
    /\ invoices[i].status # "paid"
    /\ Begin(r, [op |-> "void", id |-> i, read |-> invoices[i].status])

Written(current, read, new) == IF new = read THEN current ELSE new

\* The columns that changed: the status when it is not what was read, and the
\* time of payment always.
WithStatus(invoice, work) ==
  IF work.op = "pay"
  THEN [invoice EXCEPT !.status = Written(@, work.read, "paid"), !.paidAt = TRUE]
  ELSE [invoice EXCEPT !.status = Written(@, work.read, "void")]

CommitStatus(r) ==
  /\ request[r].op \in {"pay", "void"}
  /\ request[r].id \in Live \ Locked
  /\ invoices' = [invoices EXCEPT ![request[r].id] = WithStatus(@, request[r])]
  /\ Finish(r)
  /\ UNCHANGED <<companies, year, nextId>>

\* DELETE /companies/{id} takes the company's invoices with it, once no one
\* has locked them.
DeleteCompany(r) ==
  /\ request[r] = Idle
  /\ \E c \in companies :
       LET theirs == {i \in Live : invoices[i].company = c}
       IN  /\ theirs \cap Locked = {}
           /\ companies' = companies \ {c}
           /\ invoices' = [i \in Ids |-> IF i \in theirs THEN None ELSE invoices[i]]
  /\ UNCHANGED <<year, nextId, request>>

\* The number is taken, or the row or the company is gone.
Rollback(r) ==
  /\ \/ request[r].op = "insert" /\ ~ Insertable(request[r])
     \/ request[r].op \in {"audit", "pay", "void"} /\ request[r].id \notin Live
  /\ Finish(r)
  /\ UNCHANGED tables

NewYear ==
  /\ year < MaxYear
  /\ year' = year + 1
  /\ UNCHANGED <<companies, invoices, nextId, request>>

\* The server process is replaced: what was not committed is lost.
Restart ==
  /\ request' = [r \in Requests |-> Idle]
  /\ UNCHANGED tables

Handler(r) ==
  \/ GenerateInvoice(r)
  \/ MarkPaid(r)
  \/ VoidInvoice(r)
  \/ DeleteCompany(r)

Commit(r) ==
  \/ LockRows(r)
  \/ CommitInvoice(r)
  \/ CommitAudit(r)
  \/ CommitStatus(r)
  \/ Rollback(r)

Next ==
  \/ \E r \in Requests : Handler(r) \/ Commit(r)
  \/ NewYear
  \/ Restart

Spec == Init /\ [][Next]_vars

-----------------------------------------------------------------------------
(***************************************************************************)
(* Properties.                                                             *)
(***************************************************************************)

\* No two invoices of a year share a number, although two handlers may be
\* allocated the same one.
NumbersUnique ==
  \A i, j \in Live :
    /\ invoices[i].year = invoices[j].year
    /\ invoices[i].number = invoices[j].number
    => i = j

\* A paid invoice has a time of payment, whichever of several handlers wrote
\* its status last.
PaidIsDated == \A i \in Live : invoices[i].status = "paid" => invoices[i].paidAt

\* Two handlers that have allocated numbers of a year do not hold a row of it
\* in common: a second allocation waits for the first when there is one.
AllocationsExclude ==
  \A q, r \in Requests :
    /\ q # r
    /\ request[q].op = "insert" /\ request[r].op = "insert"
    => request[q].locked \cap request[r].locked = {}

\* The rows of the year are locked "so concurrent generation cannot allocate
\* the same number": once there is a row to lock, what is allocated is not
\* taken.
AllocatedNumberFree ==
  [][\A r \in Requests :
       LockRows(r) /\ request'[r].locked # {}
         => request'[r].number \notin Numbers(OfYear(request[r].year))]_vars

\* The ledger, under every interleaving of generations, payments and deletions.
InvoicesSound == NumbersUnique /\ PaidIsDated /\ AllocationsExclude
=============================================================================
