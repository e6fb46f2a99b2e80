-------------------------- MODULE AttendanceProofs --------------------------
(***************************************************************************)
(* Proofs about Attendance, for every set of employees and threads and     *)
(* every bound.  The inductive invariant relates the table to what the     *)
(* requests in flight still hold: a stale copy may lag behind its row, but *)
(* it is a copy of the same employee's record, and a copy taken from a     *)
(* closed record is of a record that is still closed.                      *)
(***************************************************************************)
EXTENDS MCAttendance, TLAPS

HoursIffExit(row) == Closed(row) <=> row.hours # None

\* Row ids not yet handed out hold no row.
FreshIdsEmpty == \A i \in Ids : i >= nextId => attendance[i] = None

PendingInsert(req) == req.op = "insert" => req.row.exit = None /\ req.row.hours = None

PendingUpdate(req) ==
  req.op = "update" =>
    /\ req.id < nextId
    /\ req.row.employee = req.read.employee
    /\ HoursIffExit(req.read)
    /\ HoursIffExit(req.row)
    /\ Closed(req.read) => Closed(req.row)
    /\ attendance[req.id] # None =>
         /\ attendance[req.id].employee = req.read.employee
         /\ Closed(req.read) => Closed(attendance[req.id])

PendingOK ==
  \A r \in Requests : PendingInsert(request[r]) /\ PendingUpdate(request[r])

IInv ==
  /\ TypeOK
  /\ FreshIdsEmpty
  /\ OneRecordPerDay
  /\ HoursWithExit
  /\ RecordsOfEmployees
  /\ PendingOK

-----------------------------------------------------------------------------
\* What calculate_hours_worked returns is a number of hundredths of an hour:
\* never negative, the break being inside the worked window.
LEMMA HoursNat ==
  ASSUME NEW t \in Nat, NEW x \in Nat, NEW s \in Shift
  PROVE  CalculateHoursWorked(t, x, s) \in Nat
<1>1. s.breakStart \in Nat /\ s.breakEnd \in Nat
  BY DEF Shift
<1>2. CASE x <= t
  BY <1>2 DEF CalculateHoursWorked
<1>3. CASE x > t
  <2>1. BreakOverlap(t, x, s) \in Int /\ BreakOverlap(t, x, s) <= x - t
    BY <1>1, <1>3 DEF BreakOverlap, MinOf, MaxOf
  <2> DEFINE m == x - t - BreakOverlap(t, x, s)
  <2>2. m \in Nat
    BY <2>1
  <2>3. (2 * (100 * m) + 60) \div 120 \in Nat
    BY <2>2
  <2>4. CalculateHoursWorked(t, x, s) = (2 * (100 * m) + 60) \div (2 * 60)
    BY <1>3 DEF CalculateHoursWorked, HalfUp
  <2>5. QED
    BY <2>3, <2>4
<1>4. QED
  BY <1>2, <1>3

\* A row closed in a session is a row.
LEMMA ClosedAtRow ==
  ASSUME NEW row \in Row, NEW t \in Times
  PROVE  /\ ClosedAt(row, t) \in Row
         /\ ClosedAt(row, t).employee = row.employee
         /\ Closed(ClosedAt(row, t))
         /\ HoursIffExit(ClosedAt(row, t))
<1>1. t \in Nat /\ row.entry \in Nat /\ ShiftOf[row.employee] \in Shift
  BY BoundsAssumption, ShiftAssumption DEF Times, Row
<1>2. CalculateHoursWorked(row.entry, t, ShiftOf[row.employee]) \in Nat
  BY <1>1, HoursNat
<1>3. QED
  BY <1>1, <1>2, NoneAssumption DEF ClosedAt, Row, Closed, HoursIffExit

\* An edit in a session keeps the employee and never empties the exit time.
LEMMA EditedRow ==
  ASSUME NEW row \in Row, HoursIffExit(row),
         NEW d \in Days \cup {None}, NEW t \in Times \cup {None},
         NEW x \in Times \cup {None}
  PROVE  /\ Edited(row, d, t, x) \in Row
         /\ Edited(row, d, t, x).employee = row.employee
         /\ Closed(row) => Closed(Edited(row, d, t, x))
         /\ HoursIffExit(Edited(row, d, t, x))
<1> DEFINE set == [row EXCEPT !.date  = IF d = None THEN @ ELSE d,
                              !.entry = IF t = None THEN @ ELSE t,
                              !.exit  = IF x = None THEN @ ELSE x]
<1>1. /\ set \in Row
      /\ set.employee = row.employee
      /\ set.hours = row.hours
      /\ Closed(row) => Closed(set)
      /\ ~ Closed(set) => ~ Closed(row)
  BY DEF Row, Closed
<1>2. CASE ~ Closed(set)
  BY <1>1, <1>2 DEF Edited, HoursIffExit
<1>3. CASE Closed(set)
  <2>1. set.exit \in Nat /\ set.entry \in Nat /\ ShiftOf[set.employee] \in Shift
    BY <1>1, <1>3, BoundsAssumption, ShiftAssumption DEF Row, Closed, Times
  <2>2. Hours(set) \in Nat
    BY <2>1, HoursNat DEF Hours
  <2> HIDE DEF set
  <2>3. Edited(row, d, t, x) = [set EXCEPT !.hours = Hours(set)]
    BY <1>3 DEF Edited, set
  <2>4. QED
    BY <1>1, <1>3, <2>2, <2>3, NoneAssumption DEF Row, Closed, HoursIffExit
<1>4. QED
  BY <1>2, <1>3

\* An UPDATE leaves the row with the current or the new value of each column,
\* so a row merged from consistent copies is consistent, and still closed if it
\* was closed before.
LEMMA MergeRow ==
  ASSUME NEW current \in Row, NEW read \in Row, NEW new \in Row,
         HoursIffExit(current), HoursIffExit(read), HoursIffExit(new),
         Closed(read) => Closed(new), Closed(read) => Closed(current)
  PROVE  /\ Merge(current, read, new) \in Row
         /\ Merge(current, read, new).employee = current.employee
         /\ Closed(current) => Closed(Merge(current, read, new))
         /\ HoursIffExit(Merge(current, read, new))
BY NoneAssumption DEF Merge, Written, Row, Closed, HoursIffExit

\* The parts of a well-typed request, by its operation.
LEMMA RequestParts ==
  ASSUME NEW req \in Request
  PROVE  /\ req.op = "insert" => req.row \in Row
         /\ req.op = "update" => req.id \in Ids /\ req.read \in Row /\ req.row \in Row
         /\ req.op = "delete" => req.id \in Ids
         /\ req.op = "dismiss" => req.employee \in Employees
BY DEF Request, Idle

-----------------------------------------------------------------------------
LEMMA InitIInv == Init => IInv
BY BoundsAssumption, NoneAssumption
   DEF Init, IInv, TypeOK, FreshIdsEmpty, OneRecordPerDay, HoursWithExit, Ids, Live,
       RecordsOfEmployees, PendingOK, PendingInsert, PendingUpdate, Request, Idle

\* Beginning a handler changes only its own request.
LEMMA BeginIInv ==
  ASSUME IInv, NEW r \in Requests, NEW work \in Request, Begin(r, work),
         PendingInsert(work), PendingUpdate(work)
  PROVE  IInv'
<1>1. TypeOK'
  BY DEF IInv, TypeOK, Begin, table
<1>2. FreshIdsEmpty' /\ OneRecordPerDay' /\ HoursWithExit' /\ RecordsOfEmployees'
  BY DEF IInv, FreshIdsEmpty, OneRecordPerDay, HoursWithExit, RecordsOfEmployees,
         Begin, table, Live, Closed
<1>3. PendingOK'
  <2> SUFFICES ASSUME NEW q \in Requests
               PROVE  PendingInsert(request[q])' /\ PendingUpdate(request[q])'
    BY DEF PendingOK
  <2>1. request'[q] = IF q = r THEN work ELSE request[q]
    BY DEF IInv, TypeOK, Begin
  <2>2. attendance' = attendance /\ nextId' = nextId
    BY DEF Begin, table
  <2>3. PendingInsert(request[q]) /\ PendingUpdate(request[q])
    BY DEF IInv, PendingOK
  <2>4. QED
    BY <2>1, <2>2, <2>3 DEF PendingInsert, PendingUpdate
<1>4. QED
  BY <1>1, <1>2, <1>3 DEF IInv

LEMMA HandlerIInv ==
  ASSUME IInv, NEW r \in Requests, Handler(r)
  PROVE  IInv'
<1>1. ASSUME NEW e \in Employees, NEW d \in Days, NEW t \in Times,
             Begin(r, Insert(NewRow(e, d, t)))
      PROVE  IInv'
  <2> DEFINE work == Insert(NewRow(e, d, t))
  <2>1. work \in Request
    BY DEF Insert, Request, NewRow, Row
  <2>2. PendingInsert(work) /\ PendingUpdate(work)
    BY DEF Insert, PendingInsert, PendingUpdate, NewRow
  <2>3. QED
    BY <1>1, <2>1, <2>2, BeginIInv
<1>2. ASSUME NEW i \in Live, NEW row \in Row, NEW by \in {"clock-out", "edit"},
             row.employee = attendance[i].employee,
             HoursIffExit(row),
             Closed(attendance[i]) => Closed(row),
             Begin(r, Update(by, i, row))
      PROVE  IInv'
  <2> DEFINE work == Update(by, i, row)
  <2>1. i \in Ids /\ attendance[i] \in Row /\ HoursIffExit(attendance[i])
    BY DEF IInv, TypeOK, Live, HoursWithExit, HoursIffExit
  <2>2. i < nextId
    BY <2>1, BoundsAssumption DEF IInv, TypeOK, FreshIdsEmpty, Live, Ids
  <2>3. work \in Request
    BY <2>1 DEF Update, Request
  <2>4. PendingInsert(work) /\ PendingUpdate(work)
    BY <1>2, <2>1, <2>2 DEF Update, PendingInsert, PendingUpdate
  <2>5. QED
    BY <1>2, <2>3, <2>4, BeginIInv
<1>3. \A i \in Live : attendance[i] \in Row /\ HoursIffExit(attendance[i])
  BY DEF IInv, TypeOK, Live, HoursWithExit, HoursIffExit
<1>4. employees \subseteq Employees
  BY DEF IInv, TypeOK
<1>5. CASE ClockIn(r)
  BY <1>5, <1>1, <1>4 DEF ClockIn
<1>6. ASSUME NEW i \in Live, NEW t \in Times,
             Begin(r, Update("clock-out", i, ClosedAt(attendance[i], t)))
      PROVE  IInv'
  BY <1>2, <1>3, <1>6, ClosedAtRow
<1>7. CASE ClockOut(r)
  BY <1>6, <1>7 DEF ClockOut
<1>8. CASE FaceScan(r)
  BY <1>1, <1>4, <1>6, <1>8 DEF FaceScan, RecordsOf
<1>9. CASE UpdateAttendance(r)
  <2>1. PICK i \in Live, d \in Days \cup {None}, t \in Times \cup {None},
             x \in Times \cup {None} :
               Begin(r, Update("edit", i, Edited(attendance[i], d, t, x)))
    BY <1>9 DEF UpdateAttendance
  <2>2. QED
    BY <1>2, <1>3, <2>1, EditedRow
<1>10. CASE DeleteAttendance(r)
  <2>1. PICK i \in Live : Begin(r, [op |-> "delete", id |-> i])
    BY <1>10 DEF DeleteAttendance
  <2>2. [op |-> "delete", id |-> i] \in Request
    BY DEF Request, Live
  <2>3. QED
    BY <2>1, <2>2, BeginIInv DEF PendingInsert, PendingUpdate
<1>11. CASE DeleteEmployee(r)
  <2>1. PICK e \in employees : Begin(r, [op |-> "dismiss", employee |-> e])
    BY <1>11 DEF DeleteEmployee
  <2>2. [op |-> "dismiss", employee |-> e] \in Request
    BY <1>4 DEF Request
  <2>3. QED
    BY <2>1, <2>2, BeginIInv DEF PendingInsert, PendingUpdate
<1>12. QED
  BY <1>5, <1>7, <1>8, <1>9, <1>10, <1>11 DEF Handler

-----------------------------------------------------------------------------
\* The requests other than r stay as consistent with the table as they were,
\* when every row keeps its employee and no closed row is reopened.
LEMMA FinishPending ==
  ASSUME IInv, NEW r \in Requests, Finish(r), nextId' >= nextId, nextId' \in Nat,
         \A i \in Ids :
           i < nextId /\ attendance'[i] # None =>
             /\ attendance[i] # None
             /\ attendance'[i].employee = attendance[i].employee
             /\ Closed(attendance[i]) => Closed(attendance'[i])
  PROVE  PendingOK'
<1> SUFFICES ASSUME NEW q \in Requests
             PROVE  PendingInsert(request[q])' /\ PendingUpdate(request[q])'
  BY DEF PendingOK
<1>1. request'[q] = IF q = r THEN Idle ELSE request[q]
  BY DEF IInv, TypeOK, Finish
<1>2. PendingInsert(request[q]) /\ PendingUpdate(request[q]) /\ request[q] \in Request
  BY DEF IInv, PendingOK, TypeOK
<1>3. CASE q = r
  BY <1>1, <1>3 DEF PendingInsert, PendingUpdate, Idle
<1>4. CASE q # r
  <2>1. PendingInsert(request[q])'
    BY <1>1, <1>2, <1>4 DEF PendingInsert
  <2>2. ASSUME request[q].op = "update" PROVE PendingUpdate(request[q])'
    <3>1. request[q].id \in Ids /\ request[q].id < nextId
      BY <1>2, <2>2, RequestParts DEF PendingUpdate
    <3>2. request[q].id < nextId'
      BY <3>1, BoundsAssumption DEF IInv, TypeOK, Ids
    <3>3. QED
      BY <1>1, <1>2, <1>4, <2>2, <3>1, <3>2 DEF PendingUpdate
  <2>3. QED
    BY <1>1, <1>4, <2>1, <2>2 DEF PendingUpdate
<1>5. QED
  BY <1>3, <1>4

LEMMA CommitInsertIInv ==
  ASSUME IInv, NEW r \in Requests, CommitInsert(r)
  PROVE  IInv'
<1> DEFINE row == request[r].row
<1>1. row \in Row /\ HoursIffExit(row)
  BY RequestParts DEF IInv, TypeOK, PendingOK, PendingInsert, CommitInsert,
                      HoursIffExit, Closed
<1>2. nextId \in Ids /\ nextId' = nextId + 1 /\ nextId' \in 1 .. MaxRecords + 1
  BY BoundsAssumption DEF IInv, TypeOK, CommitInsert, Ids
<1>3. /\ attendance' \in [Ids -> Row \cup {None}]
      /\ attendance'[nextId] = row
      /\ \A i \in Ids : i # nextId => attendance'[i] = attendance[i]
  BY <1>1, <1>2 DEF IInv, TypeOK, CommitInsert
<1>4. request' \in [Requests -> Request]
  BY DEF IInv, TypeOK, CommitInsert, Finish, Request
<1>5. TypeOK'
  BY <1>2, <1>3, <1>4 DEF IInv, TypeOK, CommitInsert
<1>6. FreshIdsEmpty'
  <2> SUFFICES ASSUME NEW i \in Ids, i >= nextId' PROVE attendance'[i] = None
    BY DEF FreshIdsEmpty
  <2>1. i # nextId /\ i >= nextId
    BY <1>2 DEF Ids
  <2>2. QED
    BY <1>3, <2>1 DEF IInv, FreshIdsEmpty
<1>7. InsertAllowed(row) /\ employees' = employees
  BY DEF CommitInsert
<1>8. OneRecordPerDay'
  <2>1. \A i \in Live : ~ (attendance[i].employee = row.employee
                           /\ attendance[i].date = row.date)
    BY <1>7 DEF InsertAllowed, RecordsOf
  <2>2. QED
    BY <1>3, <2>1 DEF IInv, OneRecordPerDay, Live
<1>9. HoursWithExit'
  BY <1>1, <1>3 DEF IInv, HoursWithExit, Live, HoursIffExit, Closed
<1>10. RecordsOfEmployees'
  BY <1>3, <1>7 DEF IInv, RecordsOfEmployees, Live, InsertAllowed
<1>11. PendingOK'
  <2>1. \A i \in Ids : i < nextId => attendance'[i] = attendance[i]
    BY <1>2, <1>3 DEF Ids
  <2>2. Finish(r)
    BY DEF CommitInsert
  <2>3. nextId' >= nextId /\ nextId' \in Nat
    BY <1>2 DEF Ids
  <2>4. QED
    BY <2>1, <2>2, <2>3, FinishPending
<1>12. QED
  BY <1>5, <1>6, <1>8, <1>9, <1>10, <1>11 DEF IInv

LEMMA CommitUpdateIInv ==
  ASSUME IInv, NEW r \in Requests, CommitUpdate(r)
  PROVE  /\ IInv'
         /\ \A i \in Live : Closed(attendance[i]) => Closed(attendance'[i])
         /\ Live' = Live
<1> DEFINE k   == request[r].id
           row == Merge(attendance[k], request[r].read, request[r].row)
<1>1. k \in Live /\ UpdateAllowed(k, row) /\ attendance' = [attendance EXCEPT ![k] = row]
  BY DEF CommitUpdate
<1>2. request[r].op = "update" /\ Finish(r) /\ nextId' = nextId /\ employees' = employees
  BY DEF CommitUpdate
<1>3. /\ request[r].read \in Row /\ request[r].row \in Row
      /\ PendingUpdate(request[r])
  BY <1>2, RequestParts DEF IInv, TypeOK, PendingOK
<1>4. k \in Ids /\ attendance[k] \in Row /\ HoursIffExit(attendance[k])
  BY <1>1 DEF IInv, TypeOK, Live, HoursWithExit, HoursIffExit
<1>5. /\ row \in Row
      /\ row.employee = attendance[k].employee
      /\ Closed(attendance[k]) => Closed(row)
      /\ HoursIffExit(row)
  <2>1. attendance[k] # None
    BY <1>1 DEF Live
  <2>2. /\ HoursIffExit(request[r].read)
        /\ HoursIffExit(request[r].row)
        /\ Closed(request[r].read) => Closed(request[r].row)
        /\ Closed(request[r].read) => Closed(attendance[k])
    BY <1>2, <1>3, <2>1 DEF PendingUpdate
  <2>3. QED
    BY <1>3, <1>4, <2>2, MergeRow
<1> HIDE DEF k, row
<1>6. /\ attendance' \in [Ids -> Row \cup {None}]
      /\ attendance'[k] = row
      /\ \A i \in Ids : i # k => attendance'[i] = attendance[i]
  BY <1>1, <1>4, <1>5 DEF IInv, TypeOK
<1>7. row # None
  BY <1>5, NoneAssumption
<1>8. Live' = Live
  BY <1>1, <1>6, <1>7 DEF Live
<1>9. TypeOK'
  BY <1>2, <1>6 DEF IInv, TypeOK, Finish, Request
<1>10. FreshIdsEmpty'
  BY <1>2, <1>8 DEF IInv, FreshIdsEmpty, Live
<1>11. OneRecordPerDay'
  <2>1. \A i \in Live : attendance[i].employee = row.employee
                        /\ attendance[i].date = row.date => i = k
    BY <1>1 DEF UpdateAllowed, RecordsOf
  <2>2. QED
    BY <1>6, <1>8, <2>1 DEF IInv, OneRecordPerDay, Live
<1>12. HoursWithExit'
  BY <1>5, <1>6, <1>8 DEF IInv, HoursWithExit, Live, HoursIffExit
<1>13. RecordsOfEmployees'
  BY <1>1, <1>2, <1>5, <1>6, <1>8 DEF IInv, RecordsOfEmployees, Live
<1>14. PendingOK'
  <2>1. \A i \in Ids : attendance'[i] # None =>
          /\ attendance[i] # None
          /\ attendance'[i].employee = attendance[i].employee
          /\ Closed(attendance[i]) => Closed(attendance'[i])
    BY <1>1, <1>5, <1>6, <1>8 DEF Live
  <2>2. nextId' >= nextId /\ nextId' \in Nat
    BY <1>2, BoundsAssumption DEF IInv, TypeOK
  <2>3. QED
    BY <1>2, <2>1, <2>2, FinishPending
<1>15. \A i \in Live : Closed(attendance[i]) => Closed(attendance'[i])
  BY <1>5, <1>6 DEF Live
<1>16. QED
  BY <1>8, <1>9, <1>10, <1>11, <1>12, <1>13, <1>14, <1>15 DEF IInv

LEMMA CommitDeleteIInv ==
  ASSUME IInv, NEW r \in Requests, CommitDelete(r)
  PROVE  IInv'
<1> DEFINE k == request[r].id
<1>1. k \in Ids
  BY RequestParts DEF IInv, TypeOK, CommitDelete
<1>2. /\ attendance' \in [Ids -> Row \cup {None}]
      /\ attendance'[k] = None
      /\ \A i \in Ids : i # k => attendance'[i] = attendance[i]
  BY <1>1 DEF IInv, TypeOK, CommitDelete
<1>3. Finish(r) /\ nextId' = nextId /\ employees' = employees
  BY DEF CommitDelete
<1>4. TypeOK'
  BY <1>2, <1>3 DEF IInv, TypeOK, Finish, Request
<1>5. FreshIdsEmpty' /\ OneRecordPerDay' /\ HoursWithExit' /\ RecordsOfEmployees'
  BY <1>2, <1>3 DEF IInv, FreshIdsEmpty, OneRecordPerDay, HoursWithExit,
                    RecordsOfEmployees, Live, Closed
<1>6. PendingOK'
  <2>1. nextId' >= nextId /\ nextId' \in Nat
    BY <1>3, BoundsAssumption DEF IInv, TypeOK
  <2>2. QED
    BY <1>2, <1>3, <2>1, FinishPending
<1>7. QED
  BY <1>4, <1>5, <1>6 DEF IInv

LEMMA CommitDismissIInv ==
  ASSUME IInv, NEW r \in Requests, CommitDismiss(r)
  PROVE  IInv'
<1> DEFINE e == request[r].employee
<1>1. \A i \in Ids :
        attendance'[i] = IF attendance[i] # None /\ attendance[i].employee = e
                         THEN None ELSE attendance[i]
  BY DEF CommitDismiss
<1>2. /\ attendance' \in [Ids -> Row \cup {None}]
      /\ Finish(r) /\ nextId' = nextId /\ employees' = employees \ {e}
  BY DEF IInv, TypeOK, CommitDismiss
<1> HIDE DEF e
<1>3. TypeOK'
  BY <1>2 DEF IInv, TypeOK, Finish, Request
<1>4. FreshIdsEmpty' /\ OneRecordPerDay' /\ HoursWithExit'
  BY <1>1, <1>2 DEF IInv, FreshIdsEmpty, OneRecordPerDay, HoursWithExit, Live, Closed
<1>5. RecordsOfEmployees'
  BY <1>1, <1>2 DEF IInv, RecordsOfEmployees, Live
<1>6. PendingOK'
  <2>1. nextId' >= nextId /\ nextId' \in Nat
    BY <1>2, BoundsAssumption DEF IInv, TypeOK
  <2>2. QED
    BY <1>1, <1>2, <2>1, FinishPending
<1>7. QED
  BY <1>3, <1>4, <1>5, <1>6 DEF IInv

\* Dropping requests keeps the invariant: a rollback, a restart.
LEMMA DropIInv ==
  ASSUME IInv, UNCHANGED table, request' \in [Requests -> Request],
         \A r \in Requests : request'[r] \in {request[r], Idle}
  PROVE  IInv'
<1>1. TypeOK'
  BY DEF IInv, TypeOK, table
<1>2. FreshIdsEmpty' /\ OneRecordPerDay' /\ HoursWithExit' /\ RecordsOfEmployees'
  BY DEF IInv, FreshIdsEmpty, OneRecordPerDay, HoursWithExit, RecordsOfEmployees,
         table, Live, Closed
<1>3. PendingOK'
  <2> SUFFICES ASSUME NEW q \in Requests
               PROVE  PendingInsert(request[q])' /\ PendingUpdate(request[q])'
    BY DEF PendingOK
  <2>1. PendingInsert(request[q]) /\ PendingUpdate(request[q])
    BY DEF IInv, PendingOK
  <2>2. attendance' = attendance /\ nextId' = nextId
    BY DEF table
  <2>3. CASE request'[q] = request[q]
    BY <2>1, <2>2, <2>3 DEF PendingInsert, PendingUpdate
  <2>4. CASE request'[q] = Idle
    BY <2>4 DEF PendingInsert, PendingUpdate, Idle
  <2>5. QED
    BY <2>3, <2>4
<1>4. QED
  BY <1>1, <1>2, <1>3 DEF IInv

LEMMA NextIInv ==
  ASSUME IInv, [Next]_vars
  PROVE  IInv'
<1>1. ASSUME NEW r \in Requests, Handler(r) PROVE IInv'
  BY <1>1, HandlerIInv
<1>2. ASSUME NEW r \in Requests, CommitInsert(r) PROVE IInv'
  BY <1>2, CommitInsertIInv
<1>3. ASSUME NEW r \in Requests, CommitUpdate(r) PROVE IInv'
  BY <1>3, CommitUpdateIInv
<1>4. ASSUME NEW r \in Requests, CommitDelete(r) PROVE IInv'
  BY <1>4, CommitDeleteIInv
<1>5. ASSUME NEW r \in Requests, CommitDismiss(r) PROVE IInv'
  BY <1>5, CommitDismissIInv
<1>6. request \in [Requests -> Request] /\ Idle \in Request
  BY DEF IInv, TypeOK, Request
<1>7. ASSUME NEW r \in Requests, Rollback(r) PROVE IInv'
  <2>1. UNCHANGED table /\ Finish(r)
    BY <1>7 DEF Rollback
  <2>2. /\ request' \in [Requests -> Request]
        /\ \A q \in Requests : request'[q] \in {request[q], Idle}
    BY <1>6, <2>1 DEF Finish
  <2>3. QED
    BY <2>1, <2>2, DropIInv
<1>8. CASE Restart
  <2>1. /\ UNCHANGED table
        /\ request' \in [Requests -> Request]
        /\ \A q \in Requests : request'[q] \in {request[q], Idle}
    BY <1>6, <1>8 DEF Restart
  <2>2. QED
    BY <2>1, DropIInv
<1>9. CASE UNCHANGED vars
  <2>1. UNCHANGED table /\ request' = request
    BY <1>9 DEF vars, table
  <2>2. QED
    BY <1>6, <2>1, DropIInv
<1>10. QED
  BY <1>1, <1>2, <1>3, <1>4, <1>5, <1>7, <1>8, <1>9 DEF Next, Commit

\* The inductive invariant holds in every reachable state.
THEOREM Invariance == Spec => []IInv
<1>1. Init => IInv
  BY InitIInv
<1>2. IInv /\ [Next]_vars => IInv'
  BY NextIInv
<1>3. QED
  BY <1>1, <1>2, PTL DEF Spec

\* The table and the requests in flight stay well typed.
THEOREM TypeCorrect == Spec => []TypeOK
<1>1. IInv => TypeOK
  BY DEF IInv
<1>2. QED
  BY <1>1, Invariance, PTL

\* For any number of concurrent handlers, employees and days, the unique
\* constraint with the rollbacks keeps one record per employee and date.
THEOREM OneRecord == Spec => []OneRecordPerDay
<1>1. IInv => OneRecordPerDay
  BY DEF IInv
<1>2. QED
  BY <1>1, Invariance, PTL

\* However edits and clock-outs interleave, a record has hours if and only if
\* it has an exit time.
THEOREM HoursIffExitTime == Spec => []HoursWithExit
<1>1. IInv => HoursWithExit
  BY DEF IInv
<1>2. QED
  BY <1>1, Invariance, PTL

\* No attendance row is left without its employee.
THEOREM NoOrphans == Spec => []RecordsOfEmployees
<1>1. IInv => RecordsOfEmployees
  BY DEF IInv
<1>2. QED
  BY <1>1, Invariance, PTL

\* A closed record is never reopened, whatever stale copy is committed over it.
LEMMA StepClosed == IInv /\ [Next]_vars => ClosedStaysClosed
<1> DEFINE A == \A i \in Live :
      Closed(attendance[i]) /\ attendance'[i] # None => Closed(attendance'[i])
<1>1. ASSUME IInv, [Next]_vars PROVE A
  <2>1. ASSUME attendance' = attendance PROVE A
    BY <2>1
  <2>2. ASSUME NEW r \in Requests, Handler(r) PROVE A
    BY <2>1, <2>2 DEF Handler, ClockIn, ClockOut, FaceScan, UpdateAttendance,
                      DeleteAttendance, DeleteEmployee, Begin, table
  <2>3. ASSUME NEW r \in Requests, CommitInsert(r) PROVE A
    BY <1>1, <2>3 DEF CommitInsert, IInv, TypeOK, FreshIdsEmpty, Live, Ids
  <2>4. ASSUME NEW r \in Requests, CommitUpdate(r) PROVE A
    BY <1>1, <2>4, CommitUpdateIInv
  <2>5. ASSUME NEW r \in Requests, CommitDelete(r) PROVE A
    BY <1>1, <2>5 DEF CommitDelete, IInv, TypeOK, Live
  <2>6. ASSUME NEW r \in Requests, CommitDismiss(r) PROVE A
    BY <1>1, <2>6 DEF CommitDismiss, IInv, TypeOK, Live
  <2>7. QED
    BY <1>1, <2>1, <2>2, <2>3, <2>4, <2>5, <2>6
       DEF Next, Commit, Rollback, Restart, vars, table
<1>2. QED
  BY <1>1 DEF ClosedStaysClosed

\* A row id whose row was deleted is never filled again.
LEMMA StepDeleted == IInv /\ [Next]_vars => DeletedStaysDeleted
<1> DEFINE A == \A i \in 1 .. nextId - 1 : attendance[i] = None => attendance'[i] = None
<1>1. ASSUME IInv, [Next]_vars PROVE A
  <2>1. nextId \in Nat /\ \A i \in 1 .. nextId - 1 : i \in Ids /\ i # nextId
    BY <1>1, BoundsAssumption DEF IInv, TypeOK, Ids
  <2>2. ASSUME attendance' = attendance PROVE A
    BY <2>2
  <2>3. ASSUME NEW r \in Requests, Handler(r) PROVE A
    BY <2>2, <2>3 DEF Handler, ClockIn, ClockOut, FaceScan, UpdateAttendance,
                      DeleteAttendance, DeleteEmployee, Begin, table
  <2>4. ASSUME NEW r \in Requests, CommitInsert(r) PROVE A
    BY <1>1, <2>1, <2>4 DEF CommitInsert, IInv, TypeOK
  <2>5. ASSUME NEW r \in Requests, CommitUpdate(r) PROVE A
    <3>1. Live' = Live
      BY <1>1, <2>5, CommitUpdateIInv
    <3>2. QED
      BY <2>1, <3>1 DEF Live
  <2>6. ASSUME NEW r \in Requests, CommitDelete(r) PROVE A
    BY <1>1, <2>1, <2>6 DEF CommitDelete, IInv, TypeOK
  <2>7. ASSUME NEW r \in Requests, CommitDismiss(r) PROVE A
    BY <1>1, <2>1, <2>7 DEF CommitDismiss
  <2>8. QED
    BY <1>1, <2>2, <2>3, <2>4, <2>5, <2>6, <2>7
       DEF Next, Commit, Rollback, Restart, vars, table
<1>2. QED
  BY <1>1 DEF DeletedStaysDeleted

\* One record per day, hours where there is an exit, no orphan: together, what the
\* readers of the table rely on.
THEOREM RecordsStaySound == Spec => []RecordsSound
<1>1. IInv => RecordsSound
  BY DEF IInv, RecordsSound
<1>2. QED
  BY <1>1, Invariance, PTL

\* A clock-out and a deletion are final, whatever copies late handlers commit.
THEOREM NothingUndone == Spec => NeverUndone
<1>1. IInv /\ [Next]_vars => ClosedStaysClosed /\ DeletedStaysDeleted
  BY StepClosed, StepDeleted
<1>2. QED
  BY <1>1, Invariance, PTL DEF Spec, NeverUndone

-----------------------------------------------------------------------------
(***************************************************************************)
(* The table implements the lifecycle of a day.                            *)
(***************************************************************************)
StatusOfRow(row) == IF Closed(row) THEN "closed" ELSE "open"

Statuses == [e \in Employees |-> [d \in Days |-> StatusOf(e, d)]]

\* As there is one record for a date, the status of the date is that of the record.
LEMMA StatusOfRecord ==
  ASSUME OneRecordPerDay, NEW i \in Live
  PROVE  LET row == attendance[i]
         IN  StatusOf(row.employee, row.date) = StatusOfRow(row)
<1>1. RecordsOf(attendance[i].employee, attendance[i].date) = {i}
  BY DEF OneRecordPerDay, RecordsOf
<1>2. QED
  BY <1>1 DEF StatusOf, StatusOfRow

LEMMA StatusAbsent ==
  ASSUME NEW e, NEW d, RecordsOf(e, d) = {}
  PROVE  StatusOf(e, d) = "absent"
BY DEF StatusOf

\* A date whose records a step leaves alone keeps its status.
LEMMA StatusKept ==
  ASSUME NEW e, NEW d,
         \A i \in Ids :
           i \in RecordsOf(e, d) \/ i \in RecordsOf(e, d)' => attendance'[i] = attendance[i]
  PROVE  StatusOf(e, d)' = StatusOf(e, d)
<1>1. RecordsOf(e, d)' = RecordsOf(e, d)
  BY DEF RecordsOf, Live
<1>2. \A i \in RecordsOf(e, d) : Closed(attendance[i])' <=> Closed(attendance[i])
  BY DEF RecordsOf, Live, Closed
<1>3. QED
  BY <1>1, <1>2 DEF StatusOf

LEMMA InitStatuses == Init => Lifecycle!Init
<1> SUFFICES ASSUME Init PROVE Lifecycle!Init
  OBVIOUS
<1>1. \A e \in Employees, d \in Days : RecordsOf(e, d) = {}
  BY DEF Init, RecordsOf, Live
<1>2. \A e \in Employees, d \in Days : StatusOf(e, d) = "absent"
  BY <1>1, StatusAbsent
<1>3. QED
  BY <1>2 DEF Lifecycle!Init

\* A step that gives one date another status is the abstract change of that date.
LEMMA OneStatus ==
  ASSUME NEW e \in Employees, NEW d \in Days, NEW s,
         StatusOf(e, d)' = s,
         \A f \in Employees, c \in Days : f # e \/ c # d => StatusOf(f, c)' = StatusOf(f, c)
  PROVE  Statuses' = [Statuses EXCEPT ![e][d] = s]
BY DEF Statuses

\* An insert opens a date that had no record.
LEMMA InsertOpens ==
  ASSUME IInv, NEW r \in Requests, CommitInsert(r)
  PROVE  Lifecycle!Next
<1>1. PICK row : row = request[r].row
  OBVIOUS
<1>2. row \in Row /\ ~ Closed(row) /\ InsertAllowed(row)
  BY <1>1, RequestParts DEF IInv, TypeOK, PendingOK, PendingInsert, CommitInsert, Closed
<1>3. PICK e \in Employees, d \in Days : e = row.employee /\ d = row.date
  BY <1>2 DEF Row
<1>4. PICK k \in Ids : k = nextId
  BY BoundsAssumption DEF IInv, TypeOK, CommitInsert, Ids
<1>5. /\ attendance' = [attendance EXCEPT ![k] = row]
      /\ attendance[k] = None
      /\ attendance \in [Ids -> Row \cup {None}]
  BY <1>1, <1>4, BoundsAssumption DEF IInv, TypeOK, CommitInsert, FreshIdsEmpty, Ids
<1>6. k \in Live' /\ attendance'[k] = row
  BY <1>2, <1>5, NoneAssumption DEF Live
<1>7. StatusOf(e, d) = "absent"
  BY <1>2, <1>3, StatusAbsent DEF InsertAllowed
<1>8. StatusOf(e, d)' = "open"
  <2>1. OneRecordPerDay'
    BY CommitInsertIInv DEF IInv
  <2>2. RecordsOf(e, d)' = {k}
    BY <1>3, <1>6, <2>1 DEF OneRecordPerDay, RecordsOf
  <2>3. QED
    BY <1>2, <1>6, <2>2 DEF StatusOf, Closed
<1>9. ASSUME NEW f \in Employees, NEW c \in Days, f # e \/ c # d
      PROVE  StatusOf(f, c)' = StatusOf(f, c)
  BY <1>3, <1>5, <1>6, <1>9, StatusKept DEF RecordsOf, Live
<1>10. Statuses' = [Statuses EXCEPT ![e][d] = "open"]
  BY <1>8, <1>9, OneStatus
<1>11. Lifecycle!Open(e, d)
  BY <1>7, <1>10 DEF Lifecycle!Open, Statuses
<1>12. QED
  BY <1>11 DEF Lifecycle!Next

\* A deletion clears the date of its record.
LEMMA DeleteClears ==
  ASSUME IInv, NEW r \in Requests, CommitDelete(r)
  PROVE  Lifecycle!Next \/ Statuses' = Statuses
<1>1. PICK k \in Ids : k = request[r].id
  BY RequestParts DEF IInv, TypeOK, CommitDelete
<1>2. /\ attendance' = [attendance EXCEPT ![k] = None]
      /\ attendance \in [Ids -> Row \cup {None}]
  BY <1>1 DEF IInv, TypeOK, CommitDelete
<1>3. CASE k \notin Live
  <2>1. attendance' = attendance
    BY <1>2, <1>3 DEF Live
  <2>2. QED
    BY <2>1 DEF Statuses, StatusOf, RecordsOf, Live, Closed
<1>4. CASE k \in Live
  <2>1. PICK e \in Employees, d \in Days :
          e = attendance[k].employee /\ d = attendance[k].date
    BY <1>2, <1>4 DEF Live, Row
  <2>2. StatusOf(e, d) # "absent"
    BY <1>4, <2>1, StatusOfRecord DEF IInv, StatusOfRow
  <2>3. RecordsOf(e, d)' = {}
    BY <1>2, <1>4, <2>1 DEF IInv, OneRecordPerDay, RecordsOf, Live
  <2>4. StatusOf(e, d)' = "absent"
    BY <2>3 DEF StatusOf
  <2>5. ASSUME NEW f \in Employees, NEW c \in Days, f # e \/ c # d
        PROVE  StatusOf(f, c)' = StatusOf(f, c)
    BY <1>2, <2>1, <2>5, StatusKept DEF RecordsOf, Live
  <2>6. Statuses' = [Statuses EXCEPT ![e][d] = "absent"]
    BY <2>4, <2>5, OneStatus
  <2>7. Lifecycle!Clear(e, d)
    BY <2>2, <2>6 DEF Lifecycle!Clear, Statuses
  <2>8. QED
    BY <2>7 DEF Lifecycle!Next
<1>5. QED
  BY <1>3, <1>4

\* Deleting an employee clears all dates of the employee.
LEMMA DismissClears ==
  ASSUME IInv, NEW r \in Requests, CommitDismiss(r)
  PROVE  Lifecycle!Next
<1>1. PICK e \in Employees : e = request[r].employee
  BY RequestParts DEF IInv, TypeOK, CommitDismiss
<1>2. \A i \in Ids :
        attendance'[i] = IF attendance[i] # None /\ attendance[i].employee = e
                         THEN None ELSE attendance[i]
  BY <1>1 DEF CommitDismiss
<1>3. ASSUME NEW d \in Days PROVE StatusOf(e, d)' = "absent"
  <2>1. RecordsOf(e, d)' = {}
    BY <1>2 DEF RecordsOf, Live
  <2>2. QED
    BY <2>1 DEF StatusOf
<1>4. ASSUME NEW f \in Employees, NEW d \in Days, f # e
      PROVE  StatusOf(f, d)' = StatusOf(f, d)
  BY <1>2, <1>4, StatusKept DEF RecordsOf, Live
<1>5. Statuses' = [Statuses EXCEPT ![e] = [d \in Days |-> "absent"]]
  BY <1>3, <1>4 DEF Statuses
<1>6. Lifecycle!Dismiss(e)
  BY <1>5 DEF Lifecycle!Dismiss, Statuses
<1>7. QED
  BY <1>6 DEF Lifecycle!Next

\* An update that leaves the date closes it or changes nothing; one that moves the
\* record takes its status along, or closes it on the way.
LEMMA UpdateMovesOrCloses ==
  ASSUME IInv, NEW r \in Requests, CommitUpdate(r)
  PROVE  Lifecycle!Next \/ Statuses' = Statuses
<1>1. PICK k \in Ids : k = request[r].id
  BY RequestParts DEF IInv, TypeOK, CommitUpdate
<1>2. PICK old : old = attendance[k]
  OBVIOUS
<1>3. PICK row : row = Merge(old, request[r].read, request[r].row)
  OBVIOUS
<1>4. /\ k \in Live /\ UpdateAllowed(k, row)
      /\ attendance' = [attendance EXCEPT ![k] = row]
      /\ attendance \in [Ids -> Row \cup {None}]
  BY <1>1, <1>2, <1>3 DEF CommitUpdate, IInv, TypeOK
<1>5. /\ Live' = Live /\ OneRecordPerDay' /\ OneRecordPerDay
      /\ Closed(old) => Closed(row)
  BY <1>1, <1>2, <1>4, CommitUpdateIInv DEF IInv
<1>6. old \in Row /\ row \in Row' /\ attendance'[k] = row /\ row.employee = old.employee
  BY <1>2, <1>3, <1>4, CommitUpdateIInv DEF IInv, TypeOK, Live, Merge, Row
<1>7. PICK e \in Employees, from, to \in Days :
        e = old.employee /\ from = old.date /\ to = row.date
  BY <1>6 DEF Row
<1>8. StatusOf(e, from) = StatusOfRow(old)
  BY <1>2, <1>4, <1>5, <1>7, StatusOfRecord
<1>9. StatusOf(e, to)' = StatusOfRow(row)
  <2>1. RecordsOf(e, to)' = {k}
    BY <1>4, <1>5, <1>6, <1>7 DEF OneRecordPerDay, RecordsOf
  <2>2. QED
    BY <1>6, <2>1 DEF StatusOf, StatusOfRow
<1>10. ASSUME NEW f \in Employees, NEW c \in Days, f # e \/ (c # from /\ c # to)
       PROVE  StatusOf(f, c)' = StatusOf(f, c)
  BY <1>2, <1>4, <1>6, <1>7, <1>10, StatusKept DEF RecordsOf, Live
<1>11. CASE from = to
  <2>1. Statuses' = [Statuses EXCEPT ![e][from] = StatusOfRow(row)]
    BY <1>9, <1>10, <1>11, OneStatus
  <2>2. CASE StatusOfRow(row) = StatusOfRow(old)
    <3>1. ASSUME NEW f \in Employees, NEW c \in Days
          PROVE  StatusOf(f, c)' = StatusOf(f, c)
      BY <1>8, <1>9, <1>10, <1>11, <2>2
    <3>2. QED
      BY <3>1 DEF Statuses
  <2>3. CASE StatusOfRow(row) # StatusOfRow(old)
    <3>1. StatusOfRow(row) = "closed" /\ StatusOfRow(old) = "open"
      BY <1>5, <2>3 DEF StatusOfRow
    <3>2. Lifecycle!Close(e, from)
      BY <1>8, <2>1, <3>1 DEF Lifecycle!Close, Statuses
    <3>3. QED
      BY <3>2 DEF Lifecycle!Next
  <2>4. QED
    BY <2>2, <2>3
<1>12. CASE from # to
  <2>1. StatusOf(e, to) = "absent"
    <3>1. RecordsOf(e, to) = {}
      BY <1>2, <1>4, <1>6, <1>7, <1>12 DEF UpdateAllowed, RecordsOf
    <3>2. QED
      BY <3>1, StatusAbsent
  <2>2. StatusOf(e, from)' = "absent"
    <3>1. RecordsOf(e, from)' = {}
      BY <1>2, <1>4, <1>5, <1>6, <1>7, <1>12 DEF OneRecordPerDay, RecordsOf
    <3>2. QED
      BY <3>1 DEF StatusOf
  <2>3. Statuses' = [Statuses EXCEPT ![e][from] = "absent", ![e][to] = StatusOfRow(row)]
    BY <1>9, <1>10, <1>12, <2>2 DEF Statuses
  <2>4. StatusOfRow(row) \in {Statuses[e][from], "closed"}
    BY <1>5, <1>8 DEF StatusOfRow, Statuses
  <2>5. Lifecycle!Move(e, from, to)
    <3>1. Statuses[e][from] # "absent" /\ Statuses[e][to] = "absent"
      BY <1>8, <2>1 DEF StatusOfRow, Statuses
    <3>2. QED
      BY <2>3, <2>4, <3>1 DEF Lifecycle!Move, Statuses
  <2>6. QED
    BY <2>5 DEF Lifecycle!Next
<1>13. QED
  BY <1>11, <1>12

LEMMA NextStatuses ==
  ASSUME IInv, [Next]_vars
  PROVE  Lifecycle!Next \/ Statuses' = Statuses
<1>1. ASSUME attendance' = attendance
      PROVE  Statuses' = Statuses
  BY <1>1 DEF Statuses, StatusOf, RecordsOf, Live, Closed
<1>2. ASSUME NEW r \in Requests, Handler(r)
      PROVE  Statuses' = Statuses
  BY <1>1, <1>2 DEF Handler, ClockIn, ClockOut, FaceScan, UpdateAttendance,
                    DeleteAttendance, DeleteEmployee, Begin, table
<1>3. ASSUME NEW r \in Requests, Commit(r)
      PROVE  Lifecycle!Next \/ Statuses' = Statuses
  BY <1>1, <1>3, InsertOpens, UpdateMovesOrCloses, DeleteClears, DismissClears
     DEF Commit, Rollback, table
<1>4. QED
  BY <1>1, <1>2, <1>3 DEF Next, Restart, vars, table

\* The table, whatever handlers overlap, implements the lifecycle of a day that
\* payslips, payroll and the dashboards rely on (DayLifecycle).
THEOREM Refinement == Spec => ImplementsDayLifecycle
<1>1. Init => Lifecycle!Init
  BY InitStatuses
<1>2. IInv /\ [Next]_vars =>
        [Lifecycle!Next]_([e \in Employees |-> [d \in Days |-> StatusOf(e, d)]])
  BY NextStatuses DEF Statuses
<1>3. QED
  BY <1>1, <1>2, Invariance, PTL DEF Spec, ImplementsDayLifecycle, Lifecycle!Spec

-----------------------------------------------------------------------------
(***************************************************************************)
(* What holds as long as handlers have not overlapped (MCAttendance).      *)
(***************************************************************************)
HoursRight(row) == Closed(row) => row.hours = Hours(row)

\* The copy an update holds is still the row, and a clock-out's is of an open row.
CopyFresh(req) ==
  req.op = "update" =>
    /\ req.id \in Live
    /\ attendance[req.id] = req.read
    /\ HoursRight(req.row)
    /\ req.by = "clock-out" => ~ Closed(req.read)

AloneInv ==
  alone =>
    /\ \A i \in Live : HoursRight(attendance[i])
    /\ \A r \in Requests : CopyFresh(request[r])

\* A row merged from a copy that is the row itself is the new row.
LEMMA MergeFresh ==
  ASSUME NEW read \in Row, NEW new \in Row, new.employee = read.employee
  PROVE  Merge(read, read, new) = new
BY DEF Merge, Written, Row

LEMMA ClosedAtHours ==
  ASSUME NEW row \in Row, NEW t \in Times
  PROVE  HoursRight(ClosedAt(row, t))
BY DEF HoursRight, Hours, ClosedAt, Row

LEMMA EditedHours ==
  ASSUME NEW row \in Row, NEW d, NEW t, NEW x
  PROVE  HoursRight(Edited(row, d, t, x))
BY DEF HoursRight, Hours, Edited, Closed, Row

LEMMA HandlerAlone ==
  ASSUME IInv, AloneInv, alone, NEW r \in Requests, Handler(r), Alone(r)
  PROVE  AloneInv'
<1>1. /\ attendance' = attendance
      /\ \A q \in Requests \ {r} : request'[q] = Idle
  BY DEF Handler, ClockIn, ClockOut, FaceScan, UpdateAttendance, DeleteAttendance,
         DeleteEmployee, Begin, table, Alone, IInv, TypeOK
<1>2. Live' = Live /\ \A i \in Live' : HoursRight(attendance[i])'
  BY <1>1 DEF AloneInv, Live, HoursRight, Closed, Hours
<1>3. CopyFresh(request[r])'
  <2>1. ASSUME NEW work, Begin(r, work) PROVE request'[r] = work
    BY <2>1 DEF Begin, IInv, TypeOK
  <2>2. ASSUME NEW i \in Live, NEW by, NEW row, Begin(r, Update(by, i, row)),
               HoursRight(row), by = "clock-out" => ~ Closed(attendance[i])
        PROVE  CopyFresh(request[r])'
    BY <1>1, <1>2, <2>1, <2>2 DEF CopyFresh, Update, HoursRight, Closed, Hours
  <2>3. ASSUME NEW work, Begin(r, work), work.op # "update"
        PROVE  CopyFresh(request[r])'
    BY <2>1, <2>3 DEF CopyFresh
  <2>4. \A i \in Live : attendance[i] \in Row
    BY DEF IInv, TypeOK, Live
  <2>5. ASSUME NEW i \in Live, NEW t \in Times, ~ Closed(attendance[i]),
               Begin(r, Update("clock-out", i, ClosedAt(attendance[i], t)))
        PROVE  CopyFresh(request[r])'
    BY <2>2, <2>4, <2>5, ClosedAtHours
  <2>6. CASE ClockIn(r)
    BY <2>3, <2>6 DEF ClockIn, Insert
  <2>7. CASE ClockOut(r)
    BY <2>5, <2>7 DEF ClockOut
  <2>8. CASE FaceScan(r)
    BY <2>3, <2>5, <2>8 DEF FaceScan, Insert, RecordsOf
  <2>9. CASE UpdateAttendance(r)
    BY <2>2, <2>4, <2>9, EditedHours DEF UpdateAttendance
  <2>10. CASE DeleteAttendance(r)
    BY <2>3, <2>10 DEF DeleteAttendance
  <2>11. CASE DeleteEmployee(r)
    BY <2>3, <2>11 DEF DeleteEmployee
  <2>12. QED
    BY <2>6, <2>7, <2>8, <2>9, <2>10, <2>11 DEF Handler
<1>4. \A q \in Requests : CopyFresh(request[q])'
  BY <1>1, <1>3 DEF CopyFresh, Idle
<1>5. QED
  BY <1>2, <1>4 DEF AloneInv

LEMMA CommitAlone ==
  ASSUME IInv, AloneInv, alone, NEW r \in Requests, Commit(r), Alone(r)
  PROVE  AloneInv'
<1>1. \A q \in Requests : request'[q] = Idle
  BY DEF Commit, CommitInsert, CommitUpdate, CommitDelete, CommitDismiss, Rollback,
         Finish, Alone, IInv, TypeOK
<1>2. \A q \in Requests : CopyFresh(request[q])'
  BY <1>1 DEF CopyFresh, Idle
<1>3. ASSUME NEW i \in Live', attendance'[i] \in {attendance[i]}
             \/ ~ Closed(attendance'[i])
      PROVE  HoursRight(attendance[i])'
  BY <1>3 DEF AloneInv, Live, HoursRight, Closed, Hours
<1>4. ASSUME NEW i \in Live' PROVE HoursRight(attendance[i])'
  <2>1. CASE CommitInsert(r)
    BY <1>3, <2>1 DEF CommitInsert, IInv, TypeOK, PendingOK, PendingInsert, Closed
  <2>2. CASE CommitUpdate(r)
    <3>1. PICK k \in Ids : k = request[r].id
      BY <2>2, RequestParts DEF IInv, TypeOK, CommitUpdate
    <3>2. PICK row : row = request[r].row
      OBVIOUS
    <3>3. /\ request[r].read \in Row /\ row \in Row
          /\ row.employee = request[r].read.employee
          /\ attendance[k] = request[r].read
          /\ HoursRight(row)
      BY <2>2, <3>1, <3>2, RequestParts
         DEF IInv, TypeOK, CommitUpdate, PendingOK, PendingUpdate, AloneInv, CopyFresh
    <3>4. Merge(attendance[k], request[r].read, row) = row
      BY <3>3, MergeFresh
    <3>5. attendance' = [attendance EXCEPT ![k] = row]
      BY <2>2, <3>1, <3>2, <3>4 DEF CommitUpdate
    <3>6. CASE i = k
      BY <3>3, <3>5, <3>6 DEF HoursRight, Closed, Hours, IInv, TypeOK
    <3>7. CASE i # k
      BY <1>3, <3>5, <3>7 DEF Live, IInv, TypeOK
    <3>8. QED
      BY <3>6, <3>7
  <2>3. CASE CommitDelete(r)
    BY <1>3, <2>3 DEF CommitDelete, Live, IInv, TypeOK
  <2>4. CASE CommitDismiss(r)
    BY <1>3, <2>4 DEF CommitDismiss, Live
  <2>5. CASE Rollback(r)
    BY <1>3, <2>5 DEF Rollback, table
  <2>6. QED
    BY <2>1, <2>2, <2>3, <2>4, <2>5 DEF Commit
<1>5. QED
  BY <1>2, <1>4 DEF AloneInv

LEMMA NextAlone == IInv /\ AloneInv /\ [MCNext]_<<vars, alone>> => AloneInv'
<1> SUFFICES ASSUME IInv, AloneInv, [MCNext]_<<vars, alone>>, alone' PROVE AloneInv'
  BY DEF AloneInv
<1>1. CASE Restart /\ UNCHANGED alone
  BY <1>1 DEF Restart, table, AloneInv, Live, HoursRight, Closed, Hours, CopyFresh, Idle
<1>2. CASE UNCHANGED <<vars, alone>>
  BY <1>2 DEF vars, AloneInv, Live, HoursRight, Closed, Hours, CopyFresh
<1>3. QED
  BY <1>1, <1>2, HandlerAlone, CommitAlone DEF MCNext

LEMMA MCInvariance == MCSpec => [](IInv /\ AloneInv)
<1>1. MCInit => IInv
  BY InitIInv DEF MCInit
<1>2. MCInit => AloneInv
  BY DEF MCInit, Init, AloneInv, Live, CopyFresh, Idle
<1>3. [MCNext]_<<vars, alone>> => [Next]_vars
  BY DEF MCNext, Next, vars
<1>4. QED
  BY <1>1, <1>2, <1>3, NextIInv, NextAlone, PTL DEF MCSpec

\* As long as handlers have not overlapped, the hours of a closed record are those of
\* its own times, through any clock-outs and edits.
THEOREM HoursFollowTimes == MCSpec => []HoursMatchTimes
<1>1. AloneInv => HoursMatchTimes
  BY DEF AloneInv, HoursRight, HoursMatchTimes
<1>2. QED
  BY <1>1, MCInvariance, PTL

\* As long as handlers have not overlapped, no clock-out replaces an exit time.
THEOREM ClockedOutOnce == MCSpec => ClockOutOnce
<1> DEFINE Once == alone' =>
                     \A r \in Requests :
                       CommitUpdate(r) /\ request[r].by = "clock-out"
                         => ~ Closed(attendance[request[r].id])
<1>1. AloneInv /\ [MCNext]_<<vars, alone>> => [Once]_vars
  <2> SUFFICES ASSUME AloneInv, [MCNext]_<<vars, alone>>, ~ UNCHANGED vars, alone',
                      NEW r \in Requests, CommitUpdate(r), request[r].by = "clock-out"
               PROVE  ~ Closed(attendance[request[r].id])
    OBVIOUS
  <2>1. alone
    BY DEF MCNext
  <2>2. QED
    BY <2>1 DEF AloneInv, CopyFresh, CommitUpdate
<1>2. QED
  BY <1>1, MCInvariance, PTL DEF MCSpec, ClockOutOnce
=============================================================================
