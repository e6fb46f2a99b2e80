----------------------------- MODULE Attendance -----------------------------
(***************************************************************************)
(* The attendance table and the HTTP handlers that write it                *)
(* (routers/attendance.py), with employee deletion (routers/employees.py). *)
(*                                                                         *)
(* FastAPI runs every handler in a worker thread with a database session   *)
(* of its own (autoflush off, READ COMMITTED), so a handler is two steps:  *)
(* it reads and checks, keeping in its session the row it read, and later  *)
(* it commits.  Between the two any other handler may commit.  A commit    *)
(* writes only the columns the handler changed, and it fails as a whole    *)
(* when the database refuses it.                                           *)
(*                                                                         *)
(* A request that is refused (wrong role or tenant, unknown face, outside  *)
(* the geofence, record missing) changes nothing, and every employee has   *)
(* some caller whom those checks let through; they are left out.           *)
(***************************************************************************)
EXTENDS Integers, FiniteSets, WorkedHours

CONSTANTS
  Employees,   \* users who can be clocked in and out
  Requests,    \* worker threads: at most one handler runs in each
  MaxDay,      \* bound: calendar days 1 .. MaxDay
  MaxTime,     \* bound: the minutes of a day are 0 .. MaxTime
  MaxRecords,  \* bound: rows ever inserted
  ShiftOf,     \* the shift of each employee
  None         \* SQL NULL, and the content of a row id that holds no row

Days  == 1 .. MaxDay
Times == 0 .. MaxTime
Ids   == 1 .. MaxRecords

Shift == [known : BOOLEAN, start : Nat, breakStart : Nat, breakEnd : Nat,
          effective : Nat]

ASSUME BoundsAssumption ==
  /\ MaxDay \in Nat \ {0}
  /\ MaxTime \in Nat
  /\ MaxRecords \in Nat

ASSUME ShiftAssumption == ShiftOf \in [Employees -> Shift]

VARIABLES
  employees,   \* users rows that exist
  attendance,  \* the table: row id -> row, or None
  nextId,      \* the next value of the id sequence
  request      \* what the handler in each thread is about to commit

vars == <<employees, attendance, nextId, request>>
table == <<employees, attendance, nextId>>

-----------------------------------------------------------------------------
Row == [employee : Employees, date : Days, entry : Times,
        exit : Times \cup {None}, hours : Nat \cup {None}]

ASSUME NoneAssumption == None \notin Nat /\ None \notin Row

Idle == [op |-> "idle"]

Request ==
  {Idle}
    \cup [op : {"insert"}, row : Row]
    \cup [op : {"update"}, by : {"clock-out", "edit"}, id : Ids, read : Row, row : Row]
    \cup [op : {"delete"}, id : Ids]
    \cup [op : {"dismiss"}, employee : Employees]

TypeOK ==
  /\ employees \subseteq Employees
  /\ attendance \in [Ids -> Row \cup {None}]
  /\ nextId \in 1 .. MaxRecords + 1
  /\ request \in [Requests -> Request]

Live == {i \in Ids : attendance[i] # None}

RecordsOf(e, d) ==
  {i \in Live : attendance[i].employee = e /\ attendance[i].date = d}

Closed(row) == row.exit # None

NewRow(e, d, t) ==
  [employee |-> e, date |-> d, entry |-> t, exit |-> None, hours |-> None]

Hours(row) == CalculateHoursWorked(row.entry, row.exit, ShiftOf[row.employee])

\* The row as clock-out leaves it in the session.
ClosedAt(row, t) ==
  [row EXCEPT !.exit = t,
              !.hours = CalculateHoursWorked(row.entry, t, ShiftOf[row.employee])]

-----------------------------------------------------------------------------
Init ==
  /\ employees = Employees
  /\ attendance = [i \in Ids |-> None]
  /\ nextId = 1
  /\ request = [r \in Requests |-> Idle]

Begin(r, work) ==
  /\ request[r] = Idle
  /\ request' = [request EXCEPT ![r] = work]
  /\ UNCHANGED table

Insert(row) == [op |-> "insert", row |-> row]

Update(by, i, row) ==
  [op |-> "update", by |-> by, id |-> i, read |-> attendance[i], row |-> row]

\* POST /attendance/clock-in and /clock-in/manual: the date and the time are
\* the client's.
ClockIn(r) ==
  \E e \in employees, d \in Days, t \in Times :
    /\ RecordsOf(e, d) = {}
    /\ Begin(r, Insert(NewRow(e, d, t)))

\* Mutant: an exit time is not looked for.
ClockOutAgain(r) ==
  \E i \in Live, t \in Times :
    Begin(r, Update("clock-out", i, ClosedAt(attendance[i], t)))

\* PATCH /attendance/{id}/clock-out and /clock-out/manual.
ClockOut(r) ==
  \E i \in Live, t \in Times :
    /\ ~ Closed(attendance[i])
    /\ Begin(r, Update("clock-out", i, ClosedAt(attendance[i], t)))

\* POST /attendance/face-scan: the first scan of a date clocks in, the next
\* one clocks out, later ones are refused.  The date and the time are the
\* server's, asked for one after the other, so midnight may fall between
\* them; as nothing here compares two scans, any pair is taken.  A
\* supervisor's POST /physical-attendance/scan takes the same steps on these
\* columns, and refuses some of them.
FaceScan(r) ==
  \E e \in employees, d \in Days, t \in Times :
    \/ /\ RecordsOf(e, d) = {}
       /\ Begin(r, Insert(NewRow(e, d, t)))
    \/ \E i \in RecordsOf(e, d) :
         /\ ~ Closed(attendance[i])
         /\ Begin(r, Update("clock-out", i, ClosedAt(attendance[i], t)))

\* Mutant: fields the payload leaves out are set to NULL.
EditedWhole(row, d, t, x) ==
  [row EXCEPT !.date  = IF d = None THEN @ ELSE d,
              !.entry = IF t = None THEN @ ELSE t,
              !.exit  = x,
              !.hours = IF x = None THEN None ELSE @]

\* Mutant: the hours are computed anew only when the exit time is edited.
EditedStaleHours(row, d, t, x) ==
  LET set == [row EXCEPT !.date  = IF d = None THEN @ ELSE d,
                         !.entry = IF t = None THEN @ ELSE t,
                         !.exit  = IF x = None THEN @ ELSE x]
  IN  IF x # None THEN [set EXCEPT !.hours = Hours(set)] ELSE set

\* The session's copy after the allow-listed fields were set; None stands for
\* a field the payload leaves out.
Edited(row, d, t, x) ==
  LET set == [row EXCEPT !.date  = IF d = None THEN @ ELSE d,
                         !.entry = IF t = None THEN @ ELSE t,
                         !.exit  = IF x = None THEN @ ELSE x]
  IN  IF Closed(set) THEN [set EXCEPT !.hours = Hours(set)] ELSE set

\* PUT /attendance/{id}.
UpdateAttendance(r) ==
  \E i \in Live, d \in Days \cup {None}, t, x \in Times \cup {None} :
    Begin(r, Update("edit", i, Edited(attendance[i], d, t, x)))

\* DELETE /attendance/{id}.
DeleteAttendance(r) ==
  \E i \in Live : Begin(r, [op |-> "delete", id |-> i])

\* DELETE /employees/{id}.
DeleteEmployee(r) ==
  \E e \in employees : Begin(r, [op |-> "dismiss", employee |-> e])

-----------------------------------------------------------------------------
(***************************************************************************)
(* Commits.                                                                *)
(***************************************************************************)
Written(current, read, new) == IF new = read THEN current ELSE new

\* An UPDATE sets the columns whose value differs from the one read.
Merge(current, read, new) ==
  [current EXCEPT !.date  = Written(@, read.date, new.date),
                  !.entry = Written(@, read.entry, new.entry),
                  !.exit  = Written(@, read.exit, new.exit),
                  !.hours = Written(@, read.hours, new.hours)]

Finish(r) == request' = [request EXCEPT ![r] = Idle]

\* Mutant: no unique constraint.
InsertOwned(row) == row.employee \in employees

\* The foreign key and uq_attendance_employee_date.
InsertAllowed(row) ==
  /\ row.employee \in employees
  /\ RecordsOf(row.employee, row.date) = {}

\* The row still exists, and the unique constraint holds afterwards.
UpdateAllowed(i, row) ==
  /\ i \in Live
  /\ RecordsOf(row.employee, row.date) \subseteq {i}

CommitInsert(r) ==
  /\ request[r].op = "insert"
  /\ nextId <= MaxRecords
  /\ InsertAllowed(request[r].row)
  /\ attendance' = [attendance EXCEPT ![nextId] = request[r].row]
  /\ nextId' = nextId + 1
  /\ Finish(r)
  /\ UNCHANGED employees

\* Mutant: the session's copy is merged back, inserting the row if it is gone.
CommitUpsert(r) ==
  /\ request[r].op = "update"
  /\ RecordsOf(request[r].row.employee, request[r].row.date) \subseteq {request[r].id}
  /\ attendance' = [attendance EXCEPT ![request[r].id] = request[r].row]
  /\ Finish(r)
  /\ UNCHANGED <<employees, nextId>>

CommitUpdate(r) ==
  /\ request[r].op = "update"
  /\ LET i   == request[r].id
         row == Merge(attendance[i], request[r].read, request[r].row)
     IN  /\ i \in Live
         /\ UpdateAllowed(i, row)
         /\ attendance' = [attendance EXCEPT ![i] = row]
  /\ Finish(r)
  /\ UNCHANGED <<employees, nextId>>

\* Deleting a row that is already gone is not an error.
CommitDelete(r) ==
  /\ request[r].op = "delete"
  /\ attendance' = [attendance EXCEPT ![request[r].id] = None]
  /\ Finish(r)
  /\ UNCHANGED <<employees, nextId>>

\* Deleting a user deletes the attendance rows with it.
CommitDismiss(r) ==
  /\ request[r].op = "dismiss"
  /\ employees' = employees \ {request[r].employee}
  /\ attendance' =
       [i \in Ids |-> IF /\ attendance[i] # None
                         /\ attendance[i].employee = request[r].employee
                      THEN None ELSE attendance[i]]
  /\ Finish(r)
  /\ UNCHANGED nextId

\* The commit raises (foreign key, unique constraint, row gone) and the
\* session rolls back.
Rollback(r) ==
  /\ \/ /\ request[r].op = "insert"
        /\ ~ InsertAllowed(request[r].row)
     \/ /\ request[r].op = "update"
        /\ \/ request[r].id \notin Live
           \/ ~ UpdateAllowed(request[r].id,
                  Merge(attendance[request[r].id], request[r].read, request[r].row))
  /\ Finish(r)
  /\ UNCHANGED table

\* The server process is replaced: what was not committed is lost.
Restart ==
  /\ request' = [r \in Requests |-> Idle]
  /\ UNCHANGED table

Handler(r) ==
  \/ ClockIn(r)
  \/ ClockOut(r)
  \/ FaceScan(r)
  \/ UpdateAttendance(r)
  \/ DeleteAttendance(r)
  \/ DeleteEmployee(r)

Commit(r) ==
  \/ CommitInsert(r)
  \/ CommitUpdate(r)
  \/ CommitDelete(r)
  \/ CommitDismiss(r)
  \/ Rollback(r)

Next ==
  \/ \E r \in Requests : Handler(r) \/ Commit(r)
  \/ Restart

Spec == Init /\ [][Next]_vars

-----------------------------------------------------------------------------
(***************************************************************************)
(* Properties.                                                             *)
(***************************************************************************)

\* However clock-ins, scans and edits of the date interleave, an employee has
\* at most one record for a date: every report indexes by (employee, date).
OneRecordPerDay ==
  \A i, j \in Live :
    /\ attendance[i].employee = attendance[j].employee
    /\ attendance[i].date = attendance[j].date
    => i = j

\* A record has hours exactly when it has an exit time, although an edit and a
\* clock-out may each write half of what they saw: payroll counts days by exit
\* time and sums hours, and the two must speak of the same records.
HoursWithExit ==
  \A i \in Live : Closed(attendance[i]) <=> attendance[i].hours # None

\* No record outlives its employee, also when a clock-in read the employee
\* before the deletion committed.
RecordsOfEmployees ==
  \A i \in Live : attendance[i].employee \in employees

\* What reports and payroll rely on, under every interleaving of the handlers: one
\* record per day, hours where there is an exit time, and no record without its
\* employee.
RecordsSound == OneRecordPerDay /\ HoursWithExit /\ RecordsOfEmployees

\* A record that has an exit time never loses it, whatever stale copy of the
\* open record another handler still holds.
ClosedStaysClosed ==
  \A i \in Live : Closed(attendance[i]) /\ attendance'[i] # None => Closed(attendance'[i])

\* A deleted record is not brought back by a handler that read it before.
DeletedStaysDeleted ==
  \A i \in 1 .. nextId - 1 : attendance[i] = None => attendance'[i] = None

\* No step of a late handler undoes a clock-out or a deletion.
NeverUndone == [][ClosedStaysClosed /\ DeletedStaysDeleted]_vars

StatusOf(e, d) ==
  LET records == RecordsOf(e, d)
  IN  IF records = {} THEN "absent"
      ELSE IF \E i \in records : Closed(attendance[i]) THEN "closed" ELSE "open"

Lifecycle ==
  INSTANCE DayLifecycle
    WITH status <- [e \in Employees |-> [d \in Days |-> StatusOf(e, d)]]

\* The table, under every interleaving of the handlers, implements the
\* lifecycle of a day its readers rely on.
ImplementsDayLifecycle == Lifecycle!Spec
=============================================================================
