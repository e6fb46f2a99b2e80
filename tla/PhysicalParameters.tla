-------------------------- MODULE PhysicalParameters --------------------------
(***************************************************************************)
(* The constants of PhysicalAttendance, the rows and requests made of      *)
(* them, and what its theorems assume of both.                             *)
(***************************************************************************)
EXTENDS Integers, Null

CONSTANTS
  Supervisors,  \* users who are supervisors at times
  Workers,      \* users whose faces are registered
  Companies,
  CompanyOf,    \* the company of each worker
  Sites,        \* work locations
  OwnerOf,      \* the company of each
  Requests,     \* worker threads: at most one handler runs in each
  RowIds,       \* bound: rows that exist or are held at once; ids come again
  MinGap,       \* MIN_MINUTES_BEFORE_CLOCK_OUT
  MaxTime       \* bound: the minutes of the day are 0 .. MaxTime

ASSUME PhysicalAttendanceAssumption ==
  /\ CompanyOf \in [Workers -> Companies]
  /\ OwnerOf \in [Sites -> Companies]
  /\ MinGap \in Nat /\ MaxTime \in Nat
  /\ None \notin Sites

UserRow == [role : {"supervisor", "other"}, company : Companies, site : Sites \cup {None}]
Times == 0 .. MaxTime
Row == [id : RowIds, entry : Times, exit : Times \cup {None}, site : Sites \cup {None}]

EditOf == [op : {"edit"}, user : Supervisors, read : UserRow, new : UserRow]
ClockIn == [op : {"in"}, worker : Workers, at : Times, site : Sites]
ClockOut == [op : {"out"}, worker : Workers, at : Times, site : Sites, read : Row]

ASSUME NoneAssumption == None \notin Row \cup EditOf \cup ClockIn \cup ClockOut \cup Times
=============================================================================
