--------------------------------- MODULE Fleet ---------------------------------
(***************************************************************************)
(* Vehicles and who drives them (routers/assignments.py and                *)
(* routers/vehicles.py).  That a vehicle is taken is written twice, in its *)
(* status and as a row of vehicle_assignments without released_at; nothing *)
(* but the handlers keeps the two together, since the unique constraint on *)
(* (vehicle_id, released_at) of db/init.sql holds no two rows apart whose  *)
(* released_at is NULL.  Handlers read and check, and commit later.        *)
(***************************************************************************)
EXTENDS Integers, FiniteSets

CONSTANTS
  Vehicles, Drivers,  \* that there may be
  Requests,           \* worker threads: at most one handler runs in each
  Assignments,        \* bound: assignments ever made
  None                \* a row that is not there, and a thread without a handler

VARIABLES
  status,       \* of each vehicle
  drivers,      \* the users that exist
  assignments,  \* the table
  request       \* what the handler in each thread is about to commit

tables == <<status, drivers, assignments>>
vars == <<tables, request>>

-----------------------------------------------------------------------------
Statuses == {"available", "assigned", "maintenance"}
Row == [vehicle : Vehicles, driver : Drivers, active : BOOLEAN]
AssignOf == [op : {"assign"}, vehicle : Vehicles, driver : Drivers]
ReleaseOf == [op : {"release"}, id : Assignments, vehicle : Vehicles, read : Statuses]

FleetAssumption == None \notin Statuses \cup Row \cup AssignOf \cup ReleaseOf

TypeOK ==
  /\ status \in [Vehicles -> Statuses \cup {None}]
  /\ drivers \subseteq Drivers
  /\ assignments \in [Assignments -> Row \cup {None}]
  /\ request \in [Requests -> AssignOf \cup ReleaseOf \cup {None}]

Init ==
  /\ status = [v \in Vehicles |-> None]
  /\ drivers = Drivers
  /\ assignments = [a \in Assignments |-> None]
  /\ request = [r \in Requests |-> None]

Live == {a \in Assignments : assignments[a] # None}
Active == {a \in Live : assignments[a].active}
ActiveOf(v) == {a \in Active : assignments[a].vehicle = v}
DrivenBy(e) == {a \in Active : assignments[a].driver = e}

Begin(r, work) ==
  /\ request[r] = None
  /\ request' = [request EXCEPT ![r] = work]
  /\ UNCHANGED tables

\* Mutant: a vehicle may be assigned that is only not in maintenance.
AssignTaken(r, v, e) ==
  /\ status[v] \in {"available", "assigned"} /\ e \in drivers /\ DrivenBy(e) = {}
  /\ Begin(r, [op |-> "assign", vehicle |-> v, driver |-> e])

\* POST /assignments.
Assign(r, v, e) ==
  /\ status[v] = "available" /\ e \in drivers /\ DrivenBy(e) = {}
  /\ Begin(r, [op |-> "assign", vehicle |-> v, driver |-> e])

\* DELETE /assignments/{id}.
Release(r, a) ==
  /\ a \in Active
  /\ LET v == assignments[a].vehicle IN
       Begin(r, [op |-> "release", id |-> a, vehicle |-> v, read |-> status[v]])

-----------------------------------------------------------------------------
Finish(r) == request' = [request EXCEPT ![r] = None]

Releases == {r \in Requests : request[r] # None /\ request[r].op = "release"}
Free == Assignments \ (Live \cup {request[r].id : r \in Releases})
NewId == CHOOSE a \in Free : TRUE

\* The vehicle's row is updated and the driver's must be there.
CommitAssign(r) ==
  /\ request[r].op = "assign"
  /\ LET v == request[r].vehicle
         e == request[r].driver
     IN  IF status[v] # None /\ e \in drivers
         THEN /\ Free # {}
              /\ assignments' = [assignments EXCEPT
                                   ![NewId] = [vehicle |-> v, driver |-> e, active |-> TRUE]]
              /\ status' = [status EXCEPT ![v] = "assigned"]
         ELSE UNCHANGED <<assignments, status>>
  /\ Finish(r) /\ UNCHANGED drivers

\* The assignment may be released by now; the status is written if it was another.
CommitRelease(r) ==
  /\ request[r].op = "release"
  /\ IF request[r].id \in Live
     THEN /\ assignments' = [assignments EXCEPT ![request[r].id].active = FALSE]
          /\ status' = [status EXCEPT ![request[r].vehicle] =
                          IF request[r].read = "available" THEN @ ELSE "available"]
     ELSE UNCHANGED <<assignments, status>>
  /\ Finish(r) /\ UNCHANGED drivers

Commit(r) == request[r] # None /\ (CommitAssign(r) \/ CommitRelease(r))

-----------------------------------------------------------------------------
\* POST, PATCH and DELETE /vehicles; a new one is available, and no handler knows it.
CreateVehicle(v) ==
  /\ status[v] = None
  /\ \A r \in Requests : request[r] # None => request[r].vehicle # v
  /\ status' = [status EXCEPT ![v] = "available"]
  /\ UNCHANGED <<drivers, assignments, request>>

UpdateVehicle(v) ==
  /\ status[v] # None
  /\ \E s \in Statuses : status' = [status EXCEPT ![v] = s]
  /\ UNCHANGED <<drivers, assignments, request>>

Without(gone) ==
  assignments' = [a \in Assignments |-> IF a \in gone THEN None ELSE assignments[a]]

DeleteVehicle(v) ==
  /\ status[v] # None
  /\ status' = [status EXCEPT ![v] = None]
  /\ Without({a \in Live : assignments[a].vehicle = v})
  /\ UNCHANGED <<drivers, request>>

\* DELETE /employees/{id} takes the assignments along, and leaves the status.
DeleteEmployee(e) ==
  /\ e \in drivers
  /\ drivers' = drivers \ {e}
  /\ Without({a \in Live : assignments[a].driver = e})
  /\ UNCHANGED <<status, request>>

Restart ==
  /\ request' = [r \in Requests |-> None]
  /\ UNCHANGED tables

Begins(r) ==
  \/ \E v \in Vehicles, e \in Drivers : Assign(r, v, e)
  \/ \E a \in Assignments : Release(r, a)

Edits ==
  \/ \E v \in Vehicles : CreateVehicle(v) \/ DeleteVehicle(v)
  \/ \E e \in Drivers : DeleteEmployee(e)

Next ==
  \/ \E r \in Requests : Begins(r) \/ Commit(r)
  \/ Edits \/ Restart
  \/ \E v \in Vehicles : UpdateVehicle(v)

Spec == Init /\ [][Next]_vars

-----------------------------------------------------------------------------
\* No assignment outlives its vehicle or its driver, nor is one made for a vehicle
\* or a driver deleted meanwhile (routers/vehicles.py:82).
AssignmentsOwned ==
  \A a \in Live : status[assignments[a].vehicle] # None /\ assignments[a].driver \in drivers

\* The two records of a vehicle that is taken agree, and nobody drives two: what
\* uq_active_vehicle (db/init.sql:149) is named for.
AssignmentsTrue ==
  /\ \A v \in Vehicles :
       /\ Cardinality(ActiveOf(v)) <= 1
       /\ ActiveOf(v) # {} => status[v] = "assigned"
  /\ \A e \in Drivers : Cardinality(DrivenBy(e)) <= 1

\* And one that is called taken is, unless its driver has been deleted.
TakenIsDriven ==
  \A v \in Vehicles :
    status[v] = "assigned" /\ drivers = Drivers => ActiveOf(v) # {}
=============================================================================
