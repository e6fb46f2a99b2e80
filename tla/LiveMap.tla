-------------------------------- MODULE LiveMap --------------------------------
(***************************************************************************)
(* pages/tracking/LiveTracking.tsx: the last positions of the vehicles,    *)
(* loaded at once and every 25 seconds, and moved in between by what each  *)
(* vehicle's socket brings.  The sockets are made anew when the number of  *)
(* vehicles changes, and only then.                                        *)
(***************************************************************************)
EXTENDS Integers, FiniteSets

CONSTANTS
  Vehicles,
  Calls,   \* bound: calls under way at once
  MaxAt,   \* bound: the positions of a vehicle, in the order of their times
  None

LiveMapAssumption == MaxAt \in Nat /\ None \notin 0 .. MaxAt

VARIABLES
  fleet,       \* the server's: [Vehicles -> None or its last position]
  vehicles,    \* those of the page
  socketsRef,  \* the vehicles that have a socket
  alive,       \* the sockets that are still connected
  updates,     \* what they bring
  call

vars == <<fleet, vehicles, socketsRef, alive, updates, call>>

Positions == 0 .. MaxAt
Fleets == [Vehicles -> Positions \cup {None}]
Listed(f) == {v \in Vehicles : f[v] # None}
Free == [stage |-> "free"]
Busy(q) == call[q] # Free

\* Both effects load when the page opens.
Init ==
  /\ fleet \in [Vehicles -> {0, None}] /\ vehicles = [v \in Vehicles |-> None]
  /\ socketsRef = {} /\ alive = {} /\ updates = {}
  /\ \E q \in Calls : call = [p \in Calls |-> IF p = q THEN [stage |-> "sent"] ELSE Free]

Load ==
  /\ \E q \in Calls : ~Busy(q) /\ call' = [call EXCEPT ![q] = [stage |-> "sent"]]
  /\ UNCHANGED <<fleet, vehicles, socketsRef, alive, updates>>

Serve(q) ==
  /\ call[q].stage = "sent"
  /\ call' = [call EXCEPT ![q] = [stage |-> "done", fleet |-> fleet]]
  /\ UNCHANGED <<fleet, vehicles, socketsRef, alive, updates>>

\* Mutant: the sockets there were are left open.
SubscribeMore(f) ==
  IF Cardinality(Listed(f)) = Cardinality(Listed(vehicles))
  THEN UNCHANGED <<socketsRef, alive, updates>>
  ELSE /\ socketsRef' = socketsRef \cup Listed(f) /\ alive' = alive \cup Listed(f)
       /\ UNCHANGED updates

\* The effect depends on the length of the list: its cleanup closes every socket,
\* and it opens one for each vehicle.
Subscribe(f) ==
  IF Cardinality(Listed(f)) = Cardinality(Listed(vehicles))
  THEN UNCHANGED <<socketsRef, alive, updates>>
  ELSE socketsRef' = Listed(f) /\ alive' = Listed(f) /\ updates' = {}

\* Mutant: a vehicle that is not in the answer stays.
AnswerMerged(q) ==
  /\ call[q].stage = "done" /\ call' = [call EXCEPT ![q] = Free]
  /\ vehicles' = [v \in Vehicles |-> IF call[q].fleet[v] = None THEN vehicles[v]
                                     ELSE call[q].fleet[v]]
  /\ Subscribe(vehicles')
  /\ UNCHANGED fleet

Answer(q) ==
  /\ call[q].stage = "done" /\ call' = [call EXCEPT ![q] = Free]
  /\ vehicles' = call[q].fleet /\ Subscribe(call[q].fleet)
  /\ UNCHANGED fleet

Fail(q) ==
  /\ Busy(q) /\ call' = [call EXCEPT ![q] = Free]
  /\ UNCHANGED <<fleet, vehicles, socketsRef, alive, updates>>

\* A socket brings its messages in order; one for a vehicle that is not listed is
\* dropped.
Update(u) ==
  /\ u \in updates /\ \A w \in updates : w.of = u.of => u.at <= w.at
  /\ updates' = updates \ {u}
  /\ vehicles' = [vehicles EXCEPT ![u.of] = IF @ = None THEN None ELSE u.at]
  /\ UNCHANGED <<fleet, socketsRef, alive, call>>

\* A broadcast made in another process of the server does not reach the socket.
Move(v) ==
  /\ fleet[v] # None /\ fleet[v] < MaxAt
  /\ fleet' = [fleet EXCEPT ![v] = @ + 1]
  /\ \/ v \in alive /\ updates' = updates \cup {[of |-> v, at |-> fleet[v] + 1]}
     \/ UNCHANGED updates
  /\ UNCHANGED <<vehicles, socketsRef, alive, call>>

Enlist(v) ==
  /\ fleet[v] = None /\ fleet' = [fleet EXCEPT ![v] = 0]
  /\ UNCHANGED <<vehicles, socketsRef, alive, updates, call>>

Remove(v) ==
  /\ fleet[v] # None /\ fleet' = [fleet EXCEPT ![v] = None]
  /\ UNCHANGED <<vehicles, socketsRef, alive, updates, call>>

\* A socket that closes keeps its place.
Drop(v) ==
  /\ v \in alive /\ alive' = alive \ {v}
  /\ updates' = {u \in updates : u.of # v}
  /\ UNCHANGED <<fleet, vehicles, socketsRef, call>>

World == \E v \in Vehicles : Move(v) \/ Enlist(v) \/ Remove(v)

Next ==
  \/ Load \/ World
  \/ \E q \in Calls : Serve(q) \/ Answer(q) \/ Fail(q)
  \/ \E u \in updates : Update(u)
  \/ \E v \in Vehicles : Drop(v)

Spec == Init /\ [][Next]_vars

-----------------------------------------------------------------------------
\* The list, the sockets and what they bring.
TypeOK ==
  /\ fleet \in Fleets /\ vehicles \in Fleets
  /\ alive \subseteq socketsRef /\ socketsRef \subseteq Vehicles
  /\ updates \subseteq [of : alive, at : Positions]
  /\ \A q \in Calls : call[q].stage = "done" => call[q].fleet \in Fleets

\* As many sockets as vehicles, and none is opened twice.
SocketsCounted == Cardinality(socketsRef) = Cardinality(Listed(vehicles))

\* Every vehicle of the list has its socket.
Subscribed == socketsRef = Listed(vehicles)
=============================================================================
