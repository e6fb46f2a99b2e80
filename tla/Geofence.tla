------------------------------- MODULE Geofence -------------------------------
(***************************************************************************)
(* Alerts about employees who leave their place of work                    *)
(* (services/geofence_service.py): the phone of an employee who is clocked *)
(* in reports its position once a minute, a few reports from outside open  *)
(* an exit event, and one from inside closes it.                           *)
(*                                                                         *)
(* record_ping commits the ping, and then asks for the open event and for  *)
(* the last pings, each query seeing what others have committed by then.   *)
(* So a request is the steps between which another one may commit.         *)
(* Attendance, the places assigned to the employee and where the employee  *)
(* is are what the handler finds; pings are kept as far back as counts.    *)
(***************************************************************************)
EXTENDS GeofenceParameters, Sequences

VARIABLES
  working,   \* who has an attendance row of today without an exit time
  assigned,  \* who has an active place of work
  away,      \* who is outside of all of them
  pings,     \* of each employee, in the order in which their transactions began
  events,    \* the exit events that are open, in that order too
  request    \* what each thread has in hand

world == <<working, assigned, away>>
vars == <<world, pings, events, request>>

-----------------------------------------------------------------------------
\* A ping of a thread that has not committed it is seen by nobody else.
Ping == [found : Founds, today : BOOLEAN, by : Requests \cup {None}]
Event == [id : EventIds, told : BOOLEAN]

TypeOK ==
  /\ working \in [Employees -> BOOLEAN]
  /\ assigned \in [Employees -> BOOLEAN]
  /\ away \in [Employees -> BOOLEAN]
  /\ pings \in [Employees -> Seq(Ping)]
  /\ events \in [Employees -> Seq(Event)]
  /\ request \in [Requests -> Work \cup {None}]

Init ==
  /\ working = [e \in Employees |-> FALSE]
  /\ assigned \in [Employees -> BOOLEAN]
  /\ away = [e \in Employees |-> FALSE]
  /\ pings = [e \in Employees |-> <<>>]
  /\ events = [e \in Employees |-> <<>>]
  /\ request = [r \in Requests |-> None]

Of(r, e) == request[r] # None /\ request[r].employee = e
At(r, stage) == request[r] # None /\ request[r].at = stage
GoOn(r, stage) == request' = [request EXCEPT ![r].at = stage]
Done(r) == request' = [request EXCEPT ![r] = None]

-----------------------------------------------------------------------------
\* What goes on around the handler.
Clock(e) ==
  /\ working' = [working EXCEPT ![e] = ~@]
  /\ UNCHANGED <<assigned, away, pings, events, request>>

Assign(e) ==
  /\ assigned' = [assigned EXCEPT ![e] = ~@]
  /\ UNCHANGED <<working, away, pings, events, request>>

Move(e) ==
  /\ away' = [away EXCEPT ![e] = ~@]
  /\ UNCHANGED <<working, assigned, pings, events, request>>

\* At midnight nobody is clocked in any more, and the pings get old.
NewDay ==
  /\ working' = [e \in Employees |-> FALSE]
  /\ pings' = [e \in Employees |->
                 [i \in DOMAIN pings[e] |-> [pings[e][i] EXCEPT !.today = FALSE]]]
  /\ UNCHANGED <<assigned, away, events, request>>

\* Older pings go at 02:00 (main.py), after location_retention_days of them.
PurgeOldPings(e) ==
  /\ \E n \in DOMAIN pings[e] :
       /\ \A i \in 1 .. n : ~pings[e][i].today /\ pings[e][i].by = None
       /\ pings' = [pings EXCEPT ![e] = SubSeq(@, n + 1, Len(@))]
  /\ UNCHANGED <<world, events, request>>

Without(s, i) == SubSeq(s, 1, i - 1) \o SubSeq(s, i + 1, Len(s))

\* A handler fails, or the server goes down: what was not committed is rolled back.
Fail(r) ==
  /\ request[r] # None
  /\ LET e == request[r].employee IN
       \/ \E i \in DOMAIN pings[e] :
            pings[e][i].by = r /\ pings' = [pings EXCEPT ![e] = Without(@, i)]
       \/ /\ \A i \in DOMAIN pings[e] : pings[e][i].by # r
          /\ UNCHANGED pings
  /\ Done(r)
  /\ UNCHANGED <<world, events>>

-----------------------------------------------------------------------------
\* is_clocked_in and evaluate_position: without a place of work nothing is enforced.
EvaluatePosition(e) ==
  IF ~assigned[e] THEN "free" ELSE IF away[e] THEN "out" ELSE "in"

Report(r, e) ==
  /\ request[r] = None /\ working[e]
  /\ LET found == EvaluatePosition(e) IN
       /\ pings' = [pings EXCEPT ![e] =
                      Append(@, [found |-> found, today |-> TRUE, by |-> r])]
       /\ request' = [request EXCEPT ![r] =
                        [employee |-> e, found |-> found, at |-> "store", event |-> None]]
  /\ UNCHANGED <<world, events>>

Committed(s, r) ==
  [i \in DOMAIN s |-> IF s[i].by = r THEN [s[i] EXCEPT !.by = None] ELSE s[i]]

\* The stored pings after the first n.
Beyond(s, n) == {i \in n + 1 .. Len(s) : s[i].by = None}

\* The first n will not be among the last Threshold again, and no more of them.
Outdated(s, n) ==
  /\ n > 0 => Cardinality(Beyond(s, n)) >= Threshold
  /\ \A m \in n + 1 .. Len(s) : Cardinality(Beyond(s, m)) < Threshold

Store(r) ==
  /\ At(r, "store")
  /\ LET e == request[r].employee
         seen == Committed(pings[e], r)
     IN  \E n \in 0 .. Len(seen) :
           Outdated(seen, n) /\ pings' = [pings EXCEPT ![e] = SubSeq(seen, n + 1, Len(seen))]
  /\ IF request[r].found = "free" THEN Done(r) ELSE GoOn(r, "look")
  /\ UNCHANGED <<world, events>>

\* Mutant: the last pings are looked at whether an event is open or not.
LookUnalerted(r) ==
  /\ At(r, "look")
  /\ LET open == events[request[r].employee] IN
       CASE request[r].found = "in" /\ open # <<>> ->
              request' = [request EXCEPT ![r].at = "close", ![r].event = open[Len(open)].id]
         [] request[r].found = "out" -> GoOn(r, "count")
         [] OTHER -> Done(r)
  /\ UNCHANGED <<world, pings, events>>

\* The newest event that is open, and whether there is one.
Look(r) ==
  /\ At(r, "look")
  /\ LET open == events[request[r].employee] IN
       CASE request[r].found = "in" /\ open # <<>> ->
              request' = [request EXCEPT ![r].at = "close", ![r].event = open[Len(open)].id]
         [] request[r].found = "out" /\ open = <<>> -> GoOn(r, "count")
         [] OTHER -> Done(r)
  /\ UNCHANGED <<world, pings, events>>

\* The last of the stored pings, up to Threshold of them.
Recent(s) == {i \in DOMAIN s : s[i].by = None /\ Cardinality(Beyond(s, i)) < Threshold}

\* Mutant: one ping more than the threshold.
ShouldOpenExitLate(s) ==
  Cardinality(Recent(s)) > Threshold /\ \A i \in Recent(s) : s[i].found = "out"

ShouldOpenExit(s) ==
  Cardinality(Recent(s)) >= Threshold /\ \A i \in Recent(s) : s[i].found = "out"

Count(r) ==
  /\ At(r, "count")
  /\ IF ShouldOpenExit(pings[request[r].employee]) THEN GoOn(r, "open") ELSE Done(r)
  /\ UNCHANGED <<world, pings, events>>

Held == {request[r].event : r \in {q \in Requests : request[q] # None}}
InUse == Held \cup UNION {{events[e][i].id : i \in DOMAIN events[e]} : e \in Employees}

\* Events that are opened at once have begun in any order.
Opened(s, n, event) == Append(SubSeq(s, 1, n), event) \o SubSeq(s, n + 1, Len(s))

Open(r) ==
  /\ At(r, "open") /\ EventIds \ InUse # {}
  /\ LET id == CHOOSE id \in EventIds \ InUse : TRUE
         e == request[r].employee
     IN  /\ \E n \in 0 .. Len(events[e]) :
              events' = [events EXCEPT ![e] = Opened(@, n, [id |-> id, told |-> FALSE])]
         /\ request' = [request EXCEPT ![r].at = "notify", ![r].event = id]
  /\ UNCHANGED <<world, pings>>

\* The supervisor of the place and the admins are told after the event is stored.
Told(s, id) ==
  [i \in DOMAIN s |-> IF s[i].id = id THEN [s[i] EXCEPT !.told = TRUE] ELSE s[i]]

Notify(r) ==
  /\ At(r, "notify")
  /\ events' = [events EXCEPT ![request[r].employee] = Told(@, request[r].event)]
  /\ Done(r)
  /\ UNCHANGED <<world, pings>>

\* Another thread may have closed it meanwhile.
Close(r) ==
  /\ At(r, "close")
  /\ LET e == request[r].employee IN
       \/ \E i \in DOMAIN events[e] :
            /\ events[e][i].id = request[r].event
            /\ events' = [events EXCEPT ![e] = Without(@, i)]
       \/ /\ \A i \in DOMAIN events[e] : events[e][i].id # request[r].event
          /\ UNCHANGED events
  /\ Done(r)
  /\ UNCHANGED <<world, pings>>

-----------------------------------------------------------------------------
World ==
  \/ \E e \in Employees : Clock(e) \/ Assign(e) \/ Move(e) \/ PurgeOldPings(e)
  \/ NewDay \/ \E r \in Requests : Fail(r)

Goes(r) == Store(r) \/ Look(r) \/ Count(r) \/ Open(r) \/ Notify(r) \/ Close(r)

Next ==
  \/ World
  \/ \E r \in Requests : Goes(r) \/ \E e \in Employees : Report(r, e)

\* A phone reports as long as its employee is clocked in, and the server goes on.
Fairness ==
  /\ \A e \in Employees : WF_vars(\E r \in Requests : Report(r, e))
  /\ WF_vars(\E r \in Requests : Goes(r))

Spec == Init /\ [][Next]_vars /\ Fairness

-----------------------------------------------------------------------------
\* The threads that have found no open event of the employee and have not opened one.
Deciding(e) == {r \in Requests : Of(r, e) /\ (At(r, "count") \/ At(r, "open"))}

\* However pings overlap, an employee has no more open events than there are
\* threads: one, if pings are handled one at a time (geofence_service.py:206).
EpisodesBounded ==
  \A e \in Employees : Len(events[e]) + Cardinality(Deciding(e)) <= Cardinality(Requests)

Quiet(e) == \A r \in Requests : ~Of(r, e)
Last(s) == s[Len(s)].found

\* Once the pings of an employee are handled, no event is open if the last came from
\* inside, and one is open and announced if the last Threshold came from outside.
EventsFollowPings ==
  \A e \in Employees : Quiet(e) =>
    /\ pings[e] # <<>> /\ Last(pings[e]) = "in" => events[e] = <<>>
    /\ ShouldOpenExit(pings[e]) => events[e] # <<>>
    /\ \A i \in DOMAIN events[e] : events[e][i].told

\* What the open event says of an employee who is clocked in: "returned_at is NULL
\* while the employee is still outside" (models/geofence.py:29).
EventsTrue ==
  \A e \in Employees :
    working[e] /\ assigned[e] => (events[e] # <<>> <=> away[e])
=============================================================================
