-------------------------- MODULE GeofenceParameters --------------------------
(***************************************************************************)
(* What Geofence and its theorems assume of the constants.                 *)
(***************************************************************************)
EXTENDS Integers, FiniteSets, Null

CONSTANTS
  Employees,
  Requests,    \* worker threads: at most one ping is handled in each
  Threshold,   \* settings.geofence_exit_consecutive_pings
  EventIds     \* bound: exit events that are open or held at once; ids come again

\* Where a ping was found to be, what is left to do with it, and a ping in hand.
Founds == {"in", "out", "free"}
Stages == {"store", "look", "count", "open", "notify", "close"}
Work == [employee : Employees, found : Founds, at : Stages, event : EventIds \cup {None}]

ASSUME GeofenceAssumption ==
  /\ Threshold \in Nat \ {0}
  /\ IsFiniteSet(Requests)
  /\ None \notin Requests /\ None \notin Work
=============================================================================
