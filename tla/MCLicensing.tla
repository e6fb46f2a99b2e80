---------------------------- MODULE MCLicensing -----------------------------
(***************************************************************************)
(* Small instances of Licensing: licences of one seat and one admin.       *)
(*                                                                         *)
(* alone is history: no handler has taken a step yet while another one was *)
(* at work.                                                                *)
(***************************************************************************)
EXTENDS Licensing, TLC

VARIABLE alone

MCOneSeat == [users |-> 1, admins |-> 1]

MCSeatsOnly == {MCOneSeat}

Symmetry == Permutations(Requests) \cup Permutations(Companies)

Alone(r) == \A q \in Requests \ {r} : request[q] = Idle

MCInit == Init /\ alone = TRUE

MCNext ==
  \/ \E r \in Requests : (Users(r) \/ Billing(r)) /\ alone' = (alone /\ Alone(r))
  \/ (Expire \/ Restart) /\ UNCHANGED alone

MCSpec == MCInit /\ [][MCNext]_<<vars, alone>>

-----------------------------------------------------------------------------
\* As long as handlers do not overlap, a user is added, alone or as a row of
\* an import, only while there is room: the seats used and the admins stay
\* within the pool of the company's active licences, whatever was granted,
\* revoked, moved or cancelled before.
AddedWithinCapacity ==
  [][alone' =>
       \A r \in Requests, c \in Companies :
         CommitCreate(r) /\ request[r].company = c /\ Metered(c) =>
           /\ Seats(c) # Unlimited => SeatsUsed(c)' <= Seats(c)
           /\ request[r].kind = "admin" => AdminsUsed(c)' <= AdminCap(c)]_vars
=============================================================================
