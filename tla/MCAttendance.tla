---------------------------- MODULE MCAttendance ----------------------------
(***************************************************************************)
(* Small instances of Attendance.  Times are quarters of an hour rather    *)
(* than minutes: what matters is their order and one break in the middle.  *)
(*                                                                         *)
(* alone is history: no handler has taken a step yet while another one was *)
(* at work.  It tells what the handlers guarantee one at a time from what  *)
(* they guarantee when they overlap.                                       *)
(***************************************************************************)
EXTENDS Attendance, TLC

VARIABLE alone

MCShift ==
  [known |-> TRUE, start |-> 0, breakStart |-> 1, breakEnd |-> 2, effective |-> 2]

MCShiftOf == [e \in Employees |-> MCShift]

Symmetry == Permutations(Requests)

Alone(r) == \A q \in Requests \ {r} : request[q] = Idle

MCInit == Init /\ alone = TRUE

MCNext ==
  \/ \E r \in Requests : (Handler(r) \/ Commit(r)) /\ alone' = (alone /\ Alone(r))
  \/ Restart /\ UNCHANGED alone

MCSpec == MCInit /\ [][MCNext]_<<vars, alone>>

-----------------------------------------------------------------------------
\* The hours of a closed record are those of its own entry and exit times,
\* through any clock-outs and edits, as long as handlers do not overlap.  Once
\* they do it fails: an edit of the entry time and a clock-out each compute
\* the hours from a row the other changes.
HoursMatchTimes ==
  alone => \A i \in Live : Closed(attendance[i]) => attendance[i].hours = Hours(attendance[i])

\* An exit time is written once, and only an edit may change it afterwards: a
\* second clock-out, by hand or by a scan, is refused with "Already clocked
\* out".  Two clock-outs that overlap both succeed.
ClockOutOnce ==
  [][alone' =>
       \A r \in Requests :
         CommitUpdate(r) /\ request[r].by = "clock-out"
           => ~ Closed(attendance[request[r].id])]_vars
=============================================================================
