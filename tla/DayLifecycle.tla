---------------------------- MODULE DayLifecycle ----------------------------
(***************************************************************************)
(* What the attendance table promises its readers (payslips, payroll, the  *)
(* dashboards): each employee has at most one record a day, a day is       *)
(* opened before it is closed, and a closed day never becomes open again.  *)
(* Only an administrator's edit moves a record to another day, and only a  *)
(* deletion takes one away.                                                *)
(***************************************************************************)
EXTENDS Integers

CONSTANTS Employees, Days

VARIABLE status  \* employee -> day -> what the table says of that day

Status == {"absent", "open", "closed"}

Init == status = [e \in Employees |-> [d \in Days |-> "absent"]]

Open(e, d) ==
  /\ status[e][d] = "absent"
  /\ status' = [status EXCEPT ![e][d] = "open"]

Close(e, d) ==
  /\ status[e][d] = "open"
  /\ status' = [status EXCEPT ![e][d] = "closed"]

Clear(e, d) ==
  /\ status[e][d] # "absent"
  /\ status' = [status EXCEPT ![e][d] = "absent"]

\* The edit that changes the date may set the exit time as well.
Move(e, from, to) ==
  /\ status[e][from] # "absent"
  /\ status[e][to] = "absent"
  /\ \E s \in {status[e][from], "closed"} :
       status' = [status EXCEPT ![e][from] = "absent", ![e][to] = s]

Dismiss(e) == status' = [status EXCEPT ![e] = [d \in Days |-> "absent"]]

Next ==
  \E e \in Employees :
    \/ \E d \in Days : Open(e, d) \/ Close(e, d) \/ Clear(e, d)
    \/ \E from, to \in Days : Move(e, from, to)
    \/ Dismiss(e)

Spec == Init /\ [][Next]_status
=============================================================================
