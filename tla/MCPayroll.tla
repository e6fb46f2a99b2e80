----------------------------- MODULE MCPayroll ------------------------------
(***************************************************************************)
(* Small instances of Payroll.  An advance of 3 over 2 months has monthly  *)
(* deductions of 2 and then of the 1 that is left.                         *)
(*                                                                         *)
(* alone is history: no handler has taken a step yet while another one was *)
(* at work.                                                                *)
(***************************************************************************)
EXTENDS Payroll, TLC

CONSTANT c1

VARIABLE alone

MCCompanyOf == [e \in Employees |-> c1]

Symmetry == Permutations(Requests) \cup Permutations(Employees)

Alone(r) == \A q \in Requests \ {r} : request[q] = Idle

MCInit == Init /\ alone = TRUE

MCNext ==
  \/ \E r \in Requests : (Handler(r) \/ Commit(r)) /\ alone' = (alone /\ Alone(r))
  \/ Restart /\ UNCHANGED alone

MCSpec == MCInit /\ [][MCNext]_<<vars, alone>>

-----------------------------------------------------------------------------
\* As long as handlers do not overlap, a repaid advance has nothing left to
\* recover.  Once they do it fails: a finalize that read the balance two runs
\* ago writes it back.
RepaidOwesNothing ==
  alone => \A a \in LiveAdvances : advances[a].status = "repaid" => advances[a].remaining = 0

\* As long as handlers do not overlap, no more is recovered of an advance than
\* a monthly deduction for every completed run that withheld something from
\* its employee.  Two overlapping finalizations of one run take two.
RecoveredByRuns ==
  alone =>
    \A a \in LiveAdvances :
      LET e == advances[a].employee
          withheld == {i \in LiveRuns : /\ runs[i].status = "completed"
                                        /\ runs[i].items[e] = "withholding"}
      IN  advances[a].amount - advances[a].remaining
            <= advances[a].monthly * Cardinality(withheld)

\* "Check for an existing draft/completed run for this company + period": as
\* long as handlers do not overlap a company has one run for a month.  Two
\* overlapping creations make two, as no constraint backs the check.
OneRunPerPeriod ==
  alone =>
    \A i, j \in LiveRuns :
      /\ runs[i].company = runs[j].company
      /\ runs[i].period = runs[j].period
      => i = j

\* What the handlers of payroll guarantee one at a time: a repaid advance owes
\* nothing, no more is recovered than was withheld, and a month has one run.
RunsAlone == RepaidOwesNothing /\ RecoveredByRuns /\ OneRunPerPeriod

\* "Cannot delete a completed payroll run": as long as handlers do not overlap
\* it stays.  A deletion that read the draft deletes what it has become.
CompletedStays ==
  [][alone' => \A i \in LiveRuns : runs[i].status = "completed" => runs'[i] # None]_vars
=============================================================================
