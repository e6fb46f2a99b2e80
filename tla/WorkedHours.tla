----------------------------- MODULE WorkedHours ----------------------------
(***************************************************************************)
(* services/attendance_service.py: the arithmetic of one attendance day.   *)
(* Times are minutes since midnight, hours are hundredths of an hour (the  *)
(* NUMERIC(5,2) column).  A shift is a record of the minutes config/       *)
(* shifts.py gives it; an unknown shift has an empty break window, start   *)
(* None and no effective hours.                                            *)
(***************************************************************************)
EXTENDS Rounding

\* config/shifts.py, and a shift name that is not in it.
NoShift ==
  [known |-> FALSE, start |-> 0, breakStart |-> 0, breakEnd |-> 0, effective |-> 0]

SHIFTS ==
  [SHIFT_A |-> [known |-> TRUE, start |-> 390, breakStart |-> 630, breakEnd |-> 650,
                effective |-> 717],
   SHIFT_B |-> [known |-> TRUE, start |-> 540, breakStart |-> 810, breakEnd |-> 830,
                effective |-> 767]]

ShiftEnd == [SHIFT_A |-> 840, SHIFT_B |-> 1020]

\* Mutant: the whole break is deducted as soon as the day reaches it.
BreakWhole(entry, exit, shift) ==
  IF exit > shift.breakStart THEN shift.breakEnd - shift.breakStart ELSE 0

\* Minutes of [entry, exit) that fall inside the break window of the shift.
BreakOverlap(entry, exit, shift) ==
  MaxOf(0, MinOf(exit, shift.breakEnd) - MaxOf(entry, shift.breakStart))

\* Mutant: an exit before the entry is not caught.
HoursUnguarded(entry, exit, shift) ==
  HalfUp(100 * (exit - entry - BreakOverlap(entry, exit, shift)), 60)

CalculateHoursWorked(entry, exit, shift) ==
  IF exit <= entry
  THEN 0
  ELSE HalfUp(100 * (exit - entry - BreakOverlap(entry, exit, shift)), 60)

CalcOvertime(hours, shift) ==
  IF shift.known THEN MaxOf(hours - shift.effective, 0) ELSE 0
=============================================================================
