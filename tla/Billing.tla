------------------------------ MODULE Billing -------------------------------
(***************************************************************************)
(* The lines of an invoice: build_lines of services/invoice_service.py.    *)
(* An instant is a day and a moment of it, counted in Moments per day.     *)
(***************************************************************************)
EXTENDS Integers, Sequences

CONSTANTS
  Moments,  \* instants of a day
  None      \* SQL NULL

ASSUME MomentsAssumption == Moments \in Nat \ {0}

DayStart(day) == day * Moments
DayEnd(day)   == day * Moments + Moments - 1

\* A licence has a line unless it was granted after the period or revoked
\* before it.
Billed(licence, first, last) ==
  /\ licence.granted <= DayEnd(last)
  /\ licence.revoked = None \/ licence.revoked >= DayStart(first)

BuildLines(licences, first, last) ==
  LET Lines[k \in 0 .. Len(licences)] ==
        IF k = 0 THEN <<>>
        ELSE IF Billed(licences[k], first, last) THEN Append(Lines[k - 1], licences[k])
        ELSE Lines[k - 1]
  IN  Lines[Len(licences)]
=============================================================================
