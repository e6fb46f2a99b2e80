------------------------------ MODULE Rounding ------------------------------
(***************************************************************************)
(* Decimal.quantize(Decimal("0.01"), rounding=ROUND_HALF_UP), the one      *)
(* rounding rule the backend applies to hours and to money.  Amounts are   *)
(* integers in hundredths, so rounding a non-negative fraction n / d means *)
(* taking the nearest integer, halves going up.                            *)
(***************************************************************************)
EXTENDS Integers

HalfUp(n, d) == (2 * n + d) \div (2 * d)

MinOf(a, b) == IF a <= b THEN a ELSE b
MaxOf(a, b) == IF a >= b THEN a ELSE b
=============================================================================
