-------------------------------- MODULE Pay ---------------------------------
(***************************************************************************)
(* The arithmetic of a month's pay, twice: services/payslip_service.py for *)
(* payslips and services/payroll_service.py for payroll runs.  Money is in *)
(* hundredths of the currency, hours in hundredths of an hour, rates in    *)
(* hundredths of a percent.  Only what the two compute differently or in   *)
(* several passes is here: not the statutory rates, nor overtime.          *)
(***************************************************************************)
EXTENDS Rounding, Sequences

WORKING_DAYS_PER_MONTH == 26

\* resolve_payroll_config of a company that overrides nothing, as far as it
\* matters here.
DefaultConfig ==
  [workingDays |-> WORKING_DAYS_PER_MONTH]

\* The salary on file, or the legacy daily formula when there is none.
ResolveMonthlySalary(monthly, hourly, shift) ==
  IF monthly > 0
  THEN monthly
  ELSE HalfUp(hourly * shift.effective * WORKING_DAYS_PER_MONTH, 100)

DailyRate(salary, config) == HalfUp(salary, config.workingDays)

Share(amount, rate) == HalfUp(amount * rate, 10000)

PayslipGross(salary, days, config) ==
  DailyRate(salary, config) * MinOf(days, config.workingDays)

\* A payroll run's basic pay; the days are not capped here.
RunBasic(salary, days, config) == DailyRate(salary, config) * days

-----------------------------------------------------------------------------
(***************************************************************************)
(* A run's pay from a salary structure.  A component is a record of its    *)
(* name, type, calculation and value (money or rate).  A breakdown is a    *)
(* dict: its entries in the order in which their names came, so the later  *)
(* of two components of a name stands in the place of the earlier.         *)
(***************************************************************************)
ComponentTypes == {"earning", "deduction"}
Calculations   == {"fixed", "percentage_of_basic", "percentage_of_gross"}

Put(breakdown, name, amount) ==
  IF \E k \in DOMAIN breakdown : breakdown[k].name = name
  THEN [k \in DOMAIN breakdown |->
          IF breakdown[k].name = name THEN [name |-> name, amount |-> amount] ELSE breakdown[k]]
  ELSE Append(breakdown, [name |-> name, amount |-> amount])

\* First pass: a percentage of the gross is worth nothing yet.
FirstValue(component, basic, days, config) ==
  CASE component.calculation = "fixed" ->
         HalfUp(component.value * days, config.workingDays)
    [] component.calculation = "percentage_of_basic" -> Share(basic, component.value)
    [] component.calculation = "percentage_of_gross" -> 0

Counted(acc, component, value) ==
  IF component.type = "earning"
  THEN [acc EXCEPT !.gross = @ + value, !.earnings = Put(@, component.name, value)]
  ELSE [acc EXCEPT !.deductions = Put(@, component.name, value)]

OfGross(component) ==
  component.calculation = "percentage_of_gross" /\ component.type = "deduction"

Opening(basic) == [gross |-> basic, earnings |-> <<>>, deductions |-> <<>>]

\* Mutant: one pass, with the gross as it is when the component is met.
OnePass(components, basic, days, config) ==
  LET Pass[k \in 0 .. Len(components)] ==
        IF k = 0 THEN Opening(basic)
        ELSE LET c == components[k]
             IN  Counted(Pass[k - 1], c, IF OfGross(c) THEN Share(Pass[k - 1].gross, c.value)
                                         ELSE FirstValue(c, basic, days, config))
  IN  Pass[Len(components)]

\* Both passes over the components, in display order.
FirstPass(components, basic, days, config) ==
  LET Pass[k \in 0 .. Len(components)] ==
        IF k = 0 THEN Opening(basic)
        ELSE Counted(Pass[k - 1], components[k], FirstValue(components[k], basic, days, config))
  IN  Pass[Len(components)]

SecondPass(components, first) ==
  LET Pass[k \in 0 .. Len(components)] ==
        IF k = 0 THEN first
        ELSE IF OfGross(components[k])
        THEN Counted(Pass[k - 1], components[k], Share(Pass[k - 1].gross, components[k].value))
        ELSE Pass[k - 1]
  IN  Pass[Len(components)]

StructurePay(components, basic, days, config) ==
  SecondPass(components, FirstPass(components, basic, days, config))

SumOf(amounts) ==
  LET Sum[k \in 0 .. Len(amounts)] == IF k = 0 THEN 0 ELSE Sum[k - 1] + amounts[k]
  IN  Sum[Len(amounts)]

Total(breakdown) == SumOf([k \in DOMAIN breakdown |-> breakdown[k].amount])
=============================================================================
