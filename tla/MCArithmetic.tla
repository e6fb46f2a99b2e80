---------------------------- MODULE MCArithmetic ----------------------------
(***************************************************************************)
(* The backend's pure computations against reference definitions: the      *)
(* hours of a day, the pay of a month, the pay from a salary structure and *)
(* the lines of an invoice.  A behaviour takes one of the four, and its    *)
(* input grows: the exit minute by minute, the month day by day, the       *)
(* structure and the licences one at a time in any order.                  *)
(***************************************************************************)
EXTENDS WorkedHours, Pay, Billing, FiniteSets

CONSTANTS
  LastMinute,             \* bound: the exit is at most this minute of the day
  Salaries, HourlyRates,  \* bound: money, in hundredths
  LastDay,                \* bound: days worked in a month
  Names, Values,          \* bound: names and values of salary components
  Size,                   \* bound: components of a structure
  Basic, DaysWorked,      \* pro-rated basic pay and days the structure pays for
  Period,                 \* days of a billing period
  LastInstant,            \* bound: licences are granted and revoked up to here
  MaxLicences             \* bound: licences of a subscription

\* Amounts and rates are not negative, periods not empty, NULL is no instant.
ASSUME ArithmeticAssumption ==
  /\ Salaries \subseteq Nat /\ HourlyRates \subseteq Nat /\ Values \subseteq Nat
  /\ Basic \in Nat /\ DaysWorked \in Nat
  /\ Period \in Nat \ {0} /\ LastInstant \in Nat /\ None \notin 0 .. LastInstant

VARIABLE input

-----------------------------------------------------------------------------
Known == DOMAIN SHIFTS

ShiftNamed(name) == IF name \in Known THEN SHIFTS[name] ELSE NoShift

\* On the dot, around the start of either break, around its end.
Entries ==
  {SHIFTS[n].start : n \in Known}
    \cup (UNION {SHIFTS[n].breakStart - 2 .. SHIFTS[n].breakStart + 2 : n \in Known})
    \cup (UNION {SHIFTS[n].breakEnd - 2 .. SHIFTS[n].breakEnd + 2 : n \in Known})

ADay ==
  \E name \in Known \cup {"OTHER"}, entry \in Entries :
    input = [of |-> "day", shift |-> name, entry |-> entry, exit |-> entry - 1]

Configs == {DefaultConfig, [DefaultConfig EXCEPT !.workingDays = 22]}

AMonth ==
  \E monthly \in Salaries, hourly \in HourlyRates, config \in Configs :
    input = [of |-> "month", monthly |-> monthly, hourly |-> hourly,
             config |-> config, days |-> 0]

AStructure == input = [of |-> "structure", components |-> <<>>]

ASubscription == input = [of |-> "subscription", licences |-> <<>>]

Init == ADay \/ AMonth \/ AStructure \/ ASubscription

Later ==
  /\ input.of = "day"
  /\ input.exit < LastMinute
  /\ input' = [input EXCEPT !.exit = @ + 1]

Work ==
  /\ input.of = "month"
  /\ input.days < LastDay
  /\ input' = [input EXCEPT !.days = @ + 1]

Component ==
  [name : Names, type : ComponentTypes, calculation : Calculations, value : Values]

AddComponent ==
  /\ input.of = "structure"
  /\ Len(input.components) < Size
  /\ \E c \in Component : input' = [input EXCEPT !.components = Append(@, c)]

Licence(id, granted, revoked) == [id |-> id, granted |-> granted, revoked |-> revoked]

Grant ==
  /\ input.of = "subscription"
  /\ Len(input.licences) < MaxLicences
  /\ \E granted \in 0 .. LastInstant :
       \E revoked \in granted .. LastInstant \cup {None} :
         input' = [input EXCEPT !.licences =
                     Append(@, Licence(Len(@) + 1, granted, revoked))]

Spec == Init /\ [][Later \/ Work \/ AddComponent \/ Grant]_input

-----------------------------------------------------------------------------
(***************************************************************************)
(* The hours of a day.                                                     *)
(***************************************************************************)
TheShift == ShiftNamed(input.shift)

TheHours == CalculateHoursWorked(input.entry, input.exit, TheShift)

WorkedMinutes ==
  {m \in input.entry .. input.exit - 1 :
     ~ (TheShift.breakStart <= m /\ m < TheShift.breakEnd)}

\* The hours are those of the minutes worked outside the break, to the nearest
\* hundredth, wherever entry and exit fall before, inside or after the break.
HoursCountMinutes ==
  input.of = "day" =>
    /\ 120 * TheHours - 200 * Cardinality(WorkedMinutes) <= 60
    /\ 120 * TheHours - 200 * Cardinality(WorkedMinutes) > -60

\* The configured effective hours agree with the arithmetic: whoever works a
\* shift from its start to its end, and no longer, earns no overtime, and one
\* minute more earns some.
FullShiftNoOvertime ==
  input.of = "day" =>
    (input.shift \in Known /\ input.entry = TheShift.start =>
       (CalcOvertime(TheHours, TheShift) = 0 <=> input.exit <= ShiftEnd[input.shift]))

-----------------------------------------------------------------------------
(***************************************************************************)
(* The pay of a month.                                                     *)
(***************************************************************************)
Salary == ResolveMonthlySalary(input.monthly, input.hourly, SHIFTS["SHIFT_A"])

\* Half a hundredth is gained or lost on the daily rate: a full month's gross
\* is the monthly salary to within half a hundredth per working day, and no
\* number of days beyond it pays more (pay is monthly, README.md:75).
FullMonthPaysSalary ==
  input.of = "month" =>
    (input.days >= input.config.workingDays =>
       LET twice == 2 * PayslipGross(Salary, input.days, input.config)
       IN  /\ twice - 2 * Salary <= input.config.workingDays
           /\ 2 * Salary - twice <= input.config.workingDays)

\* A run pro-rates the salary on "the same basis payslips use".
RunsPayLikePayslips ==
  input.of = "month" =>
    RunBasic(Salary, input.days, input.config) = PayslipGross(Salary, input.days, input.config)

-----------------------------------------------------------------------------
(***************************************************************************)
(* The pay from a salary structure.                                        *)
(***************************************************************************)
Components == input.components

TheirPay == StructurePay(Components, Basic, DaysWorked, DefaultConfig)

DistinctNames ==
  \A i, j \in DOMAIN Components : Components[i].name = Components[j].name => i = j

First(i) == FirstValue(Components[i], Basic, DaysWorked, DefaultConfig)

EarningOf(i) == IF Components[i].type = "earning" THEN First(i) ELSE 0

GrossOfComponents == Basic + SumOf([i \in DOMAIN Components |-> EarningOf(i)])

DeductionOf(i) ==
  CASE Components[i].type # "deduction" -> 0
    [] OfGross(Components[i]) -> Share(GrossOfComponents, Components[i].value)
    [] OTHER -> First(i)

\* Whatever the order of the components, with names that differ the gross is
\* the basic pay and all earnings, what the breakdown lists adds up to it, and
\* a deduction on the gross is taken from the whole of it, earnings that come
\* later in the list included.
TotalsOfComponents ==
  input.of = "structure" =>
    (DistinctNames =>
       /\ TheirPay.gross = GrossOfComponents
       /\ TheirPay.gross = Basic + Total(TheirPay.earnings)
       /\ Total(TheirPay.deductions)
            = SumOf([i \in DOMAIN Components |-> DeductionOf(i)]))

-----------------------------------------------------------------------------
(***************************************************************************)
(* The lines of an invoice.                                                *)
(***************************************************************************)
PeriodOf(instant) == (instant \div Moments) \div Period

ActiveIn(licence, p) ==
  \E t \in licence.granted .. LastInstant :
    /\ licence.revoked = None \/ t <= licence.revoked
    /\ PeriodOf(t) = p

\* The periods' invoices together bill a licence in exactly the periods in
\* which it was active, be it for a moment at the first or last instant of
\* the period.
BilledWhileActive ==
  input.of = "subscription" =>
    \A p \in 0 .. PeriodOf(LastInstant) :
      LET lines == BuildLines(input.licences, p * Period, (p + 1) * Period - 1)
      IN  {lines[k].id : k \in DOMAIN lines}
            = {i \in DOMAIN input.licences : ActiveIn(input.licences[i], p)}

-----------------------------------------------------------------------------
\* The hours of a day, for every entry, exit and shift: those of the minutes that
\* were worked, and no overtime before the end of the shift.
HoursOfDay == HoursCountMinutes /\ FullShiftNoOvertime

\* Money, for every month, structure and subscription: a full month pays the
\* salary, a structure what its components say, and an invoice what was active.
MoneyAddsUp == FullMonthPaysSalary /\ TotalsOfComponents /\ BilledWhileActive
=============================================================================
