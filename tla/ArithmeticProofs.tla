-------------------------- MODULE ArithmeticProofs --------------------------
(***************************************************************************)
(* Proofs about the backend's computations, for every input: any entry and *)
(* exit, any number of days, a salary structure and a subscription of any  *)
(* length.  What a pass over a list computes is proved from its prefixes:  *)
(* the function the pass defines exists (Recursion), and an invariant of   *)
(* its values holds up to the last one because the numbers for which it    *)
(* holds include 0 and the successor of each (UpTo).                       *)
(***************************************************************************)
EXTENDS MCArithmetic, FiniteSetTheorems, SequenceTheorems, WellFoundedInduction, TLAPS

\* Induction up to n, of a set.
LEMMA UpTo ==
  ASSUME NEW n \in Nat, NEW S, 0 \in S, \A k \in 1 .. n : k - 1 \in S => k \in S
  PROVE  0 .. n \subseteq S
<1> DEFINE Bad == (0 .. n) \ S
<1> SUFFICES ASSUME Bad # {} PROVE FALSE
  OBVIOUS
<1>1. PICK k \in Bad : \A j \in Bad : ~ (<<j, k>> \in OpToRel(<, Nat))
  <2>1. Bad \subseteq Nat
    OBVIOUS
  <2> HIDE DEF Bad
  <2>2. QED
    BY <2>1, NatLessThanWellFounded, WFMin
<1>2. k \in 1 .. n /\ k - 1 \in 0 .. n /\ k - 1 < k
  OBVIOUS
<1>3. <<k - 1, k>> \in OpToRel(<, Nat)
  BY <1>2 DEF OpToRel
<1>4. k - 1 \notin Bad
  BY <1>1, <1>3
<1>5. QED
  BY <1>2, <1>4

\* A function of the numbers up to n is given by its first value and its steps.
LEMMA Recursion ==
  ASSUME NEW n \in Nat, NEW A, NEW base \in A, NEW step \in [1 .. n -> [A -> A]]
  PROVE  \E f : /\ f = [k \in 0 .. n |-> f[k]] /\ f[0] = base
                /\ \A k \in 1 .. n : f[k] = step[k][f[k - 1]] /\ f[k - 1] \in A
<1> DEFINE Good(f, j) == /\ f \in [0 .. j -> A] /\ f[0] = base
                         /\ \A k \in 1 .. j : f[k] = step[k][f[k - 1]]
           S == {j \in 0 .. n : \E f : Good(f, j)}
<1>1. 0 \in S
  <2>1. Good([k \in 0 .. 0 |-> base], 0)
    OBVIOUS
  <2> HIDE DEF Good
  <2>2. QED
    BY <2>1
<1>2. ASSUME NEW j \in 1 .. n, j - 1 \in S PROVE j \in S
  <2>1. PICK f : Good(f, j - 1)
    BY <1>2
  <2> DEFINE v == step[j][f[j - 1]]
             g == [k \in 0 .. j |-> IF k = j THEN v ELSE f[k]]
  <2>2. f \in [0 .. j - 1 -> A] /\ f[j - 1] \in A /\ v \in A
    BY <2>1
  <2>3. g \in [0 .. j -> A] /\ g[0] = base
    BY <2>1, <2>2
  <2>4. ASSUME NEW k \in 1 .. j PROVE g[k] = step[k][g[k - 1]]
    <3>1. CASE k = j
      <4>1. g[k] = v /\ g[k - 1] = f[j - 1]
        BY <3>1
      <4>2. QED
        BY <3>1, <4>1
    <3>2. CASE k # j
      <4>1. k \in 1 .. j - 1 /\ g[k] = f[k] /\ g[k - 1] = f[k - 1]
        BY <3>2
      <4>2. QED
        BY <2>1, <4>1
    <3>3. QED
      BY <3>1, <3>2
  <2> HIDE DEF g
  <2>5. Good(g, j)
    BY <2>3, <2>4
  <2> HIDE DEF Good
  <2>6. QED
    BY <2>5
<1> HIDE DEF S
<1>3. n \in S
  <2>1. \A j \in 1 .. n : j - 1 \in S => j \in S
    BY <1>2
  <2>2. 0 .. n \subseteq S
    BY <1>1, <2>1, UpTo
  <2>3. QED
    BY <2>2
<1> USE DEF S
<1>4. PICK f : Good(f, n)
  BY <1>3
<1>5. /\ f = [k \in 0 .. n |-> f[k]] /\ f[0] = base
      /\ \A k \in 1 .. n : f[k] = step[k][f[k - 1]] /\ f[k - 1] \in A
  BY <1>4
<1> HIDE DEF S, Good
<1>6. QED
  BY <1>5

-----------------------------------------------------------------------------
(***************************************************************************)
(* The hours of a day.                                                     *)
(***************************************************************************)
\* Rounding half up, as a bound on what is gained or lost.
LEMMA Rounded ==
  ASSUME NEW n \in Int, NEW d \in Nat \ {0}
  PROVE  /\ HalfUp(n, d) \in Int
         /\ 2 * d * HalfUp(n, d) <= 2 * n + d
         /\ 2 * n + d < 2 * d * HalfUp(n, d) + 2 * d
BY DEF HalfUp

LEMMA Interval ==
  ASSUME NEW a \in Int, NEW b \in Int
  PROVE  /\ IsFiniteSet(a .. b - 1)
         /\ Cardinality(a .. b - 1) = IF a >= b THEN 0 ELSE b - a
<1> PICK c \in Int : c = b - 1
  OBVIOUS
<1>1. IsFiniteSet(a .. c) /\ Cardinality(a .. c) = IF a > c THEN 0 ELSE c - a + 1
  BY FS_Interval
<1>2. QED
  BY <1>1

-----------------------------------------------------------------------------
DayTyped ==
  input.of = "day" =>
    /\ input.shift \in Known \cup {"OTHER"} /\ input.entry \in Int /\ input.exit \in Int

LEMMA TypeOfShift ==
  ASSUME NEW name \in Known \cup {"OTHER"}
  PROVE  /\ ShiftNamed(name).breakStart \in Nat /\ ShiftNamed(name).breakEnd \in Nat
         /\ ShiftNamed(name).breakStart <= ShiftNamed(name).breakEnd
BY DEF Known, ShiftNamed, SHIFTS, NoShift

\* The minutes worked are those from entry to exit less those of the break.
LEMMA MinutesWorked ==
  ASSUME NEW entry \in Int, NEW exit \in Int, entry <= exit, NEW shift,
         shift.breakStart \in Int, shift.breakEnd \in Int, shift.breakStart <= shift.breakEnd
  PROVE  Cardinality({m \in entry .. exit - 1 : ~(shift.breakStart <= m /\ m < shift.breakEnd)})
           = exit - entry - BreakOverlap(entry, exit, shift)
<1> DEFINE S == entry .. exit - 1
           T == {m \in S : shift.breakStart <= m /\ m < shift.breakEnd}
           W == {m \in S : ~(shift.breakStart <= m /\ m < shift.breakEnd)}
           lo == MaxOf(entry, shift.breakStart)
           hi == MinOf(exit, shift.breakEnd)
<1>1. lo \in Int /\ hi \in Int /\ W = S \ T /\ T = lo .. hi - 1
  BY DEF MaxOf, MinOf
<1>2. IsFiniteSet(S) /\ Cardinality(S) = exit - entry
  BY Interval
<1>3. IsFiniteSet(T) /\ Cardinality(T) = BreakOverlap(entry, exit, shift)
  <2>1. IsFiniteSet(lo .. hi - 1)
        /\ Cardinality(lo .. hi - 1) = IF lo >= hi THEN 0 ELSE hi - lo
    BY <1>1, Interval
  <2>2. BreakOverlap(entry, exit, shift) = IF lo >= hi THEN 0 ELSE hi - lo
    BY <1>1 DEF BreakOverlap, MaxOf
  <2>3. QED
    BY <1>1, <2>1, <2>2
<1>4. S \cap T = T
  OBVIOUS
<1>5. Cardinality(S \ T) = Cardinality(S) - Cardinality(S \cap T)
  BY <1>2, <1>3, FS_Difference
<1>6. Cardinality(W) = exit - entry - BreakOverlap(entry, exit, shift)
  <2> HIDE DEF S, T, lo, hi, W
  <2>1. QED
    BY <1>1, <1>2, <1>3, <1>4, <1>5
<1>7. QED
  BY <1>6

LEMMA HoursOfMinutes ==
  ASSUME input.of = "day", DayTyped
  PROVE  HoursCountMinutes
<1> PICK entry \in Int, exit \in Int : entry = input.entry /\ exit = input.exit
  BY DEF DayTyped
<1> DEFINE shift == TheShift
           worked == exit - entry - BreakOverlap(entry, exit, shift)
<1>1. shift.breakStart \in Int /\ shift.breakEnd \in Int /\ shift.breakStart <= shift.breakEnd
  BY TypeOfShift DEF DayTyped, TheShift
<1>2. BreakOverlap(entry, exit, shift) \in Int
  BY <1>1 DEF BreakOverlap, MaxOf, MinOf
<1> HIDE DEF shift
<1>3. CASE exit <= entry
  <2>1. TheHours = 0
    BY <1>3 DEF TheHours, CalculateHoursWorked
  <2>2. WorkedMinutes = {}
    BY <1>3 DEF WorkedMinutes
  <2>3. QED
    BY <2>1, <2>2, FS_EmptySet DEF HoursCountMinutes
<1>4. CASE exit > entry
  <2>1. Cardinality(WorkedMinutes) = worked
    BY <1>1, <1>4, MinutesWorked DEF WorkedMinutes, shift
  <2>2. TheHours = HalfUp(100 * worked, 60)
    BY <1>4 DEF TheHours, CalculateHoursWorked, shift
  <2>3. worked \in Int
    BY <1>2
  <2> HIDE DEF worked
  <2>4. HalfUp(100 * worked, 60) \in Int /\ 120 * HalfUp(100 * worked, 60) <= 200 * worked + 60
        /\ 200 * worked + 60 < 120 * HalfUp(100 * worked, 60) + 120
    BY <2>3, Rounded
  <2>5. QED
    BY <2>1, <2>2, <2>3, <2>4 DEF HoursCountMinutes
<1>5. QED
  BY <1>3, <1>4

LEMMA FullShift ==
  ASSUME input.of = "day", DayTyped
  PROVE  FullShiftNoOvertime
<1> SUFFICES ASSUME input.shift \in Known, input.entry = TheShift.start
             PROVE  CalcOvertime(TheHours, TheShift) = 0 <=> input.exit <= ShiftEnd[input.shift]
  BY DEF FullShiftNoOvertime
<1> PICK exit \in Int : exit = input.exit
  BY DEF DayTyped
<1>1. CASE input.shift = "SHIFT_A"
  <2>1. TheShift = [known |-> TRUE, start |-> 390, breakStart |-> 630, breakEnd |-> 650,
                    effective |-> 717]
    BY <1>1 DEF TheShift, ShiftNamed, Known, SHIFTS
  <2>2. ShiftEnd[input.shift] = 840
    BY <1>1 DEF ShiftEnd
  <2> DEFINE worked == exit - 390 - BreakOverlap(390, exit, TheShift)
  <2>3. /\ worked \in Int
        /\ exit > 840 => worked >= 431
        /\ exit <= 840 => worked <= 430
    BY <2>1 DEF BreakOverlap, MaxOf, MinOf
  <2>4. TheHours = IF exit <= 390 THEN 0 ELSE HalfUp(100 * worked, 60)
    BY <2>1 DEF TheHours, CalculateHoursWorked
  <2> HIDE DEF worked
  <2>5. /\ HalfUp(100 * worked, 60) \in Int
        /\ worked >= 431 => HalfUp(100 * worked, 60) > 717
        /\ worked <= 430 => HalfUp(100 * worked, 60) <= 717
    BY <2>3 DEF HalfUp
  <2>6. QED
    BY <2>1, <2>2, <2>3, <2>4, <2>5 DEF CalcOvertime, MaxOf
<1>2. CASE input.shift = "SHIFT_B"
  <2>1. TheShift = [known |-> TRUE, start |-> 540, breakStart |-> 810, breakEnd |-> 830,
                    effective |-> 767]
    BY <1>2 DEF TheShift, ShiftNamed, Known, SHIFTS
  <2>2. ShiftEnd[input.shift] = 1020
    BY <1>2 DEF ShiftEnd
  <2> DEFINE worked == exit - 540 - BreakOverlap(540, exit, TheShift)
  <2>3. /\ worked \in Int
        /\ exit > 1020 => worked >= 461
        /\ exit <= 1020 => worked <= 460
    BY <2>1 DEF BreakOverlap, MaxOf, MinOf
  <2>4. TheHours = IF exit <= 540 THEN 0 ELSE HalfUp(100 * worked, 60)
    BY <2>1 DEF TheHours, CalculateHoursWorked
  <2> HIDE DEF worked
  <2>5. /\ HalfUp(100 * worked, 60) \in Int
        /\ worked >= 461 => HalfUp(100 * worked, 60) > 767
        /\ worked <= 460 => HalfUp(100 * worked, 60) <= 767
    BY <2>3 DEF HalfUp
  <2>6. QED
    BY <2>1, <2>2, <2>3, <2>4, <2>5 DEF CalcOvertime, MaxOf
<1>3. QED
  BY <1>1, <1>2 DEF Known, SHIFTS

-----------------------------------------------------------------------------
Typed(v) ==
  v.of = "month" =>
    /\ v.monthly \in Salaries /\ v.hourly \in HourlyRates /\ v.config \in Configs
    /\ v.days \in Nat

LEMMA FullMonth ==
  ASSUME input.of = "month", Typed(input)
  PROVE  FullMonthPaysSalary
<1>1. Salary \in Int
  <2>1. PICK hourly \in Nat, monthly \in Nat : hourly = input.hourly /\ monthly = input.monthly
    <3>1. input.hourly \in HourlyRates /\ input.monthly \in Salaries
      BY DEF Typed
    <3>2. QED
      BY <3>1, ArithmeticAssumption
  <2>2. hourly * 717 * 26 \in Int
    OBVIOUS
  <2>3. HalfUp(hourly * 717 * 26, 100) \in Int
    BY <2>2 DEF HalfUp
  <2>4. SHIFTS["SHIFT_A"].effective = 717
    BY DEF SHIFTS
  <2>5. Salary = IF monthly > 0 THEN monthly ELSE HalfUp(hourly * 717 * 26, 100)
    BY <2>1, <2>4 DEF Salary, ResolveMonthlySalary, WORKING_DAYS_PER_MONTH
  <2>6. QED
    BY <2>3, <2>5
<1>2. input.config.workingDays \in {22, 26} /\ input.days \in Nat
  BY DEF Typed, Configs, DefaultConfig, WORKING_DAYS_PER_MONTH
<1> PICK days \in {22, 26} : days = input.config.workingDays
  BY <1>2
<1> PICK rate : rate = HalfUp(Salary, days)
  OBVIOUS
<1>3. /\ rate \in Int /\ 2 * days * rate <= 2 * Salary + days
      /\ 2 * Salary + days < 2 * days * rate + 2 * days
  <2>1. days \in Nat \ {0}
    OBVIOUS
  <2>2. PICK salary \in Int : salary = Salary
    BY <1>1
  <2>3. /\ HalfUp(salary, days) \in Int
        /\ 2 * days * HalfUp(salary, days) <= 2 * salary + days
        /\ 2 * salary + days < 2 * days * HalfUp(salary, days) + 2 * days
    BY <2>1, Rounded
  <2>4. QED
    BY <2>2, <2>3
<1>4. input.days >= days => PayslipGross(Salary, input.days, input.config) = rate * days
  BY <1>2 DEF PayslipGross, DailyRate, MinOf
<1>5. CASE days = 22
  BY <1>1, <1>3, <1>4, <1>5 DEF FullMonthPaysSalary
<1>6. CASE days = 26
  BY <1>1, <1>3, <1>4, <1>6 DEF FullMonthPaysSalary
<1>7. QED
  BY <1>5, <1>6

-----------------------------------------------------------------------------
(***************************************************************************)
(* The lines of an invoice, one licence after the other.                   *)
(***************************************************************************)
LinesIn(f, s, first, last) ==
  [k \in 0 .. Len(s) |->
     IF k = 0 THEN <<>>
     ELSE IF Billed(s[k], first, last) THEN Append(f[k - 1], s[k]) ELSE f[k - 1]]

LEMMA LinesFound ==
  ASSUME NEW L, NEW s \in Seq(L), NEW first, NEW last
  PROVE  \E f : f = LinesIn(f, s, first, last)
<1> DEFINE A == Seq(L)
           n == Len(s)
           step == [k \in 1 .. n |-> [t \in A |-> IF Billed(s[k], first, last)
                                                 THEN Append(t, s[k]) ELSE t]]
<1>1. n \in Nat /\ <<>> \in A
  OBVIOUS
<1>2. step \in [1 .. n -> [A -> A]]
  OBVIOUS
<1>3. \A k \in 1 .. n : \A t \in A :
        step[k][t] = IF Billed(s[k], first, last) THEN Append(t, s[k]) ELSE t
  OBVIOUS
<1> HIDE DEF A, step
<1>4. PICK f : /\ f = [k \in 0 .. n |-> f[k]] /\ f[0] = <<>>
               /\ \A k \in 1 .. n : f[k] = step[k][f[k - 1]] /\ f[k - 1] \in A
  <2> HIDE DEF n
  <2>1. QED
    BY <1>1, <1>2, Recursion
<1>5. \A k \in 0 .. n : f[k] = IF k = 0 THEN <<>>
                               ELSE IF Billed(s[k], first, last) THEN Append(f[k - 1], s[k])
                               ELSE f[k - 1]
  <2>1. ASSUME NEW k \in 1 .. n
        PROVE  f[k] = IF Billed(s[k], first, last) THEN Append(f[k - 1], s[k]) ELSE f[k - 1]
    <3>1. f[k] = step[k][f[k - 1]] /\ f[k - 1] \in A
      BY <1>4
    <3>2. step[k][f[k - 1]] = IF Billed(s[k], first, last) THEN Append(f[k - 1], s[k])
                              ELSE f[k - 1]
      BY <1>3, <3>1
    <3>3. QED
      BY <3>1, <3>2
  <2>2. \A k \in 0 .. n : k = 0 \/ k \in 1 .. n
    BY <1>1
  <2>3. QED
    BY <1>4, <2>1, <2>2
<1>6. f = LinesIn(f, s, first, last)
  <2>1. f = [k \in 0 .. n |-> f[k]]
    BY <1>4
  <2>2. QED
    BY <1>5, <2>1 DEF LinesIn
<1>7. QED
  BY <1>6

Items(s) == {s[i] : i \in DOMAIN s}

LEMMA Lined ==
  ASSUME NEW L, NEW s \in Seq(L), NEW first, NEW last
  PROVE  Items(BuildLines(s, first, last))
           = {s[i] : i \in {i \in DOMAIN s : Billed(s[i], first, last)}}
<1> DEFINE Lines == CHOOSE f : f = LinesIn(f, s, first, last)
           n == Len(s)
           On(i) == Billed(s[i], first, last)
<1>1. BuildLines(s, first, last) = Lines[n]
  BY DEF BuildLines, LinesIn
<1>2. Lines = LinesIn(Lines, s, first, last)
  BY LinesFound
<1> HIDE DEF Lines
<1>3. n \in Nat /\ DOMAIN s = 1 .. n /\ \A k \in 1 .. n : s[k] \in L
  OBVIOUS
<1>4. Lines = [k \in 0 .. n |->
                 IF k = 0 THEN <<>> ELSE IF On(k) THEN Append(Lines[k - 1], s[k]) ELSE Lines[k - 1]]
  BY <1>2 DEF LinesIn
<1> HIDE DEF On, n
<1>5. /\ Lines[0] = <<>>
      /\ \A k \in 1 .. n :
           Lines[k] = IF On(k) THEN Append(Lines[k - 1], s[k]) ELSE Lines[k - 1]
  <2>1. 0 \in 0 .. n /\ \A k \in 1 .. n : k \in 0 .. n /\ k # 0
    BY <1>3
  <2>2. \A k \in 0 .. n :
          Lines[k] = IF k = 0 THEN <<>>
                     ELSE IF On(k) THEN Append(Lines[k - 1], s[k]) ELSE Lines[k - 1]
    BY <1>4
  <2>3. QED
    BY <2>1, <2>2
<1> DEFINE Has(t, x) == \E j \in DOMAIN t : t[j] = x
           Due(k, x) == \E i \in 1 .. k : On(i) /\ s[i] = x
           Good(k) == Lines[k] \in Seq(L) /\ \A x : Has(Lines[k], x) <=> Due(k, x)
           S == {k \in 0 .. n : Good(k)}
<1>6. 0 \in S
  <2>1. <<>> \in Seq(L) /\ DOMAIN <<>> = {}
    OBVIOUS
  <2>2. \A x : ~Has(<<>>, x) /\ ~Due(0, x)
    BY <2>1
  <2> HIDE DEF Has, Due
  <2>3. Good(0)
    BY <1>5, <2>1, <2>2
  <2> HIDE DEF Good
  <2>4. QED
    BY <1>3, <2>3
<1>7. ASSUME NEW k \in 1 .. n, k - 1 \in S PROVE k \in S
  <2>0. PICK t : t = Lines[k - 1]
    OBVIOUS
  <2>1. t \in Seq(L) /\ \A x : Has(t, x) <=> Due(k - 1, x)
    BY <1>7, <2>0
  <2>2. CASE On(k)
    <3>1. Lines[k] = Append(t, s[k])
      BY <1>5, <2>0, <2>2
    <3>2. Append(t, s[k]) \in Seq(L)
      BY <1>3, <2>1
    <3>3. \A x : Has(Append(t, s[k]), x) <=> Has(t, x) \/ x = s[k]
      <4>1. /\ DOMAIN t = 1 .. Len(t) /\ DOMAIN Append(t, s[k]) = 1 .. Len(t) + 1
            /\ Len(t) \in Nat
            /\ \A j \in 1 .. Len(t) : Append(t, s[k])[j] = t[j]
            /\ Append(t, s[k])[Len(t) + 1] = s[k]
        BY <1>3, <2>1
      <4> HIDE DEF S
      <4>2. QED
        BY <4>1
    <3>4. \A x : Due(k, x) <=> Due(k - 1, x) \/ x = s[k]
      BY <1>3, <2>2
    <3> HIDE DEF Has, Due
    <3>5. \A x : Has(Lines[k], x) <=> Due(k, x)
      BY <2>1, <3>1, <3>3, <3>4
    <3>6. Good(k)
      BY <3>1, <3>2, <3>5
    <3> HIDE DEF Good
    <3>7. QED
      BY <1>3, <3>6
  <2>3. CASE ~On(k)
    <3>1. Lines[k] = t
      BY <1>5, <2>0, <2>3
    <3>2. \A x : Due(k, x) <=> Due(k - 1, x)
      BY <1>3, <2>3
    <3> HIDE DEF Has, Due
    <3>3. QED
      BY <1>3, <2>1, <3>1, <3>2
  <2>4. QED
    BY <2>2, <2>3
<1>8. n \in S
  <2> HIDE DEF S
  <2>1. QED
    BY <1>3, <1>6, <1>7, UpTo
<1>9. Lines[n] \in Seq(L) /\ \A x : Has(Lines[n], x) <=> Due(n, x)
  BY <1>8
<1>10. PICK t : t = Lines[n]
  OBVIOUS
<1>11. \A x : x \in Items(t) <=> Has(t, x)
  BY DEF Items
<1>12. \A x : x \in {s[i] : i \in {i \in DOMAIN s : Billed(s[i], first, last)}} <=> Due(n, x)
  BY <1>3 DEF On
<1> HIDE DEF Has, Due
<1>13. QED
  BY <1>1, <1>9, <1>10, <1>11, <1>12

-----------------------------------------------------------------------------
(***************************************************************************)
(* Instants and periods.                                                   *)
(***************************************************************************)
LEMMA Least ==
  ASSUME NEW t \in Nat, NEW d \in Nat \ {0}, NEW x \in Nat
  PROVE  t \div d \in Nat /\ (x <= t \div d <=> x * d <= t)
<1> PICK q : q = t \div d
  OBVIOUS
<1>1. q \in Nat /\ q * d <= t /\ t < q * d + d
  OBVIOUS
<1>2. ASSUME x <= q PROVE x * d <= t
  <2>1. PICK e \in Nat : q = x + e
    <3>1. q - x \in Nat /\ q = x + (q - x)
      BY <1>1, <1>2
    <3>2. QED
      BY <3>1
  <2>2. q * d = x * d + e * d /\ e * d >= 0
    BY <2>1
  <2>3. QED
    BY <1>1, <2>2
<1>3. ASSUME x > q PROVE x * d > t
  <2>1. PICK e \in Nat : x = q + 1 + e
    <3>1. x - q - 1 \in Nat /\ x = q + 1 + (x - q - 1)
      BY <1>1, <1>3
    <3>2. QED
      BY <3>1
  <2>2. x * d = q * d + d + e * d /\ e * d >= 0
    BY <1>1, <2>1
  <2>3. QED
    BY <1>1, <2>2
<1>4. QED
  BY <1>1, <1>2, <1>3

LEMMA InPeriod ==
  ASSUME NEW t \in Nat, NEW p \in Nat
  PROVE  /\ PeriodOf(t) \in Nat
         /\ p <= PeriodOf(t) <=> (p * Period) * Moments <= t
<1> PICK m \in Nat \ {0}, r \in Nat \ {0} : m = Moments /\ r = Period
  BY MomentsAssumption, ArithmeticAssumption
<1>1. t \div m \in Nat
  BY Least
<1>2. (t \div m) \div r \in Nat /\ (p <= (t \div m) \div r <=> p * r <= t \div m)
  BY <1>1, Least
<1>3. p * r \in Nat
  OBVIOUS
<1>4. p * r <= t \div m <=> (p * r) * m <= t
  BY <1>3, Least
<1>5. QED
  BY <1>2, <1>4 DEF PeriodOf

LicenceAt(v) == /\ v.granted \in 0 .. LastInstant
                /\ v.revoked = None \/ v.revoked \in v.granted .. LastInstant

LEMMA BilledAsActive ==
  ASSUME NEW v, LicenceAt(v), NEW p \in 0 .. PeriodOf(LastInstant)
  PROVE  Billed(v, p * Period, (p + 1) * Period - 1) <=> ActiveIn(v, p)
<1> PICK m \in Nat \ {0}, r \in Nat \ {0} : m = Moments /\ r = Period
  BY MomentsAssumption, ArithmeticAssumption
<1> DEFINE from == (p * r) * m
           to == ((p + 1) * r) * m
<1>0. LastInstant \in Nat /\ p \in Nat
  BY ArithmeticAssumption, InPeriod
<1>1. from \in Nat /\ to \in Nat /\ from < to
  <2>1. p * r \in Nat /\ (p + 1) * r = p * r + r
    BY <1>0
  <2>2. PICK a \in Nat : a = p * r
    BY <2>1
  <2>3. (a + r) * m = a * m + r * m /\ r * m > 0 /\ a * m \in Nat /\ r * m \in Nat
    OBVIOUS
  <2>4. QED
    BY <2>1, <2>2, <2>3
<1>2. DayStart(p * Period) = from
  BY DEF DayStart
<1>3. DayEnd((p + 1) * Period - 1) = to - 1
  <2>1. PICK b \in Nat : b = (p + 1) * r
    BY <1>0
  <2>2. (b - 1) * m + m - 1 = b * m - 1
    OBVIOUS
  <2>3. QED
    BY <2>1, <2>2 DEF DayEnd
<1>4. \A t \in Nat : PeriodOf(t) = p <=> from <= t /\ t < to
  <2> SUFFICES ASSUME NEW t \in Nat PROVE PeriodOf(t) = p <=> from <= t /\ t < to
    OBVIOUS
  <2>1. p + 1 \in Nat
    BY <1>0
  <2>2. PeriodOf(t) \in Nat /\ (p <= PeriodOf(t) <=> from <= t)
    BY <1>0, InPeriod
  <2>3. p + 1 <= PeriodOf(t) <=> to <= t
    BY <2>1, InPeriod
  <2> HIDE DEF from, to
  <2>4. QED
    BY <1>0, <1>1, <2>2, <2>3
<1>5. from <= LastInstant
  BY <1>0, InPeriod
<1> HIDE DEF from, to
<1>6. PICK g \in 0 .. LastInstant : g = v.granted
  BY DEF LicenceAt
<1>7. Billed(v, p * Period, (p + 1) * Period - 1)
        <=> g < to /\ (v.revoked = None \/ v.revoked >= from)
  BY <1>0, <1>1, <1>2, <1>3, <1>6 DEF Billed
<1>8. ActiveIn(v, p) <=> \E t \in g .. LastInstant :
                           (v.revoked = None \/ t <= v.revoked) /\ from <= t /\ t < to
  BY <1>0, <1>4, <1>6 DEF ActiveIn
<1>9. ASSUME g < to, v.revoked = None \/ v.revoked >= from
      PROVE  \E t \in g .. LastInstant :
               (v.revoked = None \/ t <= v.revoked) /\ from <= t /\ t < to
  <2>1. PICK t \in Nat : t = IF g <= from THEN from ELSE g
    BY <1>0, <1>1, <1>6
  <2>2. t \in g .. LastInstant /\ from <= t /\ t < to
    BY <1>0, <1>1, <1>5, <1>9, <2>1
  <2>3. v.revoked = None \/ t <= v.revoked
    BY <1>0, <1>1, <1>6, <1>9, <2>1 DEF LicenceAt
  <2>4. QED
    BY <2>2, <2>3
<1>10. ASSUME NEW t \in g .. LastInstant, v.revoked = None \/ t <= v.revoked, from <= t, t < to
       PROVE  g < to /\ (v.revoked = None \/ v.revoked >= from)
  BY <1>0, <1>1, <1>6, <1>10 DEF LicenceAt
<1>11. QED
  BY <1>7, <1>8, <1>9, <1>10

Granted(v) ==
  v.of = "subscription" =>
    /\ v.licences \in Seq([id : Nat, granted : 0 .. LastInstant,
                           revoked : 0 .. LastInstant \cup {None}])
    /\ \A i \in 1 .. Len(v.licences) : v.licences[i].id = i /\ LicenceAt(v.licences[i])

LEMMA Billing ==
  ASSUME input.of = "subscription", Granted(input)
  PROVE  BilledWhileActive
<1> PICK s : s = input.licences
  OBVIOUS
<1>1. /\ s \in Seq([id : Nat, granted : 0 .. LastInstant, revoked : 0 .. LastInstant \cup {None}])
      /\ \A i \in 1 .. Len(s) : s[i].id = i /\ LicenceAt(s[i])
  BY DEF Granted
<1> SUFFICES ASSUME NEW p \in 0 .. PeriodOf(LastInstant)
             PROVE  LET lines == BuildLines(s, p * Period, (p + 1) * Period - 1)
                    IN  {lines[k].id : k \in DOMAIN lines} = {i \in DOMAIN s : ActiveIn(s[i], p)}
  BY DEF BilledWhileActive
<1>0. PICK lines : lines = BuildLines(s, p * Period, (p + 1) * Period - 1)
  OBVIOUS
<1>2. Items(lines)
        = {s[i] : i \in {i \in DOMAIN s : Billed(s[i], p * Period, (p + 1) * Period - 1)}}
  BY <1>0, <1>1, Lined
<1>3. DOMAIN s = 1 .. Len(s)
  BY <1>1
<1>4. \A i \in DOMAIN s : Billed(s[i], p * Period, (p + 1) * Period - 1) <=> ActiveIn(s[i], p)
  BY <1>1, <1>3, BilledAsActive
<1>5. Items(lines) = {s[i] : i \in {i \in DOMAIN s : ActiveIn(s[i], p)}}
  BY <1>2, <1>4
<1>6. \A i \in DOMAIN s : s[i].id = i
  BY <1>1, <1>3
<1>7. {lines[k].id : k \in DOMAIN lines} = {i \in DOMAIN s : ActiveIn(s[i], p)}
  BY ONLY <1>5, <1>6 DEF Items
<1>8. QED
  BY <1>0, <1>7

-----------------------------------------------------------------------------
(***************************************************************************)
(* Sums of sequences.                                                      *)
(***************************************************************************)
SumIn(f, a) == [k \in 0 .. Len(a) |-> IF k = 0 THEN 0 ELSE f[k - 1] + a[k]]

LEMMA SumFound ==
  ASSUME NEW a \in Seq(Int) PROVE \E f : f = SumIn(f, a)
<1> DEFINE n == Len(a)
           A == Int
           step == [k \in 1 .. n |-> [x \in A |-> x + a[k]]]
<1>1. n \in Nat /\ \A k \in 1 .. n : a[k] \in Int
  OBVIOUS
<1>2. step \in [1 .. n -> [A -> A]] /\ 0 \in A
  BY <1>1
<1>3. \A k \in 1 .. n : \A x \in A : step[k][x] = x + a[k]
  OBVIOUS
<1> HIDE DEF step, A
<1>4. PICK f : /\ f = [k \in 0 .. n |-> f[k]] /\ f[0] = 0
               /\ \A k \in 1 .. n : f[k] = step[k][f[k - 1]] /\ f[k - 1] \in A
  <2> HIDE DEF n
  <2>1. PICK base \in A : base = 0
    BY <1>2
  <2>2. \E f : /\ f = [k \in 0 .. n |-> f[k]] /\ f[0] = base
               /\ \A k \in 1 .. n : f[k] = step[k][f[k - 1]] /\ f[k - 1] \in A
    BY ONLY <1>1, <1>2, Recursion, base \in A
  <2>3. QED
    BY <2>1, <2>2
<1>5. \A k \in 0 .. n : f[k] = IF k = 0 THEN 0 ELSE f[k - 1] + a[k]
  <2>1. \A k \in 0 .. n : k = 0 \/ k \in 1 .. n
    BY <1>1
  <2>2. QED
    BY <1>3, <1>4, <2>1
<1>6. f = [k \in 0 .. n |-> f[k]]
  BY <1>4
<1>7. f = SumIn(f, a)
  BY <1>5, <1>6 DEF SumIn
<1>8. QED
  BY <1>7

\* The sums of the first numbers of a, up to the sum of all.
Sums(f, a) ==
  /\ f[0] = 0 /\ f[Len(a)] = SumOf(a)
  /\ \A k \in 0 .. Len(a) : f[k] \in Int
  /\ \A k \in 1 .. Len(a) : f[k] = f[k - 1] + a[k]

LEMMA Summed ==
  ASSUME NEW a \in Seq(Int) PROVE \E f : Sums(f, a)
<1> DEFINE f == CHOOSE f : f = SumIn(f, a)
           n == Len(a)
           S == {k \in 0 .. n : f[k] \in Int}
<1>1. SumOf(a) = f[n]
  BY DEF SumOf, SumIn
<1>2. f = SumIn(f, a)
  BY SumFound
<1> HIDE DEF f
<1>3. n \in Nat /\ \A k \in 1 .. n : a[k] \in Int
  OBVIOUS
<1>4. \A k \in 0 .. n : f[k] = IF k = 0 THEN 0 ELSE f[k - 1] + a[k]
  BY <1>2 DEF SumIn
<1> HIDE DEF n
<1>5. f[0] = 0 /\ \A k \in 1 .. n : f[k] = f[k - 1] + a[k]
  BY <1>3, <1>4
<1>6. 0 \in S
  BY <1>3, <1>5
<1>7. \A k \in 1 .. n : k - 1 \in S => k \in S
  BY <1>3, <1>5
<1> HIDE DEF S
<1>8. 0 .. n \subseteq S
  BY <1>3, <1>6, <1>7, UpTo
<1>9. Sums(f, a)
  BY <1>1, <1>5, <1>8 DEF Sums, S, n
<1>10. QED
  BY <1>9

LEMMA SumTyped ==
  ASSUME NEW a \in Seq(Int) PROVE SumOf(a) \in Int
<1>1. PICK f : Sums(f, a)
  BY Summed
<1>2. Len(a) \in 0 .. Len(a)
  OBVIOUS
<1>3. QED
  BY <1>1, <1>2 DEF Sums

LEMMA SumAppended ==
  ASSUME NEW a \in Seq(Int), NEW v \in Int
  PROVE  SumOf(Append(a, v)) = SumOf(a) + v
<1> PICK n \in Nat : n = Len(a)
  OBVIOUS
<1>0. PICK b : b = Append(a, v)
  OBVIOUS
<1>1. /\ b \in Seq(Int) /\ Len(b) = n + 1 /\ b[n + 1] = v
      /\ \A k \in 1 .. n : b[k] = a[k]
  BY <1>0
<1>2. PICK f : Sums(f, a)
  BY Summed
<1>3. PICK g : Sums(g, b)
  BY <1>1, Summed
<1>4. /\ f[0] = 0 /\ f[n] = SumOf(a) /\ f[n] \in Int
      /\ \A k \in 1 .. n : f[k] = f[k - 1] + a[k]
  BY <1>2 DEF Sums
<1>5. /\ g[0] = 0 /\ g[n + 1] = SumOf(b)
      /\ \A k \in 1 .. n + 1 : g[k] = g[k - 1] + b[k]
  BY <1>1, <1>3 DEF Sums
<1> DEFINE S == {k \in 0 .. n : g[k] = f[k]}
<1>6. 0 \in S
  BY <1>4, <1>5
<1>7. ASSUME NEW k \in 1 .. n, k - 1 \in S PROVE k \in S
  <2>1. k \in 1 .. n + 1 /\ k \in 0 .. n
    OBVIOUS
  <2>2. QED
    BY <1>1, <1>4, <1>5, <1>7, <2>1
<1> HIDE DEF S
<1>8. 0 .. n \subseteq S
  BY <1>6, <1>7, UpTo
<1>9. g[n] = f[n]
  BY <1>8 DEF S
<1>10. g[n + 1] = g[n] + b[n + 1]
  <2>1. n + 1 \in 1 .. n + 1 /\ n + 1 - 1 = n
    OBVIOUS
  <2>2. QED
    BY <1>5, <2>1
<1>11. QED
  BY <1>0, <1>1, <1>4, <1>5, <1>9, <1>10

LEMMA SumChanged ==
  ASSUME NEW a \in Seq(Int), NEW b \in Seq(Int), Len(b) = Len(a), NEW p \in 1 .. Len(a),
         \A k \in 1 .. Len(a) : k # p => b[k] = a[k]
  PROVE  SumOf(b) = SumOf(a) - a[p] + b[p]
<1> PICK n \in Nat : n = Len(a)
  OBVIOUS
<1>1. PICK f : Sums(f, a)
  BY Summed
<1>2. PICK g : Sums(g, b)
  BY Summed
<1>3. /\ f[0] = 0 /\ f[n] = SumOf(a) /\ \A k \in 0 .. n : f[k] \in Int
      /\ \A k \in 1 .. n : f[k] = f[k - 1] + a[k]
  BY <1>1 DEF Sums
<1>4. /\ g[0] = 0 /\ g[n] = SumOf(b) /\ \A k \in 0 .. n : g[k] \in Int
      /\ \A k \in 1 .. n : g[k] = g[k - 1] + b[k]
  BY <1>2 DEF Sums
<1>5. \A k \in 1 .. n : a[k] \in Int /\ b[k] \in Int
  OBVIOUS
<1> DEFINE S == {k \in 0 .. n : g[k] = IF k < p THEN f[k] ELSE f[k] - a[p] + b[p]}
<1>6. 0 \in S
  BY <1>3, <1>4
<1>7. ASSUME NEW k \in 1 .. n, k - 1 \in S PROVE k \in S
  <2>1. k - 1 \in 0 .. n /\ k \in 0 .. n
    OBVIOUS
  <2>2. g[k - 1] = IF k - 1 < p THEN f[k - 1] ELSE f[k - 1] - a[p] + b[p]
    BY <1>7
  <2>3. /\ g[k] = g[k - 1] + b[k] /\ f[k] = f[k - 1] + a[k]
        /\ g[k - 1] \in Int /\ f[k - 1] \in Int /\ f[k] \in Int
        /\ a[k] \in Int /\ b[k] \in Int /\ a[p] \in Int /\ b[p] \in Int
    BY <1>3, <1>4, <1>5, <2>1
  <2>4. CASE k = p
    BY <2>1, <2>2, <2>3, <2>4
  <2>5. CASE k # p
    <3>1. b[k] = a[k]
      BY <2>5
    <3>2. CASE k < p
      BY <2>1, <2>2, <2>3, <3>1, <3>2
    <3>3. CASE k > p
      <4>1. ~ (k - 1 < p) /\ ~ (k < p)
        BY <3>3
      <4>2. g[k - 1] = f[k - 1] - a[p] + b[p]
        BY <2>2, <4>1
      <4>3. g[k] = f[k] - a[p] + b[p]
        BY ONLY <2>3, <3>1, <4>2
      <4>4. QED
        BY <2>1, <4>1, <4>3
    <3>4. QED
      BY <2>5, <3>2, <3>3
  <2>6. QED
    BY <2>4, <2>5
<1> HIDE DEF S
<1>8. 0 .. n \subseteq S
  BY <1>6, <1>7, UpTo
<1>9. n \in 0 .. n
  OBVIOUS
<1>10. g[n] = f[n] - a[p] + b[p]
  BY <1>8, <1>9 DEF S
<1>11. QED
  BY <1>3, <1>4, <1>10

LEMMA SumAdded ==
  ASSUME NEW a \in Seq(Int), NEW b \in Seq(Int), NEW c \in Seq(Int), NEW n \in Nat,
         n = Len(a), Len(b) = n, Len(c) = n, \A k \in 1 .. n : c[k] = a[k] + b[k]
  PROVE  SumOf(c) = SumOf(a) + SumOf(b)
<1>1. PICK f : Sums(f, a)
  BY Summed
<1>2. PICK g : Sums(g, b)
  BY Summed
<1>3. PICK h : Sums(h, c)
  BY Summed
<1>4. /\ f[0] = 0 /\ f[n] = SumOf(a) /\ \A k \in 0 .. n : f[k] \in Int
      /\ \A k \in 1 .. n : f[k] = f[k - 1] + a[k]
  BY <1>1 DEF Sums
<1>5. /\ g[0] = 0 /\ g[n] = SumOf(b) /\ \A k \in 0 .. n : g[k] \in Int
      /\ \A k \in 1 .. n : g[k] = g[k - 1] + b[k]
  BY <1>2 DEF Sums
<1>6. /\ h[0] = 0 /\ h[n] = SumOf(c)
      /\ \A k \in 1 .. n : h[k] = h[k - 1] + c[k]
  BY <1>3 DEF Sums
<1> DEFINE S == {k \in 0 .. n : h[k] = f[k] + g[k]}
<1>7. 0 \in S
  BY <1>4, <1>5, <1>6
<1>8. ASSUME NEW k \in 1 .. n, k - 1 \in S PROVE k \in S
  <2>1. k - 1 \in 0 .. n /\ k \in 0 .. n /\ a[k] \in Int /\ b[k] \in Int
    OBVIOUS
  <2>2. f[k - 1] \in Int /\ g[k - 1] \in Int /\ h[k - 1] = f[k - 1] + g[k - 1]
    BY <1>4, <1>5, <1>8, <2>1
  <2>3. h[k] = h[k - 1] + c[k] /\ f[k] = f[k - 1] + a[k] /\ g[k] = g[k - 1] + b[k]
    BY <1>4, <1>5, <1>6
  <2>4. h[k] = f[k] + g[k]
    BY <2>1, <2>2, <2>3
  <2>5. QED
    BY <2>1, <2>4
<1> HIDE DEF S
<1>9. 0 .. n \subseteq S
  BY <1>7, <1>8, UpTo
<1>10. n \in 0 .. n
  OBVIOUS
<1>11. h[n] = f[n] + g[n]
  BY <1>9, <1>10 DEF S
<1>12. QED
  BY <1>4, <1>5, <1>6, <1>11

-----------------------------------------------------------------------------
(***************************************************************************)
(* Breakdowns.                                                             *)
(***************************************************************************)
Entry == [name : Names, amount : Int]

Amounts(b) == [k \in DOMAIN b |-> b[k].amount]

\* No name has two entries.
Unique(b) == \A j, k \in DOMAIN b : b[j].name = b[k].name => j = k

LEMMA AmountsTyped ==
  ASSUME NEW b \in Seq(Entry)
  PROVE  Amounts(b) \in Seq(Int) /\ Len(Amounts(b)) = Len(b)
<1>1. Len(b) \in Nat /\ DOMAIN b = 1 .. Len(b) /\ \A k \in 1 .. Len(b) : b[k].amount \in Int
  <2>1. Len(b) \in Nat /\ DOMAIN b = 1 .. Len(b) /\ \A k \in 1 .. Len(b) : b[k] \in Entry
    OBVIOUS
  <2>2. QED
    BY <2>1 DEF Entry
<1>2. Amounts(b) = [k \in 1 .. Len(b) |-> b[k].amount]
  BY <1>1 DEF Amounts
<1>3. QED
  BY <1>1, <1>2

\* A name that is not listed is added at the end.
LEMMA PutNew ==
  ASSUME NEW b \in Seq(Entry), NEW name \in Names, NEW v \in Int,
         \A k \in DOMAIN b : b[k].name # name
  PROVE  /\ Put(b, name, v) = Append(b, [name |-> name, amount |-> v])
         /\ Put(b, name, v) \in Seq(Entry)
         /\ Total(Put(b, name, v)) = Total(b) + v
<1>0. PICK e \in Entry : e = [name |-> name, amount |-> v]
  BY DEF Entry
<1>1. Put(b, name, v) = Append(b, e)
  BY <1>0 DEF Put
<1>2. Append(b, e) \in Seq(Entry)
  OBVIOUS
<1>3. Amounts(Append(b, e)) = Append(Amounts(b), v)
  <2>1. PICK n \in Nat : n = Len(b)
    OBVIOUS
  <2>2. PICK a \in Seq(Int) : a = Amounts(b)
    BY AmountsTyped
  <2>3. a \in Seq(Int) /\ Len(a) = n /\ \A k \in 1 .. n : a[k] = b[k].amount
    BY <2>1, <2>2, AmountsTyped DEF Amounts
  <2>4. /\ DOMAIN Append(a, v) = 1 .. n + 1 /\ Append(a, v)[n + 1] = v
        /\ \A k \in 1 .. n : Append(a, v)[k] = a[k]
    BY <2>3
  <2>5. /\ DOMAIN Append(b, e) = 1 .. n + 1 /\ Append(b, e)[n + 1] = e
        /\ \A k \in 1 .. n : Append(b, e)[k] = b[k]
    BY <2>1
  <2>6. PICK c : c = Append(b, e)
    OBVIOUS
  <2>7. Amounts(c) = [k \in 1 .. n + 1 |-> c[k].amount]
    BY <2>5, <2>6 DEF Amounts
  <2>8. \A k \in 1 .. n + 1 : c[k].amount = Append(a, v)[k]
    BY <1>0, <2>3, <2>4, <2>5, <2>6
  <2>9. Append(a, v) = [k \in 1 .. n + 1 |-> Append(a, v)[k]]
    <3>0. Append(a, v) \in Seq(Int)
      BY ONLY a \in Seq(Int), v \in Int
    <3>1. PICK d \in Seq(Int) : d = Append(a, v)
      BY <3>0
    <3>2. d = [k \in DOMAIN d |-> d[k]]
      OBVIOUS
    <3>3. QED
      BY <2>4, <3>1, <3>2
  <2>10. Amounts(c) = Append(a, v)
    BY ONLY <2>7, <2>8, <2>9
  <2>11. QED
    BY <2>2, <2>6, <2>10
<1>4. Amounts(b) \in Seq(Int)
  BY AmountsTyped
<1>5. SumOf(Append(Amounts(b), v)) = SumOf(Amounts(b)) + v
  BY <1>4, SumAppended
<1>6. Total(Append(b, e)) = Total(b) + v
  BY <1>3, <1>5 DEF Total, Amounts
<1>7. QED
  BY <1>0, <1>1, <1>2, <1>6

\* One that is listed keeps its place.
LEMMA PutAgain ==
  ASSUME NEW b \in Seq(Entry), Unique(b), NEW v \in Int, NEW p \in DOMAIN b
  PROVE  /\ Put(b, b[p].name, v)
              = [k \in DOMAIN b |-> IF k = p THEN [name |-> b[p].name, amount |-> v] ELSE b[k]]
         /\ Put(b, b[p].name, v) \in Seq(Entry)
         /\ Total(Put(b, b[p].name, v)) = Total(b) - b[p].amount + v
<1> PICK n \in Nat : n = Len(b)
  OBVIOUS
<1>1. DOMAIN b = 1 .. n /\ \A k \in 1 .. n : b[k] \in Entry
  OBVIOUS
<1>2. PICK e \in Entry : e = [name |-> b[p].name, amount |-> v]
  BY <1>1 DEF Entry
<1> DEFINE c == [k \in 1 .. n |-> IF k = p THEN e ELSE b[k]]
<1>3. Put(b, b[p].name, v) = c
  <2>1. \E k \in DOMAIN b : b[k].name = b[p].name
    OBVIOUS
  <2>2. Put(b, b[p].name, v) = [k \in DOMAIN b |-> IF b[k].name = b[p].name THEN e ELSE b[k]]
    BY <1>2, <2>1 DEF Put
  <2>3. \A k \in DOMAIN b : b[k].name = b[p].name <=> k = p
    BY DEF Unique
  <2>4. QED
    BY <1>1, <2>2, <2>3
<1>4. c \in Seq(Entry) /\ Len(c) = n
  BY <1>1
<1>5. \A k \in 1 .. n : c[k] = IF k = p THEN e ELSE b[k]
  OBVIOUS
<1> HIDE DEF c
<1>6. /\ Amounts(c) \in Seq(Int) /\ Len(Amounts(c)) = n
      /\ Amounts(b) \in Seq(Int) /\ Len(Amounts(b)) = n
  BY <1>4, AmountsTyped
<1>7. /\ \A k \in 1 .. n : Amounts(c)[k] = c[k].amount
      /\ \A k \in 1 .. n : Amounts(b)[k] = b[k].amount
  BY <1>1, <1>4 DEF Amounts
<1>8. /\ Amounts(c)[p] = v /\ Amounts(b)[p] = b[p].amount
      /\ \A k \in 1 .. n : k # p => Amounts(c)[k] = Amounts(b)[k]
  BY <1>1, <1>2, <1>5, <1>7
<1>9. SumOf(Amounts(c)) = SumOf(Amounts(b)) - Amounts(b)[p] + Amounts(c)[p]
  BY <1>1, <1>6, <1>8, SumChanged
<1>10. Total(c) = Total(b) - b[p].amount + v
  BY <1>8, <1>9 DEF Total, Amounts
<1>11. QED
  BY <1>1, <1>2, <1>3, <1>4, <1>10 DEF c

-----------------------------------------------------------------------------
(***************************************************************************)
(* The two passes over the components.                                     *)
(***************************************************************************)
Val(c) == FirstValue(c, Basic, DaysWorked, DefaultConfig)

Acc == [gross : Int, earnings : Seq(Entry), deductions : Seq(Entry)]

LEMMA ShareTyped ==
  ASSUME NEW x \in Int, NEW y \in Int PROVE Share(x, y) \in Int
<1>1. x * y \in Int
  OBVIOUS
<1>2. QED
  BY <1>1 DEF Share, HalfUp

LEMMA ValTyped ==
  ASSUME NEW c \in Component PROVE Val(c) \in Int
<1>1. PICK v \in Int, basic \in Int, days \in Int :
        v = c.value /\ basic = Basic /\ days = DaysWorked
  <2>1. c.value \in Values
    BY DEF Component
  <2>2. Values \subseteq Nat /\ Basic \in Nat /\ DaysWorked \in Nat
    BY ArithmeticAssumption
  <2>3. c.value \in Nat
    BY <2>1, <2>2
  <2>4. QED
    BY <2>2, <2>3
<1>2. c.calculation = "fixed" => Val(c) = HalfUp(v * days, 26)
  BY <1>1 DEF Val, FirstValue, DefaultConfig, WORKING_DAYS_PER_MONTH
<1>3. v * days \in Int
  OBVIOUS
<1>4. HalfUp(v * days, 26) \in Int
  BY <1>3 DEF HalfUp
<1>5. Share(basic, v) \in Int
  BY ShareTyped
<1>6. c.calculation \in {"fixed", "percentage_of_basic", "percentage_of_gross"}
  BY DEF Component, Calculations
<1>7. QED
  BY <1>1, <1>2, <1>4, <1>5, <1>6 DEF Val, FirstValue

LEMMA PutTyped ==
  ASSUME NEW b \in Seq(Entry), NEW name \in Names, NEW v \in Int
  PROVE  Put(b, name, v) \in Seq(Entry)
<1>1. PICK e \in Entry : e = [name |-> name, amount |-> v]
  BY DEF Entry
<1>2. Append(b, e) \in Seq(Entry)
  OBVIOUS
<1>3. [k \in DOMAIN b |-> IF b[k].name = name THEN e ELSE b[k]] \in Seq(Entry)
  <2>1. DOMAIN b = 1 .. Len(b) /\ Len(b) \in Nat /\ \A k \in 1 .. Len(b) : b[k] \in Entry
    OBVIOUS
  <2>2. QED
    BY <2>1
<1>4. QED
  BY <1>1, <1>2, <1>3 DEF Put

LEMMA CountedTyped ==
  ASSUME NEW acc \in Acc, NEW c \in Component, NEW v \in Int
  PROVE  Counted(acc, c, v) \in Acc
<1>1. /\ acc.gross \in Int /\ acc.earnings \in Seq(Entry) /\ acc.deductions \in Seq(Entry)
      /\ c.name \in Names
  BY DEF Acc, Component
<1>2. /\ Put(acc.earnings, c.name, v) \in Seq(Entry)
      /\ Put(acc.deductions, c.name, v) \in Seq(Entry)
  BY <1>1, PutTyped
<1>3. c.type = "earning" =>
        Counted(acc, c, v) = [gross |-> acc.gross + v, earnings |-> Put(acc.earnings, c.name, v),
                              deductions |-> acc.deductions]
  BY DEF Counted, Acc
<1>4. c.type # "earning" =>
        Counted(acc, c, v) = [gross |-> acc.gross, earnings |-> acc.earnings,
                              deductions |-> Put(acc.deductions, c.name, v)]
  BY DEF Counted, Acc
<1>5. acc.gross + v \in Int
  BY <1>1
<1>6. QED
  BY <1>1, <1>2, <1>3, <1>4, <1>5 DEF Acc

FirstIn(f, s) ==
  [k \in 0 .. Len(s) |->
     IF k = 0 THEN Opening(Basic)
     ELSE Counted(f[k - 1], s[k], FirstValue(s[k], Basic, DaysWorked, DefaultConfig))]

SecondIn(f, s, first) ==
  [k \in 0 .. Len(s) |->
     IF k = 0 THEN first
     ELSE IF OfGross(s[k]) THEN Counted(f[k - 1], s[k], Share(f[k - 1].gross, s[k].value))
     ELSE f[k - 1]]

\* What the passes have come to after each component.
FirstRun(f, s) ==
  /\ f[0] = Opening(Basic) /\ f[Len(s)] = FirstPass(s, Basic, DaysWorked, DefaultConfig)
  /\ \A k \in 0 .. Len(s) : f[k] \in Acc
  /\ \A k \in 1 .. Len(s) : f[k] = Counted(f[k - 1], s[k], Val(s[k]))

SecondRun(f, s, first) ==
  /\ f[0] = first /\ f[Len(s)] = SecondPass(s, first)
  /\ \A k \in 0 .. Len(s) : f[k] \in Acc
  /\ \A k \in 1 .. Len(s) :
       f[k] = IF OfGross(s[k]) THEN Counted(f[k - 1], s[k], Share(f[k - 1].gross, s[k].value))
              ELSE f[k - 1]

LEMMA Opened == Opening(Basic) \in Acc
<1>1. Basic \in Int
  BY ArithmeticAssumption
<1>2. <<>> \in Seq(Entry)
  OBVIOUS
<1>3. QED
  BY <1>1, <1>2 DEF Opening, Acc

LEMMA FirstFound ==
  ASSUME NEW s \in Seq(Component) PROVE \E f : f = FirstIn(f, s)
<1> DEFINE n == Len(s)
           step == [k \in 1 .. n |-> [acc \in Acc |-> Counted(acc, s[k], Val(s[k]))]]
<1>1. n \in Nat /\ \A k \in 1 .. n : s[k] \in Component
  OBVIOUS
<1>2. step \in [1 .. n -> [Acc -> Acc]]
  <2>1. ASSUME NEW k \in 1 .. n, NEW acc \in Acc PROVE Counted(acc, s[k], Val(s[k])) \in Acc
    BY <1>1, ValTyped, CountedTyped
  <2>2. QED
    BY <2>1
<1>3. \A k \in 1 .. n : \A acc \in Acc : step[k][acc] = Counted(acc, s[k], Val(s[k]))
  OBVIOUS
<1> HIDE DEF step
<1>4. PICK f : /\ f = [k \in 0 .. n |-> f[k]] /\ f[0] = Opening(Basic)
               /\ \A k \in 1 .. n : f[k] = step[k][f[k - 1]] /\ f[k - 1] \in Acc
  <2> HIDE DEF n
  <2>1. QED
    BY <1>1, <1>2, Opened, Recursion
<1>5. \A k \in 0 .. n : f[k] = IF k = 0 THEN Opening(Basic)
                               ELSE Counted(f[k - 1], s[k], Val(s[k]))
  <2>1. \A k \in 0 .. n : k = 0 \/ k \in 1 .. n
    BY <1>1
  <2>2. QED
    BY <1>3, <1>4, <2>1
<1>6. f = [k \in 0 .. n |-> f[k]]
  BY <1>4
<1>7. f = FirstIn(f, s)
  BY <1>5, <1>6 DEF FirstIn, Val
<1>8. QED
  BY <1>7

LEMMA FirstRuns ==
  ASSUME NEW s \in Seq(Component) PROVE \E f : FirstRun(f, s)
<1> DEFINE f == CHOOSE f : f = FirstIn(f, s)
           n == Len(s)
           S == {k \in 0 .. n : f[k] \in Acc}
<1>1. FirstPass(s, Basic, DaysWorked, DefaultConfig) = f[n]
  BY DEF FirstPass, FirstIn
<1>2. f = FirstIn(f, s)
  BY FirstFound
<1> HIDE DEF f
<1>3. n \in Nat /\ \A k \in 1 .. n : s[k] \in Component
  OBVIOUS
<1>4. \A k \in 0 .. n : f[k] = IF k = 0 THEN Opening(Basic)
                               ELSE Counted(f[k - 1], s[k], Val(s[k]))
  BY <1>2 DEF FirstIn, Val
<1> HIDE DEF n
<1>5. f[0] = Opening(Basic) /\ \A k \in 1 .. n : f[k] = Counted(f[k - 1], s[k], Val(s[k]))
  BY <1>3, <1>4
<1>6. 0 \in S
  BY <1>3, <1>5, Opened
<1>7. ASSUME NEW k \in 1 .. n, k - 1 \in S PROVE k \in S
  <2>1. f[k - 1] \in Acc /\ Val(s[k]) \in Int /\ s[k] \in Component
    BY <1>3, <1>7, ValTyped
  <2>2. Counted(f[k - 1], s[k], Val(s[k])) \in Acc
    BY <2>1, CountedTyped
  <2>3. QED
    BY <1>3, <1>5, <2>2
<1> HIDE DEF S
<1>8. 0 .. n \subseteq S
  BY <1>3, <1>6, <1>7, UpTo
<1>9. FirstRun(f, s)
  BY <1>1, <1>5, <1>8 DEF FirstRun, S, n
<1>10. QED
  BY <1>9

LEMMA LateTyped ==
  ASSUME NEW acc \in Acc, NEW c \in Component
  PROVE  Share(acc.gross, c.value) \in Int
<1>1. acc.gross \in Int /\ c.value \in Values
  BY DEF Acc, Component
<1>2. Values \subseteq Nat
  BY ArithmeticAssumption
<1>3. c.value \in Nat
  BY <1>1, <1>2
<1>4. c.value \in Int
  BY <1>3
<1>5. QED
  BY <1>1, <1>4, ShareTyped

LEMMA SecondTyped ==
  ASSUME NEW acc \in Acc, NEW c \in Component
  PROVE  (IF OfGross(c) THEN Counted(acc, c, Share(acc.gross, c.value)) ELSE acc) \in Acc
BY LateTyped, CountedTyped

LEMMA SecondFound ==
  ASSUME NEW s \in Seq(Component), NEW first \in Acc PROVE \E f : f = SecondIn(f, s, first)
<1> DEFINE n == Len(s)
           Next2(acc, c) == IF OfGross(c) THEN Counted(acc, c, Share(acc.gross, c.value)) ELSE acc
           step == [k \in 1 .. n |-> [acc \in Acc |-> Next2(acc, s[k])]]
<1>1. n \in Nat /\ \A k \in 1 .. n : s[k] \in Component
  OBVIOUS
<1>2. step \in [1 .. n -> [Acc -> Acc]]
  <2>1. ASSUME NEW k \in 1 .. n, NEW acc \in Acc PROVE Next2(acc, s[k]) \in Acc
    BY <1>1, SecondTyped
  <2> HIDE DEF Next2
  <2>2. QED
    BY <2>1
<1>3. \A k \in 1 .. n : \A acc \in Acc : step[k][acc] = Next2(acc, s[k])
  <2> HIDE DEF Next2
  <2>1. QED
    OBVIOUS
<1> HIDE DEF step, Next2
<1>4. PICK f : /\ f = [k \in 0 .. n |-> f[k]] /\ f[0] = first
               /\ \A k \in 1 .. n : f[k] = step[k][f[k - 1]] /\ f[k - 1] \in Acc
  <2> HIDE DEF n
  <2>1. QED
    BY <1>1, <1>2, Recursion
<1>5. \A k \in 0 .. n : f[k] = IF k = 0 THEN first ELSE Next2(f[k - 1], s[k])
  <2>1. \A k \in 0 .. n : k = 0 \/ k \in 1 .. n
    BY <1>1
  <2>2. QED
    BY <1>3, <1>4, <2>1
<1>6. f = [k \in 0 .. n |-> f[k]]
  BY <1>4
<1>7. f = [k \in 0 .. n |-> IF k = 0 THEN first ELSE Next2(f[k - 1], s[k])]
  BY <1>5, <1>6
<1>8. f = SecondIn(f, s, first)
  BY <1>7 DEF SecondIn, Next2
<1>9. QED
  BY <1>8

LEMMA SecondRuns ==
  ASSUME NEW s \in Seq(Component), NEW first \in Acc PROVE \E f : SecondRun(f, s, first)
<1> DEFINE f == CHOOSE f : f = SecondIn(f, s, first)
           n == Len(s)
           Next2(acc, c) == IF OfGross(c) THEN Counted(acc, c, Share(acc.gross, c.value)) ELSE acc
           S == {k \in 0 .. n : f[k] \in Acc}
<1>1. SecondPass(s, first) = f[n]
  BY DEF SecondPass, SecondIn
<1>2. f = SecondIn(f, s, first)
  BY SecondFound
<1> HIDE DEF f
<1>3. n \in Nat /\ \A k \in 1 .. n : s[k] \in Component
  OBVIOUS
<1>4. f = [k \in 0 .. n |-> IF k = 0 THEN first ELSE Next2(f[k - 1], s[k])]
  BY <1>2 DEF SecondIn
<1>5. \A acc \in Acc, c \in Component : Next2(acc, c) \in Acc
  BY SecondTyped
<1> HIDE DEF n, Next2
<1>6. f[0] = first /\ \A k \in 1 .. n : f[k] = Next2(f[k - 1], s[k])
  <2>1. \A k \in 0 .. n : f[k] = IF k = 0 THEN first ELSE Next2(f[k - 1], s[k])
    BY <1>4
  <2>2. QED
    BY <1>3, <2>1
<1>7. 0 \in S
  BY <1>3, <1>6
<1>8. \A k \in 1 .. n : k - 1 \in S => k \in S
  BY <1>3, <1>5, <1>6
<1> HIDE DEF S
<1>9. 0 .. n \subseteq S
  BY <1>3, <1>7, <1>8, UpTo
<1>10. SecondRun(f, s, first)
  BY <1>1, <1>6, <1>9 DEF SecondRun, S, n, Next2
<1>11. QED
  BY <1>10

-----------------------------------------------------------------------------
NamesIn(b) == {b[k].name : k \in DOMAIN b}

Lists(b, name, v) == \E k \in DOMAIN b : b[k].name = name /\ b[k].amount = v

LEMMA AddedEntry ==
  ASSUME NEW b \in Seq(Entry), NEW name \in Names, NEW v \in Int,
         name \notin NamesIn(b), Unique(b)
  PROVE  /\ Put(b, name, v) \in Seq(Entry) /\ Total(Put(b, name, v)) = Total(b) + v
         /\ Unique(Put(b, name, v)) /\ NamesIn(Put(b, name, v)) = NamesIn(b) \cup {name}
         /\ Lists(Put(b, name, v), name, v)
<1> PICK n \in Nat : n = Len(b)
  OBVIOUS
<1>p. \A k \in DOMAIN b : b[k].name # name
  BY DEF NamesIn
<1>q. /\ Put(b, name, v) = Append(b, [name |-> name, amount |-> v])
      /\ Put(b, name, v) \in Seq(Entry) /\ Total(Put(b, name, v)) = Total(b) + v
  BY <1>p, PutNew
<1>c. PICK c : c = Put(b, name, v)
  OBVIOUS
<1>1. PICK e : e = [name |-> name, amount |-> v]
  OBVIOUS
<1>2. DOMAIN b = 1 .. n
  OBVIOUS
<1>3. DOMAIN c = 1 .. n + 1 /\ c[n + 1] = e /\ \A k \in 1 .. n : c[k] = b[k]
  BY <1>1, <1>c, <1>q
<1>4. e.name = name /\ e.amount = v /\ \A k \in 1 .. n : b[k].name # name
  BY <1>1, <1>2 DEF NamesIn
<1>5. Unique(c)
  <2> SUFFICES ASSUME NEW j \in 1 .. n + 1, NEW k \in 1 .. n + 1, c[j].name = c[k].name
               PROVE  j = k
    BY <1>3 DEF Unique
  <2>1. CASE j \in 1 .. n /\ k \in 1 .. n
    BY <1>2, <1>3, <2>1 DEF Unique
  <2>2. CASE j = n + 1 \/ k = n + 1
    <3>1. j # n + 1 => j \in 1 .. n
      OBVIOUS
    <3>2. k # n + 1 => k \in 1 .. n
      OBVIOUS
    <3>3. QED
      BY <1>3, <1>4, <2>2, <3>1, <3>2
  <2>3. QED
    BY <2>1, <2>2
<1>6. NamesIn(c) = NamesIn(b) \cup {name}
  <2>1. \A k \in 1 .. n + 1 : k \in 1 .. n \/ k = n + 1
    OBVIOUS
  <2>2. n + 1 \in 1 .. n + 1 /\ \A k \in 1 .. n : k \in 1 .. n + 1
    OBVIOUS
  <2>3. QED
    BY <1>2, <1>3, <1>4, <2>1, <2>2 DEF NamesIn
<1>7. Lists(c, name, v)
  <2>1. n + 1 \in 1 .. n + 1
    OBVIOUS
  <2>2. QED
    BY <1>3, <1>4, <2>1 DEF Lists
<1>8. QED
  BY <1>5, <1>6, <1>7, <1>c, <1>q

LEMMA AddedKeeps ==
  ASSUME NEW b \in Seq(Entry), NEW name \in Names, NEW v \in Int,
         name \notin NamesIn(b), NEW other, NEW w, Lists(b, other, w)
  PROVE  Lists(Put(b, name, v), other, w)
<1> PICK n \in Nat : n = Len(b)
  OBVIOUS
<1>1. PICK c : c = Put(b, name, v)
  OBVIOUS
<1>2. \A k \in DOMAIN b : b[k].name # name
  BY DEF NamesIn
<1>3. c = Append(b, [name |-> name, amount |-> v])
  BY <1>1, <1>2, PutNew
<1>4. /\ DOMAIN b = 1 .. n /\ DOMAIN c = 1 .. n + 1
      /\ \A k \in 1 .. n : k \in 1 .. n + 1 /\ c[k] = b[k]
  BY <1>3
<1>5. Lists(c, other, w)
  BY <1>4 DEF Lists
<1>6. QED
  BY <1>1, <1>5

LEMMA ChangedEntry ==
  ASSUME NEW b \in Seq(Entry), Unique(b), NEW v \in Int, NEW p \in DOMAIN b
  PROVE  /\ Put(b, b[p].name, v) \in Seq(Entry) /\ Unique(Put(b, b[p].name, v))
         /\ Total(Put(b, b[p].name, v)) = Total(b) - b[p].amount + v
<1>1. PICK c : c = Put(b, b[p].name, v)
  OBVIOUS
<1>2. /\ c = [k \in DOMAIN b |-> IF k = p THEN [name |-> b[p].name, amount |-> v] ELSE b[k]]
      /\ c \in Seq(Entry) /\ Total(c) = Total(b) - b[p].amount + v
  BY <1>1, PutAgain
<1>3. DOMAIN c = DOMAIN b /\ \A k \in DOMAIN b : c[k].name = b[k].name
  BY <1>2
<1>4. Unique(c)
  BY <1>3 DEF Unique
<1>5. QED
  BY <1>1, <1>2, <1>4

LEMMA ChangedKeeps ==
  ASSUME NEW b \in Seq(Entry), Unique(b), NEW v \in Int, NEW p \in DOMAIN b,
         NEW other, NEW w, Lists(b, other, w), other # b[p].name
  PROVE  Lists(Put(b, b[p].name, v), other, w)
<1>1. PICK c : c = Put(b, b[p].name, v)
  OBVIOUS
<1>2. c = [k \in DOMAIN b |-> IF k = p THEN [name |-> b[p].name, amount |-> v] ELSE b[k]]
  BY <1>1, PutAgain
<1>3. PICK k \in DOMAIN b : b[k].name = other /\ b[k].amount = w
  BY DEF Lists
<1>4. k # p /\ k \in DOMAIN c /\ c[k] = b[k]
  BY <1>2, <1>3
<1>5. Lists(c, other, w)
  BY <1>3, <1>4 DEF Lists
<1>6. QED
  BY <1>1, <1>5

-----------------------------------------------------------------------------
\* What is earned and deducted for a component in the first pass and, if it is a
\* percentage of the gross, in the second.
Earned(c) == IF c.type = "earning" THEN Val(c) ELSE 0
Deducted(c) == IF c.type = "earning" THEN 0 ELSE Val(c)

Differ(s) == \A i, j \in DOMAIN s : s[i].name = s[j].name => i = j

Before(s, k) == {s[i].name : i \in 1 .. k}

\* With e and d the sums of what the first components earn and deduct.
FirstHolds(acc, s, k, e, d) ==
  /\ acc.gross = Basic + e[k] /\ Total(acc.earnings) = e[k] /\ Total(acc.deductions) = d[k]
  /\ Unique(acc.earnings) /\ NamesIn(acc.earnings) \subseteq Before(s, k)
  /\ Unique(acc.deductions) /\ NamesIn(acc.deductions) \subseteq Before(s, k)
  /\ \A i \in 1 .. k : s[i].type # "earning" => Lists(acc.deductions, s[i].name, Val(s[i]))

LEMMA FirstKeeps ==
  ASSUME NEW s \in Seq(Component), Differ(s), NEW k \in 1 .. Len(s), NEW acc \in Acc,
         NEW e, NEW d, e[k - 1] \in Int, d[k - 1] \in Int,
         e[k] = e[k - 1] + Earned(s[k]), d[k] = d[k - 1] + Deducted(s[k]),
         FirstHolds(acc, s, k - 1, e, d)
  PROVE  FirstHolds(Counted(acc, s[k], Val(s[k])), s, k, e, d)
<1>1. PICK c \in Component : c = s[k]
  OBVIOUS
<1>2. PICK v \in Int : v = Val(c)
  BY ValTyped
<1>3. PICK new : new = Counted(acc, c, v)
  OBVIOUS
<1>4. /\ acc.gross \in Int /\ acc.earnings \in Seq(Entry) /\ acc.deductions \in Seq(Entry)
      /\ c.name \in Names /\ Basic \in Nat
  BY ArithmeticAssumption DEF Acc, Component
<1>5. c.name \notin Before(s, k - 1) /\ Before(s, k) = Before(s, k - 1) \cup {c.name}
  <2>1. DOMAIN s = 1 .. Len(s) /\ Len(s) \in Nat
    OBVIOUS
  <2>2. \A i \in 1 .. k - 1 : i \in 1 .. Len(s) /\ i # k /\ i \in 1 .. k
    BY <2>1
  <2>3. \A i \in 1 .. k : i = k \/ i \in 1 .. k - 1
    BY <2>1
  <2>4. k \in 1 .. k
    BY <2>1
  <2>5. QED
    BY <1>1, <2>1, <2>2, <2>3, <2>4 DEF Differ, Before
<1>6. CASE c.type = "earning"
  <2>1. PICK b : b = acc.earnings
    OBVIOUS
  <2>2. b \in Seq(Entry) /\ Unique(b) /\ c.name \notin NamesIn(b)
    BY <1>4, <1>5, <2>1 DEF FirstHolds
  <2>4. /\ Unique(Put(b, c.name, v)) /\ NamesIn(Put(b, c.name, v)) = NamesIn(b) \cup {c.name}
        /\ Total(Put(b, c.name, v)) = Total(b) + v /\ Lists(Put(b, c.name, v), c.name, v)
    BY <1>4, <2>2, AddedEntry
  <2>5. PICK b2 : b2 = Put(b, c.name, v)
    OBVIOUS
  <2>6. Unique(b2) /\ NamesIn(b2) = NamesIn(b) \cup {c.name}
    BY <2>4, <2>5
  <2>7. new = [gross |-> acc.gross + v, earnings |-> b2, deductions |-> acc.deductions]
    BY <1>3, <1>6, <2>1, <2>5 DEF Counted, Acc
  <2>8. new.gross = acc.gross + v /\ new.earnings = b2 /\ new.deductions = acc.deductions
    BY <2>7
  <2>9. Earned(c) = v /\ Deducted(c) = 0
    BY <1>2, <1>6 DEF Earned, Deducted
  <2>10. /\ acc.gross = Basic + e[k - 1] /\ Total(b) = e[k - 1]
         /\ Total(acc.deductions) = d[k - 1]
    BY <2>1 DEF FirstHolds
  <2>11. e[k] = e[k - 1] + v /\ d[k] = d[k - 1]
    BY <1>1, <2>9
  <2>12. new.gross = Basic + e[k] /\ Total(new.earnings) = e[k] /\ Total(new.deductions) = d[k]
    BY <1>4, <2>4, <2>5, <2>8, <2>10, <2>11
  <2>13. /\ Unique(new.deductions) /\ NamesIn(new.deductions) \subseteq Before(s, k)
         /\ NamesIn(new.earnings) \subseteq Before(s, k)
    BY <1>5, <2>1, <2>6, <2>8 DEF FirstHolds
  <2>14. ASSUME NEW i \in 1 .. k, s[i].type # "earning"
         PROVE  Lists(new.deductions, s[i].name, Val(s[i]))
    <3>1. i \in 1 .. k - 1
      BY <1>1, <1>6, <2>14
    <3>2. QED
      BY <2>8, <2>14, <3>1 DEF FirstHolds
  <2>15. FirstHolds(new, s, k, e, d)
    BY <2>6, <2>8, <2>12, <2>13, <2>14 DEF FirstHolds
  <2>16. QED
    BY <1>1, <1>2, <1>3, <2>15
<1>7. CASE c.type # "earning"
  <2>1. PICK b : b = acc.deductions
    OBVIOUS
  <2>2. b \in Seq(Entry) /\ Unique(b) /\ c.name \notin NamesIn(b)
    BY <1>4, <1>5, <2>1 DEF FirstHolds
  <2>4. /\ Unique(Put(b, c.name, v)) /\ NamesIn(Put(b, c.name, v)) = NamesIn(b) \cup {c.name}
        /\ Total(Put(b, c.name, v)) = Total(b) + v /\ Lists(Put(b, c.name, v), c.name, v)
    BY <1>4, <2>2, AddedEntry
  <2>5. PICK b2 : b2 = Put(b, c.name, v)
    OBVIOUS
  <2>6. Unique(b2) /\ NamesIn(b2) = NamesIn(b) \cup {c.name} /\ Lists(b2, c.name, v)
    BY <2>4, <2>5
  <2>7. new = [gross |-> acc.gross, earnings |-> acc.earnings, deductions |-> b2]
    BY <1>3, <1>7, <2>1, <2>5 DEF Counted, Acc
  <2>8. new.gross = acc.gross /\ new.earnings = acc.earnings /\ new.deductions = b2
    BY <2>7
  <2>9. Earned(c) = 0 /\ Deducted(c) = v
    BY <1>2, <1>7 DEF Earned, Deducted
  <2>10. /\ acc.gross = Basic + e[k - 1] /\ Total(acc.earnings) = e[k - 1]
         /\ Total(b) = d[k - 1]
    BY <2>1 DEF FirstHolds
  <2>11. e[k] = e[k - 1] /\ d[k] = d[k - 1] + v
    BY <1>1, <2>9
  <2>12. new.gross = Basic + e[k] /\ Total(new.earnings) = e[k] /\ Total(new.deductions) = d[k]
    BY <1>4, <2>4, <2>5, <2>8, <2>10, <2>11
  <2>13. /\ Unique(new.earnings) /\ NamesIn(new.earnings) \subseteq Before(s, k)
         /\ NamesIn(new.deductions) \subseteq Before(s, k)
    BY <1>5, <2>1, <2>6, <2>8 DEF FirstHolds
  <2>14. ASSUME NEW i \in 1 .. k, s[i].type # "earning"
         PROVE  Lists(b2, s[i].name, Val(s[i]))
    <3>1. CASE i = k
      BY <1>1, <1>2, <2>6, <3>1
    <3>2. CASE i # k
      <4>1. i \in 1 .. k - 1
        BY <3>2
      <4>2. Lists(b, s[i].name, Val(s[i]))
        BY <2>1, <2>14, <4>1 DEF FirstHolds
      <4>3. Lists(Put(b, c.name, v), s[i].name, Val(s[i]))
        BY <1>4, <2>2, <4>2, AddedKeeps
      <4>4. QED
        BY <2>5, <4>3
    <3>3. QED
      BY <3>1, <3>2
  <2>15. FirstHolds(new, s, k, e, d)
    BY <2>6, <2>8, <2>12, <2>13, <2>14 DEF FirstHolds
  <2>16. QED
    BY <1>1, <1>2, <1>3, <2>15
<1>8. QED
  BY <1>6, <1>7


Earnings(s) == [i \in 1 .. Len(s) |-> Earned(s[i])]
Deductions(s) == [i \in 1 .. Len(s) |-> Deducted(s[i])]

LEMMA CountsTyped ==
  ASSUME NEW s \in Seq(Component)
  PROVE  /\ Earnings(s) \in Seq(Int) /\ Len(Earnings(s)) = Len(s)
         /\ Deductions(s) \in Seq(Int) /\ Len(Deductions(s)) = Len(s)
<1>1. Len(s) \in Nat /\ \A i \in 1 .. Len(s) : s[i] \in Component
  OBVIOUS
<1>2. \A i \in 1 .. Len(s) : Earned(s[i]) \in Int /\ Deducted(s[i]) \in Int
  BY <1>1, ValTyped DEF Earned, Deducted
<1>3. QED
  BY <1>1, <1>2 DEF Earnings, Deductions

LEMMA FirstStarts ==
  ASSUME NEW s, NEW e, NEW d, e[0] = 0, d[0] = 0 PROVE FirstHolds(Opening(Basic), s, 0, e, d)
<1>1. Total(<<>>) = 0
  <2>0. <<>> \in Seq(Int)
    OBVIOUS
  <2>1. PICK a \in Seq(Int) : a = <<>>
    BY <2>0
  <2>2. PICK f : Sums(f, a)
    BY Summed
  <2>3. Len(a) = 0 /\ f[0] = 0 /\ f[Len(a)] = SumOf(a)
    BY <2>1, <2>2 DEF Sums
  <2>4. [k \in DOMAIN <<>> |-> <<>>[k].amount] = <<>>
    OBVIOUS
  <2>5. QED
    BY <2>1, <2>3, <2>4 DEF Total
<1>2. Unique(<<>>) /\ NamesIn(<<>>) = {}
  BY DEF Unique, NamesIn
<1>3. Basic \in Nat
  BY ArithmeticAssumption
<1>4. QED
  BY <1>1, <1>2, <1>3 DEF Opening, FirstHolds

\* What the first pass comes to.
FirstAdds(acc, s) ==
  /\ acc \in Acc
  /\ acc.gross = Basic + SumOf(Earnings(s)) /\ Total(acc.earnings) = SumOf(Earnings(s))
  /\ Total(acc.deductions) = SumOf(Deductions(s)) /\ Unique(acc.deductions)
  /\ \A i \in 1 .. Len(s) :
       s[i].type # "earning" => Lists(acc.deductions, s[i].name, Val(s[i]))

LEMMA FirstTotals ==
  ASSUME NEW s \in Seq(Component), Differ(s)
  PROVE  FirstAdds(FirstPass(s, Basic, DaysWorked, DefaultConfig), s)
<1> DEFINE n == Len(s)
<1>1. PICK e : Sums(e, Earnings(s))
  BY CountsTyped, Summed
<1>2. PICK d : Sums(d, Deductions(s))
  BY CountsTyped, Summed
<1>3. PICK f : FirstRun(f, s)
  BY FirstRuns
<1>4. n \in Nat /\ n \in 0 .. n
  OBVIOUS
<1>5. /\ e[0] = 0 /\ e[n] = SumOf(Earnings(s)) /\ \A k \in 0 .. n : e[k] \in Int
      /\ \A k \in 1 .. n : e[k] = e[k - 1] + Earned(s[k])
  BY <1>1, CountsTyped DEF Sums, Earnings
<1>6. /\ d[0] = 0 /\ d[n] = SumOf(Deductions(s)) /\ \A k \in 0 .. n : d[k] \in Int
      /\ \A k \in 1 .. n : d[k] = d[k - 1] + Deducted(s[k])
  BY <1>2, CountsTyped DEF Sums, Deductions
<1>7. /\ f[0] = Opening(Basic) /\ f[n] = FirstPass(s, Basic, DaysWorked, DefaultConfig)
      /\ \A k \in 0 .. n : f[k] \in Acc
      /\ \A k \in 1 .. n : f[k] = Counted(f[k - 1], s[k], Val(s[k]))
  BY <1>3 DEF FirstRun
<1> DEFINE S == {k \in 0 .. n : FirstHolds(f[k], s, k, e, d)}
<1>8. 0 \in S
  BY <1>4, <1>5, <1>6, <1>7, FirstStarts
<1>9. ASSUME NEW k \in 1 .. n, k - 1 \in S PROVE k \in S
  <2>1. k - 1 \in 0 .. n /\ k \in 0 .. n
    BY <1>4
  <2>2. PICK acc \in Acc : acc = f[k - 1]
    BY <1>7, <2>1
  <2>3. FirstHolds(acc, s, k - 1, e, d)
    BY <1>9, <2>2
  <2>4. FirstHolds(Counted(acc, s[k], Val(s[k])), s, k, e, d)
    BY <1>5, <1>6, <2>1, <2>3, FirstKeeps
  <2>5. f[k] = Counted(acc, s[k], Val(s[k]))
    BY <1>7, <2>2
  <2>6. QED
    BY <2>1, <2>4, <2>5
<1> HIDE DEF S
<1>10. 0 .. n \subseteq S
  BY <1>4, <1>8, <1>9, UpTo
<1>11. FirstHolds(f[n], s, n, e, d) /\ f[n] \in Acc
  BY <1>4, <1>7, <1>10 DEF S
<1>12. QED
  BY <1>5, <1>6, <1>7, <1>11 DEF FirstHolds, FirstAdds

-----------------------------------------------------------------------------
\* What is deducted for a component in the second pass, of a gross.
Late(c, g) == IF OfGross(c) THEN Share(g, c.value) ELSE 0
Lates(s, g) == [i \in 1 .. Len(s) |-> Late(s[i], g)]

LEMMA LatesTyped ==
  ASSUME NEW s \in Seq(Component), NEW g \in Int
  PROVE  Lates(s, g) \in Seq(Int) /\ Len(Lates(s, g)) = Len(s)
<1>1. Len(s) \in Nat /\ \A i \in 1 .. Len(s) : s[i] \in Component
  OBVIOUS
<1>2. ASSUME NEW i \in 1 .. Len(s) PROVE Late(s[i], g) \in Int
  <2>1. s[i].value \in Values /\ Values \subseteq Nat
    BY <1>1, ArithmeticAssumption DEF Component
  <2>2. s[i].value \in Nat
    BY <2>1
  <2>3. PICK v \in Int : v = s[i].value
    BY <2>2
  <2>4. Share(g, v) \in Int
    BY ShareTyped
  <2>5. QED
    BY <2>3, <2>4 DEF Late
<1>3. QED
  BY <1>1, <1>2 DEF Lates

SecondHolds(acc, s, k, first, q) ==
  /\ acc.gross = first.gross /\ acc.earnings = first.earnings
  /\ Total(acc.deductions) = Total(first.deductions) + q[k]
  /\ Unique(acc.deductions)
  /\ \A i \in k + 1 .. Len(s) : OfGross(s[i]) => Lists(acc.deductions, s[i].name, 0)

LEMMA SecondKeeps ==
  ASSUME NEW s \in Seq(Component), Differ(s), NEW k \in 1 .. Len(s), NEW acc \in Acc,
         NEW first \in Acc, NEW q, q[k - 1] \in Int, Total(first.deductions) \in Int,
         q[k] = q[k - 1] + Late(s[k], first.gross), SecondHolds(acc, s, k - 1, first, q)
  PROVE  SecondHolds(IF OfGross(s[k]) THEN Counted(acc, s[k], Share(acc.gross, s[k].value))
                     ELSE acc, s, k, first, q)
<1>1. PICK c \in Component : c = s[k]
  OBVIOUS
<1>2. /\ k \in 1 .. Len(s) /\ Len(s) \in Nat /\ k - 1 + 1 = k /\ k \in k .. Len(s)
      /\ \A i \in k + 1 .. Len(s) : i \in k .. Len(s) /\ i # k /\ i \in 1 .. Len(s)
  OBVIOUS
<1>3. /\ acc.gross = first.gross /\ acc.earnings = first.earnings
      /\ Total(acc.deductions) = Total(first.deductions) + q[k - 1]
      /\ Unique(acc.deductions)
      /\ \A i \in k .. Len(s) : OfGross(s[i]) => Lists(acc.deductions, s[i].name, 0)
  BY <1>2 DEF SecondHolds
<1>4. CASE ~ OfGross(c)
  <2>1. Late(s[k], first.gross) = 0
    BY <1>1, <1>4 DEF Late
  <2>2. q[k] = q[k - 1]
    BY <2>1
  <2>3. SecondHolds(acc, s, k, first, q)
    BY <1>2, <1>3, <2>2 DEF SecondHolds
  <2>4. QED
    BY <1>1, <1>4, <2>3
<1>5. CASE OfGross(c)
  <2>1. PICK v \in Int : v = Share(acc.gross, c.value)
    BY LateTyped
  <2>2. PICK b \in Seq(Entry) : b = acc.deductions
    BY DEF Acc
  <2>3. Unique(b) /\ Lists(b, c.name, 0)
    BY <1>1, <1>2, <1>3, <1>5, <2>2
  <2>4. PICK p \in DOMAIN b : b[p].name = c.name /\ b[p].amount = 0
    BY <2>3 DEF Lists
  <2>5. PICK new : new = Counted(acc, c, v)
    OBVIOUS
  <2>6. c.type # "earning"
    BY <1>5 DEF OfGross
  <2>7. new = [gross |-> acc.gross, earnings |-> acc.earnings,
               deductions |-> Put(b, c.name, v)]
    BY <2>2, <2>5, <2>6 DEF Counted, Acc
  <2>8. /\ new.gross = acc.gross /\ new.earnings = acc.earnings
        /\ new.deductions = Put(b, b[p].name, v)
    BY <2>4, <2>7
  <2>9. /\ Unique(Put(b, b[p].name, v))
        /\ Total(Put(b, b[p].name, v)) = Total(b) - b[p].amount + v
    BY <2>3, ChangedEntry
  <2>10. Late(s[k], first.gross) = v
    BY <1>1, <1>3, <1>5, <2>1 DEF Late
  <2>11. Total(new.deductions) = Total(first.deductions) + q[k]
    BY <1>3, <2>2, <2>4, <2>8, <2>9, <2>10
  <2>12. ASSUME NEW i \in k + 1 .. Len(s), OfGross(s[i])
         PROVE  Lists(new.deductions, s[i].name, 0)
    <3>1. Lists(b, s[i].name, 0)
      BY <1>2, <1>3, <2>2, <2>12
    <3>2. s[i].name # b[p].name
      BY <1>1, <1>2, <2>4 DEF Differ
    <3>3. Lists(Put(b, b[p].name, v), s[i].name, 0)
      BY <2>3, <3>1, <3>2, ChangedKeeps
    <3>4. QED
      BY <2>8, <3>3
  <2>13. SecondHolds(new, s, k, first, q)
    BY <1>3, <2>8, <2>9, <2>11, <2>12 DEF SecondHolds
  <2>14. QED
    BY <1>1, <1>5, <2>1, <2>5, <2>13
<1>6. QED
  BY <1>4, <1>5

LEMMA TotalTyped == ASSUME NEW b \in Seq(Entry) PROVE Total(b) \in Int
<1>1. SumOf(Amounts(b)) \in Int
  BY AmountsTyped, SumTyped
<1>2. QED
  BY <1>1 DEF Total, Amounts

\* And what both come to.
PayAdds(acc, s) ==
  /\ acc.gross = Basic + SumOf(Earnings(s)) /\ Total(acc.earnings) = SumOf(Earnings(s))
  /\ Total(acc.deductions) = SumOf(Deductions(s)) + SumOf(Lates(s, acc.gross))

LEMMA PayTotals ==
  ASSUME NEW s \in Seq(Component), Differ(s)
  PROVE  PayAdds(StructurePay(s, Basic, DaysWorked, DefaultConfig), s)
<1> DEFINE n == Len(s)
<1>1. PICK first : first = FirstPass(s, Basic, DaysWorked, DefaultConfig)
  OBVIOUS
<1>2. FirstAdds(first, s)
  BY <1>1, FirstTotals
<1>3. /\ first \in Acc /\ first.gross \in Int /\ first.deductions \in Seq(Entry)
      /\ Unique(first.deductions)
  BY <1>2 DEF FirstAdds, Acc
<1>4. Total(first.deductions) \in Int
  BY <1>3, TotalTyped
<1>5. PICK q : Sums(q, Lates(s, first.gross))
  BY <1>3, LatesTyped, Summed
<1>6. PICK f : SecondRun(f, s, first)
  BY <1>3, SecondRuns
<1>7. n \in Nat /\ n \in 0 .. n
  OBVIOUS
<1>8. /\ q[0] = 0 /\ q[n] = SumOf(Lates(s, first.gross)) /\ \A k \in 0 .. n : q[k] \in Int
      /\ \A k \in 1 .. n : q[k] = q[k - 1] + Late(s[k], first.gross)
  BY <1>3, <1>5, LatesTyped DEF Sums, Lates
<1>9. /\ f[0] = first /\ f[n] = SecondPass(s, first) /\ \A k \in 0 .. n : f[k] \in Acc
      /\ \A k \in 1 .. n :
           f[k] = IF OfGross(s[k]) THEN Counted(f[k - 1], s[k], Share(f[k - 1].gross, s[k].value))
                  ELSE f[k - 1]
  BY <1>6 DEF SecondRun
<1> DEFINE S == {k \in 0 .. n : SecondHolds(f[k], s, k, first, q)}
<1>10. 0 \in S
  <2>1. ASSUME NEW i \in 1 .. n, OfGross(s[i]) PROVE Lists(first.deductions, s[i].name, 0)
    <3>1. s[i].type # "earning" /\ Val(s[i]) = 0
      BY <2>1 DEF OfGross, Val, FirstValue
    <3>2. QED
      BY <1>2, <3>1 DEF FirstAdds
  <2>2. SecondHolds(first, s, 0, first, q)
    BY <1>3, <1>4, <1>8, <2>1 DEF SecondHolds
  <2>3. QED
    BY <1>7, <1>9, <2>2
<1>11. ASSUME NEW k \in 1 .. n, k - 1 \in S PROVE k \in S
  <2>1. k - 1 \in 0 .. n /\ k \in 0 .. n
    BY <1>7
  <2>2. PICK acc \in Acc : acc = f[k - 1]
    BY <1>9, <2>1
  <2>3. SecondHolds(acc, s, k - 1, first, q)
    BY <1>11, <2>2
  <2>4. PICK new : new = IF OfGross(s[k]) THEN Counted(acc, s[k], Share(acc.gross, s[k].value))
                         ELSE acc
    OBVIOUS
  <2>5. SecondHolds(new, s, k, first, q)
    BY <1>3, <1>4, <1>8, <2>1, <2>3, <2>4, SecondKeeps
  <2>6. f[k] = new
    BY <1>9, <2>2, <2>4
  <2>7. QED
    BY <2>1, <2>5, <2>6
<1> HIDE DEF S
<1>12. 0 .. n \subseteq S
  BY <1>7, <1>10, <1>11, UpTo
<1>13. SecondHolds(f[n], s, n, first, q)
  BY <1>7, <1>12 DEF S
<1>14. f[n] = StructurePay(s, Basic, DaysWorked, DefaultConfig)
  BY <1>1, <1>9 DEF StructurePay
<1>15. PayAdds(f[n], s)
  BY <1>2, <1>8, <1>13 DEF SecondHolds, FirstAdds, PayAdds
<1>16. QED
  BY <1>14, <1>15

LEMMA Totals ==
  ASSUME input.of = "structure", input.components \in Seq(Component) PROVE TotalsOfComponents
<1> PICK s \in Seq(Component) : s = input.components
  OBVIOUS
<1>1. PICK pay : pay = StructurePay(s, Basic, DaysWorked, DefaultConfig)
  OBVIOUS
<1>2. SUFFICES ASSUME Differ(s)
               PROVE  /\ pay.gross = GrossOfComponents
                      /\ pay.gross = Basic + Total(pay.earnings)
                      /\ Total(pay.deductions)
                           = SumOf([i \in DOMAIN Components |-> DeductionOf(i)])
  BY <1>1 DEF TotalsOfComponents, DistinctNames, TheirPay, Components, Differ
<1>3. PayAdds(pay, s)
  BY <1>1, <1>2, PayTotals
<1>4. DOMAIN s = 1 .. Len(s) /\ Len(s) \in Nat /\ \A i \in 1 .. Len(s) : s[i] \in Component
  OBVIOUS
<1>5. [i \in DOMAIN Components |-> EarningOf(i)] = Earnings(s)
  BY <1>4 DEF Components, EarningOf, First, Earnings, Earned, Val
<1>6. pay.gross = GrossOfComponents
  BY <1>3, <1>5 DEF PayAdds, GrossOfComponents
<1>7. PICK g \in Int : g = pay.gross
  <2>1. SumOf(Earnings(s)) \in Int /\ Basic \in Int
    BY CountsTyped, SumTyped, ArithmeticAssumption
  <2>2. QED
    BY <1>3, <2>1 DEF PayAdds
<1>8. PICK a \in Seq(Int) : a = Deductions(s) /\ Len(a) = Len(s)
  BY CountsTyped
<1>9. PICK b \in Seq(Int) : b = Lates(s, g) /\ Len(b) = Len(s)
  BY LatesTyped
<1>10. PICK c : c = [i \in 1 .. Len(s) |-> DeductionOf(i)]
  OBVIOUS
<1>11. ASSUME NEW i \in 1 .. Len(s) PROVE DeductionOf(i) = a[i] + b[i]
  <2>1. PICK x \in Component : x = s[i] /\ x = Components[i]
    BY <1>4 DEF Components
  <2>0. a[i] \in Int /\ b[i] \in Int
    BY <1>8, <1>9
  <2>2. a[i] = Deducted(x) /\ b[i] = Late(x, g) /\ a[i] \in Int /\ b[i] \in Int
    BY <1>8, <1>9, <2>0, <2>1 DEF Deductions, Lates
  <2>3. x.type \in {"earning", "deduction"}
    BY DEF Component, ComponentTypes
  <2>4. First(i) = Val(x)
    BY <2>1 DEF First, Val
  <2>5. CASE x.type = "earning"
    <3>1. DeductionOf(i) = 0 /\ Deducted(x) = 0 /\ Late(x, g) = 0
      BY <2>1, <2>5 DEF DeductionOf, Deducted, Late, OfGross
    <3>2. QED
      BY <2>2, <3>1
  <2>6. CASE x.type = "deduction" /\ OfGross(x)
    <3>1. DeductionOf(i) = Share(g, x.value)
      BY <1>6, <1>7, <2>1, <2>6 DEF DeductionOf
    <3>2. Deducted(x) = 0
      BY <2>6 DEF Deducted, Val, FirstValue, OfGross
    <3>3. Late(x, g) = Share(g, x.value)
      BY <2>6 DEF Late
    <3>4. QED
      BY <2>2, <3>1, <3>2, <3>3
  <2>7. CASE x.type = "deduction" /\ ~ OfGross(x)
    <3>1. DeductionOf(i) = Val(x) /\ Deducted(x) = Val(x) /\ Late(x, g) = 0
      BY <2>1, <2>4, <2>7 DEF DeductionOf, Deducted, Late
    <3>2. QED
      BY <2>2, <3>1
  <2>8. QED
    BY <2>3, <2>5, <2>6, <2>7
<1>12. c \in Seq(Int) /\ Len(c) = Len(s) /\ \A i \in 1 .. Len(s) : c[i] = a[i] + b[i]
  <2>1. \A i \in 1 .. Len(s) : a[i] + b[i] \in Int
    BY <1>4, <1>8, <1>9
  <2>2. QED
    BY <1>4, <1>10, <1>11, <2>1
<1>13. SumOf(c) = SumOf(a) + SumOf(b)
  <2>1. PICK n \in Nat : n = Len(s)
    BY <1>4
  <2>2. Len(a) = n /\ Len(b) = n /\ Len(c) = n /\ \A i \in 1 .. n : c[i] = a[i] + b[i]
    BY <1>8, <1>9, <1>12, <2>1
  <2>3. c \in Seq(Int)
    BY <1>12
  <2>4. QED
    BY ONLY a \in Seq(Int), b \in Seq(Int), <2>1, <2>2, <2>3, SumAdded
<1>14. [i \in DOMAIN Components |-> DeductionOf(i)] = c
  BY <1>4, <1>10 DEF Components
<1>15. QED
  BY <1>3, <1>6, <1>7, <1>8, <1>9, <1>13, <1>14 DEF PayAdds

-----------------------------------------------------------------------------
(***************************************************************************)
(* The inputs.                                                             *)
(***************************************************************************)
Days == [of : {"day"}, shift : Known \cup {"OTHER"}, entry : Int, exit : Int]
Months == [of : {"month"}, monthly : Salaries, hourly : HourlyRates, config : Configs,
           days : Nat]
Structures == [of : {"structure"}, components : Seq(Component)]
Licences == [id : Nat, granted : 0 .. LastInstant, revoked : 0 .. LastInstant \cup {None}]
Subscriptions == [of : {"subscription"}, licences : Seq(Licences)]

\* Licences are numbered as they come, and none is revoked before it is granted.
Numbered(licences) ==
  \A i \in 1 .. Len(licences) : licences[i].id = i /\ LicenceAt(licences[i])

IInv ==
  \/ input \in Days
  \/ input \in Months
  \/ input \in Structures
  \/ input \in Subscriptions /\ Numbered(input.licences)

LEMMA StartsTyped == Init => IInv
<1> SUFFICES ASSUME Init PROVE IInv
  OBVIOUS
<1>1. CASE ADay
  <2>1. PICK name \in Known \cup {"OTHER"}, entry \in Entries :
          input = [of |-> "day", shift |-> name, entry |-> entry, exit |-> entry - 1]
    BY <1>1 DEF ADay
  <2>2. entry \in Int
    <3>1. Entries \subseteq Int
      <4>1. \A n \in Known : /\ SHIFTS[n].start \in Int /\ SHIFTS[n].breakStart \in Int
                             /\ SHIFTS[n].breakEnd \in Int
        BY DEF Known, SHIFTS
      <4>2. ASSUME NEW e \in Entries PROVE e \in Int
        <5>1. CASE e \in {SHIFTS[n].start : n \in Known}
          BY <4>1, <5>1
        <5>2. CASE \E n \in Known : \/ e \in SHIFTS[n].breakStart - 2 .. SHIFTS[n].breakStart + 2
                                   \/ e \in SHIFTS[n].breakEnd - 2 .. SHIFTS[n].breakEnd + 2
          BY <4>1, <5>2
        <5>3. \/ e \in {SHIFTS[n].start : n \in Known}
              \/ e \in UNION {SHIFTS[n].breakStart - 2 .. SHIFTS[n].breakStart + 2 : n \in Known}
              \/ e \in UNION {SHIFTS[n].breakEnd - 2 .. SHIFTS[n].breakEnd + 2 : n \in Known}
          BY <4>2 DEF Entries
        <5>4. QED
          BY <5>1, <5>2, <5>3
      <4>3. QED
        BY <4>2
    <3>2. QED
      BY <3>1
  <2>3. entry - 1 \in Int
    BY <2>2
  <2>4. QED
    BY <2>1, <2>2, <2>3 DEF IInv, Days
<1>2. CASE AMonth
  BY <1>2 DEF AMonth, IInv, Months
<1>3. CASE AStructure
  <2>1. <<>> \in Seq(Component)
    OBVIOUS
  <2>2. QED
    BY <1>3, <2>1 DEF AStructure, IInv, Structures
<1>4. CASE ASubscription
  <2>1. <<>> \in Seq(Licences) /\ Numbered(<<>>)
    BY DEF Numbered
  <2>2. QED
    BY <1>4, <2>1 DEF ASubscription, IInv, Subscriptions
<1>5. QED
  BY <1>1, <1>2, <1>3, <1>4 DEF Init

LEMMA LaterTyped == ASSUME IInv, Later PROVE IInv'
<1>1. input \in Days
  BY DEF Later, IInv, Months, Structures, Subscriptions
<1>2. input' = [input EXCEPT !.exit = @ + 1] /\ input.exit + 1 \in Int
  BY <1>1 DEF Later, Days
<1>3. input' \in Days
  BY <1>1, <1>2 DEF Days
<1>4. QED
  BY <1>3 DEF IInv, Days

LEMMA WorkTyped == ASSUME IInv, Work PROVE IInv'
<1>1. input \in Months
  BY DEF Work, IInv, Days, Structures, Subscriptions
<1>2. input' = [input EXCEPT !.days = @ + 1] /\ input.days + 1 \in Nat
  BY <1>1 DEF Work, Months
<1>3. input' \in Months
  BY <1>1, <1>2 DEF Months
<1>4. QED
  BY <1>3 DEF IInv, Months

LEMMA AddTyped == ASSUME IInv, AddComponent PROVE IInv'
<1>1. input \in Structures
  BY DEF AddComponent, IInv, Days, Months, Subscriptions
<1>2. PICK c \in Component : input' = [input EXCEPT !.components = Append(@, c)]
  BY DEF AddComponent
<1>0. PICK old \in Seq(Component) : old = input.components
  BY <1>1 DEF Structures
<1>a. Append(old, c) \in Seq(Component)
  OBVIOUS
<1>3. PICK s \in Seq(Component) : s = Append(old, c)
  BY <1>a
<1>4. input' = [of |-> "structure", components |-> s]
  BY <1>0, <1>1, <1>2, <1>3 DEF Structures
<1>5. input' \in Structures
  BY <1>4 DEF Structures
<1>6. QED
  BY <1>5 DEF IInv, Structures

LEMMA GrantTyped == ASSUME IInv, Grant PROVE IInv'
<1>1. input \in Subscriptions /\ Numbered(input.licences)
  BY DEF Grant, IInv, Days, Months, Structures
<1>0. PICK granted \in 0 .. LastInstant :
        \E revoked \in granted .. LastInstant \cup {None} :
          input' = [input EXCEPT !.licences = Append(@, Licence(Len(@) + 1, granted, revoked))]
  BY DEF Grant
<1>2. PICK revoked \in granted .. LastInstant \cup {None} :
        input' = [input EXCEPT !.licences = Append(@, Licence(Len(@) + 1, granted, revoked))]
  BY <1>0
<1>3. PICK s \in Seq(Licences) : s = input.licences
  BY <1>1 DEF Subscriptions
<1>4. PICK n \in Nat : n = Len(s)
  OBVIOUS
<1>5. PICK v : v = Licence(n + 1, granted, revoked)
  OBVIOUS
<1>6. v = [id |-> n + 1, granted |-> granted, revoked |-> revoked]
  BY <1>5 DEF Licence
<1>7. v \in Licences
  <2>1. revoked \in 0 .. LastInstant \cup {None}
    BY ArithmeticAssumption
  <2>2. QED
    BY <1>6, <2>1 DEF Licences
<1>8. LicenceAt(v) /\ v.id = n + 1
  BY <1>6 DEF LicenceAt
<1>9. PICK t : t = Append(s, v)
  OBVIOUS
<1>10. /\ t \in Seq(Licences) /\ Len(t) = n + 1 /\ t[n + 1] = v
       /\ \A i \in 1 .. n : t[i] = s[i]
  BY <1>4, <1>7, <1>9
<1>11. Numbered(t)
  <2>1. \A i \in 1 .. n + 1 : i \in 1 .. n \/ i = n + 1
    OBVIOUS
  <2>2. \A i \in 1 .. n : s[i].id = i /\ LicenceAt(s[i])
    BY <1>1, <1>3, <1>4 DEF Numbered
  <2>3. QED
    BY <1>8, <1>10, <2>1, <2>2 DEF Numbered
<1>12. input' = [of |-> "subscription", licences |-> t]
  BY <1>1, <1>2, <1>3, <1>4, <1>5, <1>9 DEF Subscriptions
<1>13. input' \in Subscriptions /\ input'.licences = t
  BY <1>10, <1>12 DEF Subscriptions
<1>14. QED
  BY <1>11, <1>13 DEF IInv, Subscriptions, Numbered, LicenceAt

\* The inputs are days, months, structures and subscriptions of the right types, and
\* a subscription numbers its licences and revokes none before it is granted: every
\* step of Spec keeps it so.
THEOREM InputsInductive == Spec => []IInv
<1>1. IInv /\ [Later \/ Work \/ AddComponent \/ Grant]_input => IInv'
  <2> SUFFICES ASSUME IInv, [Later \/ Work \/ AddComponent \/ Grant]_input PROVE IInv'
    OBVIOUS
  <2>1. CASE UNCHANGED input
    BY <2>1 DEF IInv, Numbered, LicenceAt
  <2>2. QED
    BY <2>1, LaterTyped, WorkTyped, AddTyped, GrantTyped
<1>2. QED
  BY <1>1, StartsTyped, PTL DEF Spec

-----------------------------------------------------------------------------
\* The hours of a day are those of the minutes between entry and exit outside the
\* break, to the nearest hundredth, for every entry and exit, and a shift worked from
\* its start earns overtime only past its end: services/attendance_service.py.
THEOREM HoursOfEveryDay == Spec => []HoursOfDay
<1>1. IInv => HoursOfDay
  <2> SUFFICES ASSUME IInv PROVE HoursOfDay
    OBVIOUS
  <2>1. DayTyped
    BY DEF IInv, DayTyped, Days, Months, Structures, Subscriptions
  <2>2. CASE input.of = "day"
    BY <2>1, <2>2, HoursOfMinutes, FullShift DEF HoursOfDay
  <2>3. CASE input.of # "day"
    BY <2>3 DEF HoursOfDay, HoursCountMinutes, FullShiftNoOvertime
  <2>4. QED
    BY <2>2, <2>3
<1>2. QED
  BY <1>1, InputsInductive, PTL

\* A full month pays the salary but for the rounding of the day, a salary structure of
\* any length and order adds up to its gross and deducts from the whole of it, and the
\* invoices of the periods bill each licence where it was active: payslip_service.py,
\* payroll_service.py and invoice_service.py.
THEOREM MoneyAlwaysAddsUp == Spec => []MoneyAddsUp
<1>1. IInv => MoneyAddsUp
  <2> SUFFICES ASSUME IInv PROVE MoneyAddsUp
    OBVIOUS
  <2>1. FullMonthPaysSalary
    <3>1. input.of = "month" => Typed(input)
      BY DEF IInv, Typed, Days, Months, Structures, Subscriptions
    <3>2. CASE input.of = "month"
      BY <3>1, <3>2, FullMonth
    <3>3. CASE input.of # "month"
      BY <3>3 DEF FullMonthPaysSalary
    <3>4. QED
      BY <3>2, <3>3
  <2>2. TotalsOfComponents
    <3>1. input.of = "structure" => input.components \in Seq(Component)
      BY DEF IInv, Days, Months, Structures, Subscriptions
    <3>2. CASE input.of = "structure"
      BY <3>1, <3>2, Totals
    <3>3. CASE input.of # "structure"
      BY <3>3 DEF TotalsOfComponents
    <3>4. QED
      BY <3>2, <3>3
  <2>3. BilledWhileActive
    <3>1. input.of = "subscription" => Granted(input)
      BY DEF IInv, Granted, Numbered, Licences, Days, Months, Structures, Subscriptions
    <3>2. CASE input.of = "subscription"
      BY <3>1, <3>2, Billing
    <3>3. CASE input.of # "subscription"
      BY <3>3 DEF BilledWhileActive
    <3>4. QED
      BY <3>2, <3>3
  <2>4. QED
    BY <2>1, <2>2, <2>3 DEF MoneyAddsUp
<1>2. QED
  BY <1>1, InputsInductive, PTL
=============================================================================
