---------------------------- MODULE LeasingProofs ----------------------------
(***************************************************************************)
(* Proofs about the leases of a unit, their schedules and its occupancy,   *)
(* for any leases, requests, asks and calendars.                           *)
(***************************************************************************)
EXTENDS Leasing, FiniteSetTheorems, SequenceTheorems, WellFoundedInduction, TLAPS

-----------------------------------------------------------------------------
(* Numbers *)

(* The order of the natural numbers is well founded. *)
LEMMA LessWF == IsWellFoundedOn({ss \in Nat \X Nat : ss[1] < ss[2]}, Nat)
BY NatLessThanWellFounded DEF OpToRel

(* Every set of natural numbers has a least one. *)
LEMMA Least ==
  ASSUME NEW T \in SUBSET Nat, T # {}
  PROVE  \E n \in T : \A m \in T : n <= m
<1> DEFINE R == {ss \in Nat \X Nat : ss[1] < ss[2]}
<1>0. IsWellFoundedOn(R, Nat)
  BY LessWF
<1> HIDE DEF R
<1>1. PICK x \in T : \A y \in T : ~ (<<y, x>> \in R)
  BY <1>0, WFMin
<1>2. \A y \in T : ~(y < x)
  BY <1>1 DEF R
<1>. QED BY <1>2

-----------------------------------------------------------------------------
(* The calendar *)

(* A month in its year. *)
LEMMA MonthInYear ==
  ASSUME NEW m \in Nat
  PROVE  /\ m \div 12 \in Nat /\ m % 12 \in 0..11 /\ m = 12 * (m \div 12) + (m % 12)
         /\ m % 12 < 11 => (m + 1) \div 12 = m \div 12 /\ (m + 1) % 12 = (m % 12) + 1
         /\ m % 12 = 11 => (m + 1) \div 12 = (m \div 12) + 1 /\ (m + 1) % 12 = 0
OBVIOUS

(* A year adds a leap day when it has one. *)
LEMMA LeapDaysNext ==
  ASSUME NEW y \in Nat \ {0}
  PROVE  LeapDays(y + 1) = LeapDays(y) + (IF IsLeap(y) THEN 1 ELSE 0)
BY DEF LeapDays, IsLeap

(* The table is that of a year without a leap day. *)
LEMMA DaysBeforeTable ==
  /\ DaysBefore[1] = 0 /\ DaysBefore[12] = 334
  /\ \A k \in 0..11 : DaysBefore[k + 1] \in 28 * k..31 * k
  /\ \A k \in 0..10 :
       DaysBefore[k + 2] = DaysBefore[k + 1] +
         (CASE k = 1 -> 28 [] k \in {3, 5, 8, 10} -> 30 [] OTHER -> 31)
<1>1. /\ DaysBefore[1] = 0 /\ DaysBefore[2] = 31 /\ DaysBefore[3] = 59 /\ DaysBefore[4] = 90
      /\ DaysBefore[5] = 120 /\ DaysBefore[6] = 151 /\ DaysBefore[7] = 181 /\ DaysBefore[8] = 212
      /\ DaysBefore[9] = 243 /\ DaysBefore[10] = 273 /\ DaysBefore[11] = 304 /\ DaysBefore[12] = 334
  BY DEF DaysBefore
<1>2. \A k \in 0..11 : k = 0 \/ k = 1 \/ k = 2 \/ k = 3 \/ k = 4 \/ k = 5 \/ k = 6 \/ k = 7 \/ k = 8
                      \/ k = 9 \/ k = 10 \/ k = 11
  OBVIOUS
<1>3. \A k \in 0..11 : DaysBefore[k + 1] \in 28 * k..31 * k
  BY <1>1, <1>2
<1>4. \A k \in 0..10 :
       DaysBefore[k + 2] = DaysBefore[k + 1] +
         (CASE k = 1 -> 28 [] k \in {3, 5, 8, 10} -> 30 [] OTHER -> 31)
  BY <1>1, <1>2
<1>. QED BY <1>1, <1>3, <1>4

(* Leap days are numbers. *)
LEMMA LeapDaysType ==
  ASSUME NEW y \in Nat \ {0}
  PROVE  LeapDays(y) \in Nat /\ LeapDays(y) <= y
BY DEF LeapDays

(* The months follow each other. *)
LEMMA NextFirstDay ==
  ASSUME NEW m \in Nat
  PROVE  /\ FirstDay(m) \in Int /\ MonthLength(m) \in 28..31
         /\ FirstDay(m + 1) = FirstDay(m) + MonthLength(m)
<1> DEFINE y == m \div 12
           k == m % 12
           t == DaysBefore[k + 1]
           leap == LeapDays(Year(m)) - LeapDays(BaseYear)
<1>1. y \in Nat /\ k \in 0..11 /\ m = 12 * y + k
  BY MonthInYear
<1>2. Year(m) \in Nat \ {0} /\ Year(m) = BaseYear + y
  BY <1>1, CalendarAssumption DEF Year
<1>3. leap \in Int
  BY <1>2, CalendarAssumption, LeapDaysType
<1>4. t \in Int
  BY <1>1, DaysBeforeTable
<1>5. FirstDay(m) = 365 * y + t + leap + (IF k > 1 /\ IsLeap(Year(m)) THEN 1 ELSE 0)
  BY DEF FirstDay
<1>6. MonthLength(m) = CASE k = 1 -> IF IsLeap(Year(m)) THEN 29 ELSE 28
                         [] k \in {3, 5, 8, 10} -> 30 [] OTHER -> 31
  BY DEF MonthLength
<1>7. CASE k < 11
  <2>1. (m + 1) \div 12 = y /\ (m + 1) % 12 = k + 1 /\ Year(m + 1) = Year(m)
    BY <1>7, MonthInYear DEF Year
  <2>2. FirstDay(m + 1) = 365 * y + DaysBefore[k + 2] + leap + (IF k + 1 > 1 /\ IsLeap(Year(m)) THEN 1 ELSE 0)
    BY <2>1, <1>1 DEF FirstDay
  <2>3. DaysBefore[k + 2] = t + (CASE k = 1 -> 28 [] k \in {3, 5, 8, 10} -> 30 [] OTHER -> 31)
    BY <1>1, <1>7, DaysBeforeTable
  <2> HIDE DEF y, k, t, leap
  <2>. QED BY <1>1, <1>3, <1>4, <1>5, <1>6, <2>2, <2>3, <1>7
<1>8. CASE k = 11
  <2>1. (m + 1) \div 12 = y + 1 /\ (m + 1) % 12 = 0 /\ Year(m + 1) = Year(m) + 1
    BY <1>8, <1>2, CalendarAssumption, MonthInYear DEF Year
  <2>2. LeapDays(Year(m + 1)) - LeapDays(BaseYear) = leap + (IF IsLeap(Year(m)) THEN 1 ELSE 0)
    BY <2>1, <1>2, CalendarAssumption, LeapDaysNext, LeapDaysType
  <2>3. FirstDay(m + 1) = 365 * (y + 1) + leap + (IF IsLeap(Year(m)) THEN 1 ELSE 0)
    BY <2>1, <2>2, <1>1, <1>3, DaysBeforeTable DEF FirstDay
  <2>4. t = 334
    BY <1>8, DaysBeforeTable
  <2> HIDE DEF y, k, t, leap
  <2>. QED BY <1>1, <1>3, <1>4, <1>5, <1>6, <2>3, <2>4, <1>8
<1>. QED BY <1>1, <1>7, <1>8

(* Month 0 begins on day 0. *)
LEMMA FirstDayZero == FirstDay(0) = 0
<1>1. Year(0) = BaseYear /\ LeapDays(BaseYear) \in Nat /\ 0 \div 12 = 0 /\ 0 % 12 = 0
  BY CalendarAssumption, LeapDaysType DEF Year
<1>. QED BY <1>1, DaysBeforeTable DEF FirstDay

(* A later month begins later, by 28 days a month at least. *)
LEMMA FirstDaysGrow ==
  ASSUME NEW m \in Nat, NEW n \in Nat
  PROVE  FirstDay(m + n) \in Int /\ FirstDay(m + n) >= FirstDay(m) + 28 * n
<1> DEFINE T == {k \in Nat : ~(FirstDay(m + k) >= FirstDay(m) + 28 * k)}
<1>1. SUFFICES ASSUME T # {} PROVE FALSE
  <2>1. m + n \in Nat /\ (n \notin T => FirstDay(m + n) >= FirstDay(m) + 28 * n)
    OBVIOUS
  <2>. QED BY <2>1, NextFirstDay
<1>2. PICK k \in T : \A j \in T : k <= j
  BY <1>1, Least
<1>3. FirstDay(m) \in Int
  BY NextFirstDay
<1>4. CASE k = 0
  BY <1>2, <1>3, <1>4
<1>5. CASE k # 0
  <2>1. k - 1 \in Nat /\ k - 1 \notin T
    BY <1>2, <1>5
  <2>2. FirstDay(m + (k - 1)) >= FirstDay(m) + 28 * (k - 1) /\ m + (k - 1) \in Nat
    BY <2>1
  <2>3. FirstDay((m + (k - 1)) + 1) = FirstDay(m + (k - 1)) + MonthLength(m + (k - 1))
        /\ MonthLength(m + (k - 1)) \in 28..31 /\ FirstDay(m + (k - 1)) \in Int
    BY <2>2, NextFirstDay
  <2>4. (m + (k - 1)) + 1 = m + k
    BY <2>1
  <2>5. FirstDay(m + k) >= FirstDay(m) + 28 * k
    BY <2>2, <2>3, <2>4, <1>3, <2>1
  <2>. QED BY <2>5, <1>2
<1>. QED BY <1>4, <1>5

(* Every day is in one month. *)
LEMMA MonthUnique ==
  ASSUME NEW day \in Nat, NEW m \in Nat, FirstDay(m) <= day, day < FirstDay(m + 1)
  PROVE  m \in 0..day /\ MonthOf(day) = m
<1>1. ASSUME NEW a \in Nat, NEW b \in Nat, a < b, day < FirstDay(a + 1), FirstDay(b) <= day PROVE FALSE
  <2>1. b - (a + 1) \in Nat /\ (a + 1) + (b - (a + 1)) = b /\ a + 1 \in Nat
    BY <1>1
  <2>2. FirstDay(b) >= FirstDay(a + 1) + 28 * (b - (a + 1))
    BY <2>1, FirstDaysGrow
  <2>. QED BY <2>1, <2>2, <1>1, NextFirstDay
<1>2. m <= day
  <2>1. FirstDay(0 + m) >= FirstDay(0) + 28 * m /\ 0 + m = m
    BY FirstDaysGrow
  <2>. QED BY <2>1, FirstDayZero, NextFirstDay
<1>3. \A x \in 0..day : FirstDay(x) <= day /\ day < FirstDay(x + 1) => x = m
  BY <1>1
<1>. QED BY <1>2, <1>3 DEF MonthOf

(* MonthOf and DayOf say what they should. *)
LEMMA MonthOfDay ==
  ASSUME NEW day \in Nat
  PROVE  /\ MonthOf(day) \in Nat /\ FirstDay(MonthOf(day)) <= day /\ day < FirstDay(MonthOf(day) + 1)
         /\ DayOf(day) \in 0..(MonthLength(MonthOf(day)) - 1)
         /\ day = FirstDay(MonthOf(day)) + DayOf(day)
<1> DEFINE T == {m \in Nat : day < FirstDay(m)}
<1>1. day + 1 \in T
  <2>1. day + 1 \in Nat /\ 0 + (day + 1) = day + 1
    OBVIOUS
  <2>2. FirstDay(0 + (day + 1)) >= FirstDay(0) + 28 * (day + 1)
    BY <2>1, FirstDaysGrow
  <2>. QED BY <2>1, <2>2, FirstDayZero, NextFirstDay
<1>2. PICK k \in T : \A j \in T : k <= j
  BY <1>1, Least
<1>3. k # 0
  BY <1>2, FirstDayZero
<1>4. k - 1 \in Nat /\ k - 1 \notin T /\ (k - 1) + 1 = k
  BY <1>2, <1>3
<1>5. FirstDay(k - 1) <= day /\ day < FirstDay((k - 1) + 1)
  BY <1>2, <1>4, NextFirstDay
<1>6. MonthOf(day) = k - 1
  BY <1>4, <1>5, MonthUnique
<1>7. FirstDay(k - 1) \in Int /\ MonthLength(k - 1) \in 28..31
      /\ FirstDay((k - 1) + 1) = FirstDay(k - 1) + MonthLength(k - 1)
  BY <1>4, NextFirstDay
<1>. QED BY <1>4, <1>5, <1>6, <1>7 DEF DayOf

(* Where whole periods of n months end. *)
Follows(starts, ends, n) ==
  LET month == MonthOf(starts) + n  short == MonthLength(month) IN
  \/ MonthOf(ends) = month /\ DayOf(ends) = DayOf(starts)
  \/ MonthOf(ends) = month + 1 /\ DayOf(starts) >= short /\ DayOf(ends) = DayOf(starts) - short

(* Months are added as the property says. *)
LEMMA AddMonthsFollows ==
  ASSUME NEW day \in Nat, NEW n \in Nat \ {0}
  PROVE  AddMonths(day, n) \in Nat /\ day < AddMonths(day, n) /\ Follows(day, AddMonths(day, n), n)
<1> DEFINE e == AddMonths(day, n)
<1>1. PICK m \in Nat : m = MonthOf(day)
  BY MonthOfDay
<1>M. FirstDay(m) \in Int /\ MonthLength(m) \in 28..31
  BY NextFirstDay
<1>D. DayOf(day) \in 0..(MonthLength(m) - 1) /\ day = FirstDay(m) + DayOf(day)
  BY <1>1, MonthOfDay
<1>2. PICK d \in 0..30 : d = DayOf(day)
  BY <1>M, <1>D
<1>3. day = FirstDay(m) + d /\ d < MonthLength(m) /\ FirstDay(m) \in Int /\ MonthLength(m) \in 28..31
  BY <1>2, <1>M, <1>D
<1>4. PICK x \in Nat : x = m + n
  OBVIOUS
<1>5. /\ FirstDay(x) \in Int /\ MonthLength(x) \in 28..31 /\ FirstDay(x + 1) = FirstDay(x) + MonthLength(x)
      /\ x + 1 \in Nat /\ (x + 1) + 1 = x + 2
  BY NextFirstDay
<1>6. MonthLength(x + 1) \in 28..31 /\ FirstDay(x + 2) = FirstDay(x + 1) + MonthLength(x + 1)
  BY <1>5, NextFirstDay
<1>7. e = FirstDay(x) + d
  BY <1>1, <1>2, <1>4 DEF AddMonths
<1>8. FirstDay(x) >= FirstDay(m) + 28 * n
  BY <1>4, FirstDaysGrow
<1>9. PICK l \in 28..31 : l = MonthLength(m)
  BY <1>3
<1>10. FirstDay(x) >= FirstDay(m) + l
  <2>1. n - 1 \in Nat /\ m + 1 \in Nat /\ x = (m + 1) + (n - 1)
    BY <1>4
  <2>2. FirstDay(x) >= FirstDay(m + 1) + 28 * (n - 1)
    BY <2>1, FirstDaysGrow
  <2>3. FirstDay(m + 1) = FirstDay(m) + l
    BY <1>9, NextFirstDay
  <2>. QED BY <2>1, <2>2, <2>3, <1>3, <1>5
<1>11. e \in Nat /\ day < e
  BY <1>3, <1>5, <1>7, <1>9, <1>10
<1>12. CASE d < MonthLength(x)
  <2>1. FirstDay(x) <= e /\ e < FirstDay(x + 1)
    BY <1>5, <1>7, <1>12
  <2>2. MonthOf(e) = x
    BY <2>1, <1>11, MonthUnique
  <2>3. DayOf(e) = d
    BY <2>2, <1>5, <1>7 DEF DayOf
  <2>. QED BY <2>2, <2>3, <1>1, <1>2, <1>4, <1>11 DEF Follows
<1>13. CASE d >= MonthLength(x)
  <2>1. FirstDay(x + 1) <= e /\ e < FirstDay((x + 1) + 1)
    BY <1>5, <1>6, <1>7, <1>13
  <2>2. MonthOf(e) = x + 1
    BY <2>1, <1>5, <1>11, MonthUnique
  <2>3. DayOf(e) = d - MonthLength(x)
    BY <2>2, <1>5, <1>7 DEF DayOf
  <2>. QED BY <2>2, <2>3, <1>1, <1>2, <1>4, <1>11, <1>13 DEF Follows
<1>. QED BY <1>5, <1>12, <1>13

(* A period that is not cut has at least a day, and by the month follows the calendar. *)
LEMMA NextPeriodFollows ==
  ASSUME NEW c \in Calendar, ValidCycle(c), NEW day \in Nat
  PROVE  LET next == NextPeriod(day, c.cycle, c.customDays) IN
         /\ next \in Nat /\ day < next
         /\ Months(c.cycle) > 0 => Follows(day, next, Months(c.cycle))
<1>1. c.cycle \in Cycles /\ c.customDays \in Nat
  BY DEF Calendar
<1>2. CASE c.cycle = "WEEKLY" \/ c.cycle = "CUSTOM"
  BY <1>1, <1>2 DEF NextPeriod, Months, ValidCycle
<1>3. CASE c.cycle \notin {"WEEKLY", "CUSTOM"}
  <2>1. Months(c.cycle) \in Nat \ {0}
    BY <1>1, <1>3 DEF Months, Cycles
  <2>2. NextPeriod(day, c.cycle, c.customDays) = AddMonths(day, Months(c.cycle))
    BY <1>3 DEF NextPeriod
  <2>. QED BY <2>1, <2>2, AddMonthsFollows
<1>. QED BY <1>2, <1>3

-----------------------------------------------------------------------------
(* Periods *)

Term == [starts : Nat, ends : Nat, cut : BOOLEAN]

(* The periods follow on each other, from a day on. *)
Chain(s, from) ==
  /\ s \in Seq(Term)
  /\ \A k \in 1..Len(s) : /\ s[k].starts < s[k].ends
                          /\ s[k].starts = IF k = 1 THEN from ELSE s[k - 1].ends

(* Whole periods are as long as the calendar says. *)
Regular(s, cycle) ==
  Months(cycle) > 0 =>
    \A k \in 1..Len(s) : s[k].cut \/ Follows(s[k].starts, s[k].ends, Months(cycle))

(* One period. *)
LEMMA PeriodIs ==
  ASSUME NEW c \in Calendar, ValidCycle(c), NEW finalAt \in Nat, NEW day \in Nat, day < finalAt
  PROVE  LET p == Period(c, day, finalAt) IN
         /\ p \in Term /\ p.starts = day /\ p.ends \in day + 1..finalAt
         /\ Months(c.cycle) > 0 => p.cut \/ Follows(day, p.ends, Months(c.cycle))
<1>1. PICK next \in Nat : next = NextPeriod(day, c.cycle, c.customDays)
  BY NextPeriodFollows
<1>2. day < next /\ (Months(c.cycle) > 0 => Follows(day, next, Months(c.cycle)))
  BY <1>1, NextPeriodFollows
<1>3. PICK end \in day + 1..finalAt : end = IF next < finalAt THEN next ELSE finalAt
  BY <1>2
<1>4. Period(c, day, finalAt) = [starts |-> day, ends |-> end, cut |-> end < next]
  BY <1>1, <1>3 DEF Period
<1>5. end \in Nat /\ (~(end < next) => end = next)
  BY <1>3
<1> DEFINE p == Period(c, day, finalAt)
<1>6. p.starts = day /\ p.ends = end /\ p.cut = (end < next)
  BY <1>4
<1>7. p \in Term
  BY <1>4, <1>5 DEF Term
<1>8. Months(c.cycle) > 0 => p.cut \/ Follows(day, p.ends, Months(c.cycle))
  BY <1>2, <1>5, <1>6
<1>. QED BY <1>6, <1>7, <1>8

(* The loop of buildSchedules ends: from every day on there is a sequence of periods. *)
LEMMA PeriodsExist ==
  ASSUME NEW c \in Calendar, ValidCycle(c), NEW finalAt \in Nat, NEW start \in Nat, start < finalAt
  PROVE  \E g : g = [day \in start..finalAt |->
                      IF day = finalAt THEN <<>>
                      ELSE <<Period(c, day, finalAt)>> \o g[Period(c, day, finalAt).ends]]
<1> DEFINE P(day) == Period(c, day, finalAt)
           Loop(g, n) == g = [day \in n..finalAt |-> IF day = finalAt THEN <<>> ELSE <<P(day)>> \o g[P(day).ends]]
           T == {k \in Nat : k <= finalAt /\ ~ \E g : Loop(g, finalAt - k)}
<1>1. \A day \in Nat : day < finalAt => P(day).ends \in day + 1..finalAt
  BY PeriodIs
<1>2. SUFFICES ASSUME T # {} PROVE FALSE
  <2>1. finalAt - start \in Nat /\ finalAt - start <= finalAt /\ finalAt - (finalAt - start) = start
    OBVIOUS
  <2>2. finalAt - start \notin T => \E g : Loop(g, start)
    BY <2>1
  <2>. QED BY <2>2
<1>3. PICK k \in T : \A j \in T : k <= j
  BY <1>2, Least
<1>4. CASE k = 0
  <2> DEFINE g == [day \in finalAt..finalAt |-> <<>>]
  <2>1. Loop(g, finalAt)
    OBVIOUS
  <2>2. finalAt - k = finalAt
    BY <1>4
  <2>3. \E x : Loop(x, finalAt - k)
    BY <2>1, <2>2
  <2>. QED BY <2>3, <1>3
<1>5. CASE k # 0
  <2>K. k \in Nat /\ k <= finalAt
    BY <1>3
  <2>1. k - 1 \in Nat /\ k - 1 \notin T /\ k - 1 <= finalAt
    <3> HIDE DEF T
    <3>. QED BY <2>K, <1>3, <1>5
  <2>2. PICK n \in Nat : n = finalAt - k /\ n < finalAt /\ n + 1 = finalAt - (k - 1)
    BY <1>3, <1>5
  <2>3. PICK g : Loop(g, n + 1)
    BY <2>1, <2>2
  <2> DEFINE h == [day \in n..finalAt |-> IF day = n THEN <<P(n)>> \o g[P(n).ends] ELSE g[day]]
  <2>4. \A day \in n + 1..finalAt : h[day] = g[day]
    BY <2>2
  <2>5. ASSUME NEW day \in n..finalAt
        PROVE  h[day] = IF day = finalAt THEN <<>> ELSE <<P(day)>> \o h[P(day).ends]
    <3>1. CASE day = n
      <4>1. P(n).ends \in n + 1..finalAt
        BY <1>1, <2>2
      <4>. QED BY <4>1, <2>2, <2>4, <3>1
    <3>2. CASE day # n
      <4>1. day \in n + 1..finalAt
        BY <3>2, <2>2
      <4>2. g[day] = IF day = finalAt THEN <<>> ELSE <<P(day)>> \o g[P(day).ends]
        BY <4>1, <2>3
      <4>3. day # finalAt => P(day).ends \in n + 1..finalAt
        <5>1. day \in Nat /\ (day # finalAt => day < finalAt)
          BY <2>2
        <5>2. day # finalAt => P(day).ends \in day + 1..finalAt
          BY <5>1, <1>1
        <5>. QED BY <5>1, <5>2, <4>1
      <4>. QED BY <4>1, <4>2, <4>3, <2>4
    <3>. QED BY <3>1, <3>2
  <2>6. Loop(h, n)
    BY <2>5
  <2>. QED BY <2>6, <2>2, <1>3
<1>. QED BY <1>4, <1>5

(* A chain that goes on where another ends continues it. *)
LEMMA ChainConcat ==
  ASSUME NEW a \in Nat, NEW s, Chain(s, a), NEW t, Chain(t, IF s = <<>> THEN a ELSE s[Len(s)].ends)
  PROVE  Chain(s \o t, a)
<1>1. s \in Seq(Term) /\ t \in Seq(Term)
  BY DEF Chain
<1>2. /\ s \o t \in Seq(Term) /\ Len(s \o t) = Len(s) + Len(t) /\ Len(s) \in Nat /\ Len(t) \in Nat
      /\ \A k \in 1..Len(s) : (s \o t)[k] = s[k]
      /\ \A k \in 1..Len(t) : (s \o t)[k + Len(s)] = t[k]
  BY <1>1, ConcatProperties
<1> DEFINE b == IF s = <<>> THEN a ELSE s[Len(s)].ends
<1>3. s = <<>> <=> Len(s) = 0
  BY <1>1, EmptySeq
<1>4. ASSUME NEW k \in 1..Len(s) + Len(t)
      PROVE  /\ (s \o t)[k].starts < (s \o t)[k].ends
             /\ (s \o t)[k].starts = IF k = 1 THEN a ELSE (s \o t)[k - 1].ends
  <2>1. CASE k <= Len(s)
    <3>1. k \in 1..Len(s) /\ (k # 1 => k - 1 \in 1..Len(s))
      BY <2>1, <1>2
    <3>. QED BY <3>1, <1>2 DEF Chain
  <2>2. CASE k > Len(s)
    <3>1. PICK j \in 1..Len(t) : k = j + Len(s)
      BY <2>2, <1>2
    <3>2. (s \o t)[k] = t[j] /\ t[j].starts < t[j].ends /\ t[j].starts = IF j = 1 THEN b ELSE t[j - 1].ends
      BY <3>1, <1>2 DEF Chain
    <3>3. CASE j = 1
      <4>1. CASE Len(s) = 0
        BY <4>1, <3>1, <3>2, <3>3, <1>3
      <4>2. CASE Len(s) # 0
        <5>1. k - 1 = Len(s) /\ Len(s) \in 1..Len(s) /\ k # 1
          BY <4>2, <3>1, <3>3, <1>2
        <5>2. (s \o t)[k - 1] = s[Len(s)]
          BY <5>1, <1>2
        <5>. QED BY <5>1, <5>2, <3>2, <3>3, <1>3, <4>2
      <4>. QED BY <4>1, <4>2
    <3>4. CASE j # 1
      <4>1. j - 1 \in 1..Len(t) /\ k - 1 = (j - 1) + Len(s) /\ k # 1
        BY <3>1, <3>4, <1>2
      <4>2. (s \o t)[k - 1] = t[j - 1]
        BY <4>1, <1>2
      <4>. QED BY <4>1, <4>2, <3>2, <3>4
    <3>. QED BY <3>3, <3>4
  <2>. QED BY <2>1, <2>2, <1>2
<1>. QED BY <1>2, <1>4 DEF Chain

(* Regular periods joined are regular. *)
LEMMA RegularConcat ==
  ASSUME NEW s \in Seq(Term), NEW t \in Seq(Term), NEW cycle, Regular(s, cycle), Regular(t, cycle)
  PROVE  Regular(s \o t, cycle)
<1>1. /\ Len(s \o t) = Len(s) + Len(t) /\ Len(s) \in Nat /\ Len(t) \in Nat
      /\ \A k \in 1..Len(s) : (s \o t)[k] = s[k]
      /\ \A k \in 1..Len(t) : (s \o t)[k + Len(s)] = t[k]
  BY ConcatProperties
<1>2. ASSUME Months(cycle) > 0, NEW k \in 1..Len(s) + Len(t)
      PROVE  (s \o t)[k].cut \/ Follows((s \o t)[k].starts, (s \o t)[k].ends, Months(cycle))
  <2>1. CASE k <= Len(s)
    BY <1>1, <1>2, <2>1 DEF Regular
  <2>2. CASE k > Len(s)
    <3> DEFINE j == k - Len(s)
    <3>1. j \in 1..Len(t) /\ k = j + Len(s)
      BY <2>2, <1>1
    <3>2. (s \o t)[k] = t[j]
      BY <3>1, <1>1
    <3>. QED BY <3>1, <3>2, <1>2 DEF Regular
  <2>. QED BY <2>1, <2>2, <1>1
<1>. QED BY <1>1, <1>2 DEF Regular

(* What buildSchedules makes is a chain of regular periods from the first day on. *)
LEMMA PeriodsChain ==
  ASSUME NEW c \in Calendar, ValidCycle(c), NEW finalAt \in Nat, NEW start \in Nat
  PROVE  Chain(Periods(c, start, finalAt), start) /\ Regular(Periods(c, start, finalAt), c.cycle)
<1>1. CASE ~(start < finalAt)
  <2>1. Periods(c, start, finalAt) = <<>>
    BY <1>1 DEF Periods
  <2>. QED BY <2>1 DEF Chain, Regular
<1>2. CASE start < finalAt
  <2> DEFINE P(day) == Period(c, day, finalAt)
             Loop(g) == g = [day \in start..finalAt |-> IF day = finalAt THEN <<>> ELSE <<P(day)>> \o g[P(day).ends]]
  <2>1. PICK g : Loop(g) /\ Periods(c, start, finalAt) = g[start]
    <3>1. \E g : Loop(g)
      BY <1>2, PeriodsExist
    <3>2. Loop(CHOOSE g : Loop(g))
      BY <3>1
    <3>3. Periods(c, start, finalAt) = (CHOOSE g : Loop(g))[start]
      BY <1>2 DEF Periods
    <3>. QED BY <3>2, <3>3
  <2> DEFINE Good(day) == Chain(g[day], day) /\ Regular(g[day], c.cycle)
             T == {k \in Nat : k <= finalAt - start /\ ~Good(finalAt - k)}
  <2>2. SUFFICES ASSUME T # {} PROVE FALSE
    <3>1. finalAt - start \in Nat /\ finalAt - (finalAt - start) = start
      BY <1>2
    <3>2. finalAt - start \notin T => Good(start)
      BY <3>1
    <3>. QED BY <3>2, <2>1
  <2>3. PICK k \in T : \A j \in T : k <= j
    BY <2>2, Least
  <2>4. PICK n \in start..finalAt : n = finalAt - k
    BY <2>3
  <2>7. ~Good(n) /\ k \in Nat /\ n \in Nat
    BY <2>3, <2>4
  <2>5. CASE n = finalAt
    <3>1. g[n] = <<>>
      BY <2>1, <2>5
    <3>2. Good(n)
      BY <3>1 DEF Chain, Regular
    <3>. QED BY <3>2, <2>7
  <2>6. CASE n # finalAt
    <3>0. g[n] = IF n = finalAt THEN <<>> ELSE <<P(n)>> \o g[P(n).ends]
      BY <2>1
    <3>1. g[n] = <<P(n)>> \o g[P(n).ends] /\ n \in Nat /\ n < finalAt
      BY <3>0, <2>6
    <3>2. /\ P(n) \in Term /\ P(n).starts = n /\ P(n).ends \in n + 1..finalAt
          /\ Months(c.cycle) > 0 => P(n).cut \/ Follows(n, P(n).ends, Months(c.cycle))
      BY <3>1, PeriodIs
    <3>3. PICK e \in n + 1..finalAt : e = P(n).ends
      BY <3>2
    <3>4. finalAt - e \in Nat /\ finalAt - e <= finalAt - start /\ finalAt - e < k /\ finalAt - (finalAt - e) = e
      BY <3>1, <2>3, <2>4
    <3>5. finalAt - e \notin T
      <4> HIDE DEF T
      <4>. QED BY <3>4, <2>3, <2>7
    <3>6. Good(e)
      BY <3>4, <3>5
    <3> DEFINE one == <<P(n)>>
    <3>7. one \in Seq(Term) /\ Len(one) = 1 /\ one[1] = P(n) /\ one # <<>>
      BY <3>2
    <3>8. Chain(one, n) /\ Regular(one, c.cycle)
      BY <3>1, <3>2, <3>3, <3>7 DEF Chain, Regular
    <3>9. g[n] = one \o g[e] /\ g[e] \in Seq(Term) /\ one[Len(one)].ends = e
      BY <3>1, <3>3, <3>6, <3>7 DEF Chain
    <3> HIDE DEF one, P, Loop
    <3>10. Chain(g[n], n)
      <4>1. Chain(g[e], IF one = <<>> THEN n ELSE one[Len(one)].ends)
        BY <3>6, <3>7, <3>9
      <4>2. Chain(one \o g[e], n)
        BY <4>1, <3>1, <3>8, ChainConcat
      <4>. QED BY <4>2, <3>9
    <3>11. Regular(g[n], c.cycle)
      BY <3>6, <3>7, <3>8, <3>9, RegularConcat
    <3>. QED BY <3>10, <3>11, <2>7
  <2>. QED BY <2>5, <2>6
<1>. QED BY <1>1, <1>2

-----------------------------------------------------------------------------
(* Requests *)

(* What a request asks for, by its operation. *)
LEMMA AskIs ==
  ASSUME NEW ask \in Asks
  PROVE  /\ ask.op \in {"create", "renew"} => ask.lease \in Leases /\ ask.ends \in Days
         /\ ask.op = "update" => ask.lease \in Leases /\ ask.status \in LeaseStatuses
         /\ ask.op \in {"terminate", "archive", "restore"} => ask.lease \in Leases
         /\ ask.op = "createBilling" => ask.lease \in Leases /\ ask.calendar \in Calendar
         /\ ask.op = "updateBilling" => ask.lease \in Leases /\ ask.archived \in BOOLEAN
         /\ ask.op = "generate" => ask.lease \in Leases /\ ask.through \in Days
         /\ ask.op = "occupy" => ask.status \in OccupancyStatuses
         /\ ask.op # "occupy" => ask.lease \in Leases
<1>1. ask \in AllAsks
  BY LeasingAssumption
<1>2. ask \in LeaseAsks \/ ask \in BillingAsks \/ ask \in OccupancyAsks
  BY <1>1 DEF AllAsks
<1>3. CASE ask \in LeaseAsks
  BY <1>3 DEF LeaseAsks
<1>4. CASE ask \in BillingAsks
  BY <1>4 DEF BillingAsks
<1>5. CASE ask \in OccupancyAsks
  BY <1>5 DEF OccupancyAsks
<1>. QED BY <1>2, <1>3, <1>4, <1>5

(* A step of one request leaves the others as they are. *)
OthersStay(q) == \A p \in Requests \ {q} : request'[p] = request[p]
FlightType == request' \in [Requests -> InFlight \cup {Null}]

(* A request in flight. *)
LEMMA FlightIs ==
  ASSUME TypeOK, NEW q \in Requests, request[q] # Null
  PROVE  request[q] \in InFlight /\ request[q].ask \in Asks /\ request[q].number \in Nat
BY DEF TypeOK, InFlight

(* A request that begins. *)
LEMMA BeginFlies ==
  ASSUME TypeOK, NEW q \in Requests, NEW ask \in Asks, NEW phase \in {"read", "ready"}, NEW seen \in Seen,
         Begin(q, ask, phase, seen)
  PROVE  /\ FlightType /\ OthersStay(q) /\ request[q] = Null /\ request'[q] # Null
         /\ request'[q].ask = ask /\ request'[q].phase = phase /\ request'[q].seen = seen
         /\ begun' \in 0..MaxRequests
<1> DEFINE new == [ask |-> ask, phase |-> phase, seen |-> seen, number |-> begun + 1]
<1>1. request' = [request EXCEPT ![q] = new] /\ request[q] = Null /\ begun < MaxRequests /\ begun' = begun + 1
  BY DEF Begin
<1>2. begun \in Nat /\ MaxRequests \in Nat
  BY LeasingAssumption DEF TypeOK
<1>3. new \in InFlight
  BY <1>2 DEF InFlight
<1>4. new # Null
  BY <1>3, NullAssumption
<1>5. new.ask = ask /\ new.phase = phase /\ new.seen = seen
  OBVIOUS
<1>6. request \in [Requests -> InFlight \cup {Null}]
  BY DEF TypeOK
<1> HIDE DEF new
<1>7. request'[q] = new /\ FlightType /\ OthersStay(q)
  BY <1>1, <1>3, <1>6 DEF FlightType, OthersStay
<1>. QED BY <1>1, <1>2, <1>4, <1>5, <1>7

(* A request that reads on. *)
LEMMA ContinueFlies ==
  ASSUME TypeOK, NEW q \in Requests, request[q] # Null, NEW seen \in Seen, Continue(q, seen)
  PROVE  /\ FlightType /\ OthersStay(q) /\ request'[q] # Null
         /\ request'[q].ask = request[q].ask /\ request'[q].phase = "ready" /\ request'[q].seen = seen
         /\ begun' = begun
<1>1. PICK old \in InFlight : old = request[q]
  BY FlightIs
<1> DEFINE new == [old EXCEPT !.phase = "ready", !.seen = seen]
<1>2. new \in InFlight /\ new.ask = old.ask /\ new.phase = "ready" /\ new.seen = seen
  BY DEF InFlight
<1>3. request \in [Requests -> InFlight \cup {Null}]
  BY DEF TypeOK
<1>4. request' = [request EXCEPT ![q] = new]
  BY <1>1, <1>3 DEF Continue
<1>5. new # Null
  BY <1>2, NullAssumption
<1> HIDE DEF new
<1>6. request'[q] = new /\ FlightType /\ OthersStay(q)
  BY <1>2, <1>3, <1>4 DEF FlightType, OthersStay
<1>. QED BY <1>1, <1>2, <1>5, <1>6 DEF Continue

(* A request that ends. *)
LEMMA EndFlies ==
  ASSUME TypeOK, NEW q \in Requests, End(q)
  PROVE  FlightType /\ OthersStay(q) /\ request'[q] = Null /\ begun' = begun
BY DEF End, TypeOK, FlightType, OthersStay

(* Most steps end their request. *)
Ends(q) ==
  \/ CreateLease(q) \/ UpdateLease(q) \/ RenewLease(q)
  \/ TerminateLease(q) \/ ArchiveLease(q) \/ RestoreLease(q)
  \/ CreateBilling(q) \/ UpdateBilling(q) \/ GenerateSchedules(q) \/ Occupy(q) \/ Refuse(q)

(* They do. *)
LEMMA EndsEnd ==
  ASSUME NEW q \in Requests, Ends(q)
  PROVE  End(q)
BY DEF Ends, CreateLease, UpdateLease, RenewLease, TerminateLease, ArchiveLease, RestoreLease, SaveLease,
  CreateBilling, UpdateBilling, GenerateSchedules, Occupy, Refuse

(* The operations that begin, with what they have seen. *)
Begins(q, ask) ==
  \/ BeginCreate(q, ask) \/ BeginUpdate(q, ask) \/ BeginRenew(q, ask) \/ BeginEnd(q, ask)
  \/ BeginCreateBilling(q, ask) \/ BeginUpdateBilling(q, ask) \/ BeginGenerate(q, ask)
  \/ BeginOccupy(q, ask)

(* Beginning changes nothing but requests, and sees what its operation says. *)
LEMMA BeginsWith ==
  ASSUME TypeOK, NEW q \in Requests, NEW ask \in Asks, Begins(q, ask)
  PROVE  /\ UNCHANGED <<rental, occupancy>>
         /\ \E phase \in {"read", "ready"}, seen \in Seen :
              /\ Begin(q, ask, phase, seen)
              /\ ask.op \in {"create", "update", "renew", "terminate", "archive", "restore",
                             "createBilling", "updateBilling"} => phase = "ready"
              /\ ask.op \in {"generate", "occupy"} => phase = "read"
              /\ ask.op = "renew" => seen = lease[ask.lease].ends
              /\ ask.op = "generate" => seen = [ends |-> lease[ask.lease].ends, calendar |-> calendar[ask.lease]]
<1>1. {} \in Seen /\ Null \in Seen
  BY DEF Seen
<1>2. CASE BeginCreate(q, ask) \/ BeginUpdate(q, ask) \/ BeginEnd(q, ask)
           \/ BeginCreateBilling(q, ask) \/ BeginUpdateBilling(q, ask)
  BY <1>1, <1>2 DEF BeginCreate, BeginUpdate, BeginEnd, BeginCreateBilling, BeginUpdateBilling
<1>3. CASE BeginRenew(q, ask)
  <2>1. ask.op = "renew" /\ Live(ask.lease) /\ Begin(q, ask, "ready", lease[ask.lease].ends)
        /\ UNCHANGED <<rental, occupancy>>
    BY <1>3 DEF BeginRenew
  <2>2. lease[ask.lease] \in Lease
    BY <2>1, AskIs DEF Live, TypeOK
  <2>3. lease[ask.lease].ends \in Seen
    BY <2>2 DEF Lease, Seen
  <2>. QED BY <2>1, <2>3
<1>4. CASE BeginGenerate(q, ask)
  <2> DEFINE seen == [ends |-> lease[ask.lease].ends, calendar |-> calendar[ask.lease]]
  <2>1. ask.op = "generate" /\ Live(ask.lease) /\ calendar[ask.lease] # Null /\ Begin(q, ask, "read", seen)
        /\ UNCHANGED <<rental, occupancy>>
    BY <1>4 DEF BeginGenerate
  <2>2. lease[ask.lease] \in Lease /\ calendar[ask.lease] \in Calendar
    BY <2>1, AskIs DEF Live, TypeOK
  <2>3. seen \in Seen
    BY <2>2 DEF Lease, Seen
  <2> HIDE DEF seen
  <2>4. ask.op = "generate" => seen = [ends |-> lease[ask.lease].ends, calendar |-> calendar[ask.lease]]
    BY DEF seen
  <2>. QED BY <2>1, <2>3, <2>4
<1>5. CASE BeginOccupy(q, ask)
  BY <1>1, <1>5 DEF BeginOccupy
<1>. QED BY <1>2, <1>3, <1>4, <1>5 DEF Begins

-----------------------------------------------------------------------------
(* Leases *)

(* What a request knows of its lease: that it is there, for leases stay; and a renewal, *)
(* that the lease ends as it read, or has raced with another one.                        *)
Knows(q) ==
  request[q] # Null =>
    LET ask == request[q].ask IN
    /\ ask.op \in {"update", "renew", "terminate", "archive", "restore"} => lease[ask.lease] # Null
    /\ ask.op = "renew" =>
         /\ request[q].seen \in Days /\ request[q].seen < ask.ends
         /\ lease[ask.lease].ends = request[q].seen \/ lease[ask.lease].ends \in raced[q]

(* A row that is saved replaces one lease, as far as the index allows. *)
LEMMA SaveLeaseIs ==
  ASSUME TypeOK, NEW q \in Requests, NEW l \in Leases, l = request[q].ask.lease,
         NEW row \in Lease, SaveLease(q, row)
  PROVE  /\ lease' \in [Leases -> Lease \cup {Null}] /\ HeldOnce(lease')
         /\ lease'[l] = row /\ lease'[l] # Null /\ \A x \in Leases \ {l} : lease'[x] = lease[x]
<1>1. lease' = [lease EXCEPT ![l] = row] /\ HeldOnce(lease')
  BY DEF SaveLease
<1>. QED BY <1>1, NullAssumption DEF TypeOK

(* What a step may do to the leases: it keeps them, with at most one that holds the unit, *)
(* and only a renewal changes where one ends.                                              *)
LeasesOnward(q) ==
  /\ lease' \in [Leases -> Lease \cup {Null}]
  /\ HeldOnce(lease) => HeldOnce(lease')
  /\ \A l \in Leases : lease[l] # Null =>
       /\ lease'[l] # Null
       /\ lease'[l].ends # lease[l].ends =>
            RenewLease(q) /\ request[q].ask.lease = l /\ lease'[l].ends = request[q].ask.ends

(* Creating a lease. *)
LEMMA CreateOnward ==
  ASSUME TypeOK, NEW q \in Requests, CreateLease(q)
  PROVE  LeasesOnward(q)
<1>1. request[q] # Null /\ request[q].ask.op = "create"
  BY DEF CreateLease, Asked
<1>2. PICK ask \in Asks : ask = request[q].ask
  BY <1>1, FlightIs
<1>3. PICK l \in Leases : l = request[q].ask.lease
  BY <1>1, <1>2, AskIs
<1> DEFINE row == [status |-> "DRAFT", deleted |-> FALSE, ends |-> request[q].ask.ends]
<1>4. row \in Lease
  BY <1>1, <1>2, AskIs DEF Lease, LeaseStatuses
<1>5. SaveLease(q, row) /\ lease[l] = Null
  BY <1>3 DEF CreateLease
<1> HIDE DEF row
<1>. QED BY <1>3, <1>4, <1>5, SaveLeaseIs DEF LeasesOnward

(* The other operations on a lease write a status and a deletion. *)
LEMMA RowIs ==
  ASSUME TypeOK, NEW q \in Requests, Knows(q), request[q] # Null,
         request[q].ask.op \in {"update", "renew", "terminate", "archive", "restore"}
  PROVE  \E l \in Leases : l = request[q].ask.lease /\ lease[l] \in Lease
<1>2. PICK ask \in Asks : ask = request[q].ask
  BY FlightIs
<1>3. PICK l \in Leases : l = request[q].ask.lease
  BY <1>2, AskIs
<1>. QED BY <1>3 DEF Knows, TypeOK

(* They leave the end alone. *)
LEMMA StatusOnward ==
  ASSUME TypeOK, NEW q \in Requests, Knows(q),
         UpdateLease(q) \/ TerminateLease(q) \/ ArchiveLease(q) \/ RestoreLease(q)
  PROVE  LeasesOnward(q)
<1>1. request[q] # Null /\ request[q].ask.op \in {"update", "terminate", "archive", "restore"}
  BY DEF UpdateLease, TerminateLease, ArchiveLease, RestoreLease, Asked
<1>2. PICK ask \in Asks : ask = request[q].ask
  BY <1>1, FlightIs
<1>3. PICK l \in Leases : l = request[q].ask.lease /\ lease[l] \in Lease
  BY <1>1, RowIs
<1>4. PICK old \in Lease : old = lease[l]
  BY <1>3
<1>5. ASSUME NEW row \in Lease, SaveLease(q, row), row.ends = old.ends PROVE LeasesOnward(q)
  BY <1>3, <1>4, <1>5, SaveLeaseIs DEF LeasesOnward
<1>6. CASE UpdateLease(q)
  <2>1. [old EXCEPT !.status = ask.status] \in Lease /\ [old EXCEPT !.status = ask.status].ends = old.ends
    BY <1>2, <1>6, AskIs DEF UpdateLease, Asked, Lease
  <2>2. SaveLease(q, [old EXCEPT !.status = ask.status])
    BY <1>2, <1>3, <1>4, <1>6 DEF UpdateLease
  <2>. QED BY <2>1, <2>2, <1>5
<1>7. CASE TerminateLease(q)
  <2> DEFINE row == [old EXCEPT !.status = "NOTICE_TERMINATED"]
  <2>1. row \in Lease /\ row.ends = old.ends
    BY DEF Lease, LeaseStatuses
  <2>2. SaveLease(q, row)
    BY <1>3, <1>4, <1>7 DEF TerminateLease
  <2>. QED BY <2>1, <2>2, <1>5
<1>8. CASE ArchiveLease(q)
  <2> DEFINE row == [old EXCEPT !.status = "ARCHIVED", !.deleted = TRUE]
  <2>1. row \in Lease /\ row.ends = old.ends
    BY DEF Lease, LeaseStatuses
  <2>2. SaveLease(q, row)
    BY <1>3, <1>4, <1>8 DEF ArchiveLease
  <2>. QED BY <2>1, <2>2, <1>5
<1>9. CASE RestoreLease(q)
  <2> DEFINE row == [old EXCEPT !.status = "DRAFT", !.deleted = FALSE]
  <2>1. row \in Lease /\ row.ends = old.ends
    BY DEF Lease, LeaseStatuses
  <2>2. SaveLease(q, row)
    BY <1>3, <1>4, <1>9 DEF RestoreLease
  <2>. QED BY <2>1, <2>2, <1>5
<1>. QED BY <1>6, <1>7, <1>8, <1>9

(* A renewal moves it. *)
LEMMA RenewOnward ==
  ASSUME TypeOK, NEW q \in Requests, Knows(q), RenewLease(q)
  PROVE  LeasesOnward(q)
<1>1. request[q] # Null /\ request[q].ask.op = "renew"
  BY DEF RenewLease, Asked
<1>2. PICK ask \in Asks : ask = request[q].ask
  BY <1>1, FlightIs
<1>3. PICK l \in Leases : l = request[q].ask.lease /\ lease[l] \in Lease
  BY <1>1, RowIs
<1>4. PICK old \in Lease : old = lease[l]
  BY <1>3
<1> DEFINE row == [old EXCEPT !.status = "ACTIVE", !.ends = ask.ends]
<1>5. row \in Lease /\ row.ends = ask.ends
  BY <1>1, <1>2, AskIs DEF Lease, LeaseStatuses
<1>6. SaveLease(q, row)
  BY <1>2, <1>3, <1>4 DEF RenewLease
<1> HIDE DEF row
<1>. QED BY <1>2, <1>3, <1>5, <1>6, SaveLeaseIs DEF LeasesOnward

(* The other steps do not touch leases. *)
LeaseSaves(q) ==
  CreateLease(q) \/ UpdateLease(q) \/ RenewLease(q) \/ TerminateLease(q) \/ ArchiveLease(q) \/ RestoreLease(q)

(* Every step takes the leases onward. *)
LEMMA LeaseStep ==
  ASSUME TypeOK, NEW q \in Requests, Knows(q), Step(q)
  PROVE  LeasesOnward(q)
<1>1. CASE LeaseSaves(q)
  BY <1>1, CreateOnward, StatusOnward, RenewOnward DEF LeaseSaves
<1>2. CASE ~LeaseSaves(q)
  <2>1. ASSUME NEW ask \in Asks, Begins(q, ask) PROVE UNCHANGED lease
    BY <2>1, BeginsWith DEF rental
  <2>2. UNCHANGED lease
    BY <1>2, <2>1 DEF Step, Begins, LeaseSaves, CreateBilling, UpdateBilling, ReadLastSchedule, GenerateSchedules,
      CloseOccupancies, Occupy, Refuse, rental
  <2>. QED BY <2>2 DEF LeasesOnward, TypeOK
<1>. QED BY <1>1, <1>2

(* A step of a request, by what it does to the request. *)
LEMMA StepIs ==
  ASSUME NEW q \in Requests, Step(q)
  PROVE  \/ \E ask \in Asks : Begins(q, ask)
         \/ ReadLastSchedule(q) \/ CloseOccupancies(q)
         \/ Ends(q)
BY DEF Step, Begins, Ends

(* Beside a renewal in flight, every new end of its lease is noted. *)
LEMMA RenewalsObserved ==
  ASSUME Observe, NEW q \in Requests, request'[q] # Null, request'[q].ask.op = "renew",
         request[q] # Null => request[q].ask = request'[q].ask
  PROVE  /\ raced[q] \subseteq raced'[q]
         /\ request[q] # Null /\ lease'[request'[q].ask.lease] # lease[request'[q].ask.lease] =>
              lease'[request'[q].ask.lease].ends \in raced'[q]
<1> DEFINE l == request'[q].ask.lease
<1>0. ~Asked(q, "occupy", "ready")
  BY DEF Asked
<1>1. raced'[q] = raced[q] \cup (IF request[q] # Null /\ lease'[l] # lease[l] THEN {lease'[l].ends} ELSE {})
  BY <1>0 DEF Observe
<1>. QED BY <1>1

(* What requests know of their leases stays true. *)
LEMMA KnowsStep ==
  ASSUME TypeOK, \A c \in Requests : Knows(c), NEW q \in Requests, Step(q), Observe, FlightType, OthersStay(q)
  PROVE  \A c \in Requests : Knows(c)'
<1>0. LeasesOnward(q)
  BY LeaseStep
<1>1. ASSUME NEW c \in Requests, request[c] # Null, request'[c] # Null, request'[c].ask = request[c].ask,
             request[c].ask.op = "renew" => request'[c].seen = request[c].seen
      PROVE  Knows(c)'
  <2>1. PICK ask \in Asks : ask = request[c].ask
    BY <1>1, FlightIs
  <2>2. ask.op \in {"update", "renew", "terminate", "archive", "restore"} =>
          ask.lease \in Leases /\ lease[ask.lease] # Null /\ lease'[ask.lease] # Null
    BY <1>0, <1>1, <2>1, AskIs DEF Knows, LeasesOnward
  <2>3. ASSUME ask.op = "renew"
        PROVE  /\ request[c].seen \in Days /\ request[c].seen < ask.ends
               /\ lease'[ask.lease].ends = request[c].seen \/ lease'[ask.lease].ends \in raced'[c]
    <3>1. /\ request[c].seen \in Days /\ request[c].seen < ask.ends
          /\ lease[ask.lease].ends = request[c].seen \/ lease[ask.lease].ends \in raced[c]
      BY <1>1, <2>1, <2>3 DEF Knows
    <3>2. /\ raced[c] \subseteq raced'[c]
          /\ lease'[ask.lease] # lease[ask.lease] => lease'[ask.lease].ends \in raced'[c]
      BY <1>1, <2>1, <2>3, RenewalsObserved
    <3>. QED BY <3>1, <3>2
  <2>. QED BY <1>1, <2>1, <2>2, <2>3 DEF Knows
<1>2. ASSUME NEW c \in Requests \ {q} PROVE Knows(c)'
  <2>1. request'[c] = request[c]
    BY DEF OthersStay
  <2>. QED BY <1>1, <2>1 DEF Knows
<1>3. ASSUME NEW ask \in Asks, Begins(q, ask) PROVE Knows(q)'
  <2>1. PICK phase \in {"read", "ready"}, seen \in Seen :
          Begin(q, ask, phase, seen) /\ (ask.op = "renew" => seen = lease[ask.lease].ends)
    BY <1>3, BeginsWith
  <2>2. request'[q].ask = ask /\ request'[q].seen = seen
    BY <2>1, BeginFlies
  <2>3. UNCHANGED lease
    BY <1>3, BeginsWith DEF rental
  <2>4. ask.op \in {"update", "renew", "terminate", "archive", "restore"} => lease[ask.lease] # Null
    BY <1>3 DEF Begins, BeginCreate, BeginUpdate, BeginRenew, BeginEnd, BeginCreateBilling, BeginUpdateBilling,
      BeginGenerate, BeginOccupy, Live
  <2>5. ask.op = "renew" => lease[ask.lease].ends < ask.ends /\ lease[ask.lease].ends \in Days
    <3>1. ask.op = "renew" => ask.ends > lease[ask.lease].ends
      BY <1>3 DEF Begins, BeginCreate, BeginUpdate, BeginRenew, BeginEnd, BeginCreateBilling, BeginUpdateBilling,
        BeginGenerate, BeginOccupy
    <3>2. ask.op = "renew" => lease[ask.lease] \in Lease /\ ask.ends \in Days
      BY <2>4, AskIs DEF TypeOK
    <3>. QED BY <3>1, <3>2 DEF Lease, Days
  <2>. QED BY <2>1, <2>2, <2>3, <2>4, <2>5 DEF Knows
<1>4. ASSUME ReadLastSchedule(q) \/ CloseOccupancies(q) PROVE Knows(q)'
  <2>1. PICK ask \in Asks : ask = request[q].ask /\ ask.op \in {"generate", "occupy"} /\ request[q] # Null
    BY <1>4, FlightIs DEF ReadLastSchedule, CloseOccupancies, Asked
  <2>2. request'[q] # Null => request'[q].ask = ask
    BY <1>4, <2>1 DEF ReadLastSchedule, CloseOccupancies, Continue, TypeOK, InFlight
  <2>. QED BY <2>1, <2>2 DEF Knows
<1>5. ASSUME Ends(q) PROVE Knows(q)'
  BY <1>5, EndsEnd, EndFlies DEF Knows
<1>6. Knows(q)'
  BY <1>3, <1>4, <1>5, StepIs
<1>. QED BY <1>2, <1>6

-----------------------------------------------------------------------------
(* Occupancy *)

(* What is open beside an update that is about to open its own was open when it ended *)
(* the others, or was opened since.                                                    *)
Closes(q) == Asked(q, "occupy", "ready") => open \subseteq request[q].seen \cup raced[q]

(* Only an update of the occupancy opens or ends one. *)
LEMMA OccupancyStep ==
  ASSUME TypeOK, NEW q \in Requests, Step(q)
  PROVE  /\ unit' \in OccupancyStatuses /\ open' \subseteq Nat \X OccupancyStatuses
         /\ UNCHANGED occupancy \/ Occupy(q)
<1>1. CASE Occupy(q)
  <2>1. request[q] # Null /\ request[q].ask.op = "occupy"
    BY <1>1 DEF Occupy, Asked
  <2>2. PICK ask \in Asks, n \in Nat : ask = request[q].ask /\ n = request[q].number
    BY <2>1, FlightIs
  <2>3. ask.status \in OccupancyStatuses
    BY <2>1, <2>2, AskIs
  <2>4. open' = (open \ request[q].seen) \cup {<<n, ask.status>>} /\ unit' = ask.status
    BY <1>1, <2>2 DEF Occupy
  <2>. QED BY <1>1, <2>3, <2>4 DEF TypeOK
<1>2. CASE ~Occupy(q)
  <2>1. ASSUME NEW ask \in Asks, Begins(q, ask) PROVE UNCHANGED occupancy
    BY <2>1, BeginsWith
  <2>2. UNCHANGED occupancy
    BY <1>2, <2>1 DEF Step, Begins, CreateLease, UpdateLease, RenewLease, TerminateLease, ArchiveLease,
      RestoreLease, SaveLease, CreateBilling, UpdateBilling, ReadLastSchedule, GenerateSchedules, CloseOccupancies,
      Refuse, occupancy
  <2>. QED BY <2>2 DEF occupancy, TypeOK
<1>. QED BY <1>1, <1>2

(* While an update waits for its transaction, what is opened is noted. *)
LEMMA OccupanciesObserved ==
  ASSUME Observe, NEW q \in Requests, Asked(q, "occupy", "ready"), request'[q] # Null,
         request'[q].ask = request[q].ask
  PROVE  raced'[q] = raced[q] \cup (open' \ open)
<1>1. request'[q].ask.op # "renew"
  BY DEF Asked
<1>. QED BY <1>1 DEF Observe

(* What an update leaves open stays accounted for. *)
LEMMA ClosesStep ==
  ASSUME TypeOK, \A c \in Requests : Closes(c), NEW q \in Requests, Step(q), Observe, OthersStay(q)
  PROVE  \A c \in Requests : Closes(c)'
<1>1. ASSUME NEW c \in Requests \ {q} PROVE Closes(c)'
  <2>1. request'[c] = request[c]
    BY DEF OthersStay
  <2>2. SUFFICES ASSUME Asked(c, "occupy", "ready") PROVE open' \subseteq request[c].seen \cup raced'[c]
    BY <2>1 DEF Closes, Asked
  <2>3. raced'[c] = raced[c] \cup (open' \ open)
    BY <2>1, <2>2, OccupanciesObserved DEF Asked
  <2>. QED BY <2>2, <2>3 DEF Closes
<1>2. ASSUME NEW ask \in Asks, Begins(q, ask) PROVE Closes(q)'
  <2>1. PICK phase \in {"read", "ready"}, seen \in Seen :
          Begin(q, ask, phase, seen) /\ (ask.op \in {"generate", "occupy"} => phase = "read")
    BY <1>2, BeginsWith
  <2>2. request'[q].ask = ask /\ request'[q].phase = phase
    BY <2>1, BeginFlies
  <2>. QED BY <2>1, <2>2 DEF Closes, Asked
<1>3. ASSUME ReadLastSchedule(q) PROVE Closes(q)'
  <2>1. request[q] # Null /\ request[q].ask.op = "generate"
    BY <1>3 DEF ReadLastSchedule, Asked
  <2>2. request'[q].ask = request[q].ask
    BY <1>3, <2>1 DEF ReadLastSchedule, Continue, TypeOK, InFlight
  <2>. QED BY <2>1, <2>2 DEF Closes, Asked
<1>4. ASSUME CloseOccupancies(q) PROVE Closes(q)'
  <2>1. request'[q].seen = open /\ open' = open
    BY <1>4 DEF CloseOccupancies, Asked, Continue, TypeOK, InFlight, occupancy
  <2>. QED BY <2>1 DEF Closes
<1>5. ASSUME Ends(q) PROVE Closes(q)'
  BY <1>5, EndsEnd, EndFlies DEF Closes, Asked
<1>6. Closes(q)'
  BY <1>2, <1>3, <1>4, <1>5, StepIs
<1>. QED BY <1>1, <1>6

-----------------------------------------------------------------------------
(* Rows of a schedule *)

(* The rows, one for each period. *)
LEMMA NumberedIs ==
  ASSUME NEW s \in Seq(Term), NEW n \in Nat
  PROVE  /\ Numbered(s, n + 1) \in SUBSET Row
         /\ \A k \in 1..Len(s) : \E r \in Numbered(s, n + 1) :
              r.sequence = n + k /\ r.starts = s[k].starts /\ r.ends = s[k].ends /\ r.cut = s[k].cut
         /\ \A r \in Numbered(s, n + 1) : \E k \in 1..Len(s) :
              r = [sequence |-> n + k, starts |-> s[k].starts, ends |-> s[k].ends, cut |-> s[k].cut]
         /\ Numbered(s, n + 1) = {} <=> s = <<>>
<1> DEFINE R(k) == [sequence |-> n + k, starts |-> s[k].starts, ends |-> s[k].ends, cut |-> s[k].cut]
<1>1. DOMAIN s = 1..Len(s) /\ Len(s) \in Nat /\ (s = <<>> <=> Len(s) = 0)
  BY EmptySeq
<1>2. \A k \in 1..Len(s) : n + 1 + k - 1 = n + k /\ s[k] \in Term /\ n + k \in Nat
  BY <1>1
<1>3. Numbered(s, n + 1) = {R(k) : k \in 1..Len(s)}
  BY <1>1, <1>2 DEF Numbered
<1>4. \A k \in 1..Len(s) : R(k) \in Row
  BY <1>2 DEF Row, Term, Days
<1>5. Len(s) # 0 => 1 \in 1..Len(s)
  BY <1>1
<1>6. \A k \in 1..Len(s) : /\ R(k).sequence = n + k /\ R(k).starts = s[k].starts
                            /\ R(k).ends = s[k].ends /\ R(k).cut = s[k].cut
  OBVIOUS
<1>7. \A r \in Numbered(s, n + 1) : \E k \in 1..Len(s) :
        r = [sequence |-> n + k, starts |-> s[k].starts, ends |-> s[k].ends, cut |-> s[k].cut]
  BY <1>3
<1> HIDE DEF R
<1>8. Numbered(s, n + 1) = {} <=> s = <<>>
  <2>1. CASE s = <<>>
    BY <2>1, <1>1, <1>7
  <2>2. CASE s # <<>>
    BY <2>2, <1>1, <1>3, <1>5
  <2>. QED BY <2>1, <2>2
<1>9. Numbered(s, n + 1) \subseteq Row
  BY <1>3, <1>4
<1>10. \A k \in 1..Len(s) : R(k) \in Numbered(s, n + 1)
  BY <1>3
<1>. QED BY <1>6, <1>7, <1>8, <1>9, <1>10

(* Rows that go on where others end are the rows of both. *)
LEMMA NumberedConcat ==
  ASSUME NEW s \in Seq(Term), NEW t \in Seq(Term)
  PROVE  Numbered(s \o t, 1) = Numbered(s, 1) \cup Numbered(t, Len(s) + 1)
<1> DEFINE R(u, n, k) == [sequence |-> n + k - 1, starts |-> u[k].starts, ends |-> u[k].ends, cut |-> u[k].cut]
           u == s \o t
<1>1. /\ u \in Seq(Term) /\ Len(u) = Len(s) + Len(t) /\ Len(s) \in Nat /\ Len(t) \in Nat
      /\ \A k \in 1..Len(s) : u[k] = s[k]
      /\ \A k \in 1..Len(t) : u[k + Len(s)] = t[k]
  BY ConcatProperties
<1>2. /\ Numbered(u, 1) = {R(u, 1, k) : k \in 1..Len(u)}
      /\ Numbered(s, 1) = {R(s, 1, k) : k \in 1..Len(s)}
      /\ Numbered(t, Len(s) + 1) = {R(t, Len(s) + 1, k) : k \in 1..Len(t)}
  <2>1. DOMAIN u = 1..Len(u) /\ DOMAIN s = 1..Len(s) /\ DOMAIN t = 1..Len(t)
    BY <1>1
  <2> HIDE DEF u
  <2>. QED BY <2>1 DEF Numbered
<1>3. \A k \in 1..Len(s) : R(u, 1, k) = R(s, 1, k) /\ k \in 1..Len(u)
  BY <1>1
<1>4. \A k \in 1..Len(t) : R(u, 1, k + Len(s)) = R(t, Len(s) + 1, k) /\ k + Len(s) \in 1..Len(u)
  BY <1>1
<1>5. \A k \in 1..Len(u) : k \in 1..Len(s) \/ (k - Len(s) \in 1..Len(t) /\ k = (k - Len(s)) + Len(s))
  BY <1>1
<1> HIDE DEF R, u
<1>6. Numbered(u, 1) \subseteq Numbered(s, 1) \cup Numbered(t, Len(s) + 1)
  <2>1. ASSUME NEW k \in 1..Len(u) PROVE R(u, 1, k) \in Numbered(s, 1) \cup Numbered(t, Len(s) + 1)
    <3>1. CASE k \in 1..Len(s)
      BY <3>1, <1>2, <1>3
    <3>2. CASE k - Len(s) \in 1..Len(t) /\ k = (k - Len(s)) + Len(s)
      <4>1. PICK j \in 1..Len(t) : k = j + Len(s)
        BY <3>2
      <4>. QED BY <4>1, <1>2, <1>4
    <3>. QED BY <3>1, <3>2, <1>5
  <2>. QED BY <2>1, <1>2
<1>7. Numbered(s, 1) \cup Numbered(t, Len(s) + 1) \subseteq Numbered(u, 1)
  BY <1>2, <1>3, <1>4
<1>. QED BY <1>6, <1>7 DEF u

(* The last row is that of the last period. *)
LEMMA LastNumbered ==
  ASSUME NEW s \in Seq(Term), s # <<>>, NEW n \in Nat
  PROVE  Last(Numbered(s, n + 1)).ends = s[Len(s)].ends /\ Last(Numbered(s, n + 1)).sequence = n + Len(s)
<1> DEFINE rows == Numbered(s, n + 1)
<1>1. Len(s) \in Nat /\ Len(s) \in 1..Len(s)
  BY EmptySeq
<1>2. PICK r \in rows : r.sequence = n + Len(s) /\ r.ends = s[Len(s)].ends
  BY <1>1, NumberedIs
<1>3. \A x \in rows : \E k \in 1..Len(s) : x.sequence = n + k /\ x.ends = s[k].ends
  <2> SUFFICES ASSUME NEW x \in rows PROVE \E k \in 1..Len(s) : x.sequence = n + k /\ x.ends = s[k].ends
    OBVIOUS
  <2>1. PICK k \in 1..Len(s) :
          x = [sequence |-> n + k, starts |-> s[k].starts, ends |-> s[k].ends, cut |-> s[k].cut]
    BY NumberedIs
  <2>2. x.sequence = n + k /\ x.ends = s[k].ends
    BY <2>1
  <2>. QED BY <2>2
<1>4. \A x \in rows : x.sequence <= r.sequence
  BY <1>1, <1>2, <1>3
<1>5. Last(rows) \in rows /\ \A x \in rows : x.sequence <= Last(rows).sequence
  BY <1>4 DEF Last
<1>6. PICK k \in 1..Len(s) : Last(rows).sequence = n + k /\ Last(rows).ends = s[k].ends
  BY <1>3, <1>5
<1>7. k = Len(s)
  BY <1>1, <1>2, <1>5, <1>6
<1>. QED BY <1>6, <1>7

(* There are as many rows as periods. *)
LEMMA NumberedCount ==
  ASSUME NEW s \in Seq(Term)
  PROVE  Cardinality(Numbered(s, 1)) = Len(s)
<1> DEFINE f == [k \in 1..Len(s) |-> [sequence |-> k, starts |-> s[k].starts, ends |-> s[k].ends, cut |-> s[k].cut]]
<1>0. Len(s) \in Nat /\ 0 + 1 = 1
  OBVIOUS
<1>1. \A k \in 1..Len(s) : f[k] \in Numbered(s, 1)
  <2>1. DOMAIN s = 1..Len(s) /\ \A k \in 1..Len(s) : 1 + k - 1 = k
    BY <1>0
  <2>. QED BY <2>1 DEF Numbered
<1>2. \A r \in Numbered(s, 1) : \E k \in 1..Len(s) : f[k] = r
  <2>1. \A r \in Numbered(s, 0 + 1) : \E k \in 1..Len(s) :
          r = [sequence |-> 0 + k, starts |-> s[k].starts, ends |-> s[k].ends, cut |-> s[k].cut]
    BY NumberedIs
  <2>2. \A k \in 1..Len(s) : 0 + k = k
    OBVIOUS
  <2>. QED BY <2>1, <2>2, <1>0
<1>3. \A j, k \in 1..Len(s) : f[j] = f[k] => j = k
  <2>1. \A k \in 1..Len(s) : f[k].sequence = k
    OBVIOUS
  <2>. QED BY <2>1
<1>4. f \in Bijection(1..Len(s), Numbered(s, 1))
  <2>1. f \in [1..Len(s) -> Numbered(s, 1)]
    BY <1>1
  <2> HIDE DEF f
  <2>. QED BY <2>1, <1>2, <1>3 DEF Bijection, Injection, Surjection, IsInjective
<1>5. IsFiniteSet(1..Len(s)) /\ Cardinality(1..Len(s)) = Len(s)
  BY <1>0, FS_Interval
<1> HIDE DEF f
<1>. QED BY <1>4, <1>5, FS_Bijection DEF ExistsBijection

-----------------------------------------------------------------------------
(* Billing *)

(* Calendars are valid, and what requests know of them stays true: a lease keeps its *)
(* calendar, and the calendar its cycle.                                              *)
CalendarsValid == \A l \in Leases : calendar[l] # Null => ValidCycle(calendar[l])

KnowsCalendar(q) ==
  request[q] # Null =>
    LET ask == request[q].ask  seen == request[q].seen IN
    /\ ask.op \in {"updateBilling", "generate"} => calendar[ask.lease] # Null
    /\ ask.op = "createBilling" => ValidCycle(ask.calendar)
    /\ ask.op = "generate" /\ request[q].phase = "read" =>
         /\ seen \in [ends : Days, calendar : Calendar]
         /\ ValidCycle(seen.calendar) /\ seen.calendar.cycle = calendar[ask.lease].cycle

(* What a step may do to the calendars. *)
CalendarsOnward ==
  /\ calendar' \in [Leases -> Calendar \cup {Null}]
  /\ CalendarsValid => CalendarsValid'
  /\ \A l \in Leases : calendar[l] # Null => calendar'[l] # Null /\ calendar'[l].cycle = calendar[l].cycle

(* Every step takes them onward. *)
LEMMA CalendarStep ==
  ASSUME TypeOK, NEW q \in Requests, KnowsCalendar(q), Step(q)
  PROVE  CalendarsOnward
<1>1. CASE CreateBilling(q)
  <2>1. request[q] # Null /\ request[q].ask.op = "createBilling"
    BY <1>1 DEF CreateBilling, Asked
  <2>2. PICK ask \in Asks, l \in Leases, new \in Calendar :
          ask = request[q].ask /\ l = ask.lease /\ new = ask.calendar
    BY <2>1, FlightIs, AskIs
  <2>3. calendar' = [calendar EXCEPT ![l] = new] /\ calendar[l] = Null /\ ValidCycle(new)
    BY <1>1, <2>1, <2>2 DEF CreateBilling, KnowsCalendar
  <2>4. new # Null
    BY NullAssumption
  <2>. QED BY <2>3, <2>4 DEF CalendarsOnward, CalendarsValid, TypeOK
<1>2. CASE UpdateBilling(q)
  <2>1. request[q] # Null /\ request[q].ask.op = "updateBilling"
    BY <1>2 DEF UpdateBilling, Asked
  <2>2. PICK ask \in Asks, l \in Leases, a \in BOOLEAN : ask = request[q].ask /\ l = ask.lease /\ a = ask.archived
    BY <2>1, FlightIs, AskIs
  <2>3. calendar[l] # Null
    BY <2>1, <2>2 DEF KnowsCalendar
  <2>4. PICK old \in Calendar : old = calendar[l]
    BY <2>3 DEF TypeOK
  <2> DEFINE new == [old EXCEPT !.archived = a]
  <2>5. new \in Calendar /\ new.cycle = old.cycle /\ new.customDays = old.customDays
    BY DEF Calendar
  <2>6. calendar' = [calendar EXCEPT ![l] = new]
    BY <1>2, <2>2, <2>4 DEF UpdateBilling, TypeOK
  <2>7. new # Null
    BY <2>5, NullAssumption
  <2> HIDE DEF new
  <2>. QED BY <2>3, <2>4, <2>5, <2>6, <2>7 DEF CalendarsOnward, CalendarsValid, ValidCycle, TypeOK
<1>3. CASE ~(CreateBilling(q) \/ UpdateBilling(q))
  <2>1. ASSUME NEW ask \in Asks, Begins(q, ask) PROVE UNCHANGED calendar
    BY <2>1, BeginsWith DEF rental
  <2>2. UNCHANGED calendar
    BY <1>3, <2>1 DEF Step, Begins, CreateLease, UpdateLease, RenewLease, TerminateLease, ArchiveLease,
      RestoreLease, SaveLease, ReadLastSchedule, GenerateSchedules, CloseOccupancies, Occupy, Refuse, rental
  <2>. QED BY <2>2 DEF CalendarsOnward, CalendarsValid, TypeOK
<1>. QED BY <1>1, <1>2, <1>3

(* What requests know of their calendars stays true. *)
LEMMA KnowsCalendarStep ==
  ASSUME TypeOK, CalendarsValid, \A c \in Requests : KnowsCalendar(c),
         NEW q \in Requests, Step(q), OthersStay(q)
  PROVE  \A c \in Requests : KnowsCalendar(c)'
<1>0. CalendarsOnward
  BY CalendarStep
<1>1. ASSUME NEW c \in Requests \ {q} PROVE KnowsCalendar(c)'
  <2>1. request'[c] = request[c]
    BY DEF OthersStay
  <2>2. SUFFICES ASSUME request[c] # Null PROVE KnowsCalendar(c)'
    BY <2>1 DEF KnowsCalendar
  <2>3. PICK ask \in Asks : ask = request[c].ask
    BY <2>2, FlightIs
  <2>4. ask.op \in {"updateBilling", "generate"} =>
          calendar[ask.lease] # Null /\ calendar'[ask.lease] # Null
          /\ calendar'[ask.lease].cycle = calendar[ask.lease].cycle
    BY <1>0, <2>2, <2>3, AskIs DEF KnowsCalendar, CalendarsOnward
  <2>. QED BY <2>1, <2>2, <2>3, <2>4 DEF KnowsCalendar
<1>2. ASSUME NEW ask \in Asks, Begins(q, ask) PROVE KnowsCalendar(q)'
  <2>1. PICK phase \in {"read", "ready"}, seen \in Seen :
          /\ Begin(q, ask, phase, seen)
          /\ ask.op = "generate" => seen = [ends |-> lease[ask.lease].ends, calendar |-> calendar[ask.lease]]
    BY <1>2, BeginsWith
  <2>2. request'[q].ask = ask /\ request'[q].seen = seen
    BY <2>1, BeginFlies
  <2>3. UNCHANGED calendar
    BY <1>2, BeginsWith DEF rental
  <2>4. /\ ask.op \in {"updateBilling", "generate"} => calendar[ask.lease] # Null
        /\ ask.op = "createBilling" => ValidCycle(ask.calendar)
        /\ ask.op = "generate" => lease[ask.lease] # Null
    BY <1>2 DEF Begins, BeginCreate, BeginUpdate, BeginRenew, BeginEnd, BeginCreateBilling, BeginUpdateBilling,
      BeginGenerate, BeginOccupy, Live
  <2>5. ASSUME ask.op = "generate"
        PROVE  /\ seen \in [ends : Days, calendar : Calendar]
               /\ ValidCycle(seen.calendar) /\ seen.calendar.cycle = calendar[ask.lease].cycle
    <3>1. ask.lease \in Leases /\ lease[ask.lease] \in Lease /\ calendar[ask.lease] \in Calendar
      BY <2>4, <2>5, AskIs DEF TypeOK
    <3>2. lease[ask.lease].ends \in Days /\ ValidCycle(calendar[ask.lease])
      BY <3>1, <2>4, <2>5 DEF Lease, CalendarsValid
    <3>. QED BY <2>1, <2>5, <3>1, <3>2
  <2>. QED BY <2>2, <2>3, <2>4, <2>5 DEF KnowsCalendar
<1>3. ASSUME ReadLastSchedule(q) \/ CloseOccupancies(q) PROVE KnowsCalendar(q)'
  <2>1. request[q] # Null /\ request[q].ask.op \in {"generate", "occupy"} /\ UNCHANGED calendar
    BY <1>3 DEF ReadLastSchedule, CloseOccupancies, Asked, rental
  <2>2. request'[q].ask = request[q].ask /\ request'[q].phase = "ready"
    BY <1>3, <2>1 DEF ReadLastSchedule, CloseOccupancies, Continue, TypeOK, InFlight
  <2>. QED BY <2>1, <2>2 DEF KnowsCalendar
<1>4. ASSUME Ends(q) PROVE KnowsCalendar(q)'
  BY <1>4, EndsEnd, EndFlies DEF KnowsCalendar
<1>5. KnowsCalendar(q)'
  BY <1>2, <1>3, <1>4, StepIs
<1>. QED BY <1>1, <1>5

(* The schedule of a lease is a chain of periods from its first day on. *)
ScheduleIs(l, s) ==
  /\ Chain(s, StartsAt[l]) /\ schedule[l] = Numbered(s, 1)
  /\ through[l] = IF s = <<>> THEN Null ELSE s[Len(s)].ends
  /\ s # <<>> => calendar[l] # Null /\ Regular(s, calendar[l].cycle)

(* The first day of period n + 1. *)
After(l, s, n) == IF n = 0 THEN StartsAt[l] ELSE s[n].ends

(* What a request has built goes on where the schedule was as it read the last row. *)
BatchIs(q, s) ==
  Asked(q, "generate", "ready") =>
    LET l == request[q].ask.lease IN
    \E n \in 0..Len(s), t \in Seq(Term) :
      /\ request[q].seen = Numbered(t, n + 1)
      /\ Chain(t, After(l, s, n)) /\ Regular(t, calendar[l].cycle)

Billed(l) ==
  \E s \in Seq(Term) :
    /\ ScheduleIs(l, s)
    /\ \A q \in Requests : request[q] # Null /\ request[q].ask.op = "generate" /\ request[q].ask.lease = l =>
         BatchIs(q, s)

(* The day after a schedule, and its number. *)
LEMMA AfterIs ==
  ASSUME TypeOK, NEW l \in Leases, NEW s \in Seq(Term), ScheduleIs(l, s)
  PROVE  /\ After(l, s, Len(s)) \in Nat /\ Len(s) \in Nat
         /\ schedule[l] = {} <=> s = <<>>
         /\ After(l, s, Len(s)) = IF schedule[l] = {} THEN StartsAt[l] ELSE Last(schedule[l]).ends
         /\ Len(s) + 1 = IF schedule[l] = {} THEN 1 ELSE Last(schedule[l]).sequence + 1
<1>1. Len(s) \in Nat /\ (s = <<>> <=> Len(s) = 0) /\ 0 + 1 = 1 /\ StartsAt[l] \in Nat
  BY EmptySeq, LeasingAssumption DEF Days
<1>2. schedule[l] = Numbered(s, 0 + 1)
  BY <1>1 DEF ScheduleIs
<1>3. schedule[l] = {} <=> s = <<>>
  BY <1>2, NumberedIs
<1>4. s # <<>> => Last(schedule[l]).ends = s[Len(s)].ends /\ Last(schedule[l]).sequence = 0 + Len(s)
  BY <1>2, LastNumbered
<1>5. s # <<>> => s[Len(s)] \in Term
  BY <1>1
<1>6. s # <<>> => s[Len(s)].ends \in Nat
  BY <1>5 DEF Term
<1>. QED BY <1>1, <1>3, <1>4, <1>6 DEF After

(* What is built is a batch, of the type of what requests see. *)
LEMMA ReadLastIs ==
  ASSUME TypeOK, NEW q \in Requests, KnowsCalendar(q), ReadLastSchedule(q),
         NEW s \in Seq(Term), ScheduleIs(request[q].ask.lease, s)
  PROVE  \E t \in Seq(Term) :
           /\ Numbered(t, Len(s) + 1) \in Seen /\ Continue(q, Numbered(t, Len(s) + 1))
           /\ Chain(t, After(request[q].ask.lease, s, Len(s)))
           /\ Regular(t, calendar[request[q].ask.lease].cycle)
<1>1. request[q] # Null /\ request[q].ask.op = "generate" /\ request[q].phase = "read"
  BY DEF ReadLastSchedule, Asked
<1>2. PICK ask \in Asks, l \in Leases : ask = request[q].ask /\ l = ask.lease /\ ask.through \in Nat
  BY <1>1, FlightIs, AskIs DEF Days
<1>3. PICK seen \in [ends : Days, calendar : Calendar] :
        seen = request[q].seen /\ ValidCycle(seen.calendar) /\ seen.calendar.cycle = calendar[l].cycle
  BY <1>1, <1>2 DEF KnowsCalendar
<1>4. PICK finalAt \in Nat : finalAt = Earlier(ask.through, seen.ends)
  BY <1>2 DEF Earlier, Days
<1>5. ScheduleIs(l, s)
  BY <1>2
<1>6. PICK day \in Nat : day = After(l, s, Len(s))
  BY <1>5, AfterIs
<1> DEFINE t == Periods(seen.calendar, day, finalAt)
<1>7. Chain(t, day) /\ Regular(t, calendar[l].cycle)
  BY <1>3, PeriodsChain
<1>8. t \in Seq(Term)
  BY <1>7 DEF Chain
<1>9. /\ day = IF schedule[l] = {} THEN StartsAt[l] ELSE Last(schedule[l]).ends
      /\ Len(s) + 1 = IF schedule[l] = {} THEN 1 ELSE Last(schedule[l]).sequence + 1
      /\ Len(s) \in Nat
  BY <1>5, <1>6, AfterIs
<1>10. Continue(q, BuildSchedules(seen.calendar, day, Len(s) + 1, finalAt))
  BY <1>2, <1>3, <1>4, <1>9 DEF ReadLastSchedule
<1>11. Continue(q, Numbered(t, Len(s) + 1))
  BY <1>10 DEF BuildSchedules
<1> HIDE DEF t
<1>12. Numbered(t, Len(s) + 1) \in Seen
  BY <1>8, <1>9, NumberedIs DEF Seen
<1>. QED BY <1>2, <1>6, <1>7, <1>8, <1>11, <1>12

(* A longer schedule is the same up to where the shorter one ends. *)
Extends(u, s) == Len(s) <= Len(u) /\ \A k \in 1..Len(s) : u[k] = s[k]

(* Rows that are committed fit: they go on where the schedule ends now. *)
LEMMA GenerateIs ==
  ASSUME TypeOK, NEW q \in Requests, KnowsCalendar(q), GenerateSchedules(q), NEW l \in Leases,
         l = request[q].ask.lease, NEW s \in Seq(Term), ScheduleIs(l, s), BatchIs(q, s)
  PROVE  \E u \in Seq(Term) :
           /\ Extends(u, s) /\ u # <<>> /\ Chain(u, StartsAt[l]) /\ Regular(u, calendar[l].cycle)
           /\ schedule' = [schedule EXCEPT ![l] = Numbered(u, 1)]
           /\ through' = [through EXCEPT ![l] = u[Len(u)].ends]
           /\ calendar[l] # Null /\ calendar' = calendar
<1>1. Asked(q, "generate", "ready")
  BY DEF GenerateSchedules
<1>2. PICK n \in 0..Len(s), t \in Seq(Term) :
        /\ request[q].seen = Numbered(t, n + 1)
        /\ Chain(t, After(l, s, n)) /\ Regular(t, calendar[l].cycle)
  BY <1>1 DEF BatchIs
<1> DEFINE rows == Numbered(t, n + 1)
<1>3. /\ rows # {} /\ Fits(schedule[l], rows)
      /\ schedule' = [schedule EXCEPT ![l] = @ \cup rows]
      /\ through' = [through EXCEPT ![l] = Last(rows).ends]
      /\ calendar' = calendar
  BY <1>2 DEF GenerateSchedules
<1>4. Len(s) \in Nat /\ Len(t) \in Nat /\ n \in Nat /\ 0 + 1 = 1
  OBVIOUS
<1>5. t # <<>> /\ 1 \in 1..Len(t) /\ Len(t) \in 1..Len(t)
  <2>1. t # <<>>
    BY <1>3, <1>4, NumberedIs
  <2>. QED BY <2>1, <1>4, EmptySeq
<1>6. n = Len(s)
  <2>1. SUFFICES ASSUME n < Len(s) PROVE FALSE
    BY <1>4
  <2>2. PICK k \in 1..Len(s) : k = n + 1
    BY <2>1, <1>4
  <2>3. PICK r \in Numbered(s, 0 + 1) : r.sequence = 0 + k
    BY <1>4, NumberedIs
  <2>4. PICK x \in rows : x.sequence = n + 1
    BY <1>4, <1>5, NumberedIs
  <2>5. r \in schedule[l] /\ r.sequence = x.sequence
    BY <2>2, <2>3, <2>4, <1>4 DEF ScheduleIs
  <2>. QED BY <2>4, <2>5, <1>3 DEF Fits
<1> DEFINE u == s \o t
<1>7. /\ u \in Seq(Term) /\ Len(u) = Len(s) + Len(t)
      /\ \A k \in 1..Len(s) : u[k] = s[k]
      /\ \A k \in 1..Len(t) : u[k + Len(s)] = t[k]
  BY ConcatProperties
<1>8. Extends(u, s)
  BY <1>4, <1>7 DEF Extends
<1>9. u # <<>>
  BY <1>4, <1>5, <1>7, EmptySeq
<1>10. u[Len(u)] = t[Len(t)]
  <2>1. Len(u) = Len(t) + Len(s)
    BY <1>4, <1>7
  <2>. QED BY <2>1, <1>5, <1>7
<1>11. Last(rows).ends = t[Len(t)].ends
  BY <1>4, <1>5, LastNumbered
<1>12. StartsAt[l] \in Nat /\ Chain(s, StartsAt[l])
  BY LeasingAssumption DEF Days, ScheduleIs
<1>13. Chain(t, IF s = <<>> THEN StartsAt[l] ELSE s[Len(s)].ends)
  BY <1>2, <1>4, <1>6, EmptySeq DEF After
<1>14. Chain(u, StartsAt[l])
  BY <1>12, <1>13, ChainConcat
<1>15. Regular(s, calendar[l].cycle)
  <2>1. s = <<>> => Regular(s, calendar[l].cycle)
    BY DEF Regular
  <2>. QED BY <2>1 DEF ScheduleIs
<1>16. Regular(u, calendar[l].cycle)
  BY <1>2, <1>15, RegularConcat
<1>17. schedule[l] \cup rows = Numbered(u, 1)
  BY <1>6, NumberedConcat DEF ScheduleIs
<1>18. schedule' = [schedule EXCEPT ![l] = Numbered(u, 1)] /\ through' = [through EXCEPT ![l] = u[Len(u)].ends]
  <2> HIDE DEF u, rows
  <2>. QED BY <1>3, <1>10, <1>11, <1>17
<1>19. calendar[l] # Null
  BY <1>1 DEF KnowsCalendar, Asked
<1> HIDE DEF u, rows
<1>. QED BY <1>3, <1>7, <1>8, <1>9, <1>14, <1>16, <1>18, <1>19

(* Only that changes a schedule. *)
LEMMA ScheduleStep ==
  ASSUME TypeOK, NEW q \in Requests, Step(q), ~GenerateSchedules(q)
  PROVE  UNCHANGED <<schedule, through>>
<1>1. ASSUME NEW ask \in Asks, Begins(q, ask) PROVE UNCHANGED <<schedule, through>>
  BY <1>1, BeginsWith DEF rental
<1>. QED
  BY <1>1 DEF Step, Begins, CreateLease, UpdateLease, RenewLease, TerminateLease, ArchiveLease, RestoreLease,
    SaveLease, CreateBilling, UpdateBilling, ReadLastSchedule, CloseOccupancies, Occupy, Refuse, rental

(* Batches in flight still go on from a schedule that got longer. *)
LEMMA BatchStays ==
  ASSUME TypeOK, CalendarsOnward, NEW c \in Requests, KnowsCalendar(c), request'[c] = request[c],
         NEW s \in Seq(Term), BatchIs(c, s), NEW u \in Seq(Term), Extends(u, s)
  PROVE  BatchIs(c, u)'
<1>1. SUFFICES ASSUME Asked(c, "generate", "ready") PROVE BatchIs(c, u)'
  BY DEF BatchIs, Asked
<1>2. PICK ask \in Asks, l \in Leases : ask = request[c].ask /\ l = ask.lease /\ ask.op = "generate"
  BY <1>1, FlightIs, AskIs DEF Asked
<1>3. calendar[l] # Null /\ calendar'[l].cycle = calendar[l].cycle
  BY <1>1, <1>2 DEF Asked, KnowsCalendar, CalendarsOnward
<1>4. PICK n \in 0..Len(s), t \in Seq(Term) :
        /\ request[c].seen = Numbered(t, n + 1)
        /\ Chain(t, After(l, s, n)) /\ Regular(t, calendar[l].cycle)
  BY <1>1, <1>2 DEF BatchIs
<1>5. Len(s) \in Nat /\ Len(u) \in Nat /\ n \in 0..Len(u) /\ (n # 0 => n \in 1..Len(s))
  BY DEF Extends
<1>6. After(l, u, n) = After(l, s, n)
  BY <1>5 DEF After, Extends
<1>7. Asked(c, "generate", "ready")' => request'[c].ask.lease = l
  BY <1>2
<1>. QED BY <1>2, <1>3, <1>4, <1>5, <1>6 DEF BatchIs

(* What a request that moved on has built fits the schedule it read. *)
LEMMA BatchMoves ==
  ASSUME TypeOK, NEW q \in Requests, KnowsCalendar(q), Step(q), NEW l \in Leases,
         NEW s \in Seq(Term), ScheduleIs(l, s), CalendarsOnward,
         request'[q] # Null, request'[q].ask.op = "generate", request'[q].ask.lease = l
  PROVE  BatchIs(q, s)'
<1>1. ASSUME NEW ask \in Asks, Begins(q, ask) PROVE BatchIs(q, s)'
  <2>1. PICK phase \in {"read", "ready"}, seen \in Seen :
          Begin(q, ask, phase, seen) /\ (ask.op \in {"generate", "occupy"} => phase = "read")
    BY <1>1, BeginsWith
  <2>2. request'[q].ask = ask /\ request'[q].phase = phase
    BY <2>1, BeginFlies
  <2>. QED BY <2>1, <2>2 DEF BatchIs, Asked
<1>2. ASSUME ReadLastSchedule(q) PROVE BatchIs(q, s)'
  <2>1. request[q] # Null /\ request[q].ask.op = "generate" /\ UNCHANGED calendar
    BY <1>2 DEF ReadLastSchedule, Asked, rental
  <2>2. request'[q].ask = request[q].ask
    BY <1>2, <2>1 DEF ReadLastSchedule, Continue, TypeOK, InFlight
  <2>3. l = request[q].ask.lease
    BY <2>2
  <2>4. PICK t \in Seq(Term) :
          /\ Numbered(t, Len(s) + 1) \in Seen /\ Continue(q, Numbered(t, Len(s) + 1))
          /\ Chain(t, After(l, s, Len(s))) /\ Regular(t, calendar[l].cycle)
    BY <1>2, <2>3, ReadLastIs
  <2>5. request'[q].seen = Numbered(t, Len(s) + 1)
    BY <2>1, <2>4, ContinueFlies
  <2>6. Len(s) \in 0..Len(s)
    OBVIOUS
  <2>7. /\ request'[q].seen = Numbered(t, Len(s) + 1)
        /\ Chain(t, After(l, s, Len(s))) /\ Regular(t, calendar'[l].cycle)
    BY <2>1, <2>4, <2>5
  <2>. QED BY <2>6, <2>7 DEF BatchIs, After
<1>3. ASSUME CloseOccupancies(q) PROVE BatchIs(q, s)'
  <2>1. request[q] # Null /\ request[q].ask.op = "occupy"
    BY <1>3 DEF CloseOccupancies, Asked
  <2>2. request'[q].ask = request[q].ask
    BY <1>3, <2>1 DEF CloseOccupancies, Continue, TypeOK, InFlight
  <2>. QED BY <2>1, <2>2
<1>4. ASSUME Ends(q) PROVE BatchIs(q, s)'
  BY <1>4, EndsEnd, EndFlies
<1>. QED BY <1>1, <1>2, <1>3, <1>4, StepIs

(* Every lease stays billed without a gap, whatever a step does. *)
LEMMA BilledStep ==
  ASSUME TypeOK, \A c \in Requests : KnowsCalendar(c), NEW l \in Leases, Billed(l),
         NEW q \in Requests, Step(q), OthersStay(q)
  PROVE  Billed(l)'
<1>0. CalendarsOnward
  BY CalendarStep
<1>1. PICK s \in Seq(Term) :
        /\ ScheduleIs(l, s)
        /\ \A c \in Requests : request[c] # Null /\ request[c].ask.op = "generate" /\ request[c].ask.lease = l =>
             BatchIs(c, s)
  BY DEF Billed
<1>2. SUFFICES ASSUME TRUE
               PROVE  \E u \in Seq(Term) :
                        /\ ScheduleIs(l, u)'
                        /\ Extends(u, s)
                        /\ request'[q] # Null /\ request'[q].ask.op = "generate" /\ request'[q].ask.lease = l =>
                             BatchIs(q, u)'
  <2>1. PICK u \in Seq(Term) :
          /\ ScheduleIs(l, u)'
          /\ Extends(u, s)
          /\ request'[q] # Null /\ request'[q].ask.op = "generate" /\ request'[q].ask.lease = l => BatchIs(q, u)'
    BY <1>2
  <2>2. ASSUME NEW c \in Requests, request'[c] # Null, request'[c].ask.op = "generate", request'[c].ask.lease = l
        PROVE  BatchIs(c, u)'
    <3>1. CASE c = q
      BY <2>1, <2>2, <3>1
    <3>2. CASE c # q
      <4>1. request'[c] = request[c]
        BY <3>2 DEF OthersStay
      <4>2. BatchIs(c, s)
        BY <1>1, <2>2, <4>1
      <4>. QED BY <1>0, <2>1, <4>1, <4>2, BatchStays
    <3>. QED BY <3>1, <3>2
  <2>. QED BY <2>1, <2>2 DEF Billed
<1>3. CASE GenerateSchedules(q) /\ request[q].ask.lease = l
  <2>1. request[q] # Null /\ request[q].ask.op = "generate" /\ End(q)
    BY <1>3 DEF GenerateSchedules, Asked
  <2>2. BatchIs(q, s)
    BY <1>1, <1>3, <2>1
  <2>3. PICK u \in Seq(Term) :
          /\ Extends(u, s) /\ u # <<>> /\ Chain(u, StartsAt[l]) /\ Regular(u, calendar[l].cycle)
          /\ schedule' = [schedule EXCEPT ![l] = Numbered(u, 1)]
          /\ through' = [through EXCEPT ![l] = u[Len(u)].ends]
          /\ calendar[l] # Null /\ calendar' = calendar
    BY <1>1, <1>3, <2>2, GenerateIs
  <2>4. schedule'[l] = Numbered(u, 1) /\ through'[l] = u[Len(u)].ends
    BY <2>3 DEF TypeOK
  <2>5. ScheduleIs(l, u)'
    BY <2>3, <2>4 DEF ScheduleIs
  <2>6. request'[q] = Null
    BY <2>1, EndFlies
  <2>. QED BY <2>3, <2>5, <2>6
<1>4. CASE ~(GenerateSchedules(q) /\ request[q].ask.lease = l)
  <2>1. schedule'[l] = schedule[l] /\ through'[l] = through[l]
    <3>1. CASE GenerateSchedules(q)
      BY <1>4, <3>1 DEF GenerateSchedules, TypeOK
    <3>2. CASE ~GenerateSchedules(q)
      BY <3>2, ScheduleStep
    <3>. QED BY <3>1, <3>2
  <2>2. ScheduleIs(l, s)'
    BY <1>0, <1>1, <2>1 DEF ScheduleIs, CalendarsOnward
  <2>3. Extends(s, s)
    BY DEF Extends
  <2>4. request'[q] # Null /\ request'[q].ask.op = "generate" /\ request'[q].ask.lease = l => BatchIs(q, s)'
    BY <1>0, <1>1, BatchMoves
  <2>. QED BY <2>2, <2>3, <2>4
<1>. QED BY <1>3, <1>4

-----------------------------------------------------------------------------
(* The invariant *)

Inv ==
  /\ TypeOK /\ HeldOnce(lease) /\ CalendarsValid
  /\ \A q \in Requests : Knows(q) /\ Closes(q) /\ KnowsCalendar(q)
  /\ \A l \in Leases : Billed(l)

(* It holds at first: nothing is billed, occupied or under way. *)
LEMMA InvStart == Init => Inv
<1> SUFFICES ASSUME Init PROVE Inv
  OBVIOUS
<1>1. PICK s \in Prior : lease = s.lease /\ calendar = s.calendar /\ HeldOnce(s.lease)
  BY DEF Init
<1>2. TypeOK /\ CalendarsValid /\ HeldOnce(lease)
  BY <1>1, PriorAssumption, LeasingAssumption DEF Init, TypeOK, CalendarsValid, OccupancyStatuses
<1>3. ASSUME NEW q \in Requests PROVE Knows(q) /\ Closes(q) /\ KnowsCalendar(q) /\ request[q] = Null
  BY DEF Init, Knows, Closes, KnowsCalendar, Asked
<1>4. ASSUME NEW l \in Leases PROVE Billed(l)
  <2>1. <<>> \in Seq(Term) /\ Len(<<>>) = 0 /\ Numbered(<<>>, 1) = {}
    BY DEF Numbered
  <2>2. ScheduleIs(l, <<>>)
    BY <2>1 DEF Init, ScheduleIs, Chain
  <2>. QED BY <1>3, <2>1, <2>2 DEF Billed
<1>. QED BY <1>2, <1>3, <1>4 DEF Inv

(* Every step keeps the types. *)
LEMMA TypesStep ==
  ASSUME Inv, NEW q \in Requests, Step(q)
  PROVE  TypeOK' /\ OthersStay(q)
<1>1. LeasesOnward(q) /\ CalendarsOnward
  BY LeaseStep, CalendarStep DEF Inv
<1>2. unit' \in OccupancyStatuses /\ open' \subseteq Nat \X OccupancyStatuses
  BY OccupancyStep DEF Inv
<1>3. FlightType /\ OthersStay(q) /\ begun' \in 0..MaxRequests
  <2>T. TypeOK /\ begun \in 0..MaxRequests
    BY DEF Inv, TypeOK
  <2>1. ASSUME NEW ask \in Asks, Begins(q, ask) PROVE FlightType /\ OthersStay(q) /\ begun' \in 0..MaxRequests
    BY <2>1, <2>T, BeginsWith, BeginFlies
  <2>2. CASE ReadLastSchedule(q)
    <3>1. request[q] # Null /\ request[q].ask.op = "generate"
      BY <2>2 DEF ReadLastSchedule, Asked
    <3>2. PICK l \in Leases : l = request[q].ask.lease
      BY <2>T, <3>1, FlightIs, AskIs
    <3>3. PICK s \in Seq(Term) : ScheduleIs(l, s)
      BY DEF Inv, Billed
    <3>4. PICK seen \in Seen : Continue(q, seen)
      BY <2>T, <2>2, <3>2, <3>3, ReadLastIs DEF Inv
    <3>. QED BY <2>T, <3>1, <3>4, ContinueFlies
  <2>3. CASE CloseOccupancies(q)
    <3>1. request[q] # Null /\ Continue(q, open)
      BY <2>3 DEF CloseOccupancies, Asked
    <3>2. open \in SUBSET (Nat \X OccupancyStatuses)
      BY <2>T DEF TypeOK
    <3>3. open \in Seen
      BY <3>2 DEF Seen
    <3>. QED BY <2>T, <3>1, <3>3, ContinueFlies
  <2>4. CASE Ends(q)
    BY <2>T, <2>4, EndsEnd, EndFlies
  <2>. QED BY <2>1, <2>2, <2>3, <2>4, StepIs
<1>4. schedule' \in [Leases -> SUBSET Row] /\ through' \in [Leases -> Days \cup {Null}]
  <2>T. TypeOK
    BY DEF Inv
  <2>1. CASE GenerateSchedules(q)
    <3>1. request[q] # Null /\ request[q].ask.op = "generate"
      BY <2>1 DEF GenerateSchedules, Asked
    <3>2. PICK l \in Leases : l = request[q].ask.lease
      BY <2>T, <3>1, FlightIs, AskIs
    <3>3. PICK s \in Seq(Term) : ScheduleIs(l, s) /\ BatchIs(q, s)
      BY <3>1, <3>2 DEF Inv, Billed
    <3>4. PICK u \in Seq(Term) :
            /\ u # <<>>
            /\ schedule' = [schedule EXCEPT ![l] = Numbered(u, 1)]
            /\ through' = [through EXCEPT ![l] = u[Len(u)].ends]
      BY <2>T, <2>1, <3>2, <3>3, GenerateIs DEF Inv
    <3>5. Numbered(u, 0 + 1) \in SUBSET Row /\ 0 + 1 = 1
      BY NumberedIs
    <3>6. u[Len(u)] \in Term
      BY <3>4, EmptySeq
    <3>. QED BY <2>T, <3>4, <3>5, <3>6 DEF TypeOK, Term, Days
  <2>2. CASE ~GenerateSchedules(q)
    BY <2>T, <2>2, ScheduleStep DEF TypeOK
  <2>. QED BY <2>1, <2>2
<1>. QED BY <1>1, <1>2, <1>3, <1>4 DEF TypeOK, LeasesOnward, CalendarsOnward, FlightType

(* Every step keeps the invariant. *)
LEMMA InvStep == Inv /\ [Next]_vars => Inv'
<1> SUFFICES ASSUME Inv, [Next]_vars PROVE Inv'
  OBVIOUS
<1>1. ASSUME NEW q \in Requests, Step(q), Observe PROVE Inv'
  <2>1. TypeOK' /\ OthersStay(q) /\ FlightType
    BY <1>1, TypesStep DEF TypeOK, FlightType
  <2>2. LeasesOnward(q) /\ CalendarsOnward
    BY <1>1, LeaseStep, CalendarStep DEF Inv
  <2>3. HeldOnce(lease)' /\ CalendarsValid'
    BY <2>2 DEF LeasesOnward, CalendarsOnward, Inv
  <2>4. \A c \in Requests : Knows(c)'
    BY <1>1, <2>1, KnowsStep DEF Inv
  <2>5. \A c \in Requests : Closes(c)'
    BY <1>1, <2>1, ClosesStep DEF Inv
  <2>6. \A c \in Requests : KnowsCalendar(c)'
    BY <1>1, <2>1, KnowsCalendarStep DEF Inv
  <2>7. \A l \in Leases : Billed(l)'
    BY <1>1, <2>1, BilledStep DEF Inv
  <2>. QED BY <2>1, <2>3, <2>4, <2>5, <2>6, <2>7 DEF Inv
<1>2. CASE UNCHANGED vars
  BY <1>2 DEF vars, rental, occupancy, Inv, TypeOK, HeldOnce, CalendarsValid, Knows, Closes, KnowsCalendar, Asked,
    Billed, ScheduleIs, BatchIs
<1>. QED BY <1>1, <1>2 DEF Next

(* The types, for any leases, requests, asks and calendars. *)
THEOREM TypeCorrect == Spec => []TypeOK
<1>1. Inv => TypeOK
  BY DEF Inv
<1>. QED BY <1>1, InvStart, InvStep, PTL DEF Spec

(* The invariant is inductive: requests know of their leases and calendars what still   *)
(* holds, and every lease has a schedule that what is in flight goes on from.            *)
THEOREM InvHolds == Spec => []Inv
BY InvStart, InvStep, PTL DEF Spec

(* The index allows one lease to hold the unit. *)
LEMMA HeldOnceMeansOne ==
  ASSUME NEW rows, HeldOnce(rows)
  PROVE  \A l, x \in Leases : Holds(rows[l]) /\ Holds(rows[x]) => l = x
<1> SUFFICES ASSUME NEW l \in Leases, NEW x \in Leases, Holds(rows[l]), Holds(rows[x]), l # x
             PROVE  FALSE
  OBVIOUS
<1> DEFINE H == {y \in Leases : Holds(rows[y])}
<1>1. IsFiniteSet(H) /\ Cardinality(H) \in Nat
  BY LeasingAssumption, FS_Subset, FS_CardinalityType
<1>2. Cardinality(H) <= 1
  BY DEF HeldOnce
<1>3. {l} \in SUBSET H /\ {l} # H /\ IsFiniteSet({l}) /\ Cardinality({l}) = 1
  BY FS_Singleton
<1>4. Cardinality({l}) <= Cardinality(H) /\ (Cardinality(H) = Cardinality({l}) => H = {l})
  BY <1>1, <1>3, FS_Subset
<1>. QED BY <1>1, <1>2, <1>3, <1>4

(* The unit is never held by two leases, however updates, renewals, notices and restores *)
(* interleave.                                                                           *)
THEOREM UnitHeldOnce == Spec => []OneActiveLease
<1>1. Inv => OneActiveLease
  BY HeldOnceMeansOne DEF Inv, OneActiveLease
<1>. QED BY <1>1, InvHolds, PTL

(* An end that a step moves back had been moved by a renewal in between. *)
LEMMA EndMoves ==
  ASSUME Inv, NEW q \in Requests, Step(q), NEW l \in Leases, lease[l] # Null, lease'[l].ends < lease[l].ends
  PROVE  Asked(q, "renew", "ready") /\ request[q].ask.lease = l /\ request'[q] = Null /\ lease[l].ends \in raced[q]
<1>1. TypeOK /\ Knows(q) /\ LeasesOnward(q)
  BY LeaseStep DEF Inv
<1>2. lease[l] \in Lease /\ lease'[l] \in Lease
  BY <1>1 DEF LeasesOnward, TypeOK
<1>3. lease[l].ends \in Nat /\ lease'[l].ends \in Nat
  BY <1>2 DEF Lease, Days
<1>4. RenewLease(q) /\ request[q].ask.lease = l /\ lease'[l].ends = request[q].ask.ends
  BY <1>1, <1>3 DEF LeasesOnward
<1>5. Asked(q, "renew", "ready")
  BY <1>4 DEF RenewLease
<1>6. request'[q] = Null
  BY <1>1, <1>4, EndsEnd, EndFlies DEF Ends
<1>7. /\ request[q].seen \in Days /\ request[q].seen < request[q].ask.ends
      /\ lease[l].ends = request[q].seen \/ lease[l].ends \in raced[q]
  BY <1>1, <1>4, <1>5 DEF Knows, Asked
<1>8. lease[l].ends # request[q].seen
  BY <1>3, <1>4, <1>7 DEF Days
<1>. QED BY <1>4, <1>5, <1>6, <1>7, <1>8

(* The end of a lease moves back only where two renewals raced. *)
THEOREM RenewalsGoOn == Spec => EndMovesBackOnlyInRace
<1> DEFINE A == \A l \in Leases : lease[l] # Null /\ lease'[l].ends < lease[l].ends =>
                  \E q \in Requests : Asked(q, "renew", "ready") /\ request[q].ask.lease = l
                                      /\ request'[q] = Null /\ lease[l].ends \in raced[q]
<1>1. Inv /\ [Next]_vars => [A]_vars
  BY EndMoves DEF Next
<1>. QED BY <1>1, InvHolds, PTL DEF Spec, EndMovesBackOnlyInRace

(* What a step that changes the occupancies of the unit leaves open. *)
LEMMA OccupancyOpens ==
  ASSUME Inv, NEW c \in Requests, Step(c), NEW q \in Requests, Asked(q, "occupy", "ready"), open' # open,
         request'[q] = Null
  PROVE  open' \subseteq {<<request[q].number, unit'>>} \cup raced[q]
<1>1. Occupy(c) /\ TypeOK
  BY OccupancyStep DEF Inv, occupancy
<1>2. OthersStay(c)
  BY <1>1, EndFlies DEF Occupy
<1>3. c = q
  BY <1>2 DEF OthersStay, Asked
<1>4. open \subseteq request[q].seen \cup raced[q]
  BY DEF Inv, Closes
<1>5. open' = (open \ request[q].seen) \cup {<<request[q].number, unit'>>}
  BY <1>1, <1>3 DEF Occupy
<1>. QED BY <1>4, <1>5

(* When an occupancy begins, those before it have ended, but for what raced with it. *)
THEOREM OccupanciesEnd == Spec => OccupancyIsExact
<1> DEFINE A == \A q \in Requests : Asked(q, "occupy", "ready") /\ open' # open /\ request'[q] = Null =>
                  open' \subseteq {<<request[q].number, unit'>>} \cup raced[q]
<1>1. Inv /\ [Next]_vars => [A]_vars
  BY OccupancyOpens DEF Next
<1>. QED BY <1>1, InvHolds, PTL DEF Spec, OccupancyIsExact

(* The rows of a chain tile the time of the lease. *)
LEMMA ChainTiles ==
  ASSUME NEW l \in Leases, NEW s \in Seq(Term), ScheduleIs(l, s)
  PROVE  LET rows == schedule[l] IN
         /\ \A r \in rows : r.sequence \in 1..Cardinality(rows) /\ r.starts < r.ends
         /\ \A r, x \in rows : r.sequence = x.sequence => r = x
         /\ \A r \in rows : IF r.sequence = 1 THEN r.starts = StartsAt[l]
                            ELSE \E x \in rows : x.sequence = r.sequence - 1 /\ x.ends = r.starts
         /\ through[l] = IF rows = {} THEN Null ELSE Last(rows).ends
<1> DEFINE rows == schedule[l]
<1>1. rows = Numbered(s, 1) /\ rows = Numbered(s, 0 + 1) /\ Chain(s, StartsAt[l])
  BY DEF ScheduleIs
<1>2. Len(s) \in Nat /\ Cardinality(rows) = Len(s)
  BY <1>1, NumberedCount
<1>3. \A r \in rows : \E k \in 1..Len(s) :
        r.sequence = k /\ r = [sequence |-> k, starts |-> s[k].starts, ends |-> s[k].ends, cut |-> s[k].cut]
  <2> SUFFICES ASSUME NEW r \in rows
               PROVE  \E k \in 1..Len(s) :
                        r.sequence = k
                        /\ r = [sequence |-> k, starts |-> s[k].starts, ends |-> s[k].ends, cut |-> s[k].cut]
    OBVIOUS
  <2>1. PICK k \in 1..Len(s) :
          r = [sequence |-> 0 + k, starts |-> s[k].starts, ends |-> s[k].ends, cut |-> s[k].cut]
    BY <1>1, NumberedIs
  <2>2. 0 + k = k
    BY <1>2
  <2>. QED BY <2>1, <2>2
<1>4. \A k \in 1..Len(s) : \E r \in rows : r.sequence = k /\ r.starts = s[k].starts /\ r.ends = s[k].ends
  <2> SUFFICES ASSUME NEW k \in 1..Len(s)
               PROVE  \E r \in rows : r.sequence = k /\ r.starts = s[k].starts /\ r.ends = s[k].ends
    OBVIOUS
  <2>1. PICK r \in rows : r.sequence = 0 + k /\ r.starts = s[k].starts /\ r.ends = s[k].ends
    BY <1>1, NumberedIs
  <2>2. 0 + k = k
    BY <1>2
  <2>. QED BY <2>1, <2>2
<1>5. \A k \in 1..Len(s) : s[k].starts < s[k].ends /\ s[k].starts = IF k = 1 THEN StartsAt[l] ELSE s[k - 1].ends
  BY <1>1 DEF Chain
<1>6. ASSUME NEW r \in rows
      PROVE  /\ r.sequence \in 1..Cardinality(rows) /\ r.starts < r.ends
             /\ IF r.sequence = 1 THEN r.starts = StartsAt[l]
                ELSE \E x \in rows : x.sequence = r.sequence - 1 /\ x.ends = r.starts
  <2>1. PICK k \in 1..Len(s) : r.sequence = k /\ r.starts = s[k].starts /\ r.ends = s[k].ends
    BY <1>3
  <2>2. CASE k = 1
    BY <1>2, <1>5, <2>1, <2>2
  <2>3. CASE k # 1
    <3>1. PICK j \in 1..Len(s) : j = k - 1
      BY <1>2, <2>3
    <3>2. PICK x \in rows : x.sequence = j /\ x.ends = s[j].ends
      BY <1>4
    <3>. QED BY <1>2, <1>5, <2>1, <2>3, <3>1, <3>2
  <2>. QED BY <2>2, <2>3
<1>7. \A r, x \in rows : r.sequence = x.sequence => r = x
  BY <1>3
<1>8. through[l] = IF rows = {} THEN Null ELSE Last(rows).ends
  <2>1. rows = {} <=> s = <<>>
    BY <1>1, NumberedIs
  <2>2. s # <<>> => Last(rows).ends = s[Len(s)].ends
    BY <1>1, LastNumbered
  <2>. QED BY <2>1, <2>2 DEF ScheduleIs
<1>. QED BY <1>6, <1>7, <1>8

(* The periods of a lease are billed once each, without a gap, and the watermark is the  *)
(* end of the last one: for any number of days, of months and of requests.               *)
THEOREM LeasesTiled == Spec => []PeriodsTile
<1>1. Inv => PeriodsTile
  <2> SUFFICES ASSUME Inv PROVE PeriodsTile
    OBVIOUS
  <2>1. \A l \in Leases : \E s \in Seq(Term) : ScheduleIs(l, s)
    BY DEF Inv, Billed
  <2>. QED BY <2>1, ChainTiles DEF PeriodsTile
<1>. QED BY <1>1, InvHolds, PTL

(* A row is a period of its schedule. *)
LEMMA RowsFollow ==
  ASSUME NEW l \in Leases, NEW s \in Seq(Term), ScheduleIs(l, s), Months(calendar[l].cycle) > 0,
         NEW r \in schedule[l]
  PROVE  r.cut \/ Follows(r.starts, r.ends, Months(calendar[l].cycle))
<1>1. Len(s) \in Nat /\ 0 + 1 = 1 /\ schedule[l] = Numbered(s, 0 + 1)
  BY DEF ScheduleIs
<1>2. PICK k \in 1..Len(s) :
        r = [sequence |-> 0 + k, starts |-> s[k].starts, ends |-> s[k].ends, cut |-> s[k].cut]
  <2>1. r \in Numbered(s, 0 + 1) /\ 0 \in Nat
    BY <1>1
  <2>. QED BY <2>1, NumberedIs
<1>3. r.starts = s[k].starts /\ r.ends = s[k].ends /\ r.cut = s[k].cut
  BY <1>2
<1>4. s # <<>>
  BY <1>1, EmptySeq
<1>. QED BY <1>3, <1>4 DEF ScheduleIs, Regular

(* Whole periods of a lease that is billed by the month follow the calendar. *)
THEOREM MonthsFollowed == Spec => []PeriodsFollowCalendar
<1>1. Inv => PeriodsFollowCalendar
  <2> SUFFICES ASSUME Inv, NEW l \in Leases, Months(calendar[l].cycle) > 0, NEW r \in schedule[l]
               PROVE  r.cut \/ Follows(r.starts, r.ends, Months(calendar[l].cycle))
    BY DEF PeriodsFollowCalendar, Follows
  <2>1. PICK s \in Seq(Term) : ScheduleIs(l, s)
    BY DEF Inv, Billed
  <2>. QED BY <2>1, RowsFollow
<1>. QED BY <1>1, InvHolds, PTL

=============================================================================
