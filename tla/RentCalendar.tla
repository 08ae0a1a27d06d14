----------------------------- MODULE RentCalendar -----------------------------
(***************************************************************************)
(* The calendar arithmetic of rent schedules                               *)
(* (apps/api/src/rental/billing.service.ts).  An instant is a day, counted *)
(* from 1 January of BaseYear; the time of day is left out.                *)
(***************************************************************************)
EXTENDS Integers, Sequences

CONSTANT BaseYear

ASSUME CalendarAssumption == BaseYear \in Nat \ {0}

(* Months are counted from January of BaseYear, too. *)
Year(m) == BaseYear + m \div 12
IsLeap(year) == year % 4 = 0 /\ (year % 100 # 0 \/ year % 400 = 0)
MonthLength(m) ==
  CASE m % 12 = 1 -> IF IsLeap(Year(m)) THEN 29 ELSE 28
    [] m % 12 \in {3, 5, 8, 10} -> 30
    [] OTHER -> 31

(* The leap days before a year, and the days before a month in a year that has none. *)
LeapDays(year) == (year - 1) \div 4 - (year - 1) \div 100 + (year - 1) \div 400
DaysBefore == <<0, 31, 59, 90, 120, 151, 181, 212, 243, 273, 304, 334>>

FirstDay(m) ==
  365 * (m \div 12) + DaysBefore[(m % 12) + 1]
    + LeapDays(Year(m)) - LeapDays(BaseYear)
    + (IF m % 12 > 1 /\ IsLeap(Year(m)) THEN 1 ELSE 0)

MonthOf(day) == CHOOSE m \in 0..day : FirstDay(m) <= day /\ day < FirstDay(m + 1)
DayOf(day) == day - FirstDay(MonthOf(day))

(* setUTCMonth keeps the day of the month: where the month has no such day, it goes on *)
(* counting into the month after.                                                       *)
AddMonths(day, n) == FirstDay(MonthOf(day) + n) + DayOf(day)

Cycles == {"WEEKLY", "MONTHLY", "QUARTERLY", "HALF_YEARLY", "YEARLY", "CUSTOM"}
Months(cycle) ==
  CASE cycle = "MONTHLY" -> 1 [] cycle = "QUARTERLY" -> 3 [] cycle = "HALF_YEARLY" -> 6
    [] cycle = "YEARLY" -> 12 [] OTHER -> 0

(* Mutant: a month is thirty days. *)
NextPeriodByDays(day, cycle, customDays) ==
  day + (CASE cycle = "WEEKLY" -> 7 [] cycle = "CUSTOM" -> customDays [] OTHER -> 30 * Months(cycle))

NextPeriod(day, cycle, customDays) ==
  CASE cycle = "WEEKLY" -> day + 7
    [] cycle = "CUSTOM" -> day + customDays
    [] OTHER -> AddMonths(day, Months(cycle))

(* The periods from start to the day generation stops at.  A period that is cut there    *)
(* has its rent prorated, if the calendar is a DAILY one.                                *)
Period(calendar, day, finalAt) ==
  LET expected == NextPeriod(day, calendar.cycle, calendar.customDays)
      end == IF expected < finalAt THEN expected ELSE finalAt
  IN [starts |-> day, ends |-> end, cut |-> end < expected]

Periods(calendar, start, finalAt) ==
  LET From[day \in start..finalAt] ==
        IF day = finalAt THEN <<>>
        ELSE <<Period(calendar, day, finalAt)>> \o From[Period(calendar, day, finalAt).ends]
  IN IF start < finalAt THEN From[start] ELSE <<>>

(* The rows, numbered on from the first one's sequence. *)
Numbered(periods, sequence) ==
  {[sequence |-> sequence + k - 1, starts |-> periods[k].starts, ends |-> periods[k].ends,
    cut |-> periods[k].cut] : k \in DOMAIN periods}

BuildSchedules(calendar, start, sequence, finalAt) ==
  Numbered(Periods(calendar, start, finalAt), sequence)

=============================================================================
