-------------------------- MODULE ClientInputProofs --------------------------
(***************************************************************************)
(* Proofs about what the client reads: MealQuery and the calendar          *)
(* arithmetic it rests on, for every set of lines a user may type and      *)
(* every clock, and Console, for lines of every length.                    *)
(***************************************************************************)
EXTENDS MealQuery, Console, TLAPS

-----------------------------------------------------------------------------
\* The calendar.

\* The months' places in an ordinary year, month by month.
LEMMA MonthTable ==
    /\ DaysBefore[1] = 0 /\ DaysBefore[2] = 31 /\ DaysBefore[3] = 59
    /\ DaysBefore[4] = 90 /\ DaysBefore[5] = 120 /\ DaysBefore[6] = 151
    /\ DaysBefore[7] = 181 /\ DaysBefore[8] = 212 /\ DaysBefore[9] = 243
    /\ DaysBefore[10] = 273 /\ DaysBefore[11] = 304 /\ DaysBefore[12] = 334
  BY DEF DaysBefore

\* One more leap day in the leap years, in the sense of the client's test.
LEMMA LeapYear ==
    ASSUME NEW y \in Nat
    PROVE  /\ LeapDays(y) \in Int
           /\ LeapDays(y - 1) \in Int
           /\ IsLeap(y) => LeapDays(y) = LeapDays(y - 1) + 1
           /\ ~IsLeap(y) => LeapDays(y) = LeapDays(y - 1)
  BY SMTT(60) DEF LeapDays, IsLeap

\* The fields of a date are numbers.
LEMMA DigitsAreNumbers == \A n : Digits(n) \subseteq Nat
BY DEF Digits

LEMMA DateFields ==
    ASSUME NEW t \in Dates
    PROVE  t.year \in Nat /\ t.month \in Nat /\ t.day \in Nat
<1>1. t.year \in Digits(4) /\ t.month \in Digits(2) /\ t.day \in Digits(2)
  BY DEF Dates
<1> QED
  BY <1>1, DigitsAreNumbers

\* The client's test of a date accepts exactly the days since 1900.
LEMMA FormatIsCalendar ==
    ASSUME NEW t \in Dates
    PROVE  validate_date_format(t) <=> t.year >= 1900 /\ IsDay(t)
<1>1. /\ t.year \in Nat /\ t.month \in Nat /\ t.day \in Nat
  BY DateFields
<1>2. CASE t.month \notin 1 .. 12
  BY <1>2 DEF validate_date_format, IsDay
<1>3. CASE t.month \in 1 .. 12
  <2> DEFINE a == LeapDays(t.year - 1)
             b == LeapDays(t.year)
  <2>1. /\ a \in Int /\ b \in Int
        /\ IsLeap(t.year) => b = a + 1
        /\ ~IsLeap(t.year) => b = a
    BY <1>1, LeapYear
  <2>2. DayNumber(t) = 365 * (t.year - 1) + DaysBefore[t.month] + t.day
                         + (IF t.month > 2 THEN b ELSE a)
    BY DEF DayNumber
  <2>3. DayNumber(NextMonth(t)) =
          IF t.month = 12 THEN 365 * t.year + 1 + b
          ELSE 365 * (t.year - 1) + DaysBefore[t.month + 1] + 1
                 + (IF t.month + 1 > 2 THEN b ELSE a)
    BY <1>1, <1>3, MonthTable DEF DayNumber, NextMonth, Date
  <2> HIDE DEF a, b
  <2>4. IsDay(t) <=> /\ t.day >= 1
                     /\ t.month = 2 => t.day <= IF IsLeap(t.year) THEN 29 ELSE 28
                     /\ t.month \in {4, 6, 9, 11} => t.day <= 30
                     /\ t.day <= 31
    <3>1. IsDay(t) <=> t.day >= 1 /\ DayNumber(t) < DayNumber(NextMonth(t))
      BY <1>3 DEF IsDay
    <3> QED
      BY <1>1, <1>3, <2>1, <2>2, <2>3, <3>1, MonthTable, SMTT(60)
  <2> QED
    BY <1>1, <1>3, <2>4 DEF validate_date_format
<1> QED
  BY <1>2, <1>3

\* A day's number, and bounds of it within its year.
LEMMA DayInYear ==
    ASSUME NEW t \in Dates, validate_date_format(t)
    PROVE  /\ DayNumber(t) \in Int
           /\ DayNumber(t) >= 365 * (t.year - 1) + LeapDays(t.year - 1) + 1
           /\ DayNumber(t) <= 365 * t.year + LeapDays(t.year)
<1>1. /\ t.year \in Nat /\ t.month \in 1 .. 12 /\ t.day \in Nat
      /\ t.day <= 31 /\ t.day >= 1
      /\ t.month \in {4, 6, 9, 11} => t.day <= 30
      /\ t.month = 2 => t.day <= IF IsLeap(t.year) THEN 29 ELSE 28
  BY DateFields DEF validate_date_format
<1> DEFINE a == LeapDays(t.year - 1)
           b == LeapDays(t.year)
<1>2. /\ a \in Int /\ b \in Int
      /\ IsLeap(t.year) => b = a + 1
      /\ ~IsLeap(t.year) => b = a
  BY <1>1, LeapYear
<1>3. DayNumber(t) = 365 * (t.year - 1) + DaysBefore[t.month] + t.day
                       + (IF t.month > 2 THEN b ELSE a)
  BY DEF DayNumber
<1> HIDE DEF a, b
<1>4. /\ DayNumber(t) \in Int
      /\ DayNumber(t) >= 365 * (t.year - 1) + a + 1
      /\ DayNumber(t) <= 365 * t.year + b
  BY <1>1, <1>2, <1>3, MonthTable, SMTT(60)
<1> QED
  BY <1>4 DEF a, b

\* LeapDays grows with the years.
LEMMA LeapDaysGrow ==
    ASSUME NEW x \in Nat, NEW y \in Nat, x <= y
    PROVE  LeapDays(x) <= LeapDays(y)
  BY SMTT(60) DEF LeapDays

(***************************************************************************)
(* The order of the eight digits, in which strcmp compares two dates, is   *)
(* the order of the days.                                                  *)
(***************************************************************************)
LEMMA DigitsAreInOrder ==
    ASSUME NEW s \in Dates, NEW e \in Dates,
           validate_date_format(s), validate_date_format(e), ~Later(s, e)
    PROVE  DayNumber(s) <= DayNumber(e)
<1>1. /\ s.year \in Nat /\ s.month \in 1 .. 12 /\ s.day \in Nat /\ s.day >= 1 /\ s.day <= 31
      /\ e.year \in Nat /\ e.month \in 1 .. 12 /\ e.day \in Nat /\ e.day >= 1 /\ e.day <= 31
      /\ s.month \in {4, 6, 9, 11} => s.day <= 30
      /\ s.month = 2 => s.day <= IF IsLeap(s.year) THEN 29 ELSE 28
  BY DateFields DEF validate_date_format
<1>2. CASE s.year < e.year
  <2>1. DayNumber(s) \in Int /\ DayNumber(s) <= 365 * s.year + LeapDays(s.year)
    BY DayInYear
  <2>2. DayNumber(e) \in Int /\ DayNumber(e) >= 365 * (e.year - 1) + LeapDays(e.year - 1) + 1
    BY DayInYear
  <2>3. LeapDays(s.year) <= LeapDays(e.year - 1)
    BY <1>1, <1>2, LeapDaysGrow
  <2>4. LeapDays(s.year) \in Int /\ LeapDays(e.year - 1) \in Int
    BY <1>1, LeapYear
  <2> QED
    BY <1>1, <1>2, <2>1, <2>2, <2>3, <2>4
<1>3. CASE s.year = e.year
  <2> DEFINE a == LeapDays(s.year - 1)
             b == LeapDays(s.year)
  <2>1. /\ a \in Int /\ b \in Int
        /\ IsLeap(s.year) => b = a + 1
        /\ ~IsLeap(s.year) => b = a
    BY <1>1, LeapYear
  <2>2. /\ DayNumber(s) = 365 * (s.year - 1) + DaysBefore[s.month] + s.day
                            + (IF s.month > 2 THEN b ELSE a)
        /\ DayNumber(e) = 365 * (s.year - 1) + DaysBefore[e.month] + e.day
                            + (IF e.month > 2 THEN b ELSE a)
    BY <1>3 DEF DayNumber
  <2> HIDE DEF a, b
  <2>3. s.month < e.month \/ (s.month = e.month /\ s.day <= e.day)
    BY <1>1, <1>3 DEF Later
  <2> QED
    BY <1>1, <2>1, <2>2, <2>3, MonthTable, SMTT(60)
<1> QED
  BY <1>1, <1>2, <1>3 DEF Later

(***************************************************************************)
(* On days that mktime can represent, the server counts what the calendar  *)
(* counts.                                                                 *)
(***************************************************************************)
LEMMA ServerCountsDays ==
    ASSUME NEW s \in Dates, NEW e \in Dates,
           DayNumber(s) \in Int, DayNumber(e) \in Int,
           OnTheClock(s), OnTheClock(e)
    PROVE  days_between(s, e) = PeriodDays(s, e)
<1> DEFINE n == DayNumber(e) - DayNumber(s)
<1>1. EpochDay \in Int
  BY DEF EpochDay, DayNumber, Date, DaysBefore, LeapDays
<1>2. parse_date(e) - parse_date(s) = 24 * n
  BY <1>1, ClockAssumption DEF parse_date, OnTheClock
<1>3. n \in Int
  OBVIOUS
<1> HIDE DEF n
<1>4. WholeDays(24 * n) = n
  BY <1>3 DEF WholeDays
<1> QED
  BY <1>2, <1>4 DEF days_between, PeriodDays, n

\* Within the client's limit, the year turns between December and January.
LEMMA TurnOfYear ==
    ASSUME NEW x \in Nat, NEW y \in Nat, NEW m \in 1 .. 12, NEW n \in 1 .. 12,
           NEW d \in Nat, NEW f \in Nat, d <= 31, f >= 1, x + 1 = y,
           (y * 365 + n * 30 + f) - (x * 365 + m * 30 + d) <= 6
    PROVE  n = 1 /\ m = 12
<1>1. y * 365 - x * 365 = 365
  OBVIOUS
<1>2. 365 + n * 30 - m * 30 <= 36
  BY <1>1
<1> QED
  BY <1>2

(***************************************************************************)
(* What the client's months of 30 days are worth: an accepted period has   *)
(* at most eight days.                                                     *)
(***************************************************************************)
LEMMA ClientCountsClosely ==
    ASSUME NEW s \in Dates, NEW e \in Dates,
           validate_date_format(s), validate_date_format(e),
           ~Later(s, e), WithinLimit(s, e)
    PROVE  PeriodDays(s, e) \in 1 .. 8
<1>1. /\ s.year \in Nat /\ s.month \in 1 .. 12 /\ s.day \in Nat /\ s.day >= 1 /\ s.day <= 31
      /\ e.year \in Nat /\ e.month \in 1 .. 12 /\ e.day \in Nat /\ e.day >= 1 /\ e.day <= 31
      /\ s.month \in {4, 6, 9, 11} => s.day <= 30
      /\ s.month = 2 => s.day <= IF IsLeap(s.year) THEN 29 ELSE 28
  BY DateFields DEF validate_date_format
<1>2. DayNumber(s) \in Int /\ DayNumber(e) \in Int /\ DayNumber(s) <= DayNumber(e)
  BY DayInYear, DigitsAreInOrder
<1>3. (e.year * 365 + e.month * 30 + e.day) - (s.year * 365 + s.month * 30 + s.day) <= 6
  BY <1>1 DEF WithinLimit, SimpleDays
<1>4. s.year = e.year \/ s.year + 1 = e.year
  <2>1. s.year <= e.year
    BY <1>1 DEF Later
  <2> QED
    BY <1>1, <1>3, <2>1
<1> DEFINE a == LeapDays(s.year - 1)
           b == LeapDays(s.year)
<1>5. /\ a \in Int /\ b \in Int
      /\ IsLeap(s.year) => b = a + 1
      /\ ~IsLeap(s.year) => b = a
  BY <1>1, LeapYear
<1>6. DayNumber(s) = 365 * (s.year - 1) + DaysBefore[s.month] + s.day
                       + (IF s.month > 2 THEN b ELSE a)
  BY DEF DayNumber
<1>7. CASE s.year = e.year
  <2>1. DayNumber(e) = 365 * (s.year - 1) + DaysBefore[e.month] + e.day
                         + (IF e.month > 2 THEN b ELSE a)
    BY <1>7 DEF DayNumber
  <2> HIDE DEF a, b
  <2>2. DayNumber(e) - DayNumber(s) <= 7
    BY <1>1, <1>3, <1>5, <1>6, <1>7, <2>1, MonthTable, SMTT(60)
  <2> QED
    BY <1>2, <2>2 DEF PeriodDays
<1>8. CASE s.year + 1 = e.year
  <2> DEFINE c == LeapDays(e.year)
  <2>1. /\ c \in Int /\ (c = b \/ c = b + 1)
        /\ e.year - 1 = s.year
    BY <1>1, <1>8, LeapYear
  <2>2. DayNumber(e) = 365 * s.year + DaysBefore[e.month] + e.day
                         + (IF e.month > 2 THEN c ELSE b)
    BY <2>1 DEF DayNumber
  <2> HIDE DEF a, b, c
  <2>3. e.month = 1 /\ s.month = 12
    BY <1>1, <1>3, <1>8, TurnOfYear
  <2>4. DayNumber(e) - DayNumber(s) <= 7
    BY <1>1, <1>3, <1>5, <1>6, <1>8, <2>1, <2>2, <2>3, MonthTable, SMTT(60)
  <2> QED
    BY <1>2, <2>4 DEF PeriodDays
<1> QED
  BY <1>4, <1>7, <1>8

(***************************************************************************)
(* A period that is refused for its length is at most four days shorter    *)
(* than the client counts, and at most two within a year.                  *)
(***************************************************************************)
LEMMA ClientRefusesClosely ==
    ASSUME NEW s \in Dates, NEW e \in Dates,
           validate_date_format(s), validate_date_format(e),
           ~Later(s, e), ~WithinLimit(s, e)
    PROVE  PeriodDays(s, e) >= IF e.year # s.year THEN 4
                               ELSE IF e.month # s.month THEN 6
                               ELSE 8
<1>1. /\ s.year \in Nat /\ s.month \in 1 .. 12 /\ s.day \in Nat /\ s.day >= 1 /\ s.day <= 31
      /\ e.year \in Nat /\ e.month \in 1 .. 12 /\ e.day \in Nat /\ e.day >= 1 /\ e.day <= 31
  BY DateFields DEF validate_date_format
<1>2. DayNumber(s) \in Int /\ DayNumber(e) \in Int
  BY DayInYear
<1>3. (e.year * 365 + e.month * 30 + e.day) - (s.year * 365 + s.month * 30 + s.day) >= 7
  <2>1. SimpleDays(s) \in Int /\ SimpleDays(e) \in Int
    BY <1>1 DEF SimpleDays
  <2>2. SimpleDays(e) - SimpleDays(s) >= 7
    BY <2>1 DEF WithinLimit
  <2> QED
    BY <2>2 DEF SimpleDays
<1>4. s.year <= e.year
  BY <1>1 DEF Later
<1> DEFINE a == LeapDays(s.year - 1)
           b == LeapDays(s.year)
           c == LeapDays(e.year - 1)
<1>5. /\ a \in Int /\ b \in Int /\ c \in Int
      /\ b = a + 1 \/ b = a
  BY <1>1, LeapYear
<1>6. DayNumber(s) = 365 * (s.year - 1) + DaysBefore[s.month] + s.day
                       + (IF s.month > 2 THEN b ELSE a)
  BY DEF DayNumber
<1>7. CASE s.year = e.year
  <2>1. DayNumber(e) = 365 * (s.year - 1) + DaysBefore[e.month] + e.day
                         + (IF e.month > 2 THEN b ELSE a)
    BY <1>7 DEF DayNumber
  <2> HIDE DEF a, b, c
  <2>2. s.month <= e.month
    BY <1>1, <1>7 DEF Later
  <2>3. CASE s.month = e.month
    <3>1. DayNumber(e) - DayNumber(s) = e.day - s.day
      BY <1>1, <1>5, <1>6, <2>1, <2>3, MonthTable
    <3> QED
      BY <1>1, <1>2, <1>3, <1>7, <2>3, <3>1 DEF PeriodDays
  <2>4. CASE s.month < e.month
    <3>1. DayNumber(e) - DayNumber(s) >= 5
      BY <1>1, <1>3, <1>5, <1>6, <1>7, <2>1, <2>4, MonthTable, SMTT(60)
    <3> QED
      BY <1>1, <1>2, <1>7, <2>4, <3>1 DEF PeriodDays
  <2> QED
    BY <1>1, <2>2, <2>3, <2>4
<1>8. CASE s.year < e.year
  <2>1. CASE e.month = 1
    <3>1. DayNumber(e) = 365 * (e.year - 1) + e.day + c
      BY <1>1, <1>5, <2>1, MonthTable DEF DayNumber
    <3>2. b <= c
      BY <1>1, <1>8, LeapDaysGrow
    <3> HIDE DEF a, b, c
    <3>3. DayNumber(e) - DayNumber(s) >= 365 * (e.year - s.year) + e.day - DaysBefore[s.month] - s.day
      BY <1>1, <1>5, <1>6, <3>1, <3>2, MonthTable, SMTT(60)
    <3>4. DaysBefore[s.month] <= 30 * s.month - 26
      BY <1>1, MonthTable
    <3>5. DaysBefore[s.month] \in Int
      BY <1>1, MonthTable
    <3>6. DayNumber(e) - DayNumber(s) >= 3
      BY <1>1, <1>2, <1>3, <2>1, <3>3, <3>4, <3>5
    <3> QED
      BY <1>1, <1>2, <1>8, <3>6 DEF PeriodDays
  <2>2. CASE e.month # 1
    <3>1. DayNumber(s) <= 365 * s.year + b
      BY DayInYear
    <3>2. b <= c
      BY <1>1, <1>8, LeapDaysGrow
    <3>3. DayNumber(e) >= 365 * (e.year - 1) + 31 + c
      <4>1. DayNumber(e) = 365 * (e.year - 1) + DaysBefore[e.month] + e.day
                             + (IF e.month > 2 THEN LeapDays(e.year) ELSE c)
        BY DEF DayNumber
      <4>2. LeapDays(e.year) \in Int /\ LeapDays(e.year) >= c
        BY <1>1, LeapYear
      <4>3. DaysBefore[e.month] \in Int /\ DaysBefore[e.month] >= 31
        BY <1>1, <2>2, MonthTable
      <4> HIDE DEF a, b, c
      <4> QED
        BY <1>1, <1>5, <4>1, <4>2, <4>3
    <3> HIDE DEF a, b, c
    <3>4. DayNumber(e) - DayNumber(s) >= 3
      BY <1>1, <1>2, <1>5, <1>8, <3>1, <3>2, <3>3
    <3> QED
      BY <1>1, <1>2, <1>8, <3>4 DEF PeriodDays
  <2> QED
    BY <2>1, <2>2
<1> QED
  BY <1>1, <1>4, <1>7, <1>8

-----------------------------------------------------------------------------
\* The query.

LEMMA InitHolds == Init => QueryInv
  BY DEF Init, QueryInv, TypeOK, Places, Answers, NoLine

\* A valid line is a valid date.
LEMMA ValidLine ==
    ASSUME NEW l \in Lines, Valid(l)
    PROVE  ValidDate(l.date) /\ l.date # NoDate
  BY LinesAssumption DEF Valid, ValidDate

LEMMA NextHolds == QueryInv /\ [Next]_vars => QueryInv'
<1> SUFFICES ASSUME QueryInv, [Next]_vars PROVE QueryInv'
  OBVIOUS
<1> USE DEF QueryInv, TypeOK
<1>1. CASE ChooseMenu
  BY <1>1 DEF ChooseMenu, Places
<1>2. ASSUME NEW l \in Lines, GetDateInput(l) PROVE QueryInv'
  BY <1>2, ValidLine, LinesAssumption DEF GetDateInput, Places, ValidDate
<1>3. ASSUME NEW l \in Lines, ReadOtherDate(l) PROVE QueryInv'
  BY <1>3, LinesAssumption DEF ReadOtherDate, Places
<1>4. ASSUME NEW l \in Lines, GetStartInput(l) PROVE QueryInv'
  BY <1>4, ValidLine, LinesAssumption DEF GetStartInput, Places, ValidDate
<1>5. ASSUME NEW l \in Lines, GetEndInput(l) PROVE QueryInv'
  BY <1>5, ValidLine, LinesAssumption DEF GetEndInput, Places, ValidDate, Fits
<1>6. CASE BackToMenu
  BY <1>6 DEF BackToMenu, Places, Answers
<1>7. CASE SchoolUnknown
  BY <1>7 DEF SchoolUnknown, Places, Answers
<1>8. CASE GetMeal
  BY <1>8 DEF GetMeal, Places, Answers
<1>9. CASE GetMealsPeriod
  BY <1>9 DEF GetMealsPeriod, Places, Answers
<1>10. CASE UNCHANGED vars
  BY <1>10 DEF vars, Valid
<1> QED
  BY <1>1, <1>2, <1>3, <1>4, <1>5, <1>6, <1>7, <1>8, <1>9, <1>10 DEF Next

(***************************************************************************)
(* The inductive invariant holds for every set of lines.                   *)
(***************************************************************************)
THEOREM QueryInvariant == Spec => []QueryInv
<1> QED
  BY InitHolds, NextHolds, PTL DEF Spec

(***************************************************************************)
(* The client's test of a typed date is the calendar's.                    *)
(***************************************************************************)
THEOREM TestedDaysAreReal == Spec => []DaysAreReal
<1>1. QueryInv => DaysAreReal
  <2> SUFFICES ASSUME QueryInv PROVE DaysAreReal
    OBVIOUS
  <2>1. ~other /\ pc = "single" => IsDay(from) /\ from.year >= 1900
    BY FormatIsCalendar DEF QueryInv, ValidDate
  <2>2. ASSUME pc = "refused", ~other, from = NoDate, typed.length = 8, typed.date # NoDate,
               typed.date.year >= 1900, IsDay(typed.date)
        PROVE  FALSE
    <3>1. typed.date \in Dates
      BY <2>2, LinesAssumption DEF QueryInv, TypeOK, NoLine
    <3>2. ~validate_date_format(typed.date)
      BY <2>2 DEF QueryInv, Valid
    <3> QED
      BY <2>2, <3>1, <3>2, FormatIsCalendar
  <2> QED
    BY <2>1, <2>2 DEF DaysAreReal
<1> QED
  BY <1>1, QueryInvariant, PTL

(***************************************************************************)
(* NEIS is asked for one to seven days in order, whatever the user types:  *)
(* the two counts of days, both inexact, make up for each other.           *)
(***************************************************************************)
THEOREM AtMostSevenDays == Spec => []SevenDaysAsked
<1>1. QueryInv => SevenDaysAsked
  <2> SUFFICES ASSUME QueryInv, asked = "period", OnTheClock(from), OnTheClock(to)
               PROVE  PeriodDays(from, to) \in 1 .. 7
    BY DEF SevenDaysAsked
  <2>1. /\ from \in Dates /\ validate_date_format(from)
        /\ to \in Dates /\ validate_date_format(to)
        /\ ~Later(from, to)
        /\ days_between(from, to) <= 7
    BY DEF QueryInv, ValidDate, Fits
  <2>2. DayNumber(from) \in Int /\ DayNumber(to) \in Int /\ DayNumber(from) <= DayNumber(to)
    BY <2>1, DayInYear, DigitsAreInOrder
  <2>3. days_between(from, to) = PeriodDays(from, to)
    BY <2>1, <2>2, ServerCountsDays
  <2> QED
    BY <2>1, <2>2, <2>3 DEF PeriodDays
<1> QED
  BY <1>1, QueryInvariant, PTL

(***************************************************************************)
(* What the client's count of days is worth, on both sides: it lets at     *)
(* most one day too many through, and what it refuses as too long has at   *)
(* least four days, or six within a year, or eight within a month.         *)
(***************************************************************************)
THEOREM ClientLimit == Spec => []LimitIsClose
<1>1. QueryInv => LimitIsClose
  <2> SUFFICES ASSUME QueryInv PROVE LimitIsClose
    OBVIOUS
  <2>1. ASSUME pc = "period" PROVE PeriodDays(from, to) \in 1 .. 8
    BY <2>1, ClientCountsClosely DEF QueryInv, ValidDate, Fits
  <2>2. ASSUME pc = "refused", from # NoDate, Valid(typed), ~Later(from, typed.date)
        PROVE  PeriodDays(from, typed.date) >= IF typed.date.year # from.year THEN 4
                                               ELSE IF typed.date.month # from.month THEN 6
                                               ELSE 8
    <3>1. from \in Dates /\ validate_date_format(from) /\ ~WithinLimit(from, typed.date)
      BY <2>2 DEF QueryInv, ValidDate, Fits
    <3>2. typed.date \in Dates /\ validate_date_format(typed.date)
      BY <2>2, LinesAssumption DEF QueryInv, TypeOK, NoLine, Valid
    <3> QED
      BY <2>2, <3>1, <3>2, ClientRefusesClosely
  <2> QED
    BY <2>1, <2>2 DEF LimitIsClose
<1> QED
  BY <1>1, QueryInvariant, PTL

-----------------------------------------------------------------------------
\* The console.

USE DEF Menus, DrainMenus, PlainTexts, SafeTexts

(* What is left of a careful user's line was typed for the prompt that will read
   it, and its reader leaves nothing of it. *)
ConsoleInv ==
    /\ prompt \in Prompts \cup {"exit"}
    /\ input \in Rests \cup {NoInput}
    /\ careful => /\ stray = "none"
                  /\ input # NoInput => input.at = prompt /\ Suits(input, prompt)

\* A number of characters can be taken from a text that has them.
LEMMA RestsOfRests ==
  ASSUME NEW l \in Rests, NEW n \in 0 .. Length(l)
  PROVE  After(l, n) \in Rests
<1>1. l.digits \in Nat /\ l.others \in Nat /\ n \in 0 .. l.digits + l.others
  BY DEF Rests, Length
<1>2. /\ IF n <= l.digits THEN l.digits - n \in Nat ELSE l.others - (n - l.digits) \in Nat
  BY <1>1
<1> QED
  BY <1>1, <1>2 DEF Rests, After

\* The buffers.
LEMMA Sizes == \A p : Size(p) \in {9, 20, 50}
BY DEF Size

\* The readers leave a rest or nothing, and nothing of a line that suits them.
LEMMA ReadersLeaveRests ==
  ASSUME NEW p, input \in Rests
  PROVE  /\ fgets(p).rest \in Rests \cup {NoInput}
         /\ Length(input) + 1 < Size(p) => fgets(p).rest = NoInput
         /\ safe_input(p).rest = NoInput
         /\ Length(input) > 0 => getchar(scanf(input).rest) \in Rests \cup {NoInput}
         /\ Length(input) > 0 /\ input.digits <= 1 /\ input.others = 0
              => getchar(scanf(input).rest) = NoInput
<1>1. Length(input) \in Nat
  BY DEF Length, Rests
<1>2. fgets(p).rest \in Rests \cup {NoInput} /\ (Length(input) + 1 < Size(p) => fgets(p).rest = NoInput)
  <2>1. CASE Length(input) + 1 < Size(p)
    BY <2>1 DEF fgets
  <2>2. CASE ~(Length(input) + 1 < Size(p))
    <3>1. Size(p) - 1 \in 0 .. Length(input)
      BY <1>1, <2>2, Sizes
    <3>2. fgets(p).rest = After(input, Size(p) - 1)
      BY <2>2 DEF fgets
    <3> QED
      BY <2>2, <3>1, <3>2, RestsOfRests
  <2> QED
    BY <2>1, <2>2
<1>3. safe_input(p).rest = NoInput
  BY DEF safe_input
<1>4. ASSUME Length(input) > 0
      PROVE  getchar(scanf(input).rest) \in Rests \cup {NoInput}
  <2>1. scanf(input).rest \in Rests
    <3>1. input.digits \in 0 .. Length(input)
      BY DEF Length, Rests
    <3> QED
      BY <3>1, RestsOfRests DEF scanf
  <2>2. ASSUME NEW l \in Rests PROVE getchar(l) \in Rests \cup {NoInput}
    <3>1. Length(l) \in Nat
      BY DEF Length, Rests
    <3>2. Length(l) # 0 => 1 \in 0 .. Length(l)
      BY <3>1
    <3> QED
      BY <3>2, RestsOfRests DEF getchar
  <2> QED
    BY <2>1, <2>2
<1>5. ASSUME Length(input) > 0, input.digits <= 1, input.others = 0
      PROVE  getchar(scanf(input).rest) = NoInput
  <2>1. input.digits = 1
    BY <1>5 DEF Length, Rests
  <2>2. scanf(input).rest = After(input, 1)
    BY <2>1 DEF scanf
  <2>3. Length(After(input, 1)) = 0
    BY <1>5, <2>1 DEF Length, After, Rests
  <2> QED
    BY <2>2, <2>3 DEF getchar
<1> QED
  BY <1>2, <1>3, <1>4, <1>5

\* What the prompt after p may be.
LEMMA PromptsFollow ==
  ASSUME NEW p, NEW l, NEW q \in Follow(p, l)
  PROVE  q \in Prompts
<1>1. CASE p \in PlainTexts
  <2>1. CASE p = "other school"
    BY <2>1 DEF Follow, Prompts
  <2>2. CASE p # "other school"
    BY <1>1, <2>2 DEF Follow, Prompts
  <2> QED
    BY <2>1, <2>2
<1>2. CASE p \in SafeTexts
  BY <1>2 DEF Follow, Prompts
<1>3. CASE p \notin PlainTexts \cup SafeTexts
  BY <1>3 DEF Follow
<1> QED
  BY <1>1, <1>2, <1>3

LEMMA ConsoleSteps == ConsoleInv /\ [ConsoleNext]_inputVars => ConsoleInv'
<1> SUFFICES ASSUME ConsoleInv, [ConsoleNext]_inputVars PROVE ConsoleInv'
  OBVIOUS
<1> USE DEF ConsoleInv
\* Readers that leave nothing.
<1>1. ASSUME input # NoInput, Note, input' = NoInput, careful' = careful,
             prompt' \in Prompts \cup {"exit"}
      PROVE  ConsoleInv'
  BY <1>1 DEF Note
<1>2. ASSUME input # NoInput, Note, careful' = careful, prompt' \in Prompts \cup {"exit"},
             input' \in Rests \cup {NoInput},
             Suits(input, prompt) => input' = NoInput
      PROVE  ConsoleInv'
  BY <1>2 DEF Note
<1>3. CASE Type
  <2>1. PICK d \in Lengths, o \in Lengths, k \in Letters :
          /\ input' = [digits |-> d, others |-> o, letters |-> k, at |-> prompt]
          /\ careful' = (careful /\ Suits(input', prompt))
    BY <1>3, Zenon DEF Type
  <2>2. input' \in Rests /\ input'.at = prompt
    BY <1>3, <2>1, ConsoleAssumption DEF Type, Rests
  <2>3. prompt' = prompt /\ stray' = stray
    BY <1>3 DEF Type
  <2>4. Suits(input, prompt)' <=> Suits(input', prompt)
    BY <2>3 DEF Suits, Length, Size
  <2>5. careful' => careful /\ Suits(input', prompt)
    BY <2>1
  <2> QED
    BY <2>2, <2>3, <2>4, <2>5
<1>4. CASE SkipNewline
  BY <1>1, <1>4 DEF SkipNewline
<1>5. CASE LoginMenu \/ UserMenu
  <2>1. input \in Rests /\ Length(input) > 0 /\ prompt \in Menus /\ careful' = careful /\ Note
    BY <1>5 DEF LoginMenu, UserMenu, Readable
  <2>2. prompt' \in Prompts \cup {"exit"} /\ input' = getchar(scanf(input).rest)
    BY <1>5 DEF LoginMenu, UserMenu, Prompts, Values
  <2> QED
    BY <1>2, <2>1, <2>2, ReadersLeaveRests, ConsoleAssumption DEF Suits
<1>6. CASE MealMenu \/ OtherMenu
  <2>1. input # NoInput /\ Note /\ input' = NoInput /\ careful' = careful
    BY <1>6 DEF MealMenu, OtherMenu, Readable
  <2>2. prompt' \in Prompts
    BY <1>6 DEF MealMenu, OtherMenu, Prompts
  <2> QED
    BY <1>1, <2>1, <2>2
<1>7. CASE UsersMenu
  <2>1. input \in Rests /\ Length(input) > 0 /\ prompt \in Menus /\ careful' = careful /\ Note
    BY <1>7 DEF UsersMenu, Readable
  <2>2. prompt' \in Prompts /\ input' = getchar(scanf(input).rest)
    BY <1>7 DEF UsersMenu, Prompts
  <2> QED
    BY <1>2, <2>1, <2>2, ReadersLeaveRests, ConsoleAssumption DEF Suits
<1>8. CASE ReadText
  <2>1. input \in Rests /\ careful' = careful /\ Note
    BY <1>8 DEF ReadText, Readable
  <2>2. prompt' \in Prompts
    BY <1>8, PromptsFollow DEF ReadText
  <2>3. CASE prompt \in PlainTexts
    <3>1. input' = fgets(prompt).rest
      BY <1>8, <2>3 DEF ReadText
    <3>2. Suits(input, prompt) => Length(input) + 1 < Size(prompt)
      BY <2>3 DEF Suits
    <3> QED
      BY <1>2, <2>1, <2>2, <3>1, <3>2, ReadersLeaveRests, ConsoleAssumption
  <2>4. CASE prompt \notin PlainTexts
    <3>1. input' = safe_input(prompt).rest
      BY <1>8, <2>4 DEF ReadText
    <3> QED
      BY <1>1, <2>1, <2>2, <3>1, ReadersLeaveRests, ConsoleAssumption
  <2> QED
    BY <2>3, <2>4
<1>9. CASE ReadEightChars
  BY <1>1, <1>9 DEF ReadEightChars, Readable, Prompts
<1>10. CASE UNCHANGED inputVars
  BY <1>10 DEF inputVars, Suits, Length, Size
<1> QED
  BY <1>3, <1>4, <1>5, <1>6, <1>7, <1>8, <1>9, <1>10 DEF ConsoleNext

(***************************************************************************)
(* As long as the user answers the menus with single digits and types no   *)
(* line longer than its buffer, each line is read by the prompt it was     *)
(* typed for, for lines of every length (src/client/client.c:61-63, 83-84; *)
(* src/client/menu.c:66-155; src/client/menu_general.c:21-132).            *)
(***************************************************************************)
THEOREM LinesReachTheirPrompts == ConsoleSpec => []CarefulUsersStayInStep
<1>1. ConsoleInit => ConsoleInv
  BY ConsoleAssumption DEF ConsoleInit, ConsoleInv, Prompts
<1>2. ConsoleInv => CarefulUsersStayInStep
  BY DEF ConsoleInv, CarefulUsersStayInStep
<1> QED
  BY <1>1, <1>2, ConsoleSteps, PTL DEF ConsoleSpec
=============================================================================
