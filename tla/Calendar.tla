------------------------------ MODULE Calendar ------------------------------
(***************************************************************************)
(* The calendar arithmetic of the program: the check of a typed date and   *)
(* the two different ways in which the client (src/client/input_util.c)    *)
(* and the server (src/server/neis_api.c) count the days of a period; and, *)
(* to compare them with, the days of the Gregorian calendar in order.      *)
(*                                                                         *)
(* A date is a record of the numbers that its eight digits stand for.      *)
(***************************************************************************)
EXTENDS Integers

CONSTANTS
    ZoneHours,   \* how far the local time of the server is ahead of UTC
    LastHour     \* the last hour since 1970 that mktime can represent

ASSUME ClockAssumption == ZoneHours \in Int /\ LastHour \in Int

Date(y, m, d) == [year |-> y, month |-> m, day |-> d]

\* The numbers that n digits can be.
Digits(n) == 0 .. 10 ^ n - 1

Dates == [year : Digits(4), month : Digits(2), day : Digits(2)]

-----------------------------------------------------------------------------
\* The reference: a day's place in the Gregorian calendar.

\* Days of an ordinary year before the first of each month.
DaysBefore == <<0, 31, 59, 90, 120, 151, 181, 212, 243, 273, 304, 334>>

\* The leap days of the years 1 to y.
LeapDays(y) == (y \div 4) - (y \div 100) + (y \div 400)

DayNumber(t) ==
    365 * (t.year - 1) + DaysBefore[t.month] + t.day
    + LeapDays(IF t.month > 2 THEN t.year ELSE t.year - 1)

NextMonth(t) ==
    IF t.month = 12 THEN Date(t.year + 1, 1, 1) ELSE Date(t.year, t.month + 1, 1)

\* The date is a day: it lies before the first of the next month.
IsDay(t) ==
    /\ t.month \in 1 .. 12
    /\ t.day >= 1
    /\ DayNumber(t) < DayNumber(NextMonth(t))

\* The number of days of a period, both ends included.
PeriodDays(s, e) == DayNumber(e) - DayNumber(s) + 1

-----------------------------------------------------------------------------
\* The client.

IsLeap(y) == (y % 4 = 0 /\ y % 100 # 0) \/ y % 400 = 0

\* WRONG variant of validate_date_format: every fourth year is a leap year.
validate_julian(t) ==
    /\ t.year >= 1900
    /\ t.month \in 1 .. 12
    /\ t.day \in 1 .. 31
    /\ t.month = 2 => t.day <= IF t.year % 4 = 0 THEN 29 ELSE 28
    /\ t.month \in {4, 6, 9, 11} => t.day <= 30

validate_date_format(t) ==
    /\ t.year >= 1900
    /\ t.month \in 1 .. 12
    /\ t.day \in 1 .. 31
    /\ t.month = 2 => t.day <= IF IsLeap(t.year) THEN 29 ELSE 28
    /\ t.month \in {4, 6, 9, 11} => t.day <= 30

\* strcmp of two dates of eight digits is their order as numbers.
Later(s, e) ==
    \/ s.year > e.year
    \/ s.year = e.year /\ s.month > e.month
    \/ s.year = e.year /\ s.month = e.month /\ s.day > e.day

\* "Simplified": every month has 30 days, every year 365.
SimpleDays(t) == t.year * 365 + t.month * 30 + t.day

\* WRONG variant of WithinLimit: a period of seven days is already too long.
WithinSix(s, e) == SimpleDays(e) - SimpleDays(s) < 6

WithinLimit(s, e) == SimpleDays(e) - SimpleDays(s) <= 6

-----------------------------------------------------------------------------
\* The server.

EpochDay == DayNumber(Date(1970, 1, 1))

(***************************************************************************)
(* mktime of the start of a day, in hours: it returns the -1 of an error   *)
(* when the result is before the epoch or after the last representable     *)
(* time.  That -1 is a second, and in whole days the same as hour 0.       *)
(***************************************************************************)
parse_date(t) ==
    LET h == 24 * (DayNumber(t) - EpochDay) - ZoneHours
    IN  IF h \in 0 .. LastHour THEN h ELSE 0

\* The cast to int cuts off towards zero.
WholeDays(h) == IF h >= 0 THEN h \div 24 ELSE -((-h) \div 24)

\* WRONG variant of days_between: only one end of the period counts.
days_apart(s, e) == WholeDays(parse_date(e) - parse_date(s))

days_between(s, e) == WholeDays(parse_date(e) - parse_date(s)) + 1

\* The day is one that mktime can represent.
OnTheClock(t) == 24 * (DayNumber(t) - EpochDay) - ZoneHours \in 0 .. LastHour
=============================================================================
