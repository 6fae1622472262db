----------------------------- MODULE MealQuery -----------------------------
(***************************************************************************)
(* A meal query from the keyboard to NEIS: the user picks a menu and types *)
(* dates (src/client/menu_general.c, src/client/input_util.c), the client  *)
(* checks them and sends the request, the server checks the period again   *)
(* (src/server/server.c, src/server/neis_api.c) and asks NEIS.             *)
(*                                                                         *)
(* A typed line is what its first eight characters say and its length.     *)
(***************************************************************************)
EXTENDS Calendar, FiniteSets

CONSTANTS
    Lines,       \* the lines the user may type where a date is asked for
    NoDate       \* the first eight characters are not eight digits

ASSUME LinesAssumption ==
    /\ NoDate \notin Dates
    /\ Lines \subseteq [length : Nat, date : Dates \cup {NoDate}]

VARIABLES
    pc,        \* where the client, or the server for it, is
    other,     \* the query is for another school than the user's own
    typed,     \* the line typed last
    from,      \* date, or the start of the period
    to,        \* end_date
    asked,     \* what NEIS has been asked for: nothing, a day or a period
    answer     \* the server's answer

vars == <<pc, other, typed, from, to, asked, answer>>

Places == {"menu", "date", "start", "end", "single", "period", "answered", "refused"}

Answers == {"none", "MEAL", "ERR_MEAL_NOT_FOUND", "SCHOOL_NOT_FOUND"}

NoLine == [length |-> 0, date |-> NoDate]

\* fgets into nine bytes keeps eight characters and drops the rest of the line.
Valid(l) == l.length >= 8 /\ l.date # NoDate /\ validate_date_format(l.date)

TypeOK ==
    /\ pc \in Places
    /\ other \in BOOLEAN
    /\ typed \in Lines \cup {NoLine}
    /\ from \in Dates \cup {NoDate}
    /\ to \in Dates \cup {NoDate}
    /\ asked \in {"none", "day", "period"}
    /\ answer \in Answers

Init ==
    /\ pc = "menu"
    /\ other = FALSE
    /\ typed = NoLine
    /\ from = NoDate
    /\ to = NoDate
    /\ asked = "none"
    /\ answer = "none"

-----------------------------------------------------------------------------
\* The client.

\* Menu 1 or 2, then sub-menu 1 (one day) or 2 (a period).
ChooseMenu ==
    /\ pc = "menu"
    /\ other' \in BOOLEAN
    /\ pc' \in {"date", "start"}
    /\ UNCHANGED <<typed, from, to, asked, answer>>

\* get_date_input, for the user's own school.
GetDateInput(l) ==
    /\ pc = "date" /\ ~other
    /\ typed' = l
    /\ \/ Valid(l) /\ pc' = "single" /\ from' = l.date
       \/ ~Valid(l) /\ pc' = "refused" /\ UNCHANGED from
    /\ UNCHANGED <<other, to, asked, answer>>

\* For another school: eight calls of getchar, and nothing else is checked.
ReadOtherDate(l) ==
    /\ pc = "date" /\ other
    /\ typed' = l
    /\ \/ l.length >= 8 /\ pc' = "single" /\ from' = l.date
       \/ l.length < 8 /\ pc' = "refused" /\ UNCHANGED from
    /\ UNCHANGED <<other, to, asked, answer>>

\* get_period_input, first line.
GetStartInput(l) ==
    /\ pc = "start"
    /\ typed' = l
    /\ \/ Valid(l) /\ pc' = "end" /\ from' = l.date
       \/ ~Valid(l) /\ pc' = "refused" /\ UNCHANGED from
    /\ UNCHANGED <<other, to, asked, answer>>

\* WRONG variant of GetEndInput: the order of the two dates is not checked.
GetEndAnyOrder(l) ==
    /\ pc = "end"
    /\ typed' = l
    /\ \/ Valid(l) /\ WithinLimit(from, l.date) /\ pc' = "period" /\ to' = l.date
       \/ ~(Valid(l) /\ WithinLimit(from, l.date)) /\ pc' = "refused" /\ UNCHANGED to
    /\ UNCHANGED <<other, from, asked, answer>>

\* get_period_input, second line, the order and the length of the period.
GetEndInput(l) ==
    LET fits == Valid(l) /\ ~Later(from, l.date) /\ WithinLimit(from, l.date)
    IN  /\ pc = "end"
        /\ typed' = l
        /\ \/ fits /\ pc' = "period" /\ to' = l.date
           \/ ~fits /\ pc' = "refused" /\ UNCHANGED to
        /\ UNCHANGED <<other, from, asked, answer>>

\* The answer or the refusal is printed, and the menu comes again.
BackToMenu ==
    /\ pc \in {"answered", "refused"}
    /\ pc' = "menu"
    /\ typed' = NoLine
    /\ from' = NoDate
    /\ to' = NoDate
    /\ asked' = "none"
    /\ answer' = "none"
    /\ UNCHANGED other

-----------------------------------------------------------------------------
\* The server.  The school may be unknown, and NEIS may have no meal.

SchoolUnknown ==
    /\ pc \in {"single", "period"}
    /\ pc' = "answered"
    /\ answer' = "SCHOOL_NOT_FOUND"
    /\ UNCHANGED <<other, typed, from, to, asked>>

GetMeal ==
    /\ pc = "single"
    /\ pc' = "answered"
    /\ asked' = "day"
    /\ answer' \in {"MEAL", "ERR_MEAL_NOT_FOUND"}
    /\ UNCHANGED <<other, typed, from, to>>

\* The length of the period is checked before NEIS is asked.
GetMealsPeriod ==
    /\ pc = "period"
    /\ pc' = "answered"
    /\ \/ /\ days_between(from, to) > 7
          /\ answer' = "ERR_MEAL_NOT_FOUND"
          /\ UNCHANGED asked
       \/ /\ days_between(from, to) <= 7
          /\ asked' = "period"
          /\ answer' \in {"MEAL", "ERR_MEAL_NOT_FOUND"}
    /\ UNCHANGED <<other, typed, from, to>>

Next ==
    \/ ChooseMenu
    \/ \E l \in Lines : GetDateInput(l) \/ ReadOtherDate(l) \/ GetStartInput(l) \/ GetEndInput(l)
    \/ BackToMenu
    \/ SchoolUnknown
    \/ GetMeal
    \/ GetMealsPeriod

Spec == Init /\ [][Next]_vars

-----------------------------------------------------------------------------
\* Properties.

(***************************************************************************)
(* The client's test of a date, with its own table of month lengths, knows *)
(* the calendar: the date of a query for the own school is a day since     *)
(* 1900, and every such day that is typed is taken (input_util.c:71-114).  *)
(***************************************************************************)
DaysAreReal ==
    /\ ~other /\ pc = "single" => IsDay(from) /\ from.year >= 1900
    /\ pc = "refused" /\ ~other /\ to = NoDate /\ from = NoDate =>
         ~(typed.length = 8 /\ typed.date # NoDate /\ typed.date.year >= 1900
           /\ IsDay(typed.date))

(***************************************************************************)
(* NEIS is asked for at least one and at most seven days, in their order:  *)
(* what the client's arithmetic lets through the server's stops, and what  *)
(* the server would let through (an end before the start makes a negative  *)
(* number of days) the client has stopped (neis_api.c:126-131, 303;        *)
(* input_util.c:192-207).  Days that mktime cannot represent are excepted. *)
(***************************************************************************)
SevenDaysAsked ==
    asked = "period" /\ OnTheClock(from) /\ OnTheClock(to) =>
        PeriodDays(from, to) \in 1 .. 7

(***************************************************************************)
(* How wrong the client's months of 30 and years of 365 days are: a period *)
(* that is sent has at most eight days; one that is refused as too long    *)
(* has more than seven if it lies within a month, at least six if within a *)
(* year (February is over early), and at least four if the year turns in   *)
(* it, where the count jumps by four days (input_util.c:203-207).          *)
(***************************************************************************)
LimitIsClose ==
    /\ pc = "period" => PeriodDays(from, to) \in 1 .. 8
    /\ pc = "refused" /\ from # NoDate /\ Valid(typed) /\ ~Later(from, typed.date) =>
         PeriodDays(from, typed.date) >= IF typed.date.year # from.year THEN 4
                                         ELSE IF typed.date.month # from.month THEN 6
                                         ELSE 8
-----------------------------------------------------------------------------
\* The inductive invariant behind the passing properties.

ValidDate(t) == t \in Dates /\ validate_date_format(t)

Fits(s, e) == ~Later(s, e) /\ WithinLimit(s, e)

(***************************************************************************)
(* What has been checked of the dates at each place of the query.          *)
(***************************************************************************)
QueryInv ==
    /\ TypeOK
    /\ pc \in {"menu", "date", "start"} => from = NoDate
    /\ pc \notin {"period", "answered"} => to = NoDate
    /\ pc # "answered" => asked = "none"
    /\ pc \in {"end", "period"} => ValidDate(from)
    /\ pc = "single" /\ ~other => ValidDate(from)
    /\ pc = "period" => ValidDate(to) /\ Fits(from, to)
    /\ pc = "refused" /\ from = NoDate /\ ~other => ~Valid(typed)
    /\ pc = "refused" /\ from # NoDate =>
         ValidDate(from) /\ ~(Valid(typed) /\ Fits(from, typed.date))
    /\ asked = "period" =>
         /\ ValidDate(from) /\ ValidDate(to) /\ Fits(from, to)
         /\ days_between(from, to) <= 7
=============================================================================
