------------------------------ MODULE NeisMeals ------------------------------
(***************************************************************************)
(* The server's calls of NEIS (src/server/neis_api.c) for one GET_MEAL or  *)
(* GET_MULTI_MEAL (src/server/server.c:352-433): the school's codes, the   *)
(* meal of a day or of a period, the decisions on what NEIS sends, and     *)
(* what is allocated and freed on each way through them.                   *)
(*                                                                         *)
(* A document is what the decisions look at, and the rows behind them.  A  *)
(* row has a menu, given by its dishes, or none.  The meal is written into *)
(* buffers of a fixed size: texts have sizes, in bytes.                    *)
(***************************************************************************)
EXTENDS MenuText

CONSTANTS
    Dishes,     \* the dishes that NEIS may name, as texts
    MaxRows,    \* how many days a document may have
    MaxDishes,  \* and how many dishes a day
    Bytes,      \* how many bytes each character has
    EntrySize,  \* the size of entry, the lines of one day of a period
    MealSize    \* MAX_MEAL_LEN, the size of a whole meal or period

ASSUME MealsAssumption ==
    /\ Bytes \in [DOMAIN Bytes -> Nat]
    /\ Range(Break) \subseteq DOMAIN Bytes
    /\ Dishes \subseteq Seq(DOMAIN Bytes)
    /\ MaxRows \in Nat /\ MaxDishes \in Nat
    /\ EntrySize \in Nat /\ MealSize \in Nat

VARIABLES
    stage,   \* where the handler is; at "overrun" or "ended" the process has ended
    call,    \* the call of NEIS it is in
    query,   \* the meal that was asked for
    doc,     \* what NEIS has sent
    held,    \* how many of each resource are allocated
    shown,   \* the days written so far, or those of them that will be copied
    used,    \* strlen(buffer) for a period, as long as it is less than its size
    found    \* what the last call has returned

neisVars == <<stage, call, query, doc, held, shown, used, found>>

Resources == {"curl", "chunk", "json", "copy", "result"}

Shapes == {"not json", "no info", "not array", "one element", "no row",
           "row not array", "null name", "rows"}

\* A menu of no dishes is one that the row does not have.
DayMenus == UNION {[1 .. n -> Dishes] : n \in 0 .. MaxDishes}

Documents ==
    [shape : Shapes \ {"rows"}, rows : {<<>>}]
    \cup [shape : {"rows"}, rows : UNION {[1 .. n -> DayMenus] : n \in 0 .. MaxRows}]

NoDocument == [shape |-> "not json", rows |-> <<>>]

Get(r)  == held' = [held EXCEPT ![r] = @ + 1]
Free(r) == held' = [held EXCEPT ![r] = @ - 1]

NeisInit ==
    /\ stage = "idle"
    /\ call = "none"
    /\ query = "none"
    /\ doc = NoDocument
    /\ held = [r \in Resources |-> 0]
    /\ shown = <<>>
    /\ used = 0
    /\ found = FALSE

-----------------------------------------------------------------------------
\* Sizes.

Total(numbers) ==
    LET sum[k \in 0 .. Len(numbers)] == IF k = 0 THEN 0 ELSE sum[k - 1] + numbers[k]
    IN  sum[Len(numbers)]

TextBytes(text) == Total([k \in 1 .. Len(text) |-> Bytes[text[k]]])

\* A bullet and a blank before each line, and its end.
LinesBytes(lines) == Total([k \in 1 .. Len(lines) |-> 5 + TextBytes(lines[k])])

\* With the date above them.
DayBytes(lines) == 25 + LinesBytes(lines)

\* With the title and the date of a single meal.
MealFits(lines) == 57 + LinesBytes(lines) < MealSize

\* The title of a period, and after k days.
PeriodTitle == 31

UsedAfter(days, k) == PeriodTitle + Total([j \in 1 .. k |-> DayBytes(days[j]) + 1])

\* What is left of lines that are cut off, a line that is cut itself not counted.
Cuts(lines) == {SubSeq(lines, 1, n) : n \in 0 .. Len(lines)}

-----------------------------------------------------------------------------
\* The handler.

\* Leaves the function; everything but json has been released.
Return(verdict) ==
    /\ stage' = "returned"
    /\ found' = verdict

\* A school that begins with a digit is already a code.
Ask ==
    /\ stage = "idle"
    /\ query' \in {"meal", "period"}
    /\ call' \in {"school", query'}
    /\ stage' = IF call' = "period" THEN "check" ELSE "init"
    /\ shown' = <<>>
    /\ UNCHANGED <<doc, held, used, found>>

Resolved ==
    /\ stage = "returned" /\ call = "school" /\ found
    /\ call' = query
    /\ stage' = IF query = "period" THEN "check" ELSE "init"
    /\ doc' = NoDocument
    /\ UNCHANGED <<query, held, shown, used, found>>

\* A meal, or what there is to say instead.
Answer ==
    /\ stage = "returned"
    /\ call = "school" => ~found
    /\ stage' = "idle"
    /\ call' = "none"
    /\ query' = "none"
    /\ doc' = NoDocument
    /\ shown' = <<>>
    /\ UNCHANGED <<held, used, found>>

-----------------------------------------------------------------------------
\* The calls.

\* The seven-day limit, whose arithmetic is in Calendar.
CheckDays ==
    /\ stage = "check"
    /\ \/ Return(FALSE)
       \/ stage' = "init" /\ UNCHANGED found
    /\ UNCHANGED <<call, query, doc, held, shown, used>>

\* curl_easy_init, and malloc(1) for the chunk.
InitCurl ==
    /\ stage = "init"
    /\ \/ Return(FALSE) /\ UNCHANGED held
       \/ /\ held' = [held EXCEPT !["curl"] = @ + 1, !["chunk"] = @ + 1]
          /\ stage' = "perform" /\ UNCHANGED found
    /\ UNCHANGED <<call, query, doc, shown, used>>

\* WRONG variant of Perform: the chunk is freed only by who parses it.
PerformKeepsChunk ==
    /\ stage = "perform"
    /\ Free("curl")
    /\ \/ Return(FALSE) /\ UNCHANGED doc
       \/ doc' \in Documents /\ stage' = "parse" /\ UNCHANGED found
    /\ UNCHANGED <<call, query, shown, used>>

\* WriteMemoryCallback grows the chunk; when it cannot, the transfer fails.  Of an
\* empty answer the parser reads one byte that was never written.
Perform ==
    /\ stage = "perform"
    /\ \/ /\ Return(FALSE)
          /\ held' = [held EXCEPT !["curl"] = @ - 1, !["chunk"] = @ - 1]
          /\ UNCHANGED doc
       \/ /\ Free("curl")
          /\ doc' \in Documents
          /\ stage' = "parse" /\ UNCHANGED found
    /\ UNCHANGED <<call, query, shown, used>>

\* json_tokener_parse, after which the text is freed either way.
Parse ==
    /\ stage = "parse"
    /\ IF doc.shape = "not json"
         THEN Return(FALSE) /\ Free("chunk")
         ELSE /\ held' = [held EXCEPT !["chunk"] = @ - 1, !["json"] = @ + 1]
              /\ stage' = "look" /\ UNCHANGED found
    /\ UNCHANGED <<call, query, doc, shown, used>>

\* A list of schools that is no array, or a null where a name or a menu should be:
\* the library, strncpy or strdup is given what it must not be given.
TripOver ==
    /\ stage = "look"
    /\ doc.shape = "null name" \/ (call = "school" /\ doc.shape = "not array")
    /\ stage' = "ended"
    /\ UNCHANGED <<call, query, doc, held, shown, used, found>>

\* WRONG variant of Refuse: returns from the chain without json_object_put.
RefuseAndKeep ==
    /\ stage = "look"
    /\ doc.shape \notin {"rows", "null name"}
    /\ Return(FALSE)
    /\ UNCHANGED <<call, query, doc, held, shown, used>>

\* The key, the array, its second element, the row and its array, in this order.
Refuse ==
    /\ stage = "look"
    /\ doc.shape \notin {"rows", "null name"}
    /\ Return(FALSE)
    /\ Free("json")
    /\ UNCHANGED <<call, query, doc, shown, used>>

\* The first school of the list, if it has both codes.
FindSchool ==
    /\ stage = "look" /\ call = "school" /\ doc.shape = "rows"
    /\ \E verdict \in IF doc.rows = <<>> THEN {FALSE} ELSE BOOLEAN : Return(verdict)
    /\ Free("json")
    /\ UNCHANGED <<call, query, doc, shown, used>>

\* The first row, if it has a menu: strdup and malloc.
FindMeal ==
    /\ stage = "look" /\ call = "meal" /\ doc.shape = "rows"
    /\ IF doc.rows = <<>> \/ (doc.rows # <<>> /\ doc.rows[1] = <<>>)
         THEN Return(FALSE) /\ Free("json")
         ELSE /\ held' = [held EXCEPT !["copy"] = @ + 1, !["result"] = @ + 1]
              /\ stage' = "show" /\ UNCHANGED found
    /\ UNCHANGED <<call, query, doc, shown, used>>

\* The lines are put into result without a limit, and what fits is copied.
ShowMeal ==
    LET lines == ShownLines(MenuOf(doc.rows[1]))
    IN  /\ stage = "show"
        /\ \E kept \in IF MealFits(lines) THEN {lines} ELSE Cuts(lines) : shown' = <<kept>>
        /\ held' = [held EXCEPT !["copy"] = @ - 1, !["result"] = @ - 1, !["json"] = @ - 1]
        /\ Return(TRUE)
        /\ UNCHANGED <<call, query, doc, used>>

StartPeriod ==
    /\ stage = "look" /\ call = "period" /\ doc.shape = "rows"
    /\ stage' = "days"
    /\ used' = PeriodTitle
    /\ UNCHANGED <<call, query, doc, held, shown, found>>

\* strdup of the menu, "" if there is none.
CopyDay ==
    /\ stage = "days"
    /\ Len(shown) < Len(doc.rows)
    /\ Get("copy")
    /\ stage' = "day"
    /\ UNCHANGED <<call, query, doc, shown, used, found>>

\* WRONG variant of ShowDay: the entry is not cleared from one day to the next.
ShowDayAfterOthers ==
    LET lines == (IF shown = <<>> THEN <<>> ELSE shown[Len(shown)])
                 \o ShownLines(MenuOf(doc.rows[Len(shown) + 1]))
        fits  == used + DayBytes(lines) + 1 < MealSize
    IN  /\ stage = "day"
        /\ \E kept \in IF fits THEN {lines} ELSE Cuts(lines) : shown' = Append(shown, kept)
        /\ used' = IF fits THEN used + DayBytes(lines) + 1 ELSE MealSize
        /\ Free("copy")
        /\ stage' = "days"
        /\ UNCHANGED <<call, query, doc, found>>

\* The day's lines are put into entry without a limit, and entry into buffer as far as
\* it fits with an empty line after it.  A full buffer stays full: from then on strncat
\* is given a limit that has wrapped around, and nothing it writes will be copied.
ShowDay ==
    LET lines == ShownLines(MenuOf(doc.rows[Len(shown) + 1]))
        fits  == used + DayBytes(lines) + 1 < MealSize
    IN  /\ stage = "day"
        /\ \E kept \in IF fits THEN {lines} ELSE Cuts(lines) : shown' = Append(shown, kept)
        /\ used' = IF fits THEN used + DayBytes(lines) + 1 ELSE MealSize
        /\ Free("copy")
        /\ stage' = "days"
        /\ UNCHANGED <<call, query, doc, found>>

\* Who writes past the end of result, entry or buffer may go on, or the process ends.
Overrun ==
    /\ \/ stage = "show" /\ ~MealFits(ShownLines(MenuOf(doc.rows[1])))
       \/ /\ stage = "day"
          /\ LET bytes == DayBytes(ShownLines(MenuOf(doc.rows[Len(shown) + 1])))
             IN  bytes >= EntrySize \/ used + bytes + 1 >= MealSize
    /\ stage' = "overrun"
    /\ UNCHANGED <<call, query, doc, held, shown, used, found>>

EndPeriod ==
    /\ stage = "days"
    /\ Len(shown) = Len(doc.rows)
    /\ used' = 0
    /\ Free("json")
    /\ Return(TRUE)
    /\ UNCHANGED <<call, query, doc, shown>>

NeisNext ==
    \/ Ask \/ Resolved \/ Answer
    \/ CheckDays \/ InitCurl \/ Perform \/ Parse \/ TripOver \/ Refuse
    \/ FindSchool \/ FindMeal \/ ShowMeal
    \/ StartPeriod \/ CopyDay \/ ShowDay \/ Overrun \/ EndPeriod

NeisSpec == NeisInit /\ [][NeisNext]_neisVars

-----------------------------------------------------------------------------
(* On every way through a call, each of the curl handle, the received text, the
   parsed document and the working copies is freed once and not again
   (src/server/neis_api.c:63-113, 157-168, 187-188, 200-297, 324-437). *)
EverythingIsFreedOnce ==
    /\ \A r \in Resources : held[r] \in 0 .. 1
    /\ stage \in {"idle", "returned"} => \A r \in Resources : held[r] = 0

MealIsFound == stage = "returned" /\ found /\ call \in {"meal", "period"}

MealsOf(rows) == [k \in 1 .. Len(rows) |-> MealLines(rows[k])]

\* No buffer is filled by what there is to show of these days.
PeriodFits(days) ==
    \A k \in 1 .. Len(days) : DayBytes(days[k]) < EntrySize /\ UsedAfter(days, k) < MealSize

\* What is shown is what NEIS has sent.
ShowsItsRows ==
    shown = MealsOf(IF call = "meal" THEN <<doc.rows[1]>> ELSE doc.rows)

Plain(dish) == Range(dish) \cap Range(Break) = {} /\ BracketIsLast(dish)

(* Dishes without the letters b and r and without slashes, and with brackets only
   at their end, are shown day by day, each on a line of its own, in the order in
   which NEIS sends them, and nothing else is, provided that no day has as much as
   512 bytes and that the meal or the days together have less than 2000: then no
   buffer is overrun either (src/server/neis_api.c:230-298, 373-436). *)
PlainDishesAreShown ==
    LET days == MealsOf(doc.rows)
    IN  (/\ \A row \in Range(doc.rows) : \A dish \in Range(row) : Plain(dish)
         /\ call = "meal" /\ days # <<>> => MealFits(days[1])
         /\ call = "period" => PeriodFits(days))
            => stage # "overrun" /\ (MealIsFound => ShowsItsRows)
=============================================================================
