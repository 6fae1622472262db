------------------------------ MODULE MenuText ------------------------------
(***************************************************************************)
(* The text of a day's menu (src/server/neis_api.c:251-281, 388-429): NEIS *)
(* sends the dishes in one string with "<br/>" between them and the        *)
(* allergens of each in brackets; the server shows one dish per line.      *)
(***************************************************************************)
EXTENDS Texts

Break == <<"<", "b", "r", "/", ">">>

\* What NEIS sends for these dishes.
MenuOf(dishes) ==
    IF dishes = <<>> THEN <<>> ELSE Joined(Head(dishes), Tail(dishes), Break)

First(places) == CHOOSE k \in places : \A j \in places : k <= j
Final(places) == CHOOSE k \in places : \A j \in places : k >= j

\* strchr(item, '('), and a terminator in its place.
BeforeBracket(t) ==
    LET brackets == {k \in 1 .. Len(t) : t[k] = "("}
    IN  IF brackets = {} THEN t ELSE SubSeq(t, 1, First(brackets) - 1)

Blank == " "

\* Blanks at both ends; a text of blanks becomes empty at the first loop.
Trim(t) ==
    LET inside == {k \in 1 .. Len(t) : t[k] # Blank}
    IN  IF inside = {} THEN <<>> ELSE SubSeq(t, First(inside), Final(inside))

\* The lines that are shown for a menu: strtok(temp, "<br/>") takes any of the five
\* characters for the end of a dish.
ShownLines(menu) ==
    LET items == strtok(menu, Range(Break))
    IN  Filled([k \in 1 .. Len(items) |-> Trim(BeforeBracket(items[k]))])

-----------------------------------------------------------------------------
\* The reference: a dish without what stands in brackets, and without the blanks
\* around it.

Copies(state, c) ==
    CASE c = "(" -> [state EXCEPT !.inside = TRUE]
      [] c = ")" -> [state EXCEPT !.inside = FALSE]
      [] OTHER -> IF state.inside THEN state ELSE [state EXCEPT !.text = Append(@, c)]

NothingCopied == [inside |-> FALSE, text |-> <<>>]

Copied(t) ==
    LET copy[k \in 0 .. Len(t)] ==
            IF k = 0 THEN NothingCopied ELSE Copies(copy[k - 1], t[k])
    IN  copy[Len(t)]

WithoutBrackets(t) == Copied(t).text

MealLines(dishes) ==
    Filled([k \in 1 .. Len(dishes) |-> Trim(WithoutBrackets(dishes[k]))])

\* The allergens, if there are any, are in brackets and come last.
BracketIsLast(dish) ==
    \A k \in 1 .. Len(dish) : dish[k] = ")" =>
        k = Len(dish) /\ \E j \in 1 .. k : dish[j] = "("
=============================================================================
