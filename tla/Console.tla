------------------------------- MODULE Console -------------------------------
(***************************************************************************)
(* The client's reading of its console: a menu is read with scanf("%d")    *)
(* and one getchar (src/client/client.c) or a getchar loop (menu_general.c),*)
(* text with a plain fgets (menu.c, menu_general.c) or with safe_input     *)
(* (input_util.c).  They share stdin, so what one of them leaves behind is *)
(* what the next one reads.                                                *)
(*                                                                         *)
(* A line is the number of digits it begins with and of other characters   *)
(* after them, letters or not.  The user types a line when the client      *)
(* waits for one, that is, when nothing is left of the line before.        *)
(***************************************************************************)
EXTENDS Integers

CONSTANTS
    Lengths,   \* how many digits, or other characters, a line may have
    NoInput    \* stdin is empty

VARIABLES
    prompt,    \* the prompt that is on the screen, or "exit"
    input,     \* what is left of the line typed last
    choice,    \* main's variable
    task,      \* the sub-menu's choice, or which of the dialogues is running
    careful,   \* history: every line so far had the form its prompt can take
    stray      \* history: the prompt that the text read last was typed at, if another

inputVars == <<prompt, input, choice, task, careful, stray>>

\* The prompts, by how they read.
Menus      == {"login menu", "user menu", "users menu"}         \* scanf, getchar
DrainMenus == {"meal menu", "other menu"}                       \* scanf, a loop
PlainTexts == {"id", "pw", "new id", "new pw", "office", "school",
               "other office", "other school"}                  \* fgets
SafeTexts  == {"date", "start", "end", "user id", "user pw", "user office",
               "user school"}                                   \* safe_input
Prompts    == Menus \cup DrainMenus \cup PlainTexts \cup SafeTexts \cup {"other date"}

\* Sizes of the buffers.
Size(p) ==
    CASE p \in {"id", "new id", "user id", "pw", "new pw", "user pw"} -> 20
      [] p \in {"date", "start", "end"} -> 9
      [] OTHER -> 50

Letters == {"latin", "other"}

\* What may be left of a line, and the prompt it was typed at.
Rests == [digits : Nat, others : Nat, letters : Letters, at : Prompts]

ASSUME ConsoleAssumption == Lengths \subseteq Nat /\ NoInput \notin Rests

Length(l) == l.digits + l.others

Values == 0 .. 5

\* Part of l after its first n characters.
After(l, n) ==
    [l EXCEPT !.digits = IF n <= @ THEN @ - n ELSE 0,
              !.others = IF n <= l.digits THEN @ ELSE @ - (n - l.digits)]

\* main's choice is not initialised.
ConsoleInit ==
    /\ prompt = "login menu"
    /\ input = NoInput
    /\ choice \in Values
    /\ task = "none"
    /\ careful = TRUE
    /\ stray = "none"

-----------------------------------------------------------------------------
\* The user.

\* Lines that leave nothing behind at their prompt.
Suits(l, p) ==
    CASE p \in Menus -> l.digits <= 1 /\ l.others = 0
      [] p \in PlainTexts -> Length(l) + 1 < Size(p)
      [] OTHER -> TRUE

Type ==
    /\ prompt # "exit"
    /\ input = NoInput
    /\ \E d, o \in Lengths, k \in Letters :
           LET l == [digits |-> d, others |-> o, letters |-> k, at |-> prompt]
           IN  /\ input' = l
               /\ careful' = (careful /\ Suits(l, prompt))
    /\ UNCHANGED <<prompt, choice, task, stray>>

-----------------------------------------------------------------------------
\* The readers.  Each says what it gets and what it leaves of the line.

\* fgets keeps room for the terminator; the line's end is a character, too.
fgets(p) ==
    IF Length(input) + 1 < Size(p)
      THEN [got |-> input, rest |-> NoInput]
      ELSE [got  |-> [input EXCEPT
                         !.digits = IF @ < Size(p) THEN @ ELSE Size(p) - 1,
                         !.others = Size(p) - 1 -
                             (IF input.digits < Size(p) THEN input.digits ELSE Size(p) - 1)],
            rest |-> After(input, Size(p) - 1)]

\* WRONG variant of safe_input: without clear_input_buffer.
safe_input_keeps_rest(p) == fgets(p)

safe_input(p) == [got |-> fgets(p).got, rest |-> NoInput]

\* getchar, at least a line's end being there.
getchar(l) == IF Length(l) = 0 THEN NoInput ELSE After(l, 1)

\* scanf("%d"): the digits if there are any, whose value is left open.
scanf(l) ==
    IF l.digits = 0 THEN [ok |-> FALSE, rest |-> l]
    ELSE [ok |-> TRUE, rest |-> After(l, l.digits)]

\* Whatever is read at a prompt: who typed it.
Note == stray' = IF input.at = prompt THEN "none" ELSE input.at

\* scanf skips an empty line and waits for another one.
SkipNewline ==
    /\ prompt \in Menus \cup DrainMenus
    /\ input # NoInput /\ Length(input) = 0
    /\ Note
    /\ input' = NoInput
    /\ UNCHANGED <<prompt, choice, task, careful>>

\* Something to read, and, where scanf reads it, not an empty line.
Readable(p) == prompt = p /\ input # NoInput /\ (p \in Menus \cup DrainMenus => Length(input) > 0)

-----------------------------------------------------------------------------
\* The dialogues.

\* main's loop: when scanf fails, choice is still the last one.
LoginMenu ==
    /\ Readable("login menu")
    /\ Note
    /\ \E v \in IF scanf(input).ok THEN Values ELSE {choice} :
           /\ choice' = v
           /\ prompt' = CASE v = 1 -> "id" [] v = 2 -> "new id" [] v = 3 -> "exit"
                      [] OTHER -> "login menu"
           /\ task' = CASE v = 1 -> "login" [] v = 2 -> "register" [] OTHER -> "none"
    /\ input' = getchar(scanf(input).rest)
    /\ UNCHANGED careful

UserMenu ==
    /\ Readable("user menu")
    /\ Note
    /\ \E v \in IF scanf(input).ok THEN Values ELSE {choice} :
           /\ choice' = v
           /\ prompt' = CASE v = 1 -> "meal menu" [] v = 2 -> "other menu"
                      [] v = 3 -> "users menu" [] v = 4 -> "login menu"
                      [] v = 5 -> "exit" [] OTHER -> "user menu"
    /\ input' = getchar(scanf(input).rest)
    /\ task' = "none"
    /\ UNCHANGED careful

\* A sub-menu's variable has any value when scanf fails, and here also otherwise.
MealMenu ==
    /\ Readable("meal menu")
    /\ Note
    /\ input' = NoInput
    /\ \/ task' = "own meal" /\ prompt' = "date"
       \/ task' = "own period" /\ prompt' = "start"
       \/ task' = "none" /\ prompt' = "user menu"
    /\ UNCHANGED <<choice, careful>>

\* The other school is asked for whatever the choice.
OtherMenu ==
    /\ Readable("other menu")
    /\ Note
    /\ input' = NoInput
    /\ task' \in {"other meal", "other period", "none"}
    /\ prompt' = "other office"
    /\ UNCHANGED <<choice, careful>>

UsersMenu ==
    /\ Readable("users menu")
    /\ Note
    /\ input' = getchar(scanf(input).rest)
    /\ \/ task' \in {"add or update", "delete"} /\ prompt' = "user id"
       \/ task' = "none" /\ prompt' = "user menu"
    /\ UNCHANGED <<choice, careful>>

is_valid_id(l) == Length(l) \in 4 .. 16 /\ (l.others = 0 \/ l.letters = "latin")

is_valid_password(l) == l.digits = 4 /\ l.others = 0

\* Names of offices are other than latin letters; which ones is left open.
MayBeOffice(l) == l.digits = 0 /\ l.others > 0 /\ l.letters = "other"

\* The prompt that may follow p when l has been read; the server's verdict on a
\* login, the calendar's on a date and the list of offices are choices.
Follow(p, l) ==
    CASE p = "id" -> {"pw"}
      [] p = "pw" -> {"login menu", "user menu"}
      [] p = "new id" -> IF is_valid_id(l) THEN {"new pw"} ELSE {"new id"}
      [] p = "new pw" -> IF is_valid_password(l) THEN {"office"} ELSE {"new pw"}
      [] p = "office" -> {"school"}
      [] p = "school" -> {"login menu"}
      [] p = "other office" -> {"other school"}
      [] p = "other school" -> {CASE task = "other meal" -> "other date"
                                  [] task = "other period" -> "start"
                                  [] OTHER -> "user menu"}
      [] p = "start" -> IF Length(l) = 8 THEN {"end", "user menu"} ELSE {"user menu"}
      [] p \in {"date", "end"} -> {"user menu"}
      [] p = "user id" -> IF ~is_valid_id(l) THEN {"user id"}
                          ELSE IF task = "delete" THEN {"user menu"} ELSE {"user pw"}
      [] p = "user pw" -> IF is_valid_password(l) THEN {"user office"} ELSE {"user pw"}
      [] p = "user office" -> IF MayBeOffice(l) THEN {"user school", "user office"}
                              ELSE {"user office"}
      [] p = "user school" -> IF Length(l) >= 2 THEN {"user menu"} ELSE {"user school"}
      [] OTHER -> {}

ReadText ==
    /\ prompt \in PlainTexts \cup SafeTexts
    /\ Readable(prompt)
    /\ Note
    /\ LET r == IF prompt \in PlainTexts THEN fgets(prompt) ELSE safe_input(prompt)
       IN  /\ input' = r.rest
           /\ prompt' \in Follow(prompt, r.got)
    /\ task' = IF prompt' \in {"login menu", "user menu"} THEN "none" ELSE task
    /\ UNCHANGED <<choice, careful>>

\* Eight times getchar, which ends early at the line's end, and then the rest.
ReadEightChars ==
    /\ Readable("other date")
    /\ Note
    /\ input' = NoInput
    /\ prompt' = "user menu"
    /\ task' = "none"
    /\ UNCHANGED <<choice, careful>>

ConsoleNext ==
    \/ Type \/ SkipNewline
    \/ LoginMenu \/ UserMenu \/ MealMenu \/ OtherMenu \/ UsersMenu
    \/ ReadText \/ ReadEightChars

ConsoleSpec == ConsoleInit /\ [][ConsoleNext]_inputVars

-----------------------------------------------------------------------------
(* As long as the user answers the menus with single digits and types no line
   longer than its buffer, every line is read by the prompt it was typed for,
   whichever readers follow each other (src/client/client.c:61-63, 83-84;
   src/client/menu.c:66-155; src/client/menu_general.c:21-132). *)
CarefulUsersStayInStep == careful => stray = "none"
=============================================================================
