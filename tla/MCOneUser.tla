------------------------------ MODULE MCOneUser ------------------------------
(***************************************************************************)
(* Instances for TLC of the four modules in which nothing is concurrent,   *)
(* each about one user and one request at a time: MealQuery, Console, Wire *)
(* and NeisMeals.  They share no variable, so that instead of all their    *)
(* interleavings a behaviour has the steps of one of them only.            *)
(***************************************************************************)
EXTENDS MealQuery, Console, Wire, NeisMeals, TLC

VARIABLE active    \* the module that has steps

-----------------------------------------------------------------------------
\* Values for the constants.

TypedLine(n, t) == [length |-> n, date |-> t]

InMonth(y, m, days) == {TypedLine(8, Date(y, m, d)) : d \in days}

\* The ends of months of 28, 29, 30 and 31 days and of years, the days after
\* them, days and months that there are not, years before and after what mktime
\* can represent, and lines that are no dates or too short or too long.
EdgeLines ==
    UNION {InMonth(2023, 12, 23 .. 32), InMonth(2024, 1, (0 .. 9) \cup (24 .. 32)),
           InMonth(2024, 2, (1 .. 8) \cup (22 .. 30)), InMonth(2024, 3, 1 .. 9),
           InMonth(2023, 2, 23 .. 29), InMonth(2023, 3, 1 .. 7),
           InMonth(2024, 4, 24 .. 31), InMonth(2024, 5, 1 .. 8)}
    \cup {TypedLine(8, Date(y, 2, 29)) : y \in {1900, 2000, 2100}}
    \cup {TypedLine(8, Date(y, 12, 31)) : y \in {1899, 1969, 3000}}
    \cup {TypedLine(8, Date(y, 1, d)) : y \in {1900, 1970, 3001}, d \in {1, 5}}
    \cup {TypedLine(8, Date(2024, m, 10)) : m \in {0, 13, 99}}
    \cup {TypedLine(n, NoDate) : n \in {0, 7, 8, 9}}
    \cup {TypedLine(9, Date(2024, 1, 9)), TypedLine(11, Date(2024, 2, 29)),
          TypedLine(9, Date(2024, 2, 30))}

\* Korean time; the 64-bit mktime of the C runtime ends with the year 3000.
KST == 9
EndOf3000 == 24 * (DayNumber(Date(3001, 1, 1)) - DayNumber(Date(1970, 1, 1))) - 1

\* Nothing, a word, a word with one slash in it or before it, two slashes.
EdgeTexts ==
    {<<>>, <<Slash, Slash>>}
    \cup {<<w>> : w \in Words}
    \cup {<<v, Slash, w>> : v, w \in Words}
    \cup {<<Slash, w>> : w \in Words}

\* A plain dish, short or long; blanks and allergens; allergens alone; a slash;
\* words on both sides of a bracket; a bracket that closes none.
SomeDishes ==
    {<<"x">>, <<"z">>, <<" ", "y", " ", "x", "(", "5", ")">>, <<"(", "5", ")">>,
     <<"x", "/", "y">>, <<"x", "(", "y", ")", "z">>,
     <<"x", ")">>}

SomeBytes ==
    [c \in {"x", "y", "z", " ", "(", "5", ")", "<", "b", "r", "/", ">"} |->
        IF c = "z" THEN 20 ELSE 1]

\* No step treats two words differently.
WordSymmetry == Permutations(Words)

-----------------------------------------------------------------------------
\* The behaviours.

userVars == <<active, vars, inputVars, wireVars, neisVars>>

UserInit ==
    /\ active \in {"query", "input", "text", "meals"}
    /\ Init
    /\ ConsoleInit
    /\ active # "input" => choice = 0
    /\ WireInit
    /\ NeisInit

UserNext ==
    /\ UNCHANGED active
    /\ \/ active = "query" /\ Next /\ UNCHANGED <<inputVars, wireVars, neisVars>>
       \/ active = "input" /\ ConsoleNext /\ UNCHANGED <<vars, wireVars, neisVars>>
       \/ active = "text" /\ WireNext /\ UNCHANGED <<vars, inputVars, neisVars>>
       \/ active = "meals" /\ NeisNext /\ UNCHANGED <<vars, inputVars, wireVars>>

UserSpec == UserInit /\ [][UserNext]_userVars
=============================================================================
