-------------------------- MODULE AdmissionControl --------------------------
(***************************************************************************)
(* What the accept loop and the handlers promise to clients: a room with   *)
(* MaxClients seats.  Connections wait outside; one at a time stands at    *)
(* the door, is told whether there is a seat, and takes it or is sent      *)
(* away.  Only the requests of a connection that has a seat are worked on, *)
(* one at a time.  When the room closes nobody is promised anything more.  *)
(***************************************************************************)
EXTENDS Integers

CONSTANTS
    MaxClients,   \* the seats
    Conns,        \* the connections clients open
    NoConn        \* nobody

VARIABLES
    opened,    \* the room has not been closed
    waiting,   \* connections outside
    door,      \* the connection at the door
    verdict,   \* what it has been told
    seats,     \* who has each seat
    serving    \* the connections that have a request worked on

vars == <<opened, waiting, door, verdict, seats, serving>>

Seats == 0 .. MaxClients - 1
Empty == [s \in Seats |-> NoConn]

Init ==
    /\ opened = TRUE
    /\ waiting = {}
    /\ door = NoConn
    /\ verdict = "none"
    /\ seats = Empty
    /\ serving = {}

\* Nobody waits twice, or waits and has a seat.
Arrive(c) ==
    /\ opened
    /\ c \notin waiting /\ c # door
    /\ \A s \in Seats : seats[s] # c
    /\ waiting' = waiting \cup {c}
    /\ UNCHANGED <<opened, door, verdict, seats, serving>>

GiveUp(c) ==
    /\ opened
    /\ c \in waiting
    /\ waiting' = waiting \ {c}
    /\ UNCHANGED <<opened, door, verdict, seats, serving>>

Approach(c) ==
    /\ opened
    /\ door = NoConn
    /\ c \in waiting
    /\ waiting' = waiting \ {c}
    /\ door' = c
    /\ UNCHANGED <<opened, verdict, seats, serving>>

\* The room is full exactly when every seat is taken.
Decide ==
    /\ door # NoConn /\ verdict = "none"
    /\ verdict' = IF \A s \in Seats : seats[s] # NoConn THEN "full" ELSE "welcome"
    /\ UNCHANGED <<opened, waiting, door, seats, serving>>

Admit ==
    /\ verdict = "welcome"
    /\ \E s \in Seats :
         /\ seats[s] = NoConn
         /\ seats' = [seats EXCEPT ![s] = door]
    /\ door' = NoConn
    /\ verdict' = "none"
    /\ UNCHANGED <<opened, waiting, serving>>

\* The room is full, or nobody can be found to serve.
SendAway ==
    /\ verdict # "none"
    /\ door' = NoConn
    /\ verdict' = "none"
    /\ UNCHANGED <<opened, waiting, seats, serving>>

Begin(s) ==
    /\ seats[s] # NoConn
    /\ seats[s] \notin serving
    /\ serving' = serving \cup {seats[s]}
    /\ UNCHANGED <<opened, waiting, door, verdict, seats>>

End(s) ==
    /\ seats[s] \in serving
    /\ serving' = serving \ {seats[s]}
    /\ UNCHANGED <<opened, waiting, door, verdict, seats>>

Leave(s) ==
    /\ seats[s] # NoConn
    /\ seats[s] \notin serving
    /\ seats' = [seats EXCEPT ![s] = NoConn]
    /\ UNCHANGED <<opened, waiting, door, verdict, serving>>

\* Nobody is at the door.
CloseRoom ==
    /\ opened
    /\ door = NoConn
    /\ opened' = FALSE
    /\ waiting' = {}
    /\ seats' = Empty
    /\ serving' = {}
    /\ UNCHANGED <<door, verdict>>

Next ==
    \/ \E c \in Conns : Arrive(c) \/ GiveUp(c) \/ Approach(c)
    \/ Decide \/ Admit \/ SendAway
    \/ \E s \in Seats : Begin(s) \/ End(s) \/ Leave(s)
    \/ CloseRoom

Spec == Init /\ [][Next]_vars
=============================================================================
