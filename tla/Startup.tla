------------------------------- MODULE Startup -------------------------------
(***************************************************************************)
(* The beginning and the end of the two programs: what main acquires step  *)
(* by step (src/server/server.c, src/server/db_handler.c's init_db,        *)
(* src/client/client.c), what it releases when a step fails and when it    *)
(* ends, and the database file, which outlives the server's process.       *)
(*                                                                         *)
(* A failing call, a killed process and an operator who stops the server   *)
(* are faults; there are at most MaxFaults of them.                        *)
(***************************************************************************)
EXTENDS Integers, Sequences

CONSTANT MaxFaults    \* bound on the faults

ASSUME MaxFaultsAssumption == MaxFaults \in Nat

VARIABLES
    server,    \* the step that the server's main is at
    client,    \* and the client's
    undo,      \* what each of them still has to release before it ends
    held,      \* how many of each resource each of them has
    tables,    \* the tables in the database file
    noDb,      \* history: init_db has failed in this run of the server
    faults     \* faults so far

vars == <<server, client, undo, held, tables, noDb, faults>>

Tables    == {"users", "children", "meals"}
Resources == {"mutex", "network", "db", "socket"}
Nothing   == [r \in Resources |-> 0]

Init ==
    /\ server = "off"
    /\ client = "off"
    /\ undo = [p \in {"server", "client"} |-> <<>>]
    /\ held = [p \in {"server", "client"} |-> Nothing]
    /\ tables = {}
    /\ noDb = FALSE
    /\ faults = 0

Acquire(p, r) == held' = [held EXCEPT ![p][r] = @ + 1]

Fault == faults < MaxFaults /\ faults' = faults + 1

-----------------------------------------------------------------------------
\* The server.

StartServer ==
    /\ server \in {"off", "ended"}
    /\ server' = "mutex"
    /\ held' = [held EXCEPT !["server"] = Nothing]
    /\ noDb' = FALSE
    /\ UNCHANGED <<client, undo, tables, faults>>

InitMutex ==
    /\ server = "mutex"
    /\ Acquire("server", "mutex")
    /\ server' = "network"
    /\ UNCHANGED <<client, undo, tables, noDb, faults>>

init_network ==
    /\ server = "network"
    /\ Acquire("server", "network")
    /\ server' = "open"
    /\ UNCHANGED <<client, undo, tables, noDb, faults>>

\* sqlite3_open, and the PRAGMA on foreign keys, whose result is not looked at.
OpenDb ==
    /\ server = "open"
    /\ Acquire("server", "db")
    /\ server' = "users"
    /\ UNCHANGED <<client, undo, tables, noDb, faults>>

AfterTable == [users |-> "children", children |-> "meals", meals |-> "socket"]

\* WRONG variant of CreateTable: CREATE TABLE fails if the table is there.
CreateNewTable ==
    /\ server \in Tables \ tables
    /\ tables' = tables \cup {server}
    /\ server' = AfterTable[server]
    /\ UNCHANGED <<client, undo, held, noDb, faults>>

\* CREATE TABLE IF NOT EXISTS, in a transaction of its own.
CreateTable ==
    /\ server \in Tables
    /\ tables' = tables \cup {server}
    /\ server' = AfterTable[server]
    /\ UNCHANGED <<client, undo, held, noDb, faults>>

create_socket ==
    /\ server = "socket"
    /\ Acquire("server", "socket")
    /\ server' = "listen"
    /\ UNCHANGED <<client, undo, tables, noDb, faults>>

\* setsockopt, bind and listen.
Listen ==
    /\ server = "listen"
    /\ server' = "running"
    /\ UNCHANGED <<client, undo, held, tables, noDb, faults>>

\* WRONG variant of Unwinding: the way out after a failed socket is a copy of the
\* one after a failed init_db.
UnwindingWithoutDb(step) ==
    CASE step = "network" -> <<"mutex">>
      [] step \in {"open", "users", "children", "meals", "socket"} -> <<"network", "mutex">>
      [] OTHER -> <<"socket", "network", "db", "mutex">>

\* What main releases when this step fails, or at the end.
Unwinding(step) ==
    CASE step = "network" -> <<"mutex">>
      [] step \in {"open", "users", "children", "meals"} -> <<"network", "mutex">>
      [] step = "socket" -> <<"network", "db", "mutex">>
      [] OTHER -> <<"socket", "network", "db", "mutex">>

\* sqlite3_open hands out a connection also when it fails.
StepFails ==
    /\ server \in {"network", "open", "users", "children", "meals", "socket", "listen"}
    /\ Fault
    /\ undo' = [undo EXCEPT !["server"] = Unwinding(server)]
    /\ IF server = "open" THEN Acquire("server", "db") ELSE UNCHANGED held
    /\ noDb' = (server \in {"open"} \cup Tables)
    /\ server' = "ending"
    /\ UNCHANGED <<client, tables>>

\* SIGINT and one more connection: the subject of ConnectionPool.
StopServer ==
    /\ server = "running"
    /\ Fault
    /\ undo' = [undo EXCEPT !["server"] = Unwinding("running")]
    /\ server' = "ending"
    /\ UNCHANGED <<client, held, tables, noDb>>

ReleaseNext(p) ==
    /\ undo[p] # <<>>
    /\ held' = [held EXCEPT ![p][Head(undo[p])] = @ - 1]
    /\ undo' = [undo EXCEPT ![p] = Tail(@)]

Unwind ==
    /\ server = "ending"
    /\ ReleaseNext("server")
    /\ UNCHANGED <<server, client, tables, noDb, faults>>

ServerEnds ==
    /\ server = "ending" /\ undo["server"] = <<>>
    /\ server' = "ended"
    /\ UNCHANGED <<client, undo, held, tables, noDb, faults>>

\* The process is killed; the system takes back all but the file.
KillServer ==
    /\ server \notin {"off", "ended"}
    /\ Fault
    /\ server' = "off"
    /\ undo' = [undo EXCEPT !["server"] = <<>>]
    /\ held' = [held EXCEPT !["server"] = Nothing]
    /\ noDb' = FALSE
    /\ UNCHANGED <<client, tables>>

ServerStep ==
    \/ StartServer \/ InitMutex \/ init_network \/ OpenDb \/ CreateTable
    \/ create_socket \/ Listen \/ Unwind \/ ServerEnds

-----------------------------------------------------------------------------
\* The client.

StartClient ==
    /\ client \in {"off", "ended"}
    /\ client' = "network"
    /\ UNCHANGED <<server, undo, held, tables, noDb, faults>>

ClientNetwork ==
    /\ client = "network"
    /\ \/ Acquire("client", "network") /\ client' = "socket" /\ UNCHANGED faults
       \/ Fault /\ client' = "ended" /\ UNCHANGED held
    /\ UNCHANGED <<server, undo, tables, noDb>>

ClientSocket ==
    /\ client = "socket"
    /\ \/ Acquire("client", "socket") /\ client' = "connect" /\ UNCHANGED <<undo, faults>>
       \/ /\ Fault
          /\ undo' = [undo EXCEPT !["client"] = <<"network">>]
          /\ client' = "ending"
          /\ UNCHANGED held
    /\ UNCHANGED <<server, tables, noDb>>

\* A server that does not listen refuses.
Connect ==
    /\ client = "connect"
    /\ \/ server = "running" /\ client' = "running" /\ UNCHANGED undo
       \/ /\ server # "running"
          /\ undo' = [undo EXCEPT !["client"] = <<"socket", "network">>]
          /\ client' = "ending"
    /\ UNCHANGED <<server, held, tables, noDb, faults>>

ClientQuits ==
    /\ client = "running"
    /\ undo' = [undo EXCEPT !["client"] = <<"socket", "network">>]
    /\ client' = "ending"
    /\ UNCHANGED <<server, held, tables, noDb, faults>>

ClientUnwinds ==
    /\ client = "ending"
    /\ \/ ReleaseNext("client") /\ UNCHANGED client
       \/ undo["client"] = <<>> /\ client' = "ended" /\ UNCHANGED <<undo, held>>
    /\ UNCHANGED <<server, tables, noDb, faults>>

Next ==
    \/ ServerStep
    \/ StepFails \/ StopServer \/ KillServer
    \/ StartClient \/ ClientNetwork \/ ClientSocket \/ Connect \/ ClientQuits
    \/ ClientUnwinds

Spec == Init /\ [][Next]_vars

\* Whoever runs the server starts it again when it has ended.
FairSpec == Spec /\ WF_vars(ServerStep)

-----------------------------------------------------------------------------
(* Whichever step fails, main releases what it has acquired before it ends, each
   once and the socket before the network.  What is left at the end is the database
   connection when init_db has failed, and nothing otherwise
   (src/server/server.c:526-593, 647-661; src/client/client.c:24-52, 102-104). *)
ReleasedOnce ==
    /\ \A p \in {"server", "client"} :
         /\ \A r \in Resources : held[p][r] \in 0 .. 1
         /\ held[p]["socket"] = 1 => held[p]["network"] = 1
    /\ client = "ended" => held["client"] = Nothing
    /\ server = "ended" =>
         held["server"] = IF noDb THEN [Nothing EXCEPT !["db"] = 1] ELSE Nothing

(* However its earlier starts ended, halfway through the tables or while it was
   running, once nothing goes wrong any more the server comes up with all three
   tables and stays up (src/server/db_handler.c:20-80). *)
ServesInTheEnd == <>[](server = "running" /\ tables = Tables)
=============================================================================
