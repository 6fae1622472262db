--------------------------- MODULE ConnectionPool ---------------------------
(***************************************************************************)
(* The connection side of the server: main's accept loop, the table        *)
(* client_sockets[] and one handler thread per connection                  *)
(* (src/server/server.c).  What a handler does with a request is the       *)
(* subject of RequestServer; here it is one step, Serve.                   *)
(*                                                                         *)
(* A critical section of clients_mutex is one step.  Every access that     *)
(* the code makes WITHOUT the mutex is a step of its own: the handler's    *)
(* first load of its slot, main's reset of a slot after a failed           *)
(* CreateThread, and the test and the load of main's shutdown scan.        *)
(*                                                                         *)
(* A handle is a number that the operating system reuses as soon as it has *)
(* been closed; this is why the order of "clear the slot" and "close the   *)
(* handle" matters.                                                        *)
(***************************************************************************)
EXTENDS Integers, FiniteSets

CONSTANTS
    MaxClients,   \* MAX_CLIENTS
    Handles,      \* the values accept() can return
    Threads,      \* the identities of handler threads
    Conns,        \* the connections clients open
    NoSocket,     \* the 0 of an empty slot
    NoConn        \* the peer of a handle that is not open

ASSUME PoolAssumption ==
    /\ MaxClients \in Nat \ {0}
    /\ NoSocket \notin Handles
    /\ NoConn \notin Conns

Slots == 0 .. MaxClients - 1

VARIABLES
    running,        \* the flag that SIGINT clears
    clientSockets,  \* client_sockets[]
    mainPc,         \* where main is
    mainSock,       \* the handle main has in a local variable
    slot,           \* main's i in the accept loop
    scan,           \* main's i in the shutdown loop
    pc,             \* where each handler thread is
    arg,            \* the index of the slot whose address a thread was given
    sock,           \* a thread's client_socket
    owner,          \* history: the connection a thread was created for
    peer,           \* the connection behind each open handle
    pending,        \* connections that wait in the backlog of server_fd
    hungUp          \* connections whose client has closed its end

mainVars   == <<mainPc, mainSock, slot, scan>>
threadVars == <<pc, arg, sock, owner>>
vars == <<running, clientSockets, mainVars, threadVars, peer, pending, hungUp>>

MainStates == {"check", "accept", "store", "reject", "create", "abandon", "unslot",
               "scan", "load", "close", "cleanup", "delete", "return", "exited"}

\* Where main's shutdown code runs; it accepts no connection from there on.
ShutdownStates == {"scan", "load", "close", "cleanup", "delete", "return", "exited"}

\* A thread owns the slot it was given until it has cleared it.
HoldingStates == {"created", "check", "recv", "serve", "leaving"}

\* A thread has its client_socket from its first load until it returns.
LoadedStates == {"check", "recv", "serve", "leaving", "cleared"}

ThreadStates == {"none", "cleared"} \cup HoldingStates

Open(h) == peer[h] # NoConn

\* Slot s is the first one, in the order of the loops, that contains h.
IsFirst(s, h) ==
    /\ clientSockets[s] = h
    /\ \A r \in Slots : r < s => clientSockets[r] # h

Holders == {t \in Threads : pc[t] \in HoldingStates}

-----------------------------------------------------------------------------

TypeOK ==
    /\ running \in BOOLEAN
    /\ clientSockets \in [Slots -> Handles \cup {NoSocket}]
    /\ mainPc \in MainStates
    /\ mainSock \in Handles \cup {NoSocket}
    /\ slot \in Slots
    /\ scan \in 0 .. MaxClients
    /\ pc \in [Threads -> ThreadStates]
    /\ arg \in [Threads -> Slots]
    /\ sock \in [Threads -> Handles \cup {NoSocket}]
    /\ owner \in [Threads -> Conns \cup {NoConn}]
    /\ peer \in [Handles -> Conns \cup {NoConn}]
    /\ pending \subseteq Conns
    /\ hungUp \subseteq Conns

Init ==
    /\ running = TRUE
    /\ clientSockets = [s \in Slots |-> NoSocket]
    /\ mainPc = "check"
    /\ mainSock = NoSocket
    /\ slot = 0
    /\ scan = 0
    /\ pc = [t \in Threads |-> "none"]
    /\ arg = [t \in Threads |-> 0]
    /\ sock = [t \in Threads |-> NoSocket]
    /\ owner = [t \in Threads |-> NoConn]
    /\ peer = [h \in Handles |-> NoConn]
    /\ pending = {}
    /\ hungUp = {}

-----------------------------------------------------------------------------
\* The accept loop of main.

\* WRONG variants of CheckRunning: main does not accept while every slot is in
\* use, and the loop does not look at the flag.
AcceptWaits ==
    /\ mainPc = "check"
    /\ running => \E s \in Slots : clientSockets[s] = NoSocket
    /\ mainPc' = IF running THEN "accept" ELSE "scan"
    /\ scan' = 0
    /\ UNCHANGED <<running, clientSockets, mainSock, slot, threadVars, peer, pending, hungUp>>

CheckNothing ==
    /\ mainPc = "check"
    /\ mainPc' = "accept"
    /\ UNCHANGED <<running, clientSockets, mainSock, slot, scan, threadVars, peer, pending, hungUp>>

\* while (running)
CheckRunning ==
    /\ mainPc = "check"
    /\ mainPc' = IF running THEN "accept" ELSE "scan"
    /\ scan' = 0
    /\ UNCHANGED <<running, clientSockets, mainSock, slot, threadVars, peer, pending, hungUp>>

\* accept() returns a handle that is not in use for a connection of the backlog.
Accept ==
    /\ mainPc = "accept"
    /\ \E c \in pending, h \in Handles :
         /\ ~Open(h)
         /\ peer' = [peer EXCEPT ![h] = c]
         /\ mainSock' = h
         /\ pending' = pending \ {c}
    /\ mainPc' = "store"
    /\ UNCHANGED <<running, clientSockets, slot, scan, threadVars, hungUp>>

\* accept() returns INVALID_SOCKET: a client has given up the connection, or an
\* error of another kind, which leaves the backlog as it is.
AcceptFails ==
    /\ mainPc = "accept"
    /\ \/ \E c \in pending \cap hungUp : pending' = pending \ {c}
       \/ UNCHANGED pending
    /\ mainPc' = IF running THEN "check" ELSE "scan"
    /\ scan' = 0
    /\ UNCHANGED <<running, clientSockets, mainSock, slot, threadVars, peer, hungUp>>

\* Under the mutex: put the handle into the first empty slot, if there is one.
Store ==
    /\ mainPc = "store"
    /\ \/ \E s \in Slots :
            /\ IsFirst(s, NoSocket)
            /\ clientSockets' = [clientSockets EXCEPT ![s] = mainSock]
            /\ slot' = s
            /\ mainPc' = "create"
       \/ /\ \A s \in Slots : clientSockets[s] # NoSocket
          /\ mainPc' = "reject"
          /\ UNCHANGED <<clientSockets, slot>>
    /\ UNCHANGED <<running, mainSock, scan, threadVars, peer, pending, hungUp>>

\* WRONG variant of Reject: continue without close_socket.
RejectWithoutClose ==
    /\ mainPc = "reject"
    /\ mainPc' = "check"
    /\ UNCHANGED <<running, clientSockets, mainSock, slot, scan, threadVars, peer, pending, hungUp>>

\* i == MAX_CLIENTS: close the connection and continue.
Reject ==
    /\ mainPc = "reject"
    /\ peer' = [peer EXCEPT ![mainSock] = NoConn]
    /\ mainPc' = "check"
    /\ UNCHANGED <<running, clientSockets, mainSock, slot, scan, threadVars, pending, hungUp>>

\* CreateThread succeeds: the thread is given the ADDRESS of its slot.
CreateThread ==
    /\ mainPc = "create"
    /\ \E t \in Threads :
         /\ pc[t] = "none"
         /\ pc' = [pc EXCEPT ![t] = "created"]
         /\ arg' = [arg EXCEPT ![t] = slot]
         /\ owner' = [owner EXCEPT ![t] = peer[clientSockets[slot]]]
    /\ mainPc' = "check"
    /\ UNCHANGED <<running, clientSockets, mainSock, slot, scan, sock, peer, pending, hungUp>>

CreateFails ==
    /\ mainPc = "create"
    /\ mainPc' = "abandon"
    /\ UNCHANGED <<running, clientSockets, mainSock, slot, scan, threadVars, peer, pending, hungUp>>

\* close_socket(client_sockets[i]), then client_sockets[i] = 0 without the mutex.
Abandon ==
    /\ mainPc = "abandon"
    /\ peer' = [peer EXCEPT ![clientSockets[slot]] = NoConn]
    /\ mainPc' = "unslot"
    /\ UNCHANGED <<running, clientSockets, mainSock, slot, scan, threadVars, pending, hungUp>>

\* WRONG variant of Unslot: the slot of the failed thread is not reset.
KeepSlot ==
    /\ mainPc = "unslot"
    /\ mainPc' = "check"
    /\ UNCHANGED <<running, clientSockets, mainSock, slot, scan, threadVars, peer, pending, hungUp>>

Unslot ==
    /\ mainPc = "unslot"
    /\ clientSockets' = [clientSockets EXCEPT ![slot] = NoSocket]
    /\ mainPc' = "check"
    /\ UNCHANGED <<running, mainSock, slot, scan, threadVars, peer, pending, hungUp>>

-----------------------------------------------------------------------------
\* The shutdown code of main: no lock is taken.

\* WRONG variants of ScanTest: one slot too many, and one slot too few.
ScanPastEnd ==
    /\ mainPc = "scan"
    /\ IF scan < MaxClients /\ clientSockets[scan] # NoSocket
         THEN mainPc' = "load" /\ UNCHANGED scan
         ELSE scan' = scan + 1 /\ UNCHANGED mainPc
    /\ UNCHANGED <<running, clientSockets, mainSock, slot, threadVars, peer, pending, hungUp>>

ScanAllButLast ==
    /\ mainPc = "scan"
    /\ IF scan >= MaxClients - 1
         THEN mainPc' = "cleanup" /\ UNCHANGED scan
         ELSE IF clientSockets[scan] # NoSocket
           THEN mainPc' = "load" /\ UNCHANGED scan
           ELSE scan' = scan + 1 /\ UNCHANGED mainPc
    /\ UNCHANGED <<running, clientSockets, mainSock, slot, threadVars, peer, pending, hungUp>>

ScanTest ==
    /\ mainPc = "scan"
    /\ \/ /\ scan = MaxClients
          /\ mainPc' = "cleanup"
          /\ UNCHANGED scan
       \/ /\ scan < MaxClients
          /\ IF clientSockets[scan] # NoSocket
               THEN mainPc' = "load" /\ UNCHANGED scan
               ELSE scan' = scan + 1 /\ UNCHANGED mainPc
    /\ UNCHANGED <<running, clientSockets, mainSock, slot, threadVars, peer, pending, hungUp>>

\* The argument of close_socket is loaded again; a handler may have cleared it.
ScanLoad ==
    /\ mainPc = "load"
    /\ mainSock' = clientSockets[scan]
    /\ mainPc' = "close"
    /\ UNCHANGED <<running, clientSockets, slot, scan, threadVars, peer, pending, hungUp>>

\* Closing 0 or a handle that is no longer open fails and changes nothing.
ScanClose ==
    /\ mainPc = "close"
    /\ peer' = IF mainSock = NoSocket THEN peer ELSE [peer EXCEPT ![mainSock] = NoConn]
    /\ scan' = scan + 1
    /\ mainPc' = "scan"
    /\ UNCHANGED <<running, clientSockets, mainSock, slot, threadVars, pending, hungUp>>

\* close_socket(server_fd) drops the backlog, WSACleanup every open handle.
Cleanup ==
    /\ mainPc = "cleanup"
    /\ pending' = {}
    /\ peer' = [h \in Handles |-> NoConn]
    /\ mainPc' = "delete"
    /\ UNCHANGED <<running, clientSockets, mainSock, slot, scan, threadVars, hungUp>>

\* DeleteCriticalSection, then return from main, which ends every thread.
DeleteMutex ==
    /\ mainPc = "delete"
    /\ mainPc' = "return"
    /\ UNCHANGED <<running, clientSockets, mainSock, slot, scan, threadVars, peer, pending, hungUp>>

ReturnFromMain ==
    /\ mainPc = "return"
    /\ mainPc' = "exited"
    /\ UNCHANGED <<running, clientSockets, mainSock, slot, scan, threadVars, peer, pending, hungUp>>

MainStep ==
    \/ CheckRunning \/ Accept \/ AcceptFails \/ Store \/ Reject
    \/ CreateThread \/ CreateFails \/ Abandon \/ Unslot
    \/ ScanTest \/ ScanLoad \/ ScanClose \/ Cleanup \/ DeleteMutex \/ ReturnFromMain

-----------------------------------------------------------------------------
\* The thread function handle_client.

\* WRONG variants of Start: the thread was given the address of main's local
\* variable, and the thread frees its slot as soon as it has read it.
StartFromLocal(t) ==
    /\ pc[t] = "created"
    /\ sock' = [sock EXCEPT ![t] = mainSock]
    /\ pc' = [pc EXCEPT ![t] = "check"]
    /\ UNCHANGED <<running, clientSockets, mainVars, arg, owner, peer, pending, hungUp>>

StartFreesSlot(t) ==
    /\ pc[t] = "created"
    /\ sock' = [sock EXCEPT ![t] = clientSockets[arg[t]]]
    /\ clientSockets' = [clientSockets EXCEPT ![arg[t]] = NoSocket]
    /\ pc' = [pc EXCEPT ![t] = "check"]
    /\ UNCHANGED <<running, mainVars, arg, owner, peer, pending, hungUp>>

\* SOCKET client_socket = *(SOCKET *)arg: the slot is read when the thread runs.
Start(t) ==
    /\ pc[t] = "created"
    /\ sock' = [sock EXCEPT ![t] = clientSockets[arg[t]]]
    /\ pc' = [pc EXCEPT ![t] = "check"]
    /\ UNCHANGED <<running, clientSockets, mainVars, arg, owner, peer, pending, hungUp>>

\* while (running)
CheckLoop(t) ==
    /\ pc[t] = "check"
    /\ pc' = [pc EXCEPT ![t] = IF running THEN "recv" ELSE "leaving"]
    /\ UNCHANGED <<running, clientSockets, mainVars, arg, sock, owner, peer, pending, hungUp>>

\* recv() delivers bytes; a client that has hung up may have sent them before.
RecvRequest(t) ==
    /\ pc[t] = "recv"
    /\ Open(sock[t])
    /\ pc' = [pc EXCEPT ![t] = "serve"]
    /\ UNCHANGED <<running, clientSockets, mainVars, arg, sock, owner, peer, pending, hungUp>>

\* WRONG variants of RecvEnd: the handle is closed before the slot is cleared,
\* and only a negative result of recv() counts as the end.
RecvEndCloses(t) ==
    /\ pc[t] = "recv"
    /\ ~Open(sock[t]) \/ peer[sock[t]] \in hungUp
    /\ peer' = [peer EXCEPT ![sock[t]] = NoConn]
    /\ pc' = [pc EXCEPT ![t] = "leaving"]
    /\ UNCHANGED <<running, clientSockets, mainVars, arg, sock, owner, pending, hungUp>>

RecvEndOnError(t) ==
    /\ pc[t] = "recv"
    /\ ~Open(sock[t])
    /\ pc' = [pc EXCEPT ![t] = "leaving"]
    /\ UNCHANGED <<running, clientSockets, mainVars, arg, sock, owner, peer, pending, hungUp>>

\* recv() returns 0 or an error: the client has hung up, or the handle is closed.
RecvEnd(t) ==
    /\ pc[t] = "recv"
    /\ ~Open(sock[t]) \/ peer[sock[t]] \in hungUp
    /\ pc' = [pc EXCEPT ![t] = "leaving"]
    /\ UNCHANGED <<running, clientSockets, mainVars, arg, sock, owner, peer, pending, hungUp>>

\* The request is handled and the loop continues.
Serve(t) ==
    /\ pc[t] = "serve"
    /\ pc' = [pc EXCEPT ![t] = "check"]
    /\ UNCHANGED <<running, clientSockets, mainVars, arg, sock, owner, peer, pending, hungUp>>

\* Main may have closed the database connection under the request
\* (server.c:658); what SQLite does with a closed connection is undefined.
ServeCrashes(t) ==
    /\ pc[t] = "serve"
    /\ mainPc \in {"delete", "return"}
    /\ mainPc' = "exited"
    /\ UNCHANGED <<running, clientSockets, mainSock, slot, scan, threadVars, peer, pending, hungUp>>

\* Under the mutex: zero the first slot that contains this thread's handle.
Clear(t) ==
    /\ pc[t] = "leaving"
    /\ clientSockets' = [s \in Slots |->
                           IF IsFirst(s, sock[t]) THEN NoSocket ELSE clientSockets[s]]
    /\ pc' = [pc EXCEPT ![t] = "cleared"]
    /\ UNCHANGED <<running, mainVars, arg, sock, owner, peer, pending, hungUp>>

\* EnterCriticalSection on a deleted mutex is undefined: it may end the process.
ClearCrashes(t) ==
    /\ pc[t] = "leaving"
    /\ mainPc = "return"
    /\ mainPc' = "exited"
    /\ UNCHANGED <<running, clientSockets, mainSock, slot, scan, threadVars, peer, pending, hungUp>>

\* close_socket(client_socket), and the thread returns.
Close(t) ==
    /\ pc[t] = "cleared"
    /\ peer' = [peer EXCEPT ![sock[t]] = NoConn]
    /\ sock' = [sock EXCEPT ![t] = NoSocket]
    /\ owner' = [owner EXCEPT ![t] = NoConn]
    /\ pc' = [pc EXCEPT ![t] = "none"]
    /\ UNCHANGED <<running, clientSockets, mainVars, arg, pending, hungUp>>

ThreadStep(t) ==
    /\ mainPc # "exited"
    /\ \/ Start(t) \/ CheckLoop(t) \/ RecvRequest(t) \/ RecvEnd(t) \/ Serve(t)
       \/ ServeCrashes(t) \/ Clear(t) \/ ClearCrashes(t) \/ Close(t)

-----------------------------------------------------------------------------
\* The environment: clients and the console.

\* A connection that is over may be opened anew, by the same or another client.
Connect(c) ==
    /\ mainPc \notin {"delete", "return", "exited"}
    /\ c \notin pending
    /\ \A h \in Handles : peer[h] # c
    /\ pending' = pending \cup {c}
    /\ hungUp' = hungUp \ {c}
    /\ UNCHANGED <<running, clientSockets, mainVars, threadVars, peer>>

HangUp(c) ==
    /\ c \notin hungUp
    /\ c \in pending \/ \E h \in Handles : peer[h] = c
    /\ hungUp' = hungUp \cup {c}
    /\ UNCHANGED <<running, clientSockets, mainVars, threadVars, peer, pending>>

\* signal_handler
SigInt ==
    /\ mainPc # "exited"
    /\ running' = FALSE
    /\ UNCHANGED <<clientSockets, mainVars, threadVars, peer, pending, hungUp>>

Environment == SigInt \/ \E c \in Conns : Connect(c) \/ HangUp(c)

Next ==
    \/ MainStep
    \/ \E t \in Threads : ThreadStep(t)
    \/ Environment

Spec == Init /\ [][Next]_vars

(***************************************************************************)
(* Fairness: the scheduler runs main and every handler thread again and    *)
(* again; recv reports the end of a connection after the finitely many     *)
(* requests that were sent before it (the strong fairness), and a request  *)
(* that is being served ends.  Clients and the console owe nothing.        *)
(***************************************************************************)
HandlerFairness(t) ==
    /\ WF_vars(mainPc # "exited" /\ ThreadStep(t))
    /\ SF_vars(mainPc # "exited" /\ RecvEnd(t))

-----------------------------------------------------------------------------
\* Properties.

(***************************************************************************)
(* No two slots ever contain the same handle, although a handle is reused  *)
(* as soon as it is closed: handle_client clears its slot before it closes *)
(* its handle (server.c:440-452).                                          *)
(***************************************************************************)
ExclusiveSlots ==
    \A r, s \in Slots :
        r # s /\ clientSockets[r] # NoSocket => clientSockets[r] # clientSockets[s]

(***************************************************************************)
(* Until main shuts down, a handler thread reads from and writes to the    *)
(* connection it was created for and no other, although it learns its      *)
(* handle through a pointer into a shared table (server.c:31, 634).        *)
(***************************************************************************)
ServesOwnConnection ==
    mainPc \notin ShutdownStates =>
        \A t \in Threads :
            pc[t] \in LoadedStates => Open(sock[t]) /\ peer[sock[t]] = owner[t]

(***************************************************************************)
(* At most MAX_CLIENTS handler threads own a slot at any time.             *)
(***************************************************************************)
CapacityBound == Cardinality(Holders) <= MaxClients

(***************************************************************************)
(* Every open handle is somebody's to close: it is in the table, in main's *)
(* hands, or its thread has cleared the slot and is about to close it.     *)
(***************************************************************************)
NoHandleLeaks ==
    \A h \in Handles : Open(h) =>
        \/ \E s \in Slots : clientSockets[s] = h
        \/ mainPc \in {"store", "reject"} /\ mainSock = h
        \/ \E t \in Threads : pc[t] = "cleared" /\ sock[t] = h

(***************************************************************************)
(* The shutdown scan closes every connection but those whose thread has    *)
(* just cleared the slot and closes the handle itself (server.c:648-655),  *)
(* although it runs without the mutex while handlers leave.                *)
(***************************************************************************)
ShutdownClosesAll ==
    mainPc = "cleanup" =>
        \A h \in Handles : Open(h) => \E t \in Threads : pc[t] = "cleared" /\ sock[t] = h

(***************************************************************************)
(* A connection is turned away only when every slot belongs to a living    *)
(* handler thread: no slot is lost when threads come and go or cannot be   *)
(* created (server.c:626-640).                                             *)
(***************************************************************************)
RefusedOnlyWhenFull ==
    [][mainPc = "store" /\ mainPc' = "reject" =>
         \A s \in Slots : \E t \in Holders : arg[t] = s]_vars

(***************************************************************************)
(* Once SIGINT has cleared running, the next connection makes the server   *)
(* stop.  Without one it stays in accept() (server.c:598-609).             *)
(***************************************************************************)
StopsOnNextConnection == (~running /\ pending # {}) ~> (mainPc = "exited")
-----------------------------------------------------------------------------
\* The inductive invariant behind the safety properties.

\* Main's local variables: what they hold while main has work in its hands.
MainHolds ==
    /\ mainPc \in {"load", "close"} => scan < MaxClients
    /\ mainPc \in {"store", "reject"} =>
         /\ mainSock # NoSocket
         /\ Open(mainSock)
         /\ \A s \in Slots : clientSockets[s] # mainSock
         /\ \A t \in Threads : pc[t] = "cleared" => sock[t] # mainSock
    /\ mainPc \in {"create", "abandon", "unslot"} =>
         /\ clientSockets[slot] # NoSocket
         /\ \A t \in Holders : arg[t] # slot
    /\ mainPc = "unslot" => ~Open(clientSockets[slot])

\* A thread that owns a slot is the only one that does, and the slot is not
\* cleared behind its back.
HoldersAgree ==
    /\ \A t \in Holders :
         /\ clientSockets[arg[t]] # NoSocket
         /\ pc[t] # "created" => sock[t] = clientSockets[arg[t]]
    /\ \A t, u \in Holders : t # u => arg[t] # arg[u]

\* A slot that is in use belongs to a thread, or to main for a moment.
SlotsAreOwned ==
    \A s \in Slots : clientSockets[s] # NoSocket =>
        \/ \E t \in Holders : arg[t] = s
        \/ mainPc \in {"create", "abandon", "unslot"} /\ slot = s

\* The handle of a thread that has cleared its slot is that thread's alone.
ClearedAreApart ==
    \A t \in Threads : pc[t] = "cleared" =>
        /\ sock[t] # NoSocket
        /\ \A s \in Slots : clientSockets[s] # sock[t]
        /\ \A u \in Threads : u # t /\ pc[u] = "cleared" => sock[u] # sock[t]

\* Until the shutdown, the handles in the table are open and lead to the
\* connection of the thread that owns the slot.
PeersAgree ==
    mainPc \notin ShutdownStates =>
        /\ \A s \in Slots :
             clientSockets[s] # NoSocket /\ ~(mainPc = "unslot" /\ slot = s)
               => Open(clientSockets[s])
        /\ \A t \in Holders : owner[t] = peer[clientSockets[arg[t]]]
        /\ \A t \in Threads :
             pc[t] = "cleared" => Open(sock[t]) /\ owner[t] = peer[sock[t]]

(***************************************************************************)
(* The table, the threads and main agree on who owns which handle.         *)
(***************************************************************************)
PoolInv ==
    /\ TypeOK
    /\ ExclusiveSlots
    /\ MainHolds
    /\ HoldersAgree
    /\ SlotsAreOwned
    /\ ClearedAreApart
    /\ PeersAgree

(***************************************************************************)
(* The shutdown scan leaves nothing behind it: an open handle is in a slot *)
(* still to be visited, or its thread is about to close it.                *)
(***************************************************************************)
ScanProgress ==
    /\ mainPc \in {"scan", "load", "close", "cleanup"} =>
         \A h \in Handles : Open(h) =>
            \/ \E s \in Slots : scan <= s /\ clientSockets[s] = h
            \/ \E t \in Threads : pc[t] = "cleared" /\ sock[t] = h
    /\ mainPc = "close" => clientSockets[scan] \in {mainSock, NoSocket}
    /\ mainPc = "cleanup" => scan = MaxClients
=============================================================================
