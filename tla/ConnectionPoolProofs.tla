------------------------ MODULE ConnectionPoolProofs ------------------------
(***************************************************************************)
(* Proofs about ConnectionPool, for every number of slots and all sets of  *)
(* handles, threads and connections, and about the two modules built on    *)
(* it: that it implements AdmissionControl (PoolAdmission), and that       *)
(* SchoolServer implements it and misleads nobody at its shutdown.         *)
(*                                                                         *)
(* PoolInv is inductive: there is one lemma per action, and under it one   *)
(* step per conjunct for the actions that change the table, a handle or    *)
(* the ownership of a slot.  The safety properties follow from PoolInv;    *)
(* NoHandleLeaks and ShutdownClosesAll each add an invariant of their own. *)
(***************************************************************************)
EXTENDS PoolAdmission, SchoolServer, FiniteSetTheorems, FunctionTheorems, TLAPS

USE DEF Slots, Open, Holders, HoldingStates, ThreadStates, MainStates, ShutdownStates,
        mainVars, threadVars

-----------------------------------------------------------------------------
\* The steps of main.


\* The test of the loop changes neither the table nor a handle.
LEMMA CheckRunningStep ==
  ASSUME PoolInv, CheckRunning
  PROVE  PoolInv'
BY PoolAssumption
  DEF PoolInv, TypeOK, ExclusiveSlots, MainHolds, HoldersAgree,
         SlotsAreOwned, ClearedAreApart, PeersAgree,
      CheckRunning

\* accept() returns a handle that was not open, so it is in no slot and is
\* not the handle of a thread that is about to close its own.
LEMMA AcceptStep ==
  ASSUME PoolInv, Accept
  PROVE  PoolInv'
<1> USE PoolAssumption DEF PoolInv, Accept
<1>1. TypeOK'
  BY DEF TypeOK
<1>2. ExclusiveSlots'
  BY DEF TypeOK, ExclusiveSlots
<1>3. MainHolds'
  BY DEF TypeOK, MainHolds, PeersAgree
<1>4. HoldersAgree'
  BY DEF TypeOK, HoldersAgree
<1>5. SlotsAreOwned'
  BY DEF TypeOK, SlotsAreOwned
<1>6. ClearedAreApart'
  BY DEF TypeOK, ClearedAreApart
<1>7. PeersAgree'
  BY DEF TypeOK, PeersAgree, HoldersAgree
<1> QED
  BY <1>1, <1>2, <1>3, <1>4, <1>5, <1>6, <1>7

\* A failed accept() leaves main with nothing in its hands.
LEMMA AcceptFailsStep ==
  ASSUME PoolInv, AcceptFails
  PROVE  PoolInv'
BY PoolAssumption
  DEF PoolInv, TypeOK, ExclusiveSlots, MainHolds, HoldersAgree,
         SlotsAreOwned, ClearedAreApart, PeersAgree,
      AcceptFails

\* Store gives the new handle a slot no thread owns.
LEMMA StoreStep ==
  ASSUME PoolInv, Store
  PROVE  PoolInv'
<1> USE PoolAssumption DEF PoolInv, Store, IsFirst
<1>1. TypeOK'
  BY DEF TypeOK
<1>2. ExclusiveSlots'
  BY DEF TypeOK, ExclusiveSlots, MainHolds
<1>3. MainHolds'
  BY DEF TypeOK, MainHolds, HoldersAgree
<1>4. HoldersAgree'
  BY DEF TypeOK, HoldersAgree, MainHolds
<1>5. SlotsAreOwned'
  BY DEF TypeOK, SlotsAreOwned
<1>6. ClearedAreApart'
  BY DEF TypeOK, ClearedAreApart, MainHolds
<1>7. PeersAgree'
  <2>1. CASE mainPc' = "reject"
    BY <2>1 DEF TypeOK, PeersAgree
  <2>2. ASSUME NEW s \in Slots, IsFirst(s, NoSocket), mainPc' = "create", slot' = s,
               clientSockets' = [clientSockets EXCEPT ![s] = mainSock]
        PROVE  PeersAgree'
    <3>1. \A t \in Holders : arg[t] # s
      BY <2>2 DEF TypeOK, HoldersAgree
    <3>2. \A r \in Slots : clientSockets'[r] # NoSocket => Open(clientSockets'[r])
      BY <2>2 DEF TypeOK, PeersAgree, MainHolds
    <3> QED
      BY <2>2, <3>1, <3>2 DEF TypeOK, PeersAgree, HoldersAgree
  <2> QED
    BY <2>1, <2>2
<1> QED
  BY <1>1, <1>2, <1>3, <1>4, <1>5, <1>6, <1>7

\* The handle that Reject closes is in no slot and no thread has it.
LEMMA RejectStep ==
  ASSUME PoolInv, Reject
  PROVE  PoolInv'
<1> USE PoolAssumption DEF PoolInv, Reject
<1>1. TypeOK'
  BY DEF TypeOK
<1>2. ExclusiveSlots'
  BY DEF TypeOK, ExclusiveSlots
<1>3. MainHolds'
  BY DEF TypeOK, MainHolds
<1>4. HoldersAgree'
  BY DEF TypeOK, HoldersAgree
<1>5. SlotsAreOwned'
  BY DEF TypeOK, SlotsAreOwned
<1>6. ClearedAreApart'
  BY DEF TypeOK, ClearedAreApart
<1>7. PeersAgree'
  BY DEF TypeOK, PeersAgree, HoldersAgree, MainHolds
<1> QED
  BY <1>1, <1>2, <1>3, <1>4, <1>5, <1>6, <1>7

\* The new thread becomes the owner of the slot main has just filled.
LEMMA CreateThreadStep ==
  ASSUME PoolInv, CreateThread
  PROVE  PoolInv'
<1> USE PoolAssumption DEF PoolInv, CreateThread
<1>1. TypeOK'
  BY DEF TypeOK, MainHolds
<1>2. ExclusiveSlots'
  BY DEF TypeOK, ExclusiveSlots
<1>3. MainHolds'
  BY DEF TypeOK, MainHolds
<1>4. HoldersAgree'
  BY DEF TypeOK, HoldersAgree, MainHolds
<1>5. SlotsAreOwned'
  <2>1. PICK t \in Threads : /\ pc[t] = "none"
                            /\ pc' = [pc EXCEPT ![t] = "created"]
                            /\ arg' = [arg EXCEPT ![t] = slot]
    OBVIOUS
  <2>2. t \in Holders' /\ arg'[t] = slot
    BY <2>1 DEF TypeOK
  <2>3. \A u \in Holders : u \in Holders' /\ arg'[u] = arg[u]
    BY <2>1 DEF TypeOK
  <2> QED
    BY <2>2, <2>3 DEF SlotsAreOwned
<1>6. ClearedAreApart'
  BY DEF TypeOK, ClearedAreApart
<1>7. PeersAgree'
  BY DEF TypeOK, PeersAgree, MainHolds
<1> QED
  BY <1>1, <1>2, <1>3, <1>4, <1>5, <1>6, <1>7

\* After a failed CreateThread the slot is still main's.
LEMMA CreateFailsStep ==
  ASSUME PoolInv, CreateFails
  PROVE  PoolInv'
BY PoolAssumption
  DEF PoolInv, TypeOK, ExclusiveSlots, MainHolds, HoldersAgree,
         SlotsAreOwned, ClearedAreApart, PeersAgree,
      CreateFails

\* The handle that Abandon closes belongs to no thread.
LEMMA AbandonStep ==
  ASSUME PoolInv, Abandon
  PROVE  PoolInv'
<1> USE PoolAssumption DEF PoolInv, Abandon
<1>1. TypeOK'
  BY DEF TypeOK
<1>2. ExclusiveSlots'
  BY DEF TypeOK, ExclusiveSlots
<1>3. MainHolds'
  BY DEF TypeOK, MainHolds
<1>4. HoldersAgree'
  BY DEF TypeOK, HoldersAgree
<1>5. SlotsAreOwned'
  BY DEF TypeOK, SlotsAreOwned
<1>6. ClearedAreApart'
  BY DEF TypeOK, ClearedAreApart
<1>7. PeersAgree'
  BY DEF TypeOK, PeersAgree, MainHolds, HoldersAgree, ExclusiveSlots, ClearedAreApart
<1> QED
  BY <1>1, <1>2, <1>3, <1>4, <1>5, <1>6, <1>7

\* The slot main resets without the mutex is one no thread owns.
LEMMA UnslotStep ==
  ASSUME PoolInv, Unslot
  PROVE  PoolInv'
<1> USE PoolAssumption DEF PoolInv, Unslot
<1>1. TypeOK'
  BY DEF TypeOK
<1>2. ExclusiveSlots'
  BY DEF TypeOK, ExclusiveSlots
<1>3. MainHolds'
  BY DEF TypeOK, MainHolds
<1>4. HoldersAgree'
  BY DEF TypeOK, HoldersAgree, MainHolds
<1>5. SlotsAreOwned'
  BY DEF TypeOK, SlotsAreOwned
<1>6. ClearedAreApart'
  BY DEF TypeOK, ClearedAreApart
<1>7. PeersAgree'
  BY DEF TypeOK, PeersAgree, HoldersAgree, MainHolds
<1> QED
  BY <1>1, <1>2, <1>3, <1>4, <1>5, <1>6, <1>7

-----------------------------------------------------------------------------
\* The steps of main's shutdown: no handle is opened and no slot changes.

\* The scan stays within the table.
LEMMA ScanTestStep ==
  ASSUME PoolInv, ScanTest
  PROVE  PoolInv'
BY PoolAssumption
  DEF PoolInv, TypeOK, ExclusiveSlots, MainHolds, HoldersAgree,
         SlotsAreOwned, ClearedAreApart, PeersAgree,
      ScanTest

\* Main loads a slot of the table.
LEMMA ScanLoadStep ==
  ASSUME PoolInv, ScanLoad
  PROVE  PoolInv'
BY PoolAssumption
  DEF PoolInv, TypeOK, ExclusiveSlots, MainHolds, HoldersAgree,
         SlotsAreOwned, ClearedAreApart, PeersAgree,
      ScanLoad

\* Closing a handle in the shutdown changes no slot.
LEMMA ScanCloseStep ==
  ASSUME PoolInv, ScanClose
  PROVE  PoolInv'
BY PoolAssumption
  DEF PoolInv, TypeOK, ExclusiveSlots, MainHolds, HoldersAgree,
         SlotsAreOwned, ClearedAreApart, PeersAgree,
      ScanClose

\* Cleanup closes handles only.
LEMMA CleanupStep ==
  ASSUME PoolInv, Cleanup
  PROVE  PoolInv'
BY PoolAssumption
  DEF PoolInv, TypeOK, ExclusiveSlots, MainHolds, HoldersAgree,
         SlotsAreOwned, ClearedAreApart, PeersAgree,
      Cleanup

\* DeleteMutex touches neither slots nor handles.
LEMMA DeleteMutexStep ==
  ASSUME PoolInv, DeleteMutex
  PROVE  PoolInv'
BY PoolAssumption
  DEF PoolInv, TypeOK, ExclusiveSlots, MainHolds, HoldersAgree,
         SlotsAreOwned, ClearedAreApart, PeersAgree,
      DeleteMutex

\* Nor does the return from main.
LEMMA ReturnFromMainStep ==
  ASSUME PoolInv, ReturnFromMain
  PROVE  PoolInv'
BY PoolAssumption
  DEF PoolInv, TypeOK, ExclusiveSlots, MainHolds, HoldersAgree,
         SlotsAreOwned, ClearedAreApart, PeersAgree,
      ReturnFromMain

-----------------------------------------------------------------------------
\* The steps of a handler thread.

\* The slot still contains the handle main stored when the thread reads it.
LEMMA StartStep ==
  ASSUME NEW t \in Threads, PoolInv, Start(t)
  PROVE  PoolInv'
<1> USE PoolAssumption DEF PoolInv, Start
<1>1. TypeOK'
  BY DEF TypeOK
<1>2. ExclusiveSlots'
  BY DEF TypeOK, ExclusiveSlots
<1>3. MainHolds'
  BY DEF TypeOK, MainHolds
<1>4. HoldersAgree'
  BY DEF TypeOK, HoldersAgree
<1>5. SlotsAreOwned'
  BY DEF TypeOK, SlotsAreOwned
<1>6. ClearedAreApart'
  BY DEF TypeOK, ClearedAreApart
<1>7. PeersAgree'
  BY DEF TypeOK, PeersAgree, HoldersAgree
<1> QED
  BY <1>1, <1>2, <1>3, <1>4, <1>5, <1>6, <1>7

\* The handler's test of running changes only its place.
LEMMA CheckLoopStep ==
  ASSUME NEW t \in Threads, PoolInv, CheckLoop(t)
  PROVE  PoolInv'
BY PoolAssumption
  DEF PoolInv, TypeOK, ExclusiveSlots, MainHolds, HoldersAgree,
         SlotsAreOwned, ClearedAreApart, PeersAgree,
      CheckLoop

\* So does a request that arrives.
LEMMA RecvRequestStep ==
  ASSUME NEW t \in Threads, PoolInv, RecvRequest(t)
  PROVE  PoolInv'
BY PoolAssumption
  DEF PoolInv, TypeOK, ExclusiveSlots, MainHolds, HoldersAgree,
         SlotsAreOwned, ClearedAreApart, PeersAgree,
      RecvRequest

\* The handler learns that its connection is over; it still owns its slot.
LEMMA RecvEndStep ==
  ASSUME NEW t \in Threads, PoolInv, RecvEnd(t)
  PROVE  PoolInv'
BY PoolAssumption
  DEF PoolInv, TypeOK, ExclusiveSlots, MainHolds, HoldersAgree,
         SlotsAreOwned, ClearedAreApart, PeersAgree,
      RecvEnd

\* And a request that has been served.
LEMMA ServeStep ==
  ASSUME NEW t \in Threads, PoolInv, Serve(t)
  PROVE  PoolInv'
BY PoolAssumption
  DEF PoolInv, TypeOK, ExclusiveSlots, MainHolds, HoldersAgree,
         SlotsAreOwned, ClearedAreApart, PeersAgree,
      Serve

\* A crash in the closed database ends main.
LEMMA ServeCrashesStep ==
  ASSUME NEW t \in Threads, PoolInv, ServeCrashes(t)
  PROVE  PoolInv'
BY PoolAssumption
  DEF PoolInv, TypeOK, ExclusiveSlots, MainHolds, HoldersAgree,
         SlotsAreOwned, ClearedAreApart, PeersAgree,
      ServeCrashes

\* The only slot that contains the thread's handle is the thread's own, so
\* clearing the first match clears that slot and no other.
LEMMA ClearStep ==
  ASSUME NEW t \in Threads, PoolInv, Clear(t)
  PROVE  PoolInv'
<1> USE PoolAssumption DEF PoolInv, Clear, IsFirst
<1>1. TypeOK'
  BY DEF TypeOK
<1>2. ExclusiveSlots'
  BY DEF TypeOK, ExclusiveSlots
<1>3. MainHolds'
  BY DEF TypeOK, MainHolds, HoldersAgree, ExclusiveSlots
<1>4. HoldersAgree'
  BY DEF TypeOK, HoldersAgree, ExclusiveSlots
<1>5. SlotsAreOwned'
  BY DEF TypeOK, SlotsAreOwned, HoldersAgree, ExclusiveSlots
<1>6. ClearedAreApart'
  BY DEF TypeOK, ClearedAreApart, HoldersAgree, ExclusiveSlots
<1>7. PeersAgree'
  BY DEF TypeOK, PeersAgree, HoldersAgree, ExclusiveSlots, MainHolds
<1> QED
  BY <1>1, <1>2, <1>3, <1>4, <1>5, <1>6, <1>7

\* A crash in the deleted mutex ends main.
LEMMA ClearCrashesStep ==
  ASSUME NEW t \in Threads, PoolInv, ClearCrashes(t)
  PROVE  PoolInv'
BY PoolAssumption
  DEF PoolInv, TypeOK, ExclusiveSlots, MainHolds, HoldersAgree,
         SlotsAreOwned, ClearedAreApart, PeersAgree,
      ClearCrashes

\* The handle that a leaving thread closes is in no slot and is nobody else's.
LEMMA CloseStep ==
  ASSUME NEW t \in Threads, PoolInv, Close(t)
  PROVE  PoolInv'
<1> USE PoolAssumption DEF PoolInv, Close
<1>1. TypeOK'
  BY DEF TypeOK
<1>2. ExclusiveSlots'
  BY DEF TypeOK, ExclusiveSlots
<1>3. MainHolds'
  BY DEF TypeOK, MainHolds, ClearedAreApart
<1>4. HoldersAgree'
  BY DEF TypeOK, HoldersAgree
<1>5. SlotsAreOwned'
  BY DEF TypeOK, SlotsAreOwned
<1>6. ClearedAreApart'
  BY DEF TypeOK, ClearedAreApart
<1>7. PeersAgree'
  BY DEF TypeOK, PeersAgree, ClearedAreApart, HoldersAgree
<1> QED
  BY <1>1, <1>2, <1>3, <1>4, <1>5, <1>6, <1>7

-----------------------------------------------------------------------------
\* The steps of the environment.

\* A new connection waits in the backlog and has no handle.
LEMMA ConnectStep ==
  ASSUME NEW c \in Conns, PoolInv, Connect(c)
  PROVE  PoolInv'
BY PoolAssumption
  DEF PoolInv, TypeOK, ExclusiveSlots, MainHolds, HoldersAgree,
         SlotsAreOwned, ClearedAreApart, PeersAgree,
      Connect

\* A client that hangs up does not close the server's handle.
LEMMA HangUpStep ==
  ASSUME NEW c \in Conns, PoolInv, HangUp(c)
  PROVE  PoolInv'
BY PoolAssumption
  DEF PoolInv, TypeOK, ExclusiveSlots, MainHolds, HoldersAgree,
         SlotsAreOwned, ClearedAreApart, PeersAgree,
      HangUp

\* SIGINT changes the flag only.
LEMMA SigIntStep ==
  ASSUME PoolInv, SigInt
  PROVE  PoolInv'
<1> USE PoolAssumption DEF PoolInv, SigInt
<1>1. TypeOK'
  BY DEF TypeOK
<1>2. ExclusiveSlots'
  BY DEF TypeOK, ExclusiveSlots
<1>3. MainHolds'
  BY DEF TypeOK, MainHolds
<1>4. HoldersAgree'
  BY DEF TypeOK, HoldersAgree
<1>5. SlotsAreOwned'
  BY DEF TypeOK, SlotsAreOwned
<1>6. ClearedAreApart'
  BY DEF TypeOK, ClearedAreApart
<1>7. PeersAgree'
  BY DEF TypeOK, PeersAgree
<1> QED
  BY <1>1, <1>2, <1>3, <1>4, <1>5, <1>6, <1>7

-----------------------------------------------------------------------------
\* The invariant.

\* The server starts with an empty table.
LEMMA PoolInit == Init => PoolInv
BY PoolAssumption
  DEF Init, PoolInv, TypeOK, ExclusiveSlots, MainHolds, HoldersAgree,
      SlotsAreOwned, ClearedAreApart, PeersAgree

\* A step that changes nothing keeps the invariant.
LEMMA PoolStutter == PoolInv /\ UNCHANGED vars => PoolInv'
BY DEF vars, PoolInv, TypeOK, ExclusiveSlots, MainHolds, HoldersAgree,
       SlotsAreOwned, ClearedAreApart, PeersAgree

\* Every step of main, of a handler and of the environment keeps it.
LEMMA PoolNext == PoolInv /\ [Next]_vars => PoolInv'
<1> SUFFICES ASSUME PoolInv, [Next]_vars PROVE PoolInv'
  OBVIOUS
<1>1. CASE MainStep
  BY <1>1, CheckRunningStep, AcceptStep, AcceptFailsStep, StoreStep, RejectStep,
     CreateThreadStep, CreateFailsStep, AbandonStep, UnslotStep, ScanTestStep,
     ScanLoadStep, ScanCloseStep, CleanupStep, DeleteMutexStep, ReturnFromMainStep
  DEF MainStep
<1>2. ASSUME NEW t \in Threads, ThreadStep(t) PROVE PoolInv'
  BY <1>2, StartStep, CheckLoopStep, RecvRequestStep, RecvEndStep, ServeStep,
     ServeCrashesStep, ClearStep, ClearCrashesStep, CloseStep
  DEF ThreadStep
<1>3. CASE Environment
  BY <1>3, ConnectStep, HangUpStep, SigIntStep DEF Environment
<1>4. CASE UNCHANGED vars
  BY <1>4, PoolStutter
<1> QED
  BY <1>1, <1>2, <1>3, <1>4 DEF Next

(***************************************************************************)
(* Main, the handler threads and client_sockets[] always agree on who owns *)
(* which slot and which handle (server.c:441-450, 601-640).                *)
(***************************************************************************)
THEOREM PoolInvariant == Spec => []PoolInv
BY PoolInit, PoolNext, PTL DEF Spec

-----------------------------------------------------------------------------
\* What follows from the invariant alone.

(***************************************************************************)
(* The state of the pool has the types of the C declarations; in           *)
(* particular i stays within client_sockets[] (server.c:614-655).          *)
(***************************************************************************)
THEOREM TypeCorrect == Spec => []TypeOK
BY PoolInvariant, PTL DEF PoolInv

(***************************************************************************)
(* No two slots contain the same handle (server.c:440-452).                *)
(***************************************************************************)
THEOREM SlotsAreExclusive == Spec => []ExclusiveSlots
BY PoolInvariant, PTL DEF PoolInv

\* The handle of a thread that has loaded it leads to the thread's connection.
LEMMA OwnConnection == PoolInv => ServesOwnConnection
<1> SUFFICES ASSUME PoolInv, mainPc \notin ShutdownStates,
                    NEW t \in Threads, pc[t] \in LoadedStates
             PROVE  Open(sock[t]) /\ peer[sock[t]] = owner[t]
  BY DEF ServesOwnConnection
<1> USE DEF PoolInv, LoadedStates
<1>1. CASE pc[t] = "cleared"
  BY <1>1 DEF PeersAgree
<1>2. CASE pc[t] # "cleared"
  <2>1. t \in Holders /\ sock[t] = clientSockets[arg[t]] /\ sock[t] # NoSocket
    BY <1>2 DEF HoldersAgree
  <2>2. arg[t] \in Slots /\ ~(mainPc = "unslot" /\ slot = arg[t])
    BY <2>1 DEF TypeOK, MainHolds
  <2> QED
    BY <2>1, <2>2 DEF PeersAgree
<1> QED
  BY <1>1, <1>2

(***************************************************************************)
(* A handler thread talks to the connection it was created for until main  *)
(* shuts down, however connections, failed threads and reused handles      *)
(* interleave (server.c:31, 440-452, 634).                                 *)
(***************************************************************************)
THEOREM HandlersServeTheirOwn == Spec => []ServesOwnConnection
BY PoolInvariant, OwnConnection, PTL

\* arg maps the threads that own a slot one to one into the slots.
LEMMA HoldersFitSlots == PoolInv => CapacityBound
<1> SUFFICES ASSUME PoolInv PROVE CapacityBound
  OBVIOUS
<1> DEFINE place == [t \in Holders |-> arg[t]]
<1>1. place \in [Holders -> Slots]
  BY DEF PoolInv, TypeOK
<1>2. \A t, u \in Holders : place[t] = place[u] => t = u
  BY DEF PoolInv, HoldersAgree
<1>3. place \in Injection(Holders, Slots)
  BY <1>1, <1>2, Fun_IsInj
<1>4. IsFiniteSet(Slots) /\ Cardinality(Slots) = MaxClients
  BY PoolAssumption, FS_Interval
<1> HIDE DEF place
<1>5. Cardinality(Holders) <= Cardinality(Slots)
  BY <1>3, <1>4, FS_Injection
<1> QED
  BY <1>4, <1>5 DEF CapacityBound

(***************************************************************************)
(* At most MAX_CLIENTS handler threads own a slot (server.c:612-632).      *)
(***************************************************************************)
THEOREM CapacityIsBounded == Spec => []CapacityBound
BY PoolInvariant, HoldersFitSlots, PTL

\* When main finds no empty slot, each slot has a thread that owns it.
LEMMA FullMeansServed ==
  PoolInv /\ [Next]_vars =>
    (mainPc = "store" /\ mainPc' = "reject" => \A s \in Slots : \E t \in Holders : arg[t] = s)
<1> SUFFICES ASSUME PoolInv, [Next]_vars, mainPc = "store", mainPc' = "reject", NEW s \in Slots
             PROVE  \E t \in Holders : arg[t] = s
  OBVIOUS
<1>1. Store
  BY DEF Next, vars, MainStep, CheckRunning, Accept, AcceptFails, Reject, CreateThread,
         CreateFails, Abandon, Unslot, ScanTest, ScanLoad, ScanClose, Cleanup, DeleteMutex,
         ReturnFromMain, ThreadStep, Start, CheckLoop, RecvRequest, RecvEnd, Serve,
         ServeCrashes, Clear,
         ClearCrashes, Close, Environment, Connect, HangUp, SigInt
<1>2. clientSockets[s] # NoSocket
  BY <1>1 DEF Store
<1> QED
  BY <1>2 DEF PoolInv, SlotsAreOwned

(***************************************************************************)
(* A connection is refused only when MAX_CLIENTS threads own the slots: no *)
(* slot is lost when a thread ends or cannot be created (server.c:626-640).*)
(***************************************************************************)
THEOREM RefusalsAreJustified == Spec => RefusedOnlyWhenFull
BY PoolInvariant, FullMeansServed, PTL DEF Spec, RefusedOnlyWhenFull
-----------------------------------------------------------------------------
\* No handle is lost.  Given PoolInv, NoHandleLeaks is inductive.

\* A handle leaves the table only closed, or with a thread that will close it.
LEMMA LeakNext == PoolInv /\ NoHandleLeaks /\ [Next]_vars => NoHandleLeaks'
<1> SUFFICES ASSUME PoolInv, NoHandleLeaks, [Next]_vars PROVE NoHandleLeaks'
  OBVIOUS
<1> USE PoolAssumption DEF PoolInv, TypeOK, MainHolds, ClearedAreApart, NoHandleLeaks
<1>1. CASE MainStep
  <2>1. CASE CheckRunning
    BY <2>1 DEF CheckRunning
  <2>2. CASE Accept
    BY <2>2 DEF Accept
  <2>3. CASE AcceptFails
    BY <2>3 DEF AcceptFails
  <2>4. CASE Store
    <3>1. CASE mainPc' = "reject"
      BY <2>4, <3>1 DEF Store
    <3>2. ASSUME NEW s \in Slots, IsFirst(s, NoSocket), mainPc' = "create",
                 clientSockets' = [clientSockets EXCEPT ![s] = mainSock]
          PROVE  NoHandleLeaks'
      <4>1. clientSockets'[s] = mainSock
        BY <3>2
      <4>2. \A r \in Slots : clientSockets[r] # NoSocket => clientSockets'[r] = clientSockets[r]
        BY <3>2 DEF IsFirst
      <4>3. ASSUME NEW h \in Handles, Open(h), h # mainSock
            PROVE  \/ \E r \in Slots : clientSockets[r] = h
                   \/ \E t \in Threads : pc[t] = "cleared" /\ sock[t] = h
        BY <2>4, <4>3
      <4>4. ASSUME NEW h \in Handles, Open(h)
            PROVE  \/ \E r \in Slots : clientSockets'[r] = h
                   \/ \E t \in Threads : pc[t] = "cleared" /\ sock[t] = h
        <5>1. CASE h = mainSock
          BY <4>1, <5>1
        <5>2. ASSUME NEW r \in Slots, clientSockets[r] = h
              PROVE  clientSockets'[r] = h
          <6>1. clientSockets[r] # NoSocket
            BY <5>2
          <6> QED
            BY <4>2, <5>2, <6>1
        <5> QED
          BY <4>3, <4>4, <5>1, <5>2
      <4> QED
        BY <2>4, <4>4 DEF Store
    <3> QED
      BY <2>4, <3>1, <3>2 DEF Store
  <2>5. CASE Reject
    BY <2>5 DEF Reject
  <2>6. CASE CreateThread
    BY <2>6 DEF CreateThread
  <2>7. CASE CreateFails
    BY <2>7 DEF CreateFails
  <2>8. CASE Abandon
    BY <2>8 DEF Abandon
  <2>9. CASE Unslot
    BY <2>9 DEF Unslot
  <2>10. CASE ScanTest
    BY <2>10 DEF ScanTest
  <2>11. CASE ScanLoad
    BY <2>11 DEF ScanLoad
  <2>12. CASE ScanClose
    BY <2>12 DEF ScanClose
  <2>13. CASE Cleanup
    BY <2>13 DEF Cleanup
  <2>14. CASE DeleteMutex
    BY <2>14 DEF DeleteMutex
  <2>15. CASE ReturnFromMain
    BY <2>15 DEF ReturnFromMain
  <2> QED
    BY <1>1, <2>1, <2>2, <2>3, <2>4, <2>5, <2>6, <2>7, <2>8,
       <2>9, <2>10, <2>11, <2>12, <2>13, <2>14, <2>15
    DEF MainStep
<1>2. ASSUME NEW t \in Threads, ThreadStep(t) PROVE NoHandleLeaks'
  <2>1. CASE Start(t)
    BY <2>1 DEF Start
  <2>2. CASE CheckLoop(t)
    BY <2>2 DEF CheckLoop
  <2>3. CASE RecvRequest(t)
    BY <2>3 DEF RecvRequest
  <2>4. CASE RecvEnd(t)
    BY <2>4 DEF RecvEnd
  <2>5. CASE Serve(t)
    BY <2>5 DEF Serve
  <2>6. CASE Clear(t)
    BY <2>6 DEF Clear, HoldersAgree, ExclusiveSlots, IsFirst
  <2>7. CASE ClearCrashes(t)
    BY <2>7 DEF ClearCrashes
  <2>8. CASE Close(t)
    BY <2>8 DEF Close
  <2>9. CASE ServeCrashes(t)
    BY <2>9 DEF ServeCrashes
  <2> QED
    BY <1>2, <2>1, <2>2, <2>3, <2>4, <2>5, <2>6, <2>7, <2>8, <2>9 DEF ThreadStep
<1>3. CASE Environment
  <2>1. ASSUME NEW c \in Conns, Connect(c) PROVE NoHandleLeaks'
    BY <2>1 DEF Connect
  <2>2. ASSUME NEW c \in Conns, HangUp(c) PROVE NoHandleLeaks'
    BY <2>2 DEF HangUp
  <2>3. CASE SigInt
    BY <2>3 DEF SigInt
  <2> QED
    BY <1>3, <2>1, <2>2, <2>3 DEF Environment
<1>4. CASE UNCHANGED vars
  BY <1>4 DEF vars
<1> QED
  BY <1>1, <1>2, <1>3, <1>4 DEF Next

(***************************************************************************)
(* Every open handle has somebody who will close it, whatever the order of *)
(* refusals, failed threads and handlers that leave (server.c:440-452,     *)
(* 626-640).                                                               *)
(***************************************************************************)
THEOREM HandlesAreNotLost == Spec => []NoHandleLeaks
<1>1. Init => NoHandleLeaks
  BY DEF Init, NoHandleLeaks
<1> QED
  BY <1>1, PoolInvariant, LeakNext, PTL DEF Spec

-----------------------------------------------------------------------------
\* The shutdown scan.  Given the two invariants above, ScanProgress is inductive.

\* The scan passes a slot when it is empty or its handle has been closed.
LEMMA ScanNext == PoolInv /\ NoHandleLeaks /\ ScanProgress /\ [Next]_vars => ScanProgress'
<1> SUFFICES ASSUME PoolInv, NoHandleLeaks, ScanProgress, [Next]_vars PROVE ScanProgress'
  OBVIOUS
<1> USE PoolAssumption DEF PoolInv, TypeOK, MainHolds, ScanProgress
<1>1. CASE MainStep
  <2>1. CASE CheckRunning
    BY <2>1 DEF CheckRunning, NoHandleLeaks
  <2>2. CASE Accept
    BY <2>2 DEF Accept
  <2>3. CASE AcceptFails
    BY <2>3 DEF AcceptFails, NoHandleLeaks
  <2>4. CASE Store
    BY <2>4 DEF Store
  <2>5. CASE Reject
    BY <2>5 DEF Reject
  <2>6. CASE CreateThread
    BY <2>6 DEF CreateThread
  <2>7. CASE CreateFails
    BY <2>7 DEF CreateFails
  <2>8. CASE Abandon
    BY <2>8 DEF Abandon
  <2>9. CASE Unslot
    BY <2>9 DEF Unslot
  <2>10. CASE ScanTest
    BY <2>10 DEF ScanTest
  <2>11. CASE ScanLoad
    BY <2>11 DEF ScanLoad
  <2>12. CASE ScanClose
    BY <2>12 DEF ScanClose
  <2>13. CASE Cleanup
    BY <2>13 DEF Cleanup
  <2>14. CASE DeleteMutex
    BY <2>14 DEF DeleteMutex
  <2>15. CASE ReturnFromMain
    BY <2>15 DEF ReturnFromMain
  <2> QED
    BY <1>1, <2>1, <2>2, <2>3, <2>4, <2>5, <2>6, <2>7, <2>8,
       <2>9, <2>10, <2>11, <2>12, <2>13, <2>14, <2>15
    DEF MainStep
<1>2. ASSUME NEW t \in Threads, ThreadStep(t) PROVE ScanProgress'
  <2>1. CASE Start(t)
    BY <2>1 DEF Start
  <2>2. CASE CheckLoop(t)
    BY <2>2 DEF CheckLoop
  <2>3. CASE RecvRequest(t)
    BY <2>3 DEF RecvRequest
  <2>4. CASE RecvEnd(t)
    BY <2>4 DEF RecvEnd
  <2>5. CASE Serve(t)
    BY <2>5 DEF Serve
  <2>6. CASE Clear(t)
    <3>1. ASSUME NEW s \in Slots
          PROVE  clientSockets'[s] = IF clientSockets[s] = sock[t] THEN NoSocket ELSE clientSockets[s]
      BY <2>6 DEF Clear, IsFirst, HoldersAgree, ExclusiveSlots
    <3>2. pc'[t] = "cleared" /\ \A u \in Threads : pc[u] = "cleared" => pc'[u] = "cleared"
      BY <2>6 DEF Clear
    <3>3. UNCHANGED <<peer, sock, mainPc, mainSock, scan>>
      BY <2>6 DEF Clear
    <3>4. ASSUME NEW h \in Handles,
                 \/ \E s \in Slots : scan <= s /\ clientSockets[s] = h
                 \/ \E u \in Threads : pc[u] = "cleared" /\ sock[u] = h
          PROVE  \/ \E s \in Slots : scan <= s /\ clientSockets'[s] = h
                 \/ \E u \in Threads : pc'[u] = "cleared" /\ sock[u] = h
      <4>1. CASE h = sock[t]
        BY <3>2, <4>1
      <4>2. ASSUME NEW s \in Slots, scan <= s, clientSockets[s] = h, h # sock[t]
            PROVE  scan <= s /\ clientSockets'[s] = h
        <5> HIDE DEF ScanProgress, PoolInv
        <5> QED
          BY <3>1, <4>2
      <4>3. ASSUME NEW u \in Threads, pc[u] = "cleared", sock[u] = h
            PROVE  pc'[u] = "cleared" /\ sock[u] = h
        BY <3>2, <4>3
      <4> HIDE DEF ScanProgress, PoolInv
      <4> QED
        BY <3>4, <4>1, <4>2, <4>3
    <3>5. mainPc = "close" => clientSockets'[scan] \in {mainSock, NoSocket}
      <4> SUFFICES ASSUME mainPc = "close" PROVE clientSockets'[scan] \in {mainSock, NoSocket}
        OBVIOUS
      <4>1. scan \in Slots /\ clientSockets[scan] \in {mainSock, NoSocket}
        OBVIOUS
      <4> QED
        BY <3>1, <4>1
    <3> QED
      BY <3>3, <3>4, <3>5
  <2>7. CASE ClearCrashes(t)
    BY <2>7 DEF ClearCrashes
  <2>8. CASE Close(t)
    BY <2>8 DEF Close, ClearedAreApart
  <2>9. CASE ServeCrashes(t)
    BY <2>9 DEF ServeCrashes
  <2> QED
    BY <1>2, <2>1, <2>2, <2>3, <2>4, <2>5, <2>6, <2>7, <2>8, <2>9 DEF ThreadStep
<1>3. CASE Environment
  <2>1. ASSUME NEW c \in Conns, Connect(c) PROVE ScanProgress'
    BY <2>1 DEF Connect
  <2>2. ASSUME NEW c \in Conns, HangUp(c) PROVE ScanProgress'
    BY <2>2 DEF HangUp
  <2>3. CASE SigInt
    BY <2>3 DEF SigInt
  <2> QED
    BY <1>3, <2>1, <2>2, <2>3 DEF Environment
<1>4. CASE UNCHANGED vars
  BY <1>4 DEF vars
<1> QED
  BY <1>1, <1>2, <1>3, <1>4 DEF Next

\* At the end of the scan no slot is left to be visited.
LEMMA ScanComplete == PoolInv /\ ScanProgress => ShutdownClosesAll
BY PoolAssumption DEF PoolInv, TypeOK, ScanProgress, ShutdownClosesAll

(***************************************************************************)
(* The scan never leaves an open handle behind it, whoever clears a slot   *)
(* or closes a handle while it runs.                                       *)
(***************************************************************************)
THEOREM ScanLeavesNothing == Spec => []ScanProgress
<1>1. Init => ScanProgress
  BY DEF Init, ScanProgress
<1> QED
  BY <1>1, PoolInvariant, HandlesAreNotLost, ScanNext, PTL DEF Spec

(***************************************************************************)
(* When main reaches cleanup_network, the only connections still open are  *)
(* those whose thread has cleared its slot and is about to close them,     *)
(* although the scan takes no lock (server.c:648-655).                     *)
(***************************************************************************)
THEOREM ShutdownIsComplete == Spec => []ShutdownClosesAll
  BY PoolInvariant, ScanLeavesNothing, ScanComplete, PTL
-----------------------------------------------------------------------------
\* The pool implements the room: one lemma for the actions that the room sees as one
\* of its own, and one for the others.

\* A connection has one end in the server, and waits only before it has one.
OneEndEach ==
    /\ \A g, h \in Handles : Open(g) /\ peer[g] = peer[h] => g = h
    /\ \A h \in Handles : peer[h] \notin pending

\* Only accept() opens an end, and it takes the connection out of the backlog.
LEMMA EndsStayApart == PoolInv /\ OneEndEach /\ [Next]_vars => OneEndEach'
<1> SUFFICES ASSUME PoolInv, OneEndEach, [Next]_vars PROVE OneEndEach'
  OBVIOUS
<1> USE PoolAssumption DEF PoolInv, TypeOK, OneEndEach
<1>1. CASE Accept
  <2>1. PICK c \in pending, h \in Handles :
               ~Open(h) /\ peer' = [peer EXCEPT ![h] = c] /\ pending' = pending \ {c}
    BY <1>1 DEF Accept
  <2>2. c \in Conns /\ peer'[h] = c /\ \A g \in Handles : g # h => peer'[g] = peer[g]
    BY <2>1
  <2>3. \A g \in Handles : peer[g] # c
    BY <2>1
  <2> QED
    BY <2>1, <2>2, <2>3
<1>2. ASSUME NEW c \in Conns, Connect(c) PROVE OneEndEach'
  BY <1>2 DEF Connect
<1>3. ASSUME pending' \subseteq pending,
             \A h \in Handles : peer'[h] \in {peer[h], NoConn}
      PROVE  OneEndEach'
  <2>1. \A h \in Handles : peer'[h] # NoConn => peer'[h] = peer[h] /\ peer[h] # NoConn
    BY <1>3
  <2>2. ASSUME NEW g \in Handles, NEW h \in Handles, peer'[g] # NoConn, peer'[g] = peer'[h]
        PROVE  g = h
    BY <2>1, <2>2
  <2>3. \A h \in Handles : peer'[h] \notin pending'
    BY <1>3
  <2> QED
    BY <2>2, <2>3
<1>4. CASE UNCHANGED <<pending, peer>>
  BY <1>4
<1>5. CASE AcceptFails
  BY <1>3, <1>5 DEF AcceptFails
<1>6. CASE Reject \/ Abandon
  BY <1>3, <1>6 DEF Reject, Abandon
<1>7. CASE ScanClose \/ Cleanup
  BY <1>3, <1>7 DEF ScanClose, Cleanup
<1>8. ASSUME NEW t \in Threads, Close(t) PROVE OneEndEach'
  BY <1>3, <1>8 DEF Close
<1> QED
  BY <1>1, <1>2, <1>4, <1>5, <1>6, <1>7, <1>8
  DEF Next, vars, MainStep, CheckRunning, Store, CreateThread, CreateFails, Unslot,
      ScanTest, ScanLoad, DeleteMutex, ReturnFromMain, ThreadStep, Start, CheckLoop,
      RecvRequest, RecvEnd, Serve, ServeCrashes, Clear, ClearCrashes, Environment,
      HangUp, SigInt

-----------------------------------------------------------------------------
\* What the room sees.

\* No two threads own a slot.
LEMMA OneHolderEach ==
  ASSUME PoolInv, NEW t \in Holders
  PROVE  HolderOf(arg[t]) = t
BY DEF PoolInv, HoldersAgree, HolderOf

\* A thread that owns a slot gives the seat to its connection, which is behind
\* the handle in the slot.
LEMMA TakenSeat ==
  ASSUME PoolInv, opened, NEW t \in Holders
  PROVE  /\ arg[t] \in Slots
         /\ seats[arg[t]] = owner[t]
         /\ owner[t] = peer[clientSockets[arg[t]]]
         /\ Open(clientSockets[arg[t]])
         /\ clientSockets[arg[t]] \in Handles
<1>1. arg[t] \in Slots
  BY DEF PoolInv, TypeOK
<1>2. seats[arg[t]] = owner[t]
  BY <1>1, OneHolderEach DEF seats
<1>3. clientSockets[arg[t]] # NoSocket /\ ~(mainPc = "unslot" /\ slot = arg[t])
  BY DEF PoolInv, HoldersAgree, MainHolds
<1>4. owner[t] = peer[clientSockets[arg[t]]] /\ Open(clientSockets[arg[t]])
  BY <1>1, <1>3 DEF PoolInv, PeersAgree, opened
<1> QED
  BY <1>1, <1>2, <1>3, <1>4 DEF PoolInv, TypeOK

\* The other seats are empty.
LEMMA FreeSeat ==
  ASSUME NEW s \in Slots, \A t \in Holders : arg[t] # s
  PROVE  seats[s] = NoConn
BY DEF seats

\* Who sits in a room is seated by the threads that own the slots.
LEMMA SeatOfWhom ==
  ASSUME PoolInv, opened, NEW s \in Slots, seats[s] # NoConn
  PROVE  \E t \in Holders : arg[t] = s
BY FreeSeat

\* The seats change only when a thread starts or stops to own a slot.
LEMMA SameSeats ==
  ASSUME opened' = opened, UNCHANGED <<arg, owner>>, Holders' = Holders
  PROVE  seats' = seats
BY DEF seats, HolderOf

\* A thread that works on a request has the handle of its slot.
LEMMA ServingSeat ==
  ASSUME PoolInv, opened, NEW t \in Threads, pc[t] = "serve"
  PROVE  /\ t \in Holders
         /\ sock[t] = clientSockets[arg[t]]
         /\ sock[t] \in Handles
         /\ peer[sock[t]] = owner[t]
         /\ Open(sock[t])
<1>1. t \in Holders
  OBVIOUS
<1>2. sock[t] = clientSockets[arg[t]]
  BY <1>1 DEF PoolInv, HoldersAgree
<1> QED
  BY <1>1, <1>2, TakenSeat

\* A connection is served by one thread.
LEMMA OwnersDiffer ==
  ASSUME PoolInv, OneEndEach, opened, NEW t \in Holders, NEW u \in Holders,
         owner[t] = owner[u]
  PROVE  t = u
<1>1. clientSockets[arg[t]] = clientSockets[arg[u]]
  BY TakenSeat DEF OneEndEach
<1>2. arg[t] = arg[u]
  BY <1>1, TakenSeat DEF PoolInv, ExclusiveSlots, HoldersAgree
<1> QED
  BY <1>2, OneHolderEach

\* The connections served are those of the threads at work.
LEMMA ServingOwners ==
  ASSUME PoolInv, opened
  PROVE  serving = {owner[t] : t \in {u \in Threads : pc[u] = "serve"}}
BY ServingSeat DEF serving

-----------------------------------------------------------------------------
\* Steps of the pool that are steps of the room.

\* The shutdown is final.
LEMMA ClosedRoomStays ==
  [Next]_vars /\ ~opened => ~opened'
BY DEF opened, Next, vars, MainStep, CheckRunning, Accept, AcceptFails, Store, Reject,
       CreateThread, CreateFails, Abandon, Unslot, ScanTest, ScanLoad, ScanClose, Cleanup,
       DeleteMutex, ReturnFromMain, ThreadStep, Start, CheckLoop, RecvRequest, RecvEnd,
       Serve, ServeCrashes, Clear, ClearCrashes, Close, Environment, Connect, HangUp, SigInt

\* In a closed room nothing is left to change.
LEMMA ClosedRoom ==
  ASSUME ~opened, ~opened'
  PROVE  UNCHANGED Room!vars
<1>1. opened = FALSE /\ opened' = FALSE
  BY DEF opened
<1> QED
  BY <1>1 DEF Room!vars, opened, waiting, door, verdict, seats, serving

\* Main leaves its loop with nobody at the door.
LEMMA ClosingRoom ==
  ASSUME PoolInv, opened, ~opened', [Next]_vars
  PROVE  Room!CloseRoom
<1>1. mainPc \in {"check", "accept"} /\ mainPc' = "scan"
  BY DEF opened, Next, vars, MainStep, CheckRunning, Accept, AcceptFails, Store, Reject,
       CreateThread, CreateFails, Abandon, Unslot, ScanTest, ScanLoad, ScanClose, Cleanup,
       DeleteMutex, ReturnFromMain, ThreadStep, Start, CheckLoop, RecvRequest, RecvEnd,
       Serve, ServeCrashes, Clear, ClearCrashes, Close, Environment, Connect, HangUp, SigInt
<1>2. opened = TRUE /\ opened' = FALSE
  BY <1>1 DEF opened
<1>3. door = NoConn /\ door' = NoConn /\ verdict = "none" /\ verdict' = "none"
  BY <1>1 DEF door, verdict
<1> QED
  BY <1>2, <1>3 DEF Room!CloseRoom, Room!Empty, Room!Seats, waiting, seats, serving

\* The serving connections change only with the handles of threads at work.
LEMMA SameServing ==
  ASSUME opened' = opened, pc' = pc \/ \E t \in Threads : pc[t] # "serve" /\ \E x :
             pc' = [pc EXCEPT ![t] = x] /\ x # "serve",
         PoolInv,
         \A t \in Threads : pc[t] = "serve" => sock'[t] = sock[t] /\ peer'[sock[t]] = peer[sock[t]]
  PROVE  serving' = serving
<1>1. \A t \in Threads : pc'[t] = "serve" <=> pc[t] = "serve"
  BY DEF PoolInv, TypeOK
<1> QED
  BY <1>1 DEF serving

\* accept(): the connection comes to the door.
LEMMA AcceptApproaches ==
  ASSUME PoolInv, opened, opened', Accept
  PROVE  \E c \in Conns : Room!Approach(c)
<1>1. PICK c \in pending, h \in Handles :
         /\ ~Open(h)
         /\ peer' = [peer EXCEPT ![h] = c]
         /\ mainSock' = h
         /\ pending' = pending \ {c}
  BY DEF Accept
<1>2. c \in Conns
  BY <1>1 DEF PoolInv, TypeOK
<1>3. opened = TRUE /\ opened' = TRUE
  BY DEF opened
<1>4. door = NoConn /\ verdict = "none" /\ verdict' = "none"
  BY DEF Accept, door, verdict
<1>5. door' = c
  BY <1>1 DEF Accept, door, PoolInv, TypeOK
<1>6. waiting' = waiting \ {c} /\ c \in waiting
  BY <1>1 DEF waiting
<1>7. seats' = seats
  BY <1>3, SameSeats DEF Accept
<1>8. \A t \in Threads : pc[t] = "serve" => peer'[sock[t]] = peer[sock[t]]
  BY <1>1, ServingSeat DEF PoolInv, TypeOK
<1>9. serving' = serving
  BY <1>3, <1>8, SameServing DEF Accept
<1> QED
  BY <1>2, <1>3, <1>4, <1>5, <1>6, <1>7, <1>9 DEF Room!Approach

\* The search for an empty slot finds out whether there is a seat.
LEMMA StoreDecides ==
  ASSUME PoolInv, opened, opened', Store
  PROVE  Room!Decide
<1>1. opened = TRUE /\ opened' = TRUE
  BY DEF opened
<1>2. door = peer[mainSock] /\ door # NoConn /\ verdict = "none"
  BY DEF Store, door, verdict, PoolInv, MainHolds
<1>3. seats' = seats
  BY <1>1, SameSeats DEF Store
<1>4. serving' = serving
  BY <1>1, SameServing DEF Store
<1>5. waiting' = waiting
  BY <1>1 DEF Store, waiting
<1>6. CASE mainPc' = "reject"
  <2>1. ASSUME NEW s \in Slots PROVE seats[s] # NoConn
    <3>1. PICK t \in Holders : arg[t] = s
      BY <1>6 DEF Store, PoolInv, SlotsAreOwned
    <3> QED
      BY <3>1, TakenSeat
  <2>2. door' = door /\ verdict' = "full"
    BY <1>2, <1>6 DEF Store, door, verdict
  <2> QED
    BY <1>1, <1>2, <1>3, <1>4, <1>5, <2>1, <2>2 DEF Room!Decide, Room!Seats
<1>7. CASE mainPc' = "create"
  <2>1. PICK s \in Slots : /\ IsFirst(s, NoSocket)
                           /\ clientSockets' = [clientSockets EXCEPT ![s] = mainSock]
                           /\ slot' = s
    BY <1>7 DEF Store
  <2>2. \A t \in Holders : arg[t] # s
    BY <2>1 DEF IsFirst, PoolInv, HoldersAgree
  <2>3. seats[s] = NoConn
    BY <2>2, FreeSeat
  <2>4. door' = door /\ verdict' = "welcome"
    BY <1>2, <1>7, <2>1 DEF Store, door, verdict, PoolInv, TypeOK
  <2> QED
    BY <1>1, <1>2, <1>3, <1>4, <1>5, <2>3, <2>4 DEF Room!Decide, Room!Seats
<1> QED
  BY <1>6, <1>7 DEF Store

\* A thread that is created takes the seat of its slot.
LEMMA CreateAdmits ==
  ASSUME PoolInv, opened, opened', CreateThread
  PROVE  Room!Admit
<1>1. opened = TRUE /\ opened' = TRUE
  BY DEF opened
<1>2. PICK t \in Threads : /\ pc[t] = "none"
                           /\ pc' = [pc EXCEPT ![t] = "created"]
                           /\ arg' = [arg EXCEPT ![t] = slot]
                           /\ owner' = [owner EXCEPT ![t] = peer[clientSockets[slot]]]
  BY DEF CreateThread
<1>3. slot \in Slots /\ \A u \in Holders : arg[u] # slot
  BY DEF CreateThread, PoolInv, TypeOK, MainHolds
<1>4. door = peer[clientSockets[slot]] /\ verdict = "welcome"
  BY DEF CreateThread, door, verdict
<1>5. door' = NoConn /\ verdict' = "none"
  BY DEF CreateThread, door, verdict
<1>6. Holders' = Holders \cup {t} /\ t \notin Holders
  BY <1>2 DEF PoolInv, TypeOK
<1>7. \A u \in Holders : arg'[u] = arg[u] /\ owner'[u] = owner[u]
  BY <1>2, <1>6
<1>8. arg'[t] = slot /\ owner'[t] = door
  BY <1>2, <1>4 DEF PoolInv, TypeOK
<1>9. seats[slot] = NoConn
  BY <1>3, FreeSeat
<1> HIDE DEF Holders
<1>10. ASSUME NEW s \in Slots, s = slot PROVE seats'[s] = door
  <2>1. t \in Holders' /\ arg'[t] = s /\ \A u \in Holders' : arg'[u] = s => u = t
    BY <1>3, <1>6, <1>7, <1>8, <1>10
  <2>2. HolderOf(s)' = t
    BY <2>1 DEF HolderOf
  <2>3. seats'[s] = owner'[HolderOf(s)']
    BY <1>1, <2>1 DEF seats
  <2> QED
    BY <1>8, <2>2, <2>3
<1>11. ASSUME NEW s \in Slots, s # slot PROVE seats'[s] = seats[s]
  <2>1. \A u : (u \in Holders' /\ arg'[u] = s) <=> (u \in Holders /\ arg[u] = s)
    BY <1>6, <1>7, <1>8, <1>11
  <2>2. HolderOf(s)' = HolderOf(s)
    BY <2>1 DEF HolderOf
  <2>3. CASE \E u \in Holders : arg[u] = s
    <3>1. HolderOf(s) \in Holders
      BY <2>3 DEF HolderOf
    <3>2. seats[s] = owner[HolderOf(s)]
      BY <1>1, <2>3 DEF seats
    <3>3. seats'[s] = owner'[HolderOf(s)']
      BY <1>1, <2>1, <2>3 DEF seats
    <3> QED
      BY <1>7, <2>2, <3>1, <3>2, <3>3
  <2>4. CASE ~ \E u \in Holders : arg[u] = s
    BY <2>1, <2>4 DEF seats
  <2> QED
    BY <2>3, <2>4
<1>12. seats' = [seats EXCEPT ![slot] = door]
  <2>1. seats = [s \in Slots |-> seats[s]]
    BY DEF seats
  <2>2. seats' = [s \in Slots |-> seats'[s]]
    BY DEF seats
  <2> HIDE DEF Slots
  <2> QED
    BY <1>3, <1>10, <1>11, <2>1, <2>2
<1>13. serving' = serving
  BY <1>1, <1>2, SameServing DEF CreateThread
<1>14. waiting' = waiting
  BY <1>1 DEF CreateThread, waiting
<1> QED
  BY <1>1, <1>3, <1>4, <1>5, <1>9, <1>12, <1>13, <1>14 DEF Room!Admit, Room!Seats

\* A refused connection, and one for which there is no thread, are sent away.
LEMMA RefusalSendsAway ==
  ASSUME PoolInv, opened, opened', Reject \/ CreateFails
  PROVE  Room!SendAway
<1>1. opened = TRUE /\ opened' = TRUE
  BY DEF opened
<1>2. verdict # "none" /\ door' = NoConn /\ verdict' = "none"
  BY DEF Reject, CreateFails, door, verdict
<1>3. seats' = seats
  BY <1>1, SameSeats DEF Reject, CreateFails
<1>4. waiting' = waiting
  BY <1>1 DEF Reject, CreateFails, waiting
<1>5. \A t \in Threads : pc[t] = "serve" =>
         sock'[t] = sock[t] /\ peer'[sock[t]] = peer[sock[t]]
  <2>1. CASE Reject
    <3>1. \A t \in Threads : pc[t] = "serve" => sock[t] # mainSock
      BY <2>1, ServingSeat, TakenSeat DEF Reject, PoolInv, MainHolds
    <3> QED
      BY <2>1, <3>1, ServingSeat DEF Reject, PoolInv, TypeOK
  <2>2. CASE CreateFails
    BY <2>2 DEF CreateFails
  <2> QED
    BY <2>1, <2>2
<1>6. serving' = serving
  BY <1>1, <1>5, SameServing DEF Reject, CreateFails
<1> QED
  BY <1>1, <1>2, <1>3, <1>4, <1>6 DEF Room!SendAway

\* A failed accept() takes a connection that was given up out of the backlog,
\* or leaves the backlog alone.
LEMMA AcceptFailsGivesUp ==
  ASSUME PoolInv, opened, opened', AcceptFails
  PROVE  (\E c \in Conns : Room!GiveUp(c)) \/ UNCHANGED Room!vars
<1>1. opened = TRUE /\ opened' = TRUE
  BY DEF opened
<1>2. door' = door /\ verdict' = verdict
  BY <1>1 DEF AcceptFails, door, verdict, opened
<1>3. seats' = seats
  BY <1>1, SameSeats DEF AcceptFails
<1>4. serving' = serving
  BY <1>1, SameServing DEF AcceptFails
<1>5. CASE UNCHANGED pending
  <2>1. waiting' = waiting
    BY <1>1, <1>5 DEF waiting
  <2> QED
    BY <1>1, <1>2, <1>3, <1>4, <2>1 DEF Room!vars
<1>6. ASSUME NEW c \in pending \cap hungUp, pending' = pending \ {c}
      PROVE  \E d \in Conns : Room!GiveUp(d)
  <2>1. c \in Conns /\ c \in waiting /\ waiting' = waiting \ {c}
    BY <1>1, <1>6 DEF waiting, PoolInv, TypeOK
  <2> QED
    BY <1>1, <1>2, <1>3, <1>4, <2>1 DEF Room!GiveUp
<1> QED
  BY <1>5, <1>6 DEF AcceptFails

\* connect() puts a connection into the backlog that has no end in the server.
LEMMA ConnectArrives ==
  ASSUME PoolInv, opened, opened', NEW c \in Conns, Connect(c)
  PROVE  Room!Arrive(c)
<1>1. opened = TRUE /\ opened' = TRUE
  BY DEF opened
<1>2. door' = door /\ verdict' = verdict
  BY DEF Connect, door, verdict
<1>3. seats' = seats
  BY <1>1, SameSeats DEF Connect
<1>4. serving' = serving
  BY <1>1, SameServing DEF Connect
<1>5. c \notin waiting /\ waiting' = waiting \cup {c}
  BY <1>1 DEF Connect, waiting
<1>6. c # door
  <2>1. mainPc \in {"store", "reject"} => mainSock \in Handles
    BY DEF PoolInv, TypeOK, MainHolds
  <2>2. mainPc = "create" => clientSockets[slot] \in Handles
    BY DEF PoolInv, TypeOK, MainHolds
  <2> QED
    BY <2>1, <2>2, PoolAssumption DEF Connect, door
<1>7. ASSUME NEW s \in Slots PROVE seats[s] # c
  <2>1. CASE seats[s] = NoConn
    BY <2>1, PoolAssumption
  <2>2. CASE seats[s] # NoConn
    <3>1. PICK t \in Holders : arg[t] = s
      BY <2>2, SeatOfWhom
    <3> QED
      BY <3>1, TakenSeat DEF Connect
  <2> QED
    BY <2>1, <2>2
<1> QED
  BY <1>1, <1>2, <1>3, <1>4, <1>5, <1>6, <1>7 DEF Room!Arrive, Room!Seats

\* recv() delivers a request: its connection has a seat and none at work.
LEMMA RecvBegins ==
  ASSUME PoolInv, OneEndEach, opened, opened', NEW t \in Threads, RecvRequest(t)
  PROVE  \E s \in Slots : Room!Begin(s)
<1>1. opened = TRUE /\ opened' = TRUE
  BY DEF opened
<1>2. pc[t] = "recv" /\ t \in Holders /\ pc' = [pc EXCEPT ![t] = "serve"]
  BY DEF RecvRequest
<1>3. \A u \in Threads : pc'[u] = IF u = t THEN "serve" ELSE pc[u]
  BY <1>2 DEF PoolInv, TypeOK
<1>4. /\ arg[t] \in Slots
      /\ seats[arg[t]] = owner[t]
      /\ peer[sock[t]] = owner[t]
      /\ owner[t] # NoConn
  BY <1>1, <1>2, TakenSeat DEF PoolInv, HoldersAgree
<1>5. owner[t] \notin serving
  <2>1. ASSUME NEW u \in Threads, pc[u] = "serve" PROVE owner[u] # owner[t]
    BY <1>2, <2>1, OwnersDiffer
  <2> QED
    BY <2>1, ServingOwners
<1>6. serving' = serving \cup {owner[t]}
  <2>1. {u \in Threads : pc'[u] = "serve"} = {u \in Threads : pc[u] = "serve"} \cup {t}
    BY <1>3
  <2>2. sock' = sock /\ peer' = peer
    BY DEF RecvRequest
  <2> QED
    BY <1>1, <1>4, <2>1, <2>2 DEF serving
<1>7. Holders' = Holders
  BY <1>2, <1>3
<1>8. seats' = seats
  BY <1>1, <1>7, SameSeats DEF RecvRequest
<1>9. door' = door /\ verdict' = verdict /\ waiting' = waiting
  BY <1>1 DEF RecvRequest, door, verdict, waiting
<1>10. Room!Begin(arg[t])
  BY <1>1, <1>4, <1>5, <1>6, <1>8, <1>9 DEF Room!Begin
<1> QED
  BY <1>4, <1>10

\* The request is answered: no other thread works for that connection.
LEMMA ServeEnds ==
  ASSUME PoolInv, OneEndEach, opened, opened', NEW t \in Threads, Serve(t)
  PROVE  \E s \in Slots : Room!End(s)
<1>1. opened = TRUE /\ opened' = TRUE
  BY DEF opened
<1>2. pc[t] = "serve" /\ t \in Holders /\ pc' = [pc EXCEPT ![t] = "check"]
  BY DEF Serve
<1>3. \A u \in Threads : pc'[u] = IF u = t THEN "check" ELSE pc[u]
  BY <1>2 DEF PoolInv, TypeOK
<1>4. arg[t] \in Slots /\ seats[arg[t]] = owner[t]
  BY <1>2, TakenSeat
<1>5. owner[t] \in serving
  BY <1>2, ServingOwners
<1>6. serving' = serving \ {owner[t]}
  <2>1. \A u \in Threads : pc[u] = "serve" /\ u # t => owner[u] # owner[t]
    BY <1>2, OwnersDiffer
  <2>2. serving' = {peer[sock[u]] : u \in {v \in Threads : pc'[v] = "serve"}}
    BY <1>1 DEF Serve, serving
  <2>3. \A u \in Threads : pc'[u] = "serve" <=> pc[u] = "serve" /\ u # t
    BY <1>3
  <2>4. \A u \in Threads : pc[u] = "serve" => peer[sock[u]] = owner[u]
    BY ServingSeat
  <2> QED
    BY <2>1, <2>2, <2>3, <2>4, ServingOwners
<1>7. Holders' = Holders
  BY <1>2, <1>3
<1>8. seats' = seats
  BY <1>1, <1>7, SameSeats DEF Serve
<1>9. door' = door /\ verdict' = verdict /\ waiting' = waiting
  BY <1>1 DEF Serve, door, verdict, waiting
<1>10. Room!End(arg[t])
  BY <1>1, <1>4, <1>5, <1>6, <1>8, <1>9 DEF Room!End
<1> QED
  BY <1>4, <1>10

\* A thread that stops to own its slot empties one seat.
LEMMA SeatVacated ==
  ASSUME PoolInv, opened, opened', NEW t \in Holders,
         Holders' = Holders \ {t}, UNCHANGED <<arg, owner>>
  PROVE  seats' = [seats EXCEPT ![arg[t]] = NoConn]
<1>1. opened = TRUE /\ opened' = TRUE
  BY DEF opened
<1>2. arg[t] \in Slots
  BY DEF PoolInv, TypeOK
<1>3. \A u \in Holders : u # t => arg[u] # arg[t]
  BY DEF PoolInv, HoldersAgree
<1> HIDE DEF Holders
<1>4. ASSUME NEW s \in Slots, s = arg[t] PROVE seats'[s] = NoConn
  BY <1>3, <1>4 DEF seats
<1>5. ASSUME NEW s \in Slots, s # arg[t] PROVE seats'[s] = seats[s]
  <2>1. \A u : (u \in Holders' /\ arg'[u] = s) <=> (u \in Holders /\ arg[u] = s)
    BY <1>5
  <2>2. HolderOf(s)' = HolderOf(s)
    BY <2>1 DEF HolderOf
  <2> QED
    BY <1>1, <2>1, <2>2 DEF seats
<1> QED
  <2>1. seats = [s \in Slots |-> seats[s]]
    BY DEF seats
  <2>2. seats' = [s \in Slots |-> seats'[s]]
    BY DEF seats
  <2> HIDE DEF Slots
  <2> QED
    BY <1>2, <1>4, <1>5, <2>1, <2>2

\* A handler that clears its slot leaves its seat, and nobody else's.
LEMMA ClearLeaves ==
  ASSUME PoolInv, OneEndEach, opened, opened', NEW t \in Threads, Clear(t)
  PROVE  \E s \in Slots : Room!Leave(s)
<1>1. opened = TRUE /\ opened' = TRUE
  BY DEF opened
<1>2. pc[t] = "leaving" /\ t \in Holders /\ pc' = [pc EXCEPT ![t] = "cleared"]
  BY DEF Clear
<1>3. \A u \in Threads : pc'[u] = IF u = t THEN "cleared" ELSE pc[u]
  BY <1>2 DEF PoolInv, TypeOK
<1>4. arg[t] \in Slots /\ seats[arg[t]] = owner[t] /\ owner[t] # NoConn
  BY <1>2, TakenSeat
<1>5. owner[t] \notin serving
  <2>1. ASSUME NEW u \in Threads, pc[u] = "serve" PROVE owner[u] # owner[t]
    BY <1>2, <2>1, OwnersDiffer
  <2> QED
    BY <2>1, ServingOwners
<1>6. Holders' = Holders \ {t}
  BY <1>2, <1>3
<1>7. seats' = [seats EXCEPT ![arg[t]] = NoConn]
  BY <1>2, <1>6, SeatVacated DEF Clear
<1>8. serving' = serving
  BY <1>1, <1>2, SameServing DEF Clear
<1>9. door' = door
  <2>1. CASE mainPc = "create"
    <3>1. slot \in Slots /\ slot # arg[t] /\ clientSockets[slot] # NoSocket
      BY <1>2, <2>1 DEF PoolInv, TypeOK, MainHolds
    <3>2. clientSockets[slot] # sock[t]
      BY <1>2, <1>4, <3>1 DEF PoolInv, ExclusiveSlots, HoldersAgree
    <3>3. clientSockets'[slot] = clientSockets[slot]
      BY <3>1, <3>2 DEF Clear, IsFirst
    <3> QED
      BY <2>1, <3>3 DEF Clear, door
  <2>2. CASE mainPc # "create"
    BY <2>2 DEF Clear, door
  <2> QED
    BY <2>1, <2>2
<1>10. verdict' = verdict /\ waiting' = waiting
  BY <1>1 DEF Clear, verdict, waiting
<1>11. Room!Leave(arg[t])
  BY <1>1, <1>4, <1>5, <1>7, <1>8, <1>9, <1>10 DEF Room!Leave
<1> QED
  BY <1>4, <1>11

-----------------------------------------------------------------------------
\* Steps of the pool that the room does not see.

\* A thread has no slot when it closes its handle.
LEMMA SameSeatsForHolders ==
  ASSUME opened' = opened, Holders' = Holders,
         \A t \in Holders : arg'[t] = arg[t] /\ owner'[t] = owner[t]
  PROVE  seats' = seats
<1> HIDE DEF Holders
<1>1. ASSUME NEW s \in Slots PROVE seats'[s] = seats[s]
  <2>1. \A u : (u \in Holders' /\ arg'[u] = s) <=> (u \in Holders /\ arg[u] = s)
    OBVIOUS
  <2>2. HolderOf(s)' = HolderOf(s)
    BY <2>1 DEF HolderOf
  <2>3. CASE \E u \in Holders : arg[u] = s
    <3>1. HolderOf(s) \in Holders
      BY <2>3 DEF HolderOf
    <3> QED
      BY <2>1, <2>2, <2>3, <3>1 DEF seats
  <2>4. CASE ~ \E u \in Holders : arg[u] = s
    BY <2>1, <2>4 DEF seats
  <2> QED
    BY <2>3, <2>4
<1>2. seats = [s \in Slots |-> seats[s]] /\ seats' = [s \in Slots |-> seats'[s]]
  BY DEF seats
<1> HIDE DEF Slots
<1> QED
  BY <1>1, <1>2

\* Main's own bookkeeping: the loop's test, and what follows a failed
\* CreateThread.
LEMMA MainIsUnseen ==
  ASSUME PoolInv, opened, opened', CheckRunning \/ Abandon \/ Unslot
  PROVE  UNCHANGED Room!vars
<1>1. opened = TRUE /\ opened' = TRUE
  BY DEF opened
<1>2. door = NoConn /\ door' = NoConn /\ verdict' = verdict
  BY DEF CheckRunning, Abandon, Unslot, door, verdict, opened
<1>3. seats' = seats
  BY <1>1, SameSeats DEF CheckRunning, Abandon, Unslot
<1>4. waiting' = waiting
  BY <1>1 DEF CheckRunning, Abandon, Unslot, waiting
<1>5. \A t \in Threads : pc[t] = "serve" =>
         sock'[t] = sock[t] /\ peer'[sock[t]] = peer[sock[t]]
  <2>1. CASE Abandon
    <3>1. \A t \in Threads : pc[t] = "serve" => sock[t] # clientSockets[slot]
      BY <2>1, ServingSeat, TakenSeat
      DEF Abandon, PoolInv, TypeOK, MainHolds, ExclusiveSlots
    <3> QED
      BY <2>1, <3>1, ServingSeat DEF Abandon, PoolInv, TypeOK
  <2>2. CASE CheckRunning \/ Unslot
    BY <2>2 DEF CheckRunning, Unslot
  <2> QED
    BY <2>1, <2>2
<1>6. serving' = serving
  BY <1>1, <1>5, SameServing DEF CheckRunning, Abandon, Unslot
<1> QED
  BY <1>1, <1>2, <1>3, <1>4, <1>6 DEF Room!vars

\* The first load of the slot, the loop's test and the end of recv().
LEMMA HandlerIsUnseen ==
  ASSUME PoolInv, opened, opened', NEW t \in Threads,
         Start(t) \/ CheckLoop(t) \/ RecvEnd(t)
  PROVE  UNCHANGED Room!vars
<1>1. opened = TRUE /\ opened' = TRUE
  BY DEF opened
<1>2. PICK x \in {"check", "recv", "leaving"} :
         pc[t] \in {"created", "check", "recv"} /\ pc' = [pc EXCEPT ![t] = x]
  BY DEF Start, CheckLoop, RecvEnd
<1>3. \A u \in Threads : pc'[u] = IF u = t THEN x ELSE pc[u]
  BY <1>2 DEF PoolInv, TypeOK
<1>4. Holders' = Holders
  BY <1>2, <1>3
<1>5. seats' = seats
  BY <1>1, <1>4, SameSeats DEF Start, CheckLoop, RecvEnd
<1>6. \A u \in Threads : pc[u] = "serve" => sock'[u] = sock[u]
  BY <1>2 DEF Start, CheckLoop, RecvEnd, PoolInv, TypeOK
<1>7. peer' = peer
  BY DEF Start, CheckLoop, RecvEnd
<1>8. pc[t] # "serve" /\ x # "serve"
  BY <1>2
<1>9. serving' = serving
  BY <1>1, <1>2, <1>6, <1>7, <1>8, SameServing
<1>10. door' = door /\ verdict' = verdict /\ waiting' = waiting
  BY <1>1 DEF Start, CheckLoop, RecvEnd, door, verdict, waiting
<1> QED
  BY <1>1, <1>5, <1>9, <1>10 DEF Room!vars

\* close_socket(client_socket): the thread's handle is nobody else's.
LEMMA CloseIsUnseen ==
  ASSUME PoolInv, opened, opened', NEW t \in Threads, Close(t)
  PROVE  UNCHANGED Room!vars
<1>1. opened = TRUE /\ opened' = TRUE
  BY DEF opened
<1>2. pc[t] = "cleared" /\ t \notin Holders /\ pc' = [pc EXCEPT ![t] = "none"]
  BY DEF Close
<1>3. \A u \in Threads : pc'[u] = IF u = t THEN "none" ELSE pc[u]
  BY <1>2 DEF PoolInv, TypeOK
<1>4. Holders' = Holders
  BY <1>2, <1>3
<1>5. \A u \in Holders : arg'[u] = arg[u] /\ owner'[u] = owner[u]
  BY <1>2 DEF Close, PoolInv, TypeOK
<1>6. seats' = seats
  BY <1>1, <1>4, <1>5, SameSeatsForHolders
<1>7. \A h \in Handles : h # sock[t] => peer'[h] = peer[h]
  BY DEF Close, PoolInv, TypeOK
<1>8. \A u \in Threads : pc[u] = "serve" => sock[u] \in Handles /\ sock[u] # sock[t]
  BY <1>2, ServingSeat, TakenSeat DEF PoolInv, ClearedAreApart
<1>9. \A u \in Threads : pc[u] = "serve" => sock'[u] = sock[u]
  BY <1>2 DEF Close, PoolInv, TypeOK
<1>10. serving' = serving
  <2>1. \A u \in Threads : pc'[u] = "serve" <=> pc[u] = "serve"
    BY <1>2, <1>3
  <2>2. \A u \in Threads : pc[u] = "serve" => peer'[sock'[u]] = peer[sock[u]]
    BY <1>7, <1>8, <1>9
  <2> QED
    BY <1>1, <2>1, <2>2 DEF serving
<1>11. door' = door
  <2>1. CASE mainPc \in {"store", "reject"}
    <3>1. mainSock \in Handles /\ mainSock # sock[t]
      BY <1>2, <2>1 DEF PoolInv, TypeOK, MainHolds
    <3> QED
      BY <1>7, <2>1, <3>1 DEF Close, door
  <2>2. CASE mainPc = "create"
    <3>1. clientSockets[slot] \in Handles /\ clientSockets[slot] # sock[t]
      BY <1>2, <2>2 DEF PoolInv, TypeOK, MainHolds, ClearedAreApart
    <3> QED
      BY <1>7, <2>2, <3>1 DEF Close, door
  <2>3. CASE mainPc \notin {"store", "reject", "create"}
    BY <2>3 DEF Close, door
  <2> QED
    BY <2>1, <2>2, <2>3
<1>12. verdict' = verdict /\ waiting' = waiting
  BY <1>1 DEF Close, verdict, waiting
<1> QED
  BY <1>1, <1>6, <1>10, <1>11, <1>12 DEF Room!vars

\* A client hangs up, SIGINT clears the flag, nothing happens.
LEMMA RestIsUnseen ==
  ASSUME PoolInv, opened, opened',
         SigInt \/ (\E c \in Conns : HangUp(c)) \/ UNCHANGED vars
  PROVE  UNCHANGED Room!vars
<1>1. opened = TRUE /\ opened' = TRUE
  BY DEF opened
<1>2. UNCHANGED <<mainVars, threadVars, clientSockets, peer, pending>>
  BY DEF SigInt, HangUp, vars
<1>3. seats' = seats
  BY <1>1, <1>2, SameSeats
<1>4. serving' = serving
  BY <1>1, <1>2, SameServing
<1>5. door' = door /\ verdict' = verdict /\ waiting' = waiting
  BY <1>1, <1>2 DEF door, verdict, waiting
<1> QED
  BY <1>1, <1>3, <1>4, <1>5 DEF Room!vars

-----------------------------------------------------------------------------
\* Every step of the pool is a step of the room or none.
LEMMA StepsAreTheRooms ==
  PoolInv /\ OneEndEach /\ [Next]_vars => [Room!Next]_(Room!vars)
<1> SUFFICES ASSUME PoolInv, OneEndEach, [Next]_vars
             PROVE  Room!Next \/ UNCHANGED Room!vars
  OBVIOUS
<1>1. CASE ~opened
  BY <1>1, ClosedRoomStays, ClosedRoom
<1>2. CASE opened /\ ~opened'
  BY <1>2, ClosingRoom DEF Room!Next
<1>3. CASE opened /\ opened'
  <2> USE <1>3
  <2>1. CASE Accept
    BY <2>1, AcceptApproaches DEF Room!Next
  <2>2. CASE AcceptFails
    BY <2>2, AcceptFailsGivesUp DEF Room!Next
  <2>3. CASE Store
    BY <2>3, StoreDecides DEF Room!Next
  <2>4. CASE Reject \/ CreateFails
    BY <2>4, RefusalSendsAway DEF Room!Next
  <2>5. CASE CreateThread
    BY <2>5, CreateAdmits DEF Room!Next
  <2>6. CASE CheckRunning \/ Abandon \/ Unslot
    BY <2>6, MainIsUnseen
  <2>7. CASE ScanTest \/ ScanLoad \/ ScanClose \/ Cleanup \/ DeleteMutex \/ ReturnFromMain
    BY <2>7 DEF opened, ScanTest, ScanLoad, ScanClose, Cleanup, DeleteMutex, ReturnFromMain
  <2>8. ASSUME NEW t \in Threads, ThreadStep(t)
        PROVE  Room!Next \/ UNCHANGED Room!vars
    <3>1. CASE RecvRequest(t)
      BY <3>1, RecvBegins DEF Room!Next, Room!Seats
    <3>2. CASE Serve(t)
      BY <3>2, ServeEnds DEF Room!Next, Room!Seats
    <3>3. CASE Clear(t)
      BY <3>3, ClearLeaves DEF Room!Next, Room!Seats
    <3>4. CASE Start(t) \/ CheckLoop(t) \/ RecvEnd(t)
      BY <3>4, HandlerIsUnseen
    <3>5. CASE Close(t)
      BY <3>5, CloseIsUnseen
    <3>6. CASE ServeCrashes(t) \/ ClearCrashes(t)
      BY <3>6 DEF opened, ServeCrashes, ClearCrashes
    <3> QED
      BY <2>8, <3>1, <3>2, <3>3, <3>4, <3>5, <3>6 DEF ThreadStep
  <2>9. ASSUME NEW c \in Conns, Connect(c) PROVE Room!Next
    BY <2>9, ConnectArrives DEF Room!Next
  <2>10. CASE SigInt \/ (\E c \in Conns : HangUp(c)) \/ UNCHANGED vars
    BY <2>10, RestIsUnseen
  <2> QED
    BY <2>1, <2>2, <2>3, <2>4, <2>5, <2>6, <2>7, <2>8, <2>9, <2>10
    DEF Next, MainStep, Environment
<1> QED
  BY <1>1, <1>2, <1>3

\* An empty table is an empty room.
LEMMA InitIsTheRooms == Init => Room!Init /\ OneEndEach
<1> SUFFICES ASSUME Init PROVE Room!Init /\ OneEndEach
  OBVIOUS
<1>1. Holders = {} /\ {t \in Threads : pc[t] = "serve"} = {}
  BY DEF Init
<1>2. opened = TRUE /\ door = NoConn /\ verdict = "none"
  BY DEF Init, opened, door, verdict
<1>3. seats = Room!Empty /\ waiting = {} /\ serving = {}
  <2> HIDE DEF Holders
  <2> QED
    BY <1>1, <1>2 DEF Init, seats, waiting, serving, Room!Empty, Room!Seats
<1>4. OneEndEach
  BY PoolAssumption DEF Init, OneEndEach
<1> QED
  BY <1>2, <1>3, <1>4 DEF Room!Init

(***************************************************************************)
(* The accept loop, the unlocked table of handles and the handler threads  *)
(* keep the promise of the room for every number of slots, threads and     *)
(* connections: a seat for everyone while there is one, and work only for  *)
(* those who sit (server.c:29-54, 438-454, 597-645).                       *)
(***************************************************************************)
THEOREM RoomIsImplemented == Spec => ImplementsRoom
<1>1. Spec => []PoolInv
  BY PoolInvariant
<1>2. Init => Room!Init /\ OneEndEach
  BY InitIsTheRooms
<1>3. PoolInv /\ OneEndEach /\ [Next]_vars => OneEndEach'
  BY EndsStayApart
<1>4. PoolInv /\ OneEndEach /\ [Next]_vars => [Room!Next]_(Room!vars)
  BY StepsAreTheRooms
<1> QED
  BY <1>1, <1>2, <1>3, <1>4, PTL DEF Spec, ImplementsRoom, Room!Spec
-----------------------------------------------------------------------------
\* The server with its database connection implements the pool, so that everything
\* proved of the pool holds of it.

LEMMA StepsArePoolSteps == [ServerNext]_serverVars => [Next]_vars
<1> SUFFICES ASSUME [ServerNext]_serverVars PROVE [Next]_vars
  OBVIOUS
<1>1. CASE MainGoesOn
  BY <1>1 DEF MainGoesOn, Next
<1>2. CASE TestDb \/ CloseConnection \/ ResetPointer
  BY <1>2 DEF TestDb, CloseConnection, ResetPointer
<1>3. ASSUME NEW t \in Threads, mainPc # "exited", HandlerGoesOn(t) PROVE [Next]_vars
  BY <1>3 DEF HandlerGoesOn, Next, ThreadStep
<1>4. ASSUME NEW t \in Threads, mainPc # "exited", Request(t) PROVE [Next]_vars
  <2>1. CASE Receive(t)
    BY <1>4, <2>1 DEF Receive, Next, ThreadStep
  <2>2. CASE LoadDb(t) \/ NeedsNoDb(t) \/ Prepare(t) \/ PrepareFails(t) \/ Finalize(t)
    BY <2>2 DEF LoadDb, NeedsNoDb, Prepare, PrepareFails, Finalize
  <2>3. CASE PrepareCrashes(t)
    BY <1>4, <2>3 DEF PrepareCrashes, Next, ThreadStep
  <2>4. CASE Reply(t)
    BY <1>4, <2>4 DEF Reply, Next, ThreadStep
  <2> QED
    BY <1>4, <2>1, <2>2, <2>3, <2>4 DEF Request
<1>5. CASE Environment /\ UNCHANGED <<dbVars, queryVars>>
  BY <1>5 DEF Next
<1>6. CASE UNCHANGED serverVars
  BY <1>6 DEF serverVars
<1> QED
  BY <1>1, <1>2, <1>3, <1>4, <1>5, <1>6 DEF ServerNext

(***************************************************************************)
(* The server with its database is an implementation of the pool.          *)
(***************************************************************************)
THEOREM ServerImplementsPool == ServerSpec => Spec
<1>1. ServerInit => Init
  BY DEF ServerInit
<1> QED
  BY <1>1, StepsArePoolSteps, PTL DEF ServerSpec, Spec

-----------------------------------------------------------------------------
\* The inductive invariant.

\* Once main is past its loops it stays there, and no handle is opened.
LEMMA EndIsFinal ==
    ASSUME TypeOK, mainPc \in EndStates, \A h \in Handles : ~Open(h), [Next]_vars
    PROVE  mainPc' \in EndStates /\ \A h \in Handles : ~Open(h)'
<1>1. CASE MainStep
  BY <1>1 DEF MainStep, EndStates, CheckRunning, Accept, AcceptFails, Store, Reject,
     CreateThread, CreateFails, Abandon, Unslot, ScanTest, ScanLoad, ScanClose, Cleanup,
     DeleteMutex, ReturnFromMain, Open
<1>2. ASSUME NEW t \in Threads, ThreadStep(t)
      PROVE  mainPc' \in EndStates /\ \A h \in Handles : ~Open(h)'
  <2>1. CASE Close(t)
    BY <2>1 DEF Close, mainVars, EndStates, Open, TypeOK
  <2>2. CASE ~Close(t)
    BY <1>2, <2>2 DEF ThreadStep, EndStates, Start, CheckLoop, RecvRequest, RecvEnd, Serve,
       ServeCrashes, Clear, ClearCrashes, mainVars, Open
  <2> QED
    BY <2>1, <2>2
<1>3. CASE Environment
  BY <1>3 DEF Environment, SigInt, Connect, HangUp, mainVars, Open
<1>4. CASE UNCHANGED vars
  BY <1>4 DEF vars, mainVars, Open
<1> QED
  BY <1>1, <1>2, <1>3, <1>4 DEF Next

\* Main gets past its loops by Cleanup only, which closes every handle.
LEMMA EndIsReached ==
    ASSUME TypeOK, mainPc \notin EndStates, mainPc' \in EndStates, [Next]_vars
    PROVE  Cleanup /\ \A h \in Handles : ~Open(h)'
<1>1. Cleanup
  BY DEF Next, vars, mainVars, EndStates, MainStep, CheckRunning, Accept, AcceptFails, Store,
     Reject, CreateThread, CreateFails, Abandon, Unslot, ScanTest, ScanLoad, ScanClose,
     DeleteMutex, ReturnFromMain, ThreadStep, Start, CheckLoop, RecvRequest, RecvEnd, Serve,
     ServeCrashes, Clear, ClearCrashes, Close, Environment, Connect, HangUp, SigInt
<1> QED
  BY <1>1 DEF Cleanup, Open

LEMMA ServerInit_Inv == ServerInit => ServerInv
  BY DEF ServerInit, Init, ServerInv, ServerTypeOK, Steps, EndStates, NobodyIsMisled

LEMMA ServerNext_Inv ==
    ASSUME PoolInv, ServerInv, [ServerNext]_serverVars
    PROVE  ServerInv'
<1> USE DEF ServerInv, ServerTypeOK, Steps, NobodyIsMisled
<1>0. [Next]_vars
  BY StepsArePoolSteps
<1>a. TypeOK
  BY DEF PoolInv
<1>b. \A t \in Threads : pc[t] = "serve" => sock[t] \in Handles
  BY PoolAssumption DEF PoolInv, TypeOK, HoldersAgree, Holders, HoldingStates
<1>1. ServerTypeOK'
  <2>1. CASE \E t \in Threads : mainPc # "exited" /\ Request(t)
    <3>1. PICK t \in Threads : Request(t)
      BY <2>1
    <3>2. CASE Reply(t)
      BY <1>a, <1>b, <3>2 DEF Reply, Serve, TypeOK, dbVars, Open
    <3> QED
      BY <3>1, <3>2 DEF Request, Receive, LoadDb, NeedsNoDb, Prepare, PrepareFails,
         PrepareCrashes, Finalize, dbVars, queryVars
  <2> QED
    BY <2>1 DEF ServerNext, MainGoesOn, TestDb, CloseConnection, ResetPointer, HandlerGoesOn,
       dbVars, queryVars, serverVars
<1>2. \A h \in Handles : mainPc' \in EndStates => ~Open(h)'
  BY <1>0, <1>a, EndIsFinal, EndIsReached
<1>3. CASE MainGoesOn
  BY <1>1, <1>2, <1>3, <1>a
  DEF MainGoesOn, dbVars, queryVars, EndStates, MainStep, CheckRunning, Accept, AcceptFails,
     Store, Reject, CreateThread, CreateFails, Abandon, Unslot, ScanTest, ScanLoad, ScanClose,
     Cleanup, DeleteMutex, ReturnFromMain, threadVars, TypeOK
<1>4. CASE TestDb \/ CloseConnection \/ ResetPointer
  BY <1>1, <1>2, <1>4
  DEF TestDb, CloseConnection, ResetPointer, vars, mainVars, threadVars, queryVars, EndStates
<1>5. ASSUME NEW t \in Threads, mainPc # "exited", HandlerGoesOn(t) PROVE ServerInv'
  BY <1>1, <1>2, <1>5, <1>a
  DEF HandlerGoesOn, Start, CheckLoop, RecvEnd, Clear, ClearCrashes, Close, dbVars, queryVars,
     mainVars, threadVars, EndStates, TypeOK
<1>6. ASSUME NEW t \in Threads, mainPc # "exited", Request(t) PROVE ServerInv'
  <2>1. CASE Receive(t)
    BY <1>1, <1>2, <1>a, <2>1 DEF Receive, RecvRequest, dbVars, mainVars, EndStates, TypeOK
  <2>2. CASE LoadDb(t)
    BY <1>1, <1>2, <2>2 DEF LoadDb, vars, mainVars, threadVars, dbVars
  <2>3. CASE NeedsNoDb(t)
    BY <1>1, <1>2, <2>3 DEF NeedsNoDb, vars, mainVars, threadVars, dbVars
  <2>4. CASE Prepare(t)
    BY <1>1, <1>2, <2>4 DEF Prepare, vars, mainVars, threadVars, dbVars
  <2>5. CASE PrepareFails(t)
    BY <1>1, <1>2, <2>5 DEF PrepareFails, vars, mainVars, threadVars, dbVars
  <2>6. CASE PrepareCrashes(t)
    BY <1>1, <1>2, <2>6 DEF PrepareCrashes, ServeCrashes, dbVars, queryVars, threadVars, EndStates
  <2>7. CASE Finalize(t)
    BY <1>1, <1>2, <2>7 DEF Finalize, vars, mainVars, threadVars, dbVars
  <2>8. CASE Reply(t)
    <3>1. ~(failed[t] /\ Open(sock[t]))
      <4>1. pc[t] = "serve"
        BY <2>8 DEF Reply, Serve
      <4> QED
        BY <1>b, <4>1
    <3> QED
      BY <1>1, <1>2, <1>a, <2>8, <3>1 DEF Reply, Serve, dbVars, mainVars, EndStates, TypeOK
  <2> QED
    BY <1>6, <2>1, <2>2, <2>3, <2>4, <2>5, <2>6, <2>7, <2>8 DEF Request
<1>7. CASE Environment /\ UNCHANGED <<dbVars, queryVars>>
  BY <1>1, <1>2, <1>7
  DEF Environment, SigInt, Connect, HangUp, mainVars, threadVars, dbVars, queryVars, EndStates
<1>8. CASE UNCHANGED serverVars
  BY <1>1, <1>2, <1>8 DEF serverVars, vars, mainVars, threadVars, dbVars, queryVars
<1> QED
  BY <1>3, <1>4, <1>5, <1>6, <1>7, <1>8 DEF ServerNext

(***************************************************************************)
(* The database is whole while anybody can hear an answer.                 *)
(***************************************************************************)
THEOREM ServerInvariant == ServerSpec => []ServerInv
<1>1. ServerSpec => []PoolInv
  BY ServerImplementsPool, PoolInvariant, PTL
<1> QED
  BY <1>1, ServerInit_Inv, ServerNext_Inv, PTL DEF ServerSpec

(***************************************************************************)
(* No client is told of a failure that the shutdown caused.                *)
(***************************************************************************)
THEOREM ShutdownMisleadsNobody == ServerSpec => []NobodyIsMisled
<1>1. ServerInv => NobodyIsMisled
  BY DEF ServerInv
<1> QED
  BY <1>1, ServerInvariant, PTL
=============================================================================
