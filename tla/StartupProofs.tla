---------------------------- MODULE StartupProofs ----------------------------
(***************************************************************************)
(* Proof about Startup: however many faults there are, and in whatever     *)
(* order, what the two programs acquire they release once, but for the     *)
(* database connection of an init_db that failed.                          *)
(***************************************************************************)
EXTENDS Startup, TLAPS

\* One of each resource of S.
Having(S) == [r \in Resources |-> IF r \in S THEN 1 ELSE 0]

Programs == {"server", "client"}

\* What remains to be released, and the resources it names.
ServerRests ==
    {<<>>, <<"mutex">>, <<"db", "mutex">>, <<"network", "mutex">>,
     <<"network", "db", "mutex">>, <<"socket", "network", "db", "mutex">>}

ClientRests == {<<>>, <<"network">>, <<"socket", "network">>}

Named(u) == {u[k] : k \in 1 .. Len(u)}

\* What the server's main has when it is at a step.
HasAt(step) ==
    CASE step \in {"off", "mutex"} -> {}
      [] step = "network" -> {"mutex"}
      [] step = "open" -> {"mutex", "network"}
      [] step \in {"users", "children", "meals", "socket"} -> {"mutex", "network", "db"}
      [] step \in {"listen", "running"} -> {"mutex", "network", "db", "socket"}

ServerSteps == {"off", "mutex", "network", "open", "users", "children", "meals",
                "socket", "listen", "running"}

\* The connection that a failed init_db leaves.
Left == IF noDb THEN {"db"} ELSE {}

\* While it ends, the server has what it still has to release, and the connection
\* that init_db left, which it does not release.
ServerHeld ==
    /\ server \in ServerSteps \cup {"ending", "ended"}
    /\ server # "ending" => undo["server"] = <<>>
    /\ server \in ServerSteps => ~noDb /\ held["server"] = Having(HasAt(server))
    /\ server = "ending" =>
         \E u \in ServerRests :
             /\ undo["server"] = u /\ held["server"] = Having(Named(u) \cup Left)
             /\ Named(u) \cap Left = {}
    /\ server = "ended" => held["server"] = Having(Left)

\* The same for the client, which has no database.
ClientHeld ==
    /\ client \in {"off", "network", "socket", "connect", "running", "ending", "ended"}
    /\ client # "ending" => undo["client"] = <<>>
    /\ client \in {"off", "network", "ended"} => held["client"] = Having({})
    /\ client = "socket" => held["client"] = Having({"network"})
    /\ client \in {"connect", "running"} => held["client"] = Having({"network", "socket"})
    /\ client = "ending" =>
         \E u \in ClientRests : undo["client"] = u /\ held["client"] = Having(Named(u))

HeldInv ==
    /\ undo = [p \in Programs |-> undo[p]]
    /\ held = [p \in Programs |-> held[p]]
    /\ ServerHeld
    /\ ClientHeld

\* Acquiring and releasing one resource.
LEMMA Acquired ==
  ASSUME NEW S \in SUBSET Resources, NEW r \in Resources \ S
  PROVE  [Having(S) EXCEPT ![r] = @ + 1] = Having(S \cup {r})
<1>1. Having(S)[r] + 1 = 1
  BY DEF Having
<1>2. [Having(S) EXCEPT ![r] = @ + 1] = [Having(S) EXCEPT ![r] = 1]
  BY <1>1
<1> QED
  BY <1>2 DEF Having

LEMMA Released ==
  ASSUME NEW S \in SUBSET Resources, NEW r \in S
  PROVE  [Having(S) EXCEPT ![r] = @ - 1] = Having(S \ {r})
BY DEF Having

\* The names in what remains, before and after the first of them is released.
LEMMA Rests ==
  /\ Named(<<>>) = {}
  /\ \A a : Named(<<a>>) = {a}
  /\ \A a, b : Named(<<a, b>>) = {a, b}
  /\ \A a, b, c : Named(<<a, b, c>>) = {a, b, c}
  /\ \A a, b, c, d : Named(<<a, b, c, d>>) = {a, b, c, d}
<1>2. 1 .. 0 = {} /\ 1 .. 1 = {1} /\ 1 .. 2 = {1, 2} /\ 1 .. 3 = {1, 2, 3} /\ 1 .. 4 = {1, 2, 3, 4}
  OBVIOUS
<1>3. Named(<<>>) = {}
  BY <1>2 DEF Named
<1>4. ASSUME NEW a PROVE Named(<<a>>) = {a}
  BY <1>2 DEF Named
<1>5. ASSUME NEW a, NEW b PROVE Named(<<a, b>>) = {a, b}
  BY <1>2 DEF Named
<1>6. ASSUME NEW a, NEW b, NEW c PROVE Named(<<a, b, c>>) = {a, b, c}
  BY <1>2 DEF Named
<1>7. ASSUME NEW a, NEW b, NEW c, NEW d PROVE Named(<<a, b, c, d>>) = {a, b, c, d}
  BY <1>2 DEF Named
<1> QED
  BY <1>3, <1>4, <1>5, <1>6, <1>7

LEMMA HeadsAndTails ==
  ASSUME NEW u \in ServerRests \cup ClientRests, u # <<>>
  PROVE  /\ Head(u) \in Resources
         /\ Head(u) \in Named(u)
         /\ Named(Tail(u)) = Named(u) \ {Head(u)}
         /\ u \in ServerRests => Tail(u) \in ServerRests
         /\ u \in ClientRests => Tail(u) \in ClientRests
         /\ Named(u) \subseteq Resources
<1>1. CASE u = <<"mutex">>
  BY <1>1, Rests DEF ServerRests, ClientRests, Resources
<1>2. CASE u = <<"db", "mutex">>
  BY <1>2, Rests DEF ServerRests, ClientRests, Resources
<1>3. CASE u = <<"network", "mutex">>
  BY <1>3, Rests DEF ServerRests, ClientRests, Resources
<1>4. CASE u = <<"network", "db", "mutex">>
  BY <1>4, Rests DEF ServerRests, ClientRests, Resources
<1>5. CASE u = <<"socket", "network", "db", "mutex">>
  BY <1>5, Rests DEF ServerRests, ClientRests, Resources
<1>6. CASE u = <<"network">>
  BY <1>6, Rests DEF ServerRests, ClientRests, Resources
<1>7. CASE u = <<"socket", "network">>
  BY <1>7, Rests DEF ServerRests, ClientRests, Resources
<1> QED
  BY <1>1, <1>2, <1>3, <1>4, <1>5, <1>6, <1>7 DEF ServerRests, ClientRests

\* Nothing is had at first.
LEMMA HeldInit == Init => HeldInv
<1>1. Nothing = Having({})
  BY DEF Nothing, Having
<1> QED
  BY <1>1 DEF Init, HeldInv, ServerHeld, ClientHeld, Programs, ServerSteps, HasAt

\* The steps of one program do not touch what the other has.
LEMMA ServerApart ==
  ASSUME HeldInv, client' = client, undo'["client"] = undo["client"],
         held'["client"] = held["client"]
  PROVE  ClientHeld'
BY DEF HeldInv, ClientHeld

LEMMA ClientApart ==
  ASSUME HeldInv, server' = server, noDb' = noDb, undo'["server"] = undo["server"],
         held'["server"] = held["server"]
  PROVE  ServerHeld'
BY DEF HeldInv, ServerHeld, Left

\* A start acquires the resources one after the other.
LEMMA StartsUp ==
  ASSUME HeldInv,
         \/ StartServer \/ InitMutex \/ init_network \/ OpenDb \/ CreateTable
         \/ create_socket \/ Listen
  PROVE  HeldInv'
<1> USE DEF Acquire, HeldInv, Programs
<1>1. ClientHeld'
  BY ServerApart DEF StartServer, InitMutex, init_network, OpenDb, CreateTable,
     create_socket, Listen
<1>2. /\ undo' = [p \in Programs |-> undo'[p]]
      /\ held' = [p \in Programs |-> held'[p]]
  BY DEF StartServer, InitMutex, init_network, OpenDb, CreateTable, create_socket, Listen
<1>3. CASE StartServer
  <2>1. held'["server"] = Having({}) /\ ~noDb'
    BY <1>3 DEF StartServer, Nothing, Having
  <2>2. ServerHeld'
    BY <1>3, <2>1 DEF StartServer, ServerHeld, ServerSteps, HasAt
  <2> QED
    BY <1>1, <1>2, <2>2
<1>4. ASSUME NEW from \in ServerSteps, NEW to \in ServerSteps, NEW r \in Resources,
             HasAt(from) \subseteq Resources, r \notin HasAt(from),
             HasAt(to) = HasAt(from) \cup {r},
             server = from, server' = to, UNCHANGED <<undo, noDb>>, Acquire("server", r)
      PROVE  HeldInv'
  <2>0. held["server"] = Having(HasAt(from)) /\ ~noDb
    BY <1>4 DEF ServerHeld
  <2>1. held'["server"] = Having(HasAt(to))
    BY <1>4, <2>0, Acquired
  <2>2. ServerHeld'
    BY <1>4, <2>0, <2>1 DEF ServerHeld, ServerSteps
  <2> QED
    BY <1>1, <1>2, <2>2
<1>5. CASE InitMutex
  BY <1>4, <1>5 DEF InitMutex, ServerSteps, HasAt, Resources
<1>6. CASE init_network
  BY <1>4, <1>6 DEF init_network, ServerSteps, HasAt, Resources
<1>7. CASE OpenDb
  BY <1>4, <1>7 DEF OpenDb, ServerSteps, HasAt, Resources
<1>8. CASE create_socket
  BY <1>4, <1>8 DEF create_socket, ServerSteps, HasAt, Resources
<1>9. CASE CreateTable \/ Listen
  <2>1. /\ server \in ServerSteps /\ server' \in ServerSteps /\ HasAt(server') = HasAt(server)
        /\ UNCHANGED <<undo, held, noDb>>
    BY <1>9 DEF CreateTable, Listen, Tables, AfterTable, ServerSteps, HasAt
  <2>2. ServerHeld'
    BY <2>1 DEF ServerHeld, ServerSteps
  <2> QED
    BY <1>1, <1>2, <2>2
<1> QED
  BY <1>3, <1>5, <1>6, <1>7, <1>8, <1>9

\* A failure, a stop or a kill: what is to be released is what there is.
LEMMA GoesDown ==
  ASSUME HeldInv, StepFails \/ StopServer \/ KillServer
  PROVE  HeldInv'
<1> USE DEF HeldInv, Programs
<1>1. ClientHeld'
  BY ServerApart DEF StepFails, StopServer, KillServer, Acquire
<1>2. /\ undo' = [p \in Programs |-> undo'[p]]
      /\ held' = [p \in Programs |-> held'[p]]
  BY DEF StepFails, StopServer, KillServer, Acquire
<1>3. ASSUME NEW u \in ServerRests, server' = "ending", undo'["server"] = u,
             held'["server"] = Having(Named(u) \cup Left'), Named(u) \cap Left' = {}
      PROVE  HeldInv'
  <2>1. ServerHeld'
    BY <1>3 DEF ServerHeld, ServerSteps
  <2> QED
    BY <1>1, <1>2, <2>1
<1>4. CASE StepFails
  <2>1. server' = "ending" /\ undo'["server"] = Unwinding(server)
    BY <1>4 DEF StepFails
  <2>2. CASE server = "network"
    <3>1. undo'["server"] = <<"mutex">> /\ held'["server"] = Having({"mutex"} \cup {})
      BY <1>4, <2>1, <2>2 DEF StepFails, Unwinding, ServerHeld, ServerSteps, HasAt
    <3>2. Left' = {}
      BY <1>4, <2>2 DEF StepFails, Left, Tables
    <3> QED
      BY <1>3, <2>1, <3>1, <3>2, Rests DEF ServerRests
  <2>3. CASE server = "open"
    <3>1. held'["server"] = Having({"mutex", "network"} \cup {"db"})
      BY <1>4, <2>3, Acquired DEF StepFails, Acquire, ServerHeld, ServerSteps, HasAt, Resources
    <3>2. undo'["server"] = <<"network", "mutex">>
      BY <2>1, <2>3 DEF Unwinding
    <3>3. {"mutex", "network"} = Named(<<"network", "mutex">>)
      BY Rests
    <3>4. Left' = {"db"}
      BY <1>4, <2>3 DEF StepFails, Left
    <3> QED
      BY <1>3, <2>1, <3>1, <3>2, <3>3, <3>4 DEF ServerRests
  <2>4. CASE server \in {"users", "children", "meals"}
    <3>1. held'["server"] = Having({"mutex", "network", "db"})
      BY <1>4, <2>4 DEF StepFails, ServerHeld, ServerSteps, HasAt
    <3>2. undo'["server"] = <<"network", "mutex">>
      BY <2>1, <2>4 DEF Unwinding
    <3>3. /\ {"mutex", "network", "db"} = Named(<<"network", "mutex">>) \cup {"db"}
          /\ Named(<<"network", "mutex">>) \cap {"db"} = {}
      BY Rests
    <3>4. Left' = {"db"}
      BY <1>4, <2>4 DEF StepFails, Left, Tables
    <3> QED
      BY <1>3, <2>1, <3>1, <3>2, <3>3, <3>4 DEF ServerRests
  <2>5. CASE server = "socket"
    <3>1. held'["server"] = Having({"mutex", "network", "db"})
      BY <1>4, <2>5 DEF StepFails, ServerHeld, ServerSteps, HasAt
    <3>2. undo'["server"] = <<"network", "db", "mutex">>
      BY <2>1, <2>5 DEF Unwinding
    <3>3. {"mutex", "network", "db"} = Named(<<"network", "db", "mutex">>) \cup {}
      BY Rests
    <3>4. Left' = {}
      BY <1>4, <2>5 DEF StepFails, Left, Tables
    <3> QED
      BY <1>3, <2>1, <3>1, <3>2, <3>3, <3>4 DEF ServerRests
  <2>6. CASE server = "listen"
    <3>1. held'["server"] = Having({"mutex", "network", "db", "socket"})
      BY <1>4, <2>6 DEF StepFails, ServerHeld, ServerSteps, HasAt
    <3>2. undo'["server"] = <<"socket", "network", "db", "mutex">>
      BY <2>1, <2>6 DEF Unwinding
    <3>3. {"mutex", "network", "db", "socket"}
            = Named(<<"socket", "network", "db", "mutex">>) \cup {}
      BY Rests
    <3>4. Left' = {}
      BY <1>4, <2>6 DEF StepFails, Left, Tables
    <3> QED
      BY <1>3, <2>1, <3>1, <3>2, <3>3, <3>4 DEF ServerRests
  <2> QED
    BY <1>4, <2>2, <2>3, <2>4, <2>5, <2>6 DEF StepFails
<1>5. CASE StopServer
  <2>1. held'["server"] = Having({"mutex", "network", "db", "socket"}) /\ ~noDb
    BY <1>5 DEF StopServer, ServerHeld, ServerSteps, HasAt
  <2>2. server' = "ending" /\ undo'["server"] = <<"socket", "network", "db", "mutex">>
    BY <1>5 DEF StopServer, Unwinding
  <2>3. {"mutex", "network", "db", "socket"}
          = Named(<<"socket", "network", "db", "mutex">>) \cup {}
    BY Rests
  <2>4. Left' = {}
    BY <1>5, <2>1 DEF StopServer, Left
  <2> QED
    BY <1>3, <2>1, <2>2, <2>3, <2>4 DEF ServerRests
<1>6. CASE KillServer
  <2>1. server' = "off" /\ undo'["server"] = <<>> /\ held'["server"] = Having({}) /\ ~noDb'
    BY <1>6 DEF KillServer, Nothing, Having
  <2>2. ServerHeld'
    BY <2>1 DEF ServerHeld, ServerSteps, HasAt
  <2> QED
    BY <1>1, <1>2, <2>2
<1> QED
  BY <1>4, <1>5, <1>6

\* Releasing the next resource, and ending when there is none left.
LEMMA WindsDown ==
  ASSUME HeldInv, Unwind \/ ServerEnds
  PROVE  HeldInv'
<1> USE DEF HeldInv, Programs
<1>1. ClientHeld'
  BY ServerApart DEF Unwind, ServerEnds, ReleaseNext
<1>2. /\ undo' = [p \in Programs |-> undo'[p]]
      /\ held' = [p \in Programs |-> held'[p]]
  BY DEF Unwind, ServerEnds, ReleaseNext
<1>3. PICK u \in ServerRests :
        /\ undo["server"] = u /\ held["server"] = Having(Named(u) \cup Left)
        /\ Named(u) \cap Left = {}
  BY DEF Unwind, ServerEnds, ServerHeld
<1>0. Left' = Left
  BY DEF Unwind, ServerEnds, Left
<1>4. CASE Unwind
  <2>1. u # <<>> /\ undo'["server"] = Tail(u)
        /\ held'["server"] = [Having(Named(u) \cup Left) EXCEPT ![Head(u)] = @ - 1]
    BY <1>3, <1>4 DEF Unwind, ReleaseNext
  <2>2. /\ Head(u) \in Named(u) /\ Named(Tail(u)) = Named(u) \ {Head(u)}
        /\ Tail(u) \in ServerRests /\ Named(u) \cup Left \subseteq Resources
    BY <2>1, HeadsAndTails DEF Resources, Left
  <2>3. held'["server"] = Having((Named(u) \cup Left) \ {Head(u)})
    BY <2>1, <2>2, Released
  <2>4. (Named(u) \cup Left) \ {Head(u)} = Named(Tail(u)) \cup Left
    BY <1>3, <2>2
  <2>5. held'["server"] = Having(Named(Tail(u)) \cup Left') /\ Named(Tail(u)) \cap Left' = {}
    BY <1>0, <1>3, <2>2, <2>3, <2>4
  <2>6. server' = "ending"
    BY <1>4 DEF Unwind
  <2>7. ServerHeld'
    BY <2>1, <2>2, <2>5, <2>6 DEF ServerHeld, ServerSteps
  <2> QED
    BY <1>1, <1>2, <2>7
<1>5. CASE ServerEnds
  <2>1. server' = "ended" /\ undo'["server"] = <<>> /\ held'["server"] = Having(Left)
    BY <1>3, <1>5, Rests DEF ServerEnds
  <2>2. ServerHeld'
    BY <1>0, <2>1 DEF ServerHeld, ServerSteps
  <2> QED
    BY <1>1, <1>2, <2>2
<1> QED
  BY <1>4, <1>5

\* The client's steps.
LEMMA ClientKeeps ==
  ASSUME HeldInv,
         \/ StartClient \/ ClientNetwork \/ ClientSocket \/ Connect \/ ClientQuits
         \/ ClientUnwinds
  PROVE  HeldInv'
<1> USE DEF HeldInv, Programs
<1>1. ServerHeld'
  BY ClientApart DEF StartClient, ClientNetwork, ClientSocket, Connect, ClientQuits,
     ClientUnwinds, ReleaseNext, Acquire
<1>2. /\ undo' = [p \in Programs |-> undo'[p]]
      /\ held' = [p \in Programs |-> held'[p]]
  BY DEF StartClient, ClientNetwork, ClientSocket, Connect, ClientQuits, ClientUnwinds,
     ReleaseNext, Acquire
<1>3. /\ [Having({}) EXCEPT !["network"] = @ + 1] = Having({"network"})
      /\ [Having({"network"}) EXCEPT !["socket"] = @ + 1] = Having({"network", "socket"})
  <2>1. {} \cup {"network"} = {"network"} /\ {"network"} \cup {"socket"} = {"network", "socket"}
    OBVIOUS
  <2> QED
    BY <2>1, Acquired DEF Resources
<1>4. /\ Named(<<>>) = {} /\ Named(<<"network">>) = {"network"}
      /\ Named(<<"socket", "network">>) = {"network", "socket"}
  BY Rests
<1>5. CASE StartClient
  BY <1>1, <1>2, <1>5 DEF StartClient, ClientHeld
<1>6. CASE ClientNetwork
  BY <1>1, <1>2, <1>3, <1>6 DEF ClientNetwork, Acquire, ClientHeld
<1>7. CASE ClientSocket
  BY <1>1, <1>2, <1>3, <1>4, <1>7 DEF ClientSocket, Acquire, ClientHeld, ClientRests
<1>8. CASE Connect
  BY <1>1, <1>2, <1>4, <1>8 DEF Connect, ClientHeld, ClientRests
<1>9. CASE ClientQuits
  BY <1>1, <1>2, <1>4, <1>9 DEF ClientQuits, ClientHeld, ClientRests
<1>10. CASE ClientUnwinds
  <2>1. PICK u \in ClientRests :
          client = "ending" /\ undo["client"] = u /\ held["client"] = Having(Named(u))
    BY <1>10 DEF ClientUnwinds, ClientHeld
  <2>2. CASE ReleaseNext("client") /\ UNCHANGED client
    <3>1. u # <<>> /\ undo'["client"] = Tail(u)
          /\ held'["client"] = [Having(Named(u)) EXCEPT ![Head(u)] = @ - 1]
      BY <2>1, <2>2 DEF ReleaseNext
    <3>2. /\ Tail(u) \in ClientRests /\ held'["client"] = Having(Named(Tail(u)))
      <4>1. /\ Head(u) \in Named(u) /\ Named(Tail(u)) = Named(u) \ {Head(u)}
            /\ Tail(u) \in ClientRests /\ Named(u) \subseteq Resources
        BY <3>1, HeadsAndTails
      <4>2. held'["client"] = Having(Named(u) \ {Head(u)})
        BY <3>1, <4>1, Released
      <4> QED
        BY <4>1, <4>2
    <3> QED
      BY <1>1, <1>2, <2>1, <2>2, <3>1, <3>2 DEF ClientHeld
  <2>3. CASE undo["client"] = <<>> /\ client' = "ended" /\ UNCHANGED <<undo, held>>
    BY <1>1, <1>2, <1>4, <2>1, <2>3 DEF ClientHeld
  <2> QED
    BY <1>10, <2>2, <2>3 DEF ClientUnwinds
<1> QED
  BY <1>5, <1>6, <1>7, <1>8, <1>9, <1>10

\* Every step keeps HeldInv.
LEMMA HeldNext == HeldInv /\ [Next]_vars => HeldInv'
<1>1. HeldInv /\ UNCHANGED vars => HeldInv'
  BY DEF vars, HeldInv, ServerHeld, ClientHeld, Left
<1> QED
  BY <1>1, StartsUp, GoesDown, WindsDown, ClientKeeps DEF Next, ServerStep

\* A socket is never named without the network, and nothing is had twice.
LEMMA HeldImplies == HeldInv => ReleasedOnce
<1> SUFFICES ASSUME HeldInv
             PROVE  ReleasedOnce
  OBVIOUS
<1>1. PICK S \in SUBSET Resources :
        held["server"] = Having(S) /\ ("socket" \in S => "network" \in S)
  <2>1. CASE server \in ServerSteps
    BY <2>1 DEF HeldInv, ServerHeld, ServerSteps, HasAt, Resources
  <2>2. CASE server = "ending"
    <3>1. PICK u \in ServerRests : held["server"] = Having(Named(u) \cup Left)
      BY <2>2 DEF HeldInv, ServerHeld
    <3>2. "socket" \in Named(u) => "network" \in Named(u)
      BY Rests DEF ServerRests
    <3>3. Named(u) \subseteq Resources
      BY Rests, HeadsAndTails
    <3> QED
      BY <3>1, <3>2, <3>3 DEF Resources, Left
  <2>3. CASE server = "ended"
    BY <2>3 DEF HeldInv, ServerHeld, Resources, Left
  <2> QED
    BY <2>1, <2>2, <2>3 DEF HeldInv, ServerHeld
<1>2. PICK T \in SUBSET Resources :
        held["client"] = Having(T) /\ ("socket" \in T => "network" \in T)
  <2>1. CASE client = "ending"
    <3>1. PICK u \in ClientRests : held["client"] = Having(Named(u))
      BY <2>1 DEF HeldInv, ClientHeld
    <3>2. "socket" \in Named(u) => "network" \in Named(u)
      BY Rests DEF ClientRests
    <3>3. Named(u) \subseteq Resources
      BY Rests, HeadsAndTails
    <3> QED
      BY <3>1, <3>2, <3>3
  <2>2. CASE client # "ending"
    BY <2>2 DEF HeldInv, ClientHeld, Resources
  <2> QED
    BY <2>1, <2>2
<1>3. ASSUME NEW U \in SUBSET Resources
      PROVE  /\ \A r \in Resources : Having(U)[r] \in 0 .. 1
             /\ \A r \in Resources : Having(U)[r] = 1 <=> r \in U
  BY DEF Having
<1>4. "socket" \in Resources /\ "network" \in Resources
  BY DEF Resources
<1>5. Nothing = Having({}) /\ [Nothing EXCEPT !["db"] = 1] = Having({"db"})
  BY DEF Nothing, Having, Resources
<1>6. /\ client = "ended" => held["client"] = Having({})
      /\ server = "ended" => held["server"] = Having(Left)
  BY DEF HeldInv, ClientHeld, ServerHeld
<1>7. \A p \in {"server", "client"} :
        /\ \A r \in Resources : held[p][r] \in 0 .. 1
        /\ held[p]["socket"] = 1 => held[p]["network"] = 1
  BY <1>1, <1>2, <1>3, <1>4
<1> QED
  BY <1>5, <1>6, <1>7 DEF ReleasedOnce, Left

(***************************************************************************)
(* However often and wherever the start fails, and however the server is   *)
(* stopped or killed, a program that has ended holds nothing any more, but *)
(* for the connection of an init_db that failed; nothing is released twice *)
(* and no socket outlives the network (server.c:526-593, 647-661;          *)
(* client.c:24-52, 102-104).                                               *)
(***************************************************************************)
THEOREM ResourcesAreReleased == Spec => []ReleasedOnce
BY HeldInit, HeldNext, HeldImplies, PTL DEF Spec
=============================================================================
