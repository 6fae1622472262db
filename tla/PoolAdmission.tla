---------------------------- MODULE PoolAdmission ----------------------------
(***************************************************************************)
(* The room that ConnectionPool implements.  A seat is taken from the      *)
(* creation of the thread that owns the slot until it clears the slot; a   *)
(* handle counts as the connection that is behind it.                      *)
(***************************************************************************)
EXTENDS ConnectionPool

opened == mainPc \notin ShutdownStates

HolderOf(s) == CHOOSE t \in Holders : arg[t] = s

seats ==
    [s \in Slots |-> IF opened /\ \E t \in Holders : arg[t] = s
                       THEN owner[HolderOf(s)] ELSE NoConn]

waiting == IF opened THEN pending ELSE {}

door ==
    CASE mainPc \in {"store", "reject"} -> peer[mainSock]
      [] mainPc = "create" -> peer[clientSockets[slot]]
      [] OTHER -> NoConn

verdict ==
    CASE mainPc = "reject" -> "full"
      [] mainPc = "create" -> "welcome"
      [] OTHER -> "none"

serving ==
    IF opened THEN {peer[sock[t]] : t \in {u \in Threads : pc[u] = "serve"}} ELSE {}

Room == INSTANCE AdmissionControl

(***************************************************************************)
(* The accept loop, the table of handles and the handlers, with all their  *)
(* unlocked accesses, behave as the room does until the server shuts down  *)
(* (src/server/server.c:29-54, 438-454, 597-645): nobody is refused while  *)
(* there is a seat, and the requests that are worked on are those of the   *)
(* connections that have a seat.                                           *)
(***************************************************************************)
ImplementsRoom == Room!Spec
=============================================================================
