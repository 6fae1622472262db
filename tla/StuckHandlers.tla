--------------------------- MODULE StuckHandlers ---------------------------
(***************************************************************************)
(* ConnectionPool under a weaker fairness: some handler threads may serve  *)
(* a request for ever, because the call to NEIS is made without a timeout  *)
(* (src/server/neis_api.c:143-169).                                        *)
(***************************************************************************)
EXTENDS ConnectionPool

CONSTANT Stuck   \* the threads whose call to NEIS need not come back

ASSUME StuckAssumption == Stuck \subseteq Threads

\* Everything a thread does but for serving a request.
Errand(t) ==
    /\ mainPc # "exited"
    /\ \/ Start(t) \/ CheckLoop(t) \/ RecvRequest(t) \/ RecvEnd(t) \/ Clear(t) \/ Close(t)

StuckFairness(t) ==
    /\ WF_vars(Errand(t))
    /\ SF_vars(mainPc # "exited" /\ RecvEnd(t))

\* The backlog is a queue: a connection that waits has its turn.
Turn(c) == (Accept \/ AcceptFails) /\ c \notin pending'

\* Main runs, but nothing obliges accept() to fail while it waits.
MainRuns == MainStep /\ (mainPc = "accept" => pending' # pending)

StuckSpec ==
    /\ Spec
    /\ WF_vars(MainRuns)
    /\ \A c \in Conns : SF_vars(c \in pending /\ Turn(c))
    /\ \A t \in Threads \ Stuck : HandlerFairness(t)
    /\ \A t \in Stuck : StuckFairness(t)

(***************************************************************************)
(* Whoever has hung up and is not served by a stuck thread is released: a  *)
(* call that hangs costs the server one slot and nothing else, in          *)
(* particular it does not stop the accept loop from turning others away    *)
(* (server.c:626-631).                                                     *)
(***************************************************************************)
OthersAreReleased ==
    \A c \in Conns :
        (c \in hungUp /\ \E h \in Handles : peer[h] = c)
            ~> \/ \A h \in Handles : peer[h] # c
               \/ \E t \in Stuck : pc[t] = "serve" /\ owner[t] = c

(***************************************************************************)
(* A connection that a client has opened gets an answer of some kind: it   *)
(* is accepted, or refused, or the server stops, also when every slot is   *)
(* held by a stuck thread.  It waits in the backlog only while main is     *)
(* about to accept it.                                                     *)
(***************************************************************************)
NobodyQueuesForEver ==
    \A c \in Conns : (c \in pending) ~> (c \notin pending)
=============================================================================
