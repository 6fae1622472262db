---------------------------- MODULE SchoolServer ----------------------------
(***************************************************************************)
(* ConnectionPool composed with the database connection that all handlers  *)
(* share: the static pointer db of src/server/db_handler.c, which main     *)
(* closes and resets at the end without waiting for the handlers.          *)
(*                                                                         *)
(* Of a request, only its calls of SQLite are left: a handler loads the    *)
(* pointer, prepares a statement with it, runs and finalizes it, goes on   *)
(* to another statement or answers.  SQLite itself is modelled by its      *)
(* documented contract.                                                    *)
(***************************************************************************)
EXTENDS ConnectionPool

VARIABLES
    db,          \* the pointer db is not NULL
    connection,  \* the database connection that sqlite3_open returned
    closing,     \* where main is in close_db
    step,        \* where each handler is in its request
    loaded,      \* the pointer it has loaded is not NULL
    failed,      \* a statement of its request has failed for want of a database
    misled       \* history: the connections that were told of such a failure

dbVars     == <<db, connection, closing>>
queryVars  == <<step, loaded, failed, misled>>
serverVars == <<vars, dbVars, queryVars>>

Steps == {"idle", "query", "prepare", "run", "reply"}

\* Main is past the loops that accept and close connections.
EndStates == {"delete", "return", "exited"}

ServerTypeOK ==
    /\ db \in BOOLEAN
    /\ connection \in {"open", "closed"}
    /\ closing \in {"before", "tested", "closed", "done"}
    /\ step \in [Threads -> Steps]
    /\ loaded \in [Threads -> BOOLEAN]
    /\ failed \in [Threads -> BOOLEAN]
    /\ misled \subseteq Conns

ServerInit ==
    /\ Init
    /\ db = TRUE
    /\ connection = "open"
    /\ closing = "before"
    /\ step = [t \in Threads |-> "idle"]
    /\ loaded = [t \in Threads |-> FALSE]
    /\ failed = [t \in Threads |-> FALSE]
    /\ misled = {}

-----------------------------------------------------------------------------
\* A handler and its statements.

\* A request has arrived: a step of the pool.
Receive(t) ==
    /\ RecvRequest(t)
    /\ step' = [step EXCEPT ![t] = "query"]
    /\ UNCHANGED <<dbVars, loaded, failed, misled>>

\* The argument db of sqlite3_prepare_v2 is loaded; no lock is taken.
LoadDb(t) ==
    /\ step[t] = "query"
    /\ loaded' = [loaded EXCEPT ![t] = db]
    /\ step' = [step EXCEPT ![t] = "prepare"]
    /\ UNCHANGED <<vars, dbVars, failed, misled>>

\* A request that is refused, or one for a meal, needs no statement.
NeedsNoDb(t) ==
    /\ step[t] = "query"
    /\ step' = [step EXCEPT ![t] = "reply"]
    /\ UNCHANGED <<vars, dbVars, loaded, failed, misled>>

Prepare(t) ==
    /\ step[t] = "prepare"
    /\ loaded[t] /\ connection = "open"
    /\ step' = [step EXCEPT ![t] = "run"]
    /\ UNCHANGED <<vars, dbVars, loaded, failed, misled>>

\* NULL is SQLITE_MISUSE; so is a closed connection, if SQLite notices it.
\* The function returns false, and the command answers or goes on.
PrepareFails(t) ==
    /\ step[t] = "prepare"
    /\ ~loaded[t] \/ connection = "closed"
    /\ \E s \in {"query", "reply"} : step' = [step EXCEPT ![t] = s]
    /\ failed' = [failed EXCEPT ![t] = TRUE]
    /\ UNCHANGED <<vars, dbVars, loaded, misled>>

\* If it does not notice, the process may end: a step of the pool.
PrepareCrashes(t) ==
    /\ step[t] = "prepare"
    /\ loaded[t] /\ connection = "closed"
    /\ ServeCrashes(t)
    /\ UNCHANGED <<dbVars, queryVars>>

\* sqlite3_step and sqlite3_finalize.
Finalize(t) ==
    /\ step[t] = "run"
    /\ \E s \in {"query", "reply"} : step' = [step EXCEPT ![t] = s]
    /\ UNCHANGED <<vars, dbVars, loaded, failed, misled>>

\* WRONG variant of Reply: a request whose statement failed ends the thread's
\* loop at once, past the code that clears its slot.
ReplyOrReturn(t) ==
    /\ step[t] = "reply"
    /\ IF failed[t]
         THEN /\ pc' = [pc EXCEPT ![t] = "cleared"]
              /\ UNCHANGED <<running, clientSockets, mainVars, arg, sock, owner,
                             peer, pending, hungUp>>
         ELSE Serve(t)
    /\ step' = [step EXCEPT ![t] = "idle"]
    /\ failed' = [failed EXCEPT ![t] = FALSE]
    /\ UNCHANGED <<dbVars, loaded, misled>>

\* send_response, which reaches a client if the handle is still open.
Reply(t) ==
    /\ step[t] = "reply"
    /\ Serve(t)
    /\ misled' = IF failed[t] /\ Open(sock[t]) THEN misled \cup {peer[sock[t]]} ELSE misled
    /\ step' = [step EXCEPT ![t] = "idle"]
    /\ failed' = [failed EXCEPT ![t] = FALSE]
    /\ UNCHANGED <<dbVars, loaded>>

-----------------------------------------------------------------------------
\* close_db, called by main between cleanup_network and DeleteCriticalSection.

\* WRONG variant of TestDb: main closes the database before the connections.
TestDbFirst ==
    /\ mainPc = "scan" /\ closing = "before"
    /\ closing' = IF db THEN "tested" ELSE "done"
    /\ UNCHANGED <<vars, db, connection, queryVars>>

\* if (db)
TestDb ==
    /\ mainPc = "delete" /\ closing = "before"
    /\ closing' = IF db THEN "tested" ELSE "done"
    /\ UNCHANGED <<vars, db, connection, queryVars>>

\* sqlite3_close, whose result is ignored.  SQLite refuses to close a
\* connection that has statements: SQLITE_BUSY, and it stays open.
CloseConnection ==
    /\ closing = "tested"
    /\ connection' = IF \E t \in Threads : step[t] = "run" THEN connection ELSE "closed"
    /\ closing' = "closed"
    /\ UNCHANGED <<vars, db, queryVars>>

\* db = NULL
ResetPointer ==
    /\ closing = "closed"
    /\ db' = FALSE
    /\ closing' = "done"
    /\ UNCHANGED <<vars, connection, queryVars>>

-----------------------------------------------------------------------------

\* Main goes on after close_db only.
MainGoesOn ==
    /\ closing \in {"before", "done"}
    /\ mainPc = "delete" => closing = "done"
    /\ MainStep
    /\ UNCHANGED <<dbVars, queryVars>>

\* The steps of a handler outside of a request.
HandlerGoesOn(t) ==
    /\ Start(t) \/ CheckLoop(t) \/ RecvEnd(t) \/ Clear(t) \/ ClearCrashes(t) \/ Close(t)
    /\ UNCHANGED <<dbVars, queryVars>>

Request(t) ==
    \/ Receive(t) \/ LoadDb(t) \/ NeedsNoDb(t) \/ Prepare(t) \/ PrepareFails(t)
    \/ PrepareCrashes(t) \/ Finalize(t) \/ Reply(t)

ServerNext ==
    \/ MainGoesOn
    \/ mainPc # "exited" /\ (TestDb \/ CloseConnection \/ ResetPointer)
    \/ \E t \in Threads : mainPc # "exited" /\ (HandlerGoesOn(t) \/ Request(t))
    \/ Environment /\ UNCHANGED <<dbVars, queryVars>>

ServerSpec == ServerInit /\ [][ServerNext]_serverVars

-----------------------------------------------------------------------------
\* Properties.

(***************************************************************************)
(* No client is ever told that its request failed (wrong password, no such *)
(* child, database error) because the server is shutting down: handlers go *)
(* on with a database that is closed under them, but every connection is   *)
(* closed before the database is (server.c:647-658).                       *)
(***************************************************************************)
NobodyIsMisled == misled = {}

-----------------------------------------------------------------------------
\* The inductive invariant behind NobodyIsMisled.

(***************************************************************************)
(* The database is whole until main is past its loops; from there on no    *)
(* handle is open, so that nobody can hear of a failure.                   *)
(***************************************************************************)
ServerInv ==
    /\ ServerTypeOK
    /\ \A t \in Threads : pc[t] = "serve" <=> step[t] # "idle"
    /\ mainPc \notin EndStates => closing = "before"
    /\ mainPc \in EndStates => \A h \in Handles : ~Open(h)
    /\ closing = "before" =>
         /\ db /\ connection = "open"
         /\ \A t \in Threads : ~failed[t] /\ (step[t] = "prepare" => loaded[t])
    /\ NobodyIsMisled
=============================================================================
