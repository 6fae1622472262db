---------------------------- MODULE RequestServer ----------------------------
(***************************************************************************)
(* The request loop of handle_client (src/server/server.c) over the        *)
(* database functions of src/server/db_handler.c.                          *)
(*                                                                         *)
(* All handler threads share one SQLite connection.  SQLite serialises the *)
(* statements, so a statement is one step; between two statements of a     *)
(* request every other handler may run.  pc[h] names the function that     *)
(* handler h calls next: a request is a path through these functions.      *)
(*                                                                         *)
(* Abstractions: a password, an id and a place (education office code and  *)
(* school code) are values that can only be compared.  The name and the    *)
(* role of a user are left out: no answer but LOGIN's carries the role,    *)
(* which is GENERAL in every row.  A request that has no command, lacks a  *)
(* parameter or has an unknown command is the command INVALID.  What NEIS  *)
(* says is a choice.  A statement that fails for a reason of its own (no   *)
(* memory, disk full, the connection closed) is a choice when DbFaults.    *)
(*                                                                         *)
(* Ids and passwords are plain: the INSERT of add_user is pasted together  *)
(* with '%s' (db_handler.c:123-128), so a quote in one of them would make  *)
(* it another statement, and both are cut to the 20 bytes of their fields  *)
(* (server.c:164, 473).  The client registers only ids of 4 to 16 letters  *)
(* and digits and passwords of four digits (client/menu.c:102-128,         *)
(* input_util.c:117-143); nothing here is said about other senders.        *)
(***************************************************************************)
EXTENDS Naturals, AccountData

CONSTANT CachedPlaces   \* places whose meal of the day is in the meals table

ASSUME CacheAssumption == CachedPlaces \subseteq Places

VARIABLES
    pc,         \* the function each handler calls next
    req,        \* the request it is working on
    place,      \* the codes found by NEIS, or the school of the child
    reply,      \* the arguments of the pending send_response
    answers     \* history: calls of send_response for the latest request

local == <<pc, req, place, reply, answers>>
vars == <<users, children, local>>

Statements == {"verify_user", "get_user", "is_user_exists", "resolve_school_code", "add_user",
               "update_user", "delete_user", "get_children_db", "db_add_child", "insert_child",
               "is_child_registered", "db_delete_child", "get_meal", "neis", "refuse"}

\* send_response in handle_client, and the one in handle_register_general.
Sends == {"send", "inner_send"}

TypeOK ==
    /\ users \in [Ids -> Users \cup {NoUser}]
    /\ children \subseteq Ids \X Ids
    /\ pc \in [Handlers -> {"recv"} \cup Statements \cup Sends]
    /\ req \in [Handlers -> Requests \cup {NoReq}]
    /\ place \in [Handlers -> Places \cup {NoPlace}]
    /\ reply \in [Handlers -> Replies \cup {NoReply}]
    /\ answers \in [Handlers -> Nat]

Init ==
    /\ users = [i \in Ids |-> NoUser]
    /\ children = {}
    /\ pc = [h \in Handlers |-> "recv"]
    /\ req = [h \in Handlers |-> NoReq]
    /\ place = [h \in Handlers |-> NoPlace]
    /\ reply = [h \in Handlers |-> NoReply]
    /\ answers = [h \in Handlers |-> 0]

-----------------------------------------------------------------------------
\* The parts of a step.

At(h, f) == pc[h] = f

Cmd(h) == req[h].cmd

Goto(h, f) ==
    /\ pc' = [pc EXCEPT ![h] = f]
    /\ UNCHANGED <<req, place, reply, answers>>

Respond(h, r) ==
    /\ pc' = [pc EXCEPT ![h] = "send"]
    /\ reply' = [reply EXCEPT ![h] = r]
    /\ UNCHANGED <<req, place, answers>>

\* The loop continues: the variables of the request are gone.
Finish(h) ==
    /\ pc' = [pc EXCEPT ![h] = "recv"]
    /\ req' = [req EXCEPT ![h] = NoReq]
    /\ place' = [place EXCEPT ![h] = NoPlace]
    /\ reply' = [reply EXCEPT ![h] = NoReply]

\* A SELECT finds nothing, or fails.
Misses(found) == ~found \/ DbFaults

DbUnchanged == UNCHANGED <<users, children>>

\* The foreign keys and the primary key of the children table.
CanLink(child, parent) == Exists(child) /\ Exists(parent) /\ ~Linked(child, parent)

-----------------------------------------------------------------------------
\* recv, strtok and the chain of strcmp: the first function of each command.

FirstCall(cmd) ==
    CASE cmd = "LOGIN" -> {"verify_user"}
      [] cmd \in {"REGISTER_GENERAL", "ADD_CHILD"} -> {"is_user_exists"}
      [] cmd = "UPDATE" -> {"resolve_school_code"}
      [] cmd = "DELETE" -> {"delete_user"}
      [] cmd = "GET_CHILDREN" -> {"get_children_db"}
      [] cmd \in {"DEL_CHILD", "CHILD_MEAL", "CHILD_MULTI_MEAL"} -> {"is_child_registered"}
      \* a school given by its code is not looked up; a period may be malformed
      [] cmd = "GET_MEAL" -> {"resolve_school_code", "neis"}
      [] cmd = "GET_MULTI_MEAL" -> {"resolve_school_code", "neis", "refuse"}
      [] cmd = "INVALID" -> {"refuse"}

Receive(h, r) ==
    /\ At(h, "recv")
    /\ req' = [req EXCEPT ![h] = r]
    /\ answers' = [answers EXCEPT ![h] = 0]
    /\ \E f \in FirstCall(r.cmd) : pc' = [pc EXCEPT ![h] = f]
    /\ UNCHANGED <<place, reply>>
    /\ DbUnchanged

refuse(h) ==
    /\ At(h, "refuse")
    /\ Respond(h, Plain(IF Cmd(h) = "INVALID" THEN "INVALID_REQUEST" ELSE "INVALID_DATE"))
    /\ DbUnchanged

-----------------------------------------------------------------------------
\* The statements on users.

verify_user(h) ==
    /\ At(h, "verify_user")
    /\ \/ /\ Exists(req[h].id)
          /\ users[req[h].id].pw = req[h].pw
          /\ Goto(h, "get_user")
       \/ /\ Misses(Exists(req[h].id) /\ users[req[h].id].pw = req[h].pw)
          /\ Respond(h, Plain("INVALID_LOGIN"))
    /\ DbUnchanged

\* WRONG variant of get_user: the meal of the parent's school.
get_user_own_row(h) ==
    /\ At(h, "get_user")
    /\ Exists(req[h].id)
    /\ IF Cmd(h) = "LOGIN"
         THEN Respond(h, [code |-> "LOGIN_OK", place |-> users[req[h].id].place])
         ELSE /\ place' = [place EXCEPT ![h] = users[req[h].id].place]
              /\ pc' = [pc EXCEPT ![h] = "get_meal"]
              /\ UNCHANGED <<req, reply, answers>>
    /\ DbUnchanged

\* LOGIN reads the user's own row, CHILD_MEAL the child's.
get_user(h) ==
    LET i == IF Cmd(h) = "LOGIN" THEN req[h].id ELSE req[h].child IN
    /\ At(h, "get_user")
    /\ \/ /\ Exists(i) /\ Cmd(h) = "LOGIN"
          /\ Respond(h, [code |-> "LOGIN_OK", place |-> users[i].place])
       \/ /\ Exists(i) /\ Cmd(h) = "CHILD_MEAL"
          /\ place' = [place EXCEPT ![h] = users[i].place]
          /\ pc' = [pc EXCEPT ![h] = "get_meal"]
          /\ UNCHANGED <<req, reply, answers>>
       \/ /\ Misses(Exists(i))
          /\ Respond(h, Plain(IF Cmd(h) = "LOGIN" THEN "DB_ERROR" ELSE "CHILD_USER_NOT_FOUND"))
    /\ DbUnchanged

is_user_exists(h) ==
    LET i == IF Cmd(h) = "REGISTER_GENERAL" THEN req[h].id ELSE req[h].child IN
    /\ At(h, "is_user_exists")
    /\ \/ /\ Exists(i)
          /\ IF Cmd(h) = "REGISTER_GENERAL"
               THEN Respond(h, Plain("ID_DUPLICATE"))
               ELSE Goto(h, "db_add_child")
       \/ /\ Misses(Exists(i))
          /\ IF Cmd(h) = "REGISTER_GENERAL"
               THEN Goto(h, "resolve_school_code")
               ELSE Respond(h, Plain("CHILD_USER_NOT_FOUND"))
    /\ DbUnchanged

\* WRONG variant of add_user: the result is not looked at.
add_user_unchecked(h) ==
    /\ At(h, "add_user")
    /\ users' = IF Exists(req[h].id) THEN users
                ELSE [users EXCEPT ![req[h].id] = [pw |-> req[h].pw, place |-> place[h]]]
    /\ Respond(h, Plain("REGISTER_OK"))
    /\ UNCHANGED children

\* The INSERT fails on the primary key; handle_register_general then returns
\* false and its caller sends nothing.  Id and password are pasted into the
\* statement: it is this one because they hold no quote.
add_user(h) ==
    /\ At(h, "add_user")
    /\ \/ /\ ~Exists(req[h].id)
          /\ users' = [users EXCEPT ![req[h].id] = [pw |-> req[h].pw, place |-> place[h]]]
          /\ Respond(h, Plain("REGISTER_OK"))
       \/ /\ Exists(req[h].id) \/ DbFaults
          /\ Finish(h)
          /\ UNCHANGED <<users, answers>>
    /\ UNCHANGED children

\* An UPDATE of no row is SQLITE_DONE too.  The old row that handle_client
\* reads before gives the name and the role, which the statement does not set.
update_user(h) ==
    /\ At(h, "update_user")
    /\ \/ /\ users' = IF Exists(req[h].id)
                        THEN [users EXCEPT ![req[h].id] = [pw |-> req[h].pw, place |-> place[h]]]
                        ELSE users
          /\ Respond(h, Plain("UPDATE_OK"))
       \/ /\ DbFaults
          /\ Respond(h, Plain("DB_ERROR"))
          /\ UNCHANGED users
    /\ UNCHANGED children

\* WRONG variants of delete_user: without PRAGMA foreign_keys, and a failed
\* statement is taken for a success.
delete_user_no_foreign_keys(h) ==
    /\ At(h, "delete_user")
    /\ users' = [users EXCEPT ![req[h].id] = NoUser]
    /\ Respond(h, Plain("DELETE_OK"))
    /\ UNCHANGED children

delete_user_unchecked(h) ==
    /\ At(h, "delete_user")
    /\ \/ users' = [users EXCEPT ![req[h].id] = NoUser]
       \/ DbFaults /\ UNCHANGED users
    /\ Respond(h, Plain("DELETE_OK"))
    /\ UNCHANGED children

\* A user that is a child or a parent is kept by the foreign keys.
delete_user(h) ==
    /\ At(h, "delete_user")
    /\ \/ /\ ~InUse(req[h].id)
          /\ users' = [users EXCEPT ![req[h].id] = NoUser]
          /\ Respond(h, Plain("DELETE_OK"))
       \/ /\ InUse(req[h].id) \/ DbFaults
          /\ Respond(h, Plain("DB_ERROR"))
          /\ UNCHANGED users
    /\ UNCHANGED children

-----------------------------------------------------------------------------
\* The statements on children.

\* The SELECT names a column that the table does not have: it never prepares.
get_children_db(h) ==
    /\ At(h, "get_children_db")
    /\ Respond(h, Plain("DB_ERROR"))
    /\ DbUnchanged

\* db_add_child looks for the child once more before it inserts the link.
db_add_child(h) ==
    /\ At(h, "db_add_child")
    /\ \/ Exists(req[h].child) /\ Goto(h, "insert_child")
       \/ Misses(Exists(req[h].child)) /\ Respond(h, Plain("DB_ERROR"))
    /\ DbUnchanged

insert_child(h) ==
    /\ At(h, "insert_child")
    /\ \/ /\ CanLink(req[h].child, req[h].id)
          /\ children' = children \cup {<<req[h].child, req[h].id>>}
          /\ Respond(h, Plain("ADD_CHILD_OK"))
       \/ /\ ~CanLink(req[h].child, req[h].id) \/ DbFaults
          /\ Respond(h, Plain("DB_ERROR"))
          /\ UNCHANGED children
    /\ UNCHANGED users

is_child_registered(h) ==
    /\ At(h, "is_child_registered")
    /\ \/ /\ Linked(req[h].child, req[h].id)
          /\ \/ Cmd(h) = "DEL_CHILD" /\ Goto(h, "db_delete_child")
             \/ Cmd(h) = "CHILD_MEAL" /\ Goto(h, "get_user")
             \/ /\ Cmd(h) = "CHILD_MULTI_MEAL"
                /\ \E c \in {"INVALID_DATE", "CHILD_MULTI_MEAL_OK"} : Respond(h, Plain(c))
       \/ /\ Misses(Linked(req[h].child, req[h].id))
          /\ Respond(h, Plain("INVALID_CHILD_ID"))
    /\ DbUnchanged

db_delete_child(h) ==
    /\ At(h, "db_delete_child")
    /\ \/ /\ children' = children \ {<<req[h].child, req[h].id>>}
          /\ Respond(h, Plain("DEL_CHILD_OK"))
       \/ /\ DbFaults
          /\ Respond(h, Plain("DB_ERROR"))
          /\ UNCHANGED children
    /\ UNCHANGED users

get_meal(h) ==
    /\ At(h, "get_meal")
    /\ \/ /\ place[h] \in CachedPlaces
          /\ Respond(h, [code |-> "CHILD_MEAL_OK", place |-> place[h]])
       \/ /\ Misses(place[h] \in CachedPlaces)
          /\ Respond(h, Plain("CHILD_MEAL_NOT_FOUND"))
    /\ DbUnchanged

-----------------------------------------------------------------------------
\* NEIS, and the answer.

\* WRONG variant of resolve_school_code: UPDATE goes on without a school.
resolve_unchecked(h) ==
    /\ At(h, "resolve_school_code")
    /\ \E p \in Places \cup {NoPlace} : place' = [place EXCEPT ![h] = p]
    /\ pc' = [pc EXCEPT ![h] = IF Cmd(h) = "UPDATE" THEN "update_user" ELSE "add_user"]
    /\ UNCHANGED <<req, reply, answers>>
    /\ DbUnchanged

\* Only REGISTER_GENERAL and UPDATE store what NEIS has found.
resolve_school_code(h) ==
    /\ At(h, "resolve_school_code")
    /\ \/ /\ Cmd(h) \in {"REGISTER_GENERAL", "UPDATE"}
          /\ \E p \in Places : place' = [place EXCEPT ![h] = p]
          /\ pc' = [pc EXCEPT ![h] = IF Cmd(h) = "UPDATE" THEN "update_user" ELSE "add_user"]
          /\ UNCHANGED <<req, reply, answers>>
       \/ /\ Cmd(h) \in {"GET_MEAL", "GET_MULTI_MEAL"}
          /\ Goto(h, "neis")
       \/ /\ pc' = [pc EXCEPT ![h] = IF Cmd(h) = "REGISTER_GENERAL" THEN "inner_send" ELSE "send"]
          /\ reply' = [reply EXCEPT ![h] = Plain("SCHOOL_NOT_FOUND")]
          /\ UNCHANGED <<req, place, answers>>
    /\ DbUnchanged

\* get_meal_from_neis and get_meals_period_from_neis
neis(h) ==
    /\ At(h, "neis")
    /\ \E c \in {"MEAL_OK", "MEAL_NOT_FOUND"} : Respond(h, Plain(c))
    /\ DbUnchanged

\* Whether the client still listens makes no difference: the result is ignored.
send_response(h) ==
    /\ At(h, "send")
    /\ answers' = [answers EXCEPT ![h] = @ + 1]
    /\ Finish(h)
    /\ DbUnchanged

\* WRONG variant of inner_send_response: the caller answers once more.
inner_send_and_caller(h) ==
    /\ At(h, "inner_send")
    /\ answers' = [answers EXCEPT ![h] = @ + 1]
    /\ pc' = [pc EXCEPT ![h] = "send"]
    /\ UNCHANGED <<req, place, reply>>
    /\ DbUnchanged

\* handle_register_general has answered itself; its caller must not.
inner_send_response(h) ==
    /\ At(h, "inner_send")
    /\ answers' = [answers EXCEPT ![h] = @ + 1]
    /\ Finish(h)
    /\ DbUnchanged

\* The process ends, at any time: main returns while handlers work, or it is
\* killed.  The database file stays, and a new process starts with it.
Restart ==
    /\ pc' = [h \in Handlers |-> "recv"]
    /\ req' = [h \in Handlers |-> NoReq]
    /\ place' = [h \in Handlers |-> NoPlace]
    /\ reply' = [h \in Handlers |-> NoReply]
    /\ answers' = [h \in Handlers |-> 0]
    /\ DbUnchanged

HandlerStep(h) ==
    \/ \E r \in Requests : Receive(h, r)
    \/ refuse(h) \/ verify_user(h) \/ get_user(h) \/ is_user_exists(h)
    \/ add_user(h) \/ update_user(h) \/ delete_user(h)
    \/ get_children_db(h) \/ db_add_child(h) \/ insert_child(h)
    \/ is_child_registered(h) \/ db_delete_child(h) \/ get_meal(h)
    \/ resolve_school_code(h) \/ neis(h)
    \/ send_response(h) \/ inner_send_response(h)

Next == Restart \/ \E h \in Handlers : HandlerStep(h)

Spec == Init /\ [][Next]_vars
-----------------------------------------------------------------------------
\* Properties.

(***************************************************************************)
(* Every link joins two users that exist: the checks of ADD_CHILD run      *)
(* before the INSERT, and DELETE of a user may come in between; only the   *)
(* foreign keys of init_db (db_handler.c:16, 48-51) keep the table sound.  *)
(***************************************************************************)
LinksAreValid ==
    \A i, j \in Ids : Linked(i, j) => Exists(i) /\ Exists(j)

(***************************************************************************)
(* A request is answered at most once, and not before its outcome is       *)
(* known.  REGISTER_GENERAL is answered in two places, in                  *)
(* handle_register_general and in its caller (server.c:139-142, 464-469).  *)
(***************************************************************************)
AnsweredAtMostOnce ==
    \A h \in Handlers :
        /\ answers[h] <= 1
        /\ pc[h] # "recv" => answers[h] = 0

(***************************************************************************)
(* A handler is inside a function only on behalf of a command that calls   *)
(* it, an answer is pending exactly while a handler sends, and a row is    *)
(* written only with codes that NEIS has found.                            *)
(***************************************************************************)
CallersOf(f) ==
    CASE f = "verify_user" -> {"LOGIN"}
      [] f = "get_user" -> {"LOGIN", "CHILD_MEAL"}
      [] f = "is_user_exists" -> {"REGISTER_GENERAL", "ADD_CHILD"}
      [] f = "resolve_school_code" -> {"REGISTER_GENERAL", "UPDATE", "GET_MEAL", "GET_MULTI_MEAL"}
      [] f \in {"add_user", "inner_send"} -> {"REGISTER_GENERAL"}
      [] f = "update_user" -> {"UPDATE"}
      [] f = "delete_user" -> {"DELETE"}
      [] f = "get_children_db" -> {"GET_CHILDREN"}
      [] f \in {"db_add_child", "insert_child"} -> {"ADD_CHILD"}
      [] f = "is_child_registered" -> {"DEL_CHILD", "CHILD_MEAL", "CHILD_MULTI_MEAL"}
      [] f = "db_delete_child" -> {"DEL_CHILD"}
      [] f = "get_meal" -> {"CHILD_MEAL"}
      [] f = "neis" -> {"GET_MEAL", "GET_MULTI_MEAL"}
      [] f = "refuse" -> {"INVALID", "GET_MULTI_MEAL"}
      [] f = "send" -> Commands

PathsFollowCommands ==
    \A h \in Handlers :
        /\ pc[h] = "recv" <=> req[h] = NoReq
        /\ pc[h] # "recv" => Cmd(h) \in CallersOf(pc[h])
        /\ pc[h] \in Sends <=> reply[h] # NoReply
        /\ pc[h] \in {"add_user", "update_user", "get_meal"} => place[h] # NoPlace
        /\ pc[h] \notin {"add_user", "update_user", "get_meal", "send"} => place[h] = NoPlace

\* The password of a LOGIN, or the link of a CHILD_MEAL, has been found valid.
Vouched(h) ==
    \/ pc[h] \in {"get_user", "get_meal"}
    \/ pc[h] = "send" /\ Cmd(h) = "LOGIN" /\ reply[h].code # "INVALID_LOGIN"
    \/ pc[h] = "send" /\ Cmd(h) = "CHILD_MEAL" /\ reply[h].code # "INVALID_CHILD_ID"

Service == INSTANCE AccountService WITH
    asked   <- req,
    vouched <- [h \in Handlers |-> Vouched(h)],
    seen    <- [h \in Handlers |->
                  IF req[h] # NoReq /\ Cmd(h) = "CHILD_MEAL" THEN place[h] ELSE NoPlace],
    said    <- reply

(***************************************************************************)
(* The interleaved statements of all handlers look to clients like         *)
(* requests that take effect one at a time, for ids and passwords without  *)
(* quotes (db_handler.c:123-128): the client registers no others.          *)
(***************************************************************************)
ImplementsService == Service!Spec

(***************************************************************************)
(* What protocol.md promises of REGISTER_GENERAL: it is answered, with     *)
(* ERROR//ID_DUPLICATE when the id is taken (protocol.md:12-14, 85-90).    *)
(***************************************************************************)
EveryRequestIsAnswered ==
    [][\A h \in Handlers :
         req[h] # NoReq /\ req'[h] = NoReq => answers'[h] = 1 \/ Restart]_vars
=============================================================================
