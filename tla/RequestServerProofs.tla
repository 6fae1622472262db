------------------------- MODULE RequestServerProofs -------------------------
(***************************************************************************)
(* Proofs about RequestServer, for every number of connections, users and  *)
(* places, with and without failing statements: its invariants, and that   *)
(* it implements AccountService.                                           *)
(***************************************************************************)
EXTENDS RequestServer, TLAPS

USE DEF At, Cmd, Goto, Respond, Finish, Misses, DbUnchanged, CanLink, Exists, Linked, InUse,
        Plain, Users, Replies, Codes, Commands, Statements, Sends, local

ServerInv == TypeOK /\ PathsFollowCommands

-----------------------------------------------------------------------------
\* Types and paths.

\* A handler starts in recv, with no request.
LEMMA ServerInit == Init => ServerInv
BY ServiceAssumption DEF Init, ServerInv, TypeOK, PathsFollowCommands

\* A new request starts with a function that its command calls.
LEMMA ReceiveInv ==
  ASSUME NEW h \in Handlers, ServerInv, NEW r \in Requests, Receive(h, r)
  PROVE  ServerInv'
<1> USE ServiceAssumption DEF ServerInv, TypeOK, PathsFollowCommands, CallersOf, FirstCall, Receive
<1>1. TypeOK'
  OBVIOUS
<1>2. PathsFollowCommands'
  OBVIOUS
<1> QED
  BY <1>1, <1>2

\* A SELECT changes no table, and the handler goes on to a function that its
\* command calls.
LEMMA SelectInv ==
  ASSUME NEW h \in Handlers, ServerInv,
         \/ verify_user(h) \/ get_user(h) \/ is_user_exists(h) \/ get_children_db(h)
         \/ db_add_child(h) \/ is_child_registered(h) \/ get_meal(h)
  PROVE  ServerInv'
<1> USE ServiceAssumption, CacheAssumption
    DEF ServerInv, TypeOK, PathsFollowCommands, CallersOf
<1>1. CASE verify_user(h)
  BY <1>1 DEF verify_user
<1>2. CASE get_user(h)
  <2>1. TypeOK'
    BY <1>2 DEF get_user
  <2>2. PathsFollowCommands'
    BY <1>2 DEF get_user
  <2> QED
    BY <2>1, <2>2
<1>3. CASE is_user_exists(h)
  <2>1. TypeOK'
    BY <1>3 DEF is_user_exists
  <2>2. PathsFollowCommands'
    BY <1>3 DEF is_user_exists
  <2> QED
    BY <2>1, <2>2
<1>4. CASE get_children_db(h)
  BY <1>4 DEF get_children_db
<1>5. CASE db_add_child(h)
  BY <1>5 DEF db_add_child
<1>6. CASE is_child_registered(h)
  <2>1. TypeOK'
    BY <1>6 DEF is_child_registered
  <2>2. PathsFollowCommands'
    BY <1>6 DEF is_child_registered
  <2> QED
    BY <2>1, <2>2
<1>7. CASE get_meal(h)
  BY <1>7 DEF get_meal
<1> QED
  BY <1>1, <1>2, <1>3, <1>4, <1>5, <1>6, <1>7

\* A row that is written has a password and codes that NEIS has found.
LEMMA WriteInv ==
  ASSUME NEW h \in Handlers, ServerInv,
         add_user(h) \/ update_user(h) \/ delete_user(h) \/ insert_child(h) \/ db_delete_child(h)
  PROVE  ServerInv'
<1> USE ServiceAssumption DEF ServerInv
<1>1. req[h] \in Requests /\ req[h].id \in Ids /\ req[h].pw \in Pws /\ req[h].child \in Ids
  BY DEF TypeOK, PathsFollowCommands, add_user, update_user, delete_user, insert_child,
         db_delete_child
<1>2. pc[h] \in {"add_user", "update_user"} => [pw |-> req[h].pw, place |-> place[h]] \in Users
  BY <1>1 DEF TypeOK, PathsFollowCommands
<1>3. users' \in [Ids -> Users \cup {NoUser}]
  <2>1. CASE add_user(h)
    BY <1>1, <1>2, <2>1 DEF TypeOK, add_user
  <2>2. CASE update_user(h)
    BY <1>1, <1>2, <2>2 DEF TypeOK, update_user
  <2>3. CASE delete_user(h)
    BY <1>1, <2>3 DEF TypeOK, delete_user
  <2> QED
    BY <2>1, <2>2, <2>3 DEF TypeOK, insert_child, db_delete_child
<1>4. TypeOK'
  BY <1>1, <1>3 DEF TypeOK, add_user, update_user, delete_user, insert_child, db_delete_child
<1>5. PathsFollowCommands'
  BY DEF TypeOK, PathsFollowCommands, CallersOf, add_user, update_user, delete_user,
         insert_child, db_delete_child
<1> QED
  BY <1>4, <1>5

\* The answer ends the request; NEIS and refusals lead to an answer.
LEMMA OtherInv ==
  ASSUME NEW h \in Handlers, ServerInv,
         \/ refuse(h) \/ resolve_school_code(h) \/ neis(h)
         \/ send_response(h) \/ inner_send_response(h)
  PROVE  ServerInv'
<1> USE ServiceAssumption DEF ServerInv, TypeOK, PathsFollowCommands, CallersOf
<1>1. CASE refuse(h)
  BY <1>1 DEF refuse
<1>2. CASE resolve_school_code(h)
  <2>1. TypeOK'
    BY <1>2 DEF resolve_school_code
  <2>2. PathsFollowCommands'
    BY <1>2 DEF resolve_school_code
  <2> QED
    BY <2>1, <2>2
<1>3. CASE neis(h)
  BY <1>3 DEF neis
<1>4. CASE send_response(h)
  BY <1>4 DEF send_response
<1>5. CASE inner_send_response(h)
  BY <1>5 DEF inner_send_response
<1> QED
  BY <1>1, <1>2, <1>3, <1>4, <1>5

\* Every step keeps types and paths; a restart is like a start on these tables.
LEMMA ServerNext == ServerInv /\ [Next]_vars => ServerInv'
<1> SUFFICES ASSUME ServerInv, [Next]_vars PROVE ServerInv'
  OBVIOUS
<1>1. CASE Restart
  BY <1>1, ServiceAssumption DEF ServerInv, TypeOK, PathsFollowCommands, Restart
<1>2. ASSUME NEW h \in Handlers, HandlerStep(h) PROVE ServerInv'
  BY <1>2, ReceiveInv, SelectInv, WriteInv, OtherInv DEF HandlerStep
<1>3. CASE UNCHANGED vars
  BY <1>3 DEF vars, ServerInv, TypeOK, PathsFollowCommands
<1> QED
  BY <1>1, <1>2, <1>3 DEF Next

(***************************************************************************)
(* Types, and a handler is inside a function of db_handler.c only on       *)
(* behalf of a command of handle_client that calls it.                     *)
(***************************************************************************)
THEOREM ServerInvariant == Spec => []ServerInv
BY ServerInit, ServerNext, PTL DEF Spec

(***************************************************************************)
(* The tables contain rows, links and codes of the right types.            *)
(***************************************************************************)
THEOREM ServerTypeCorrect == Spec => []TypeOK
BY ServerInvariant, PTL DEF ServerInv

(***************************************************************************)
(* No function of db_handler.c runs for a command that does not call it,   *)
(* and no row is written before its school is known (server.c:157, 464).   *)
(***************************************************************************)
THEOREM PathsAreFollowed == Spec => []PathsFollowCommands
BY ServerInvariant, PTL DEF ServerInv
-----------------------------------------------------------------------------
\* The tables, and the number of answers.

\* Only four functions write to the tables; each keeps both ends of a link.
LEMMA LinksNext == ServerInv /\ LinksAreValid /\ [Next]_vars => LinksAreValid'
<1> SUFFICES ASSUME ServerInv, LinksAreValid, [Next]_vars PROVE LinksAreValid'
  OBVIOUS
<1> USE ServiceAssumption DEF ServerInv, TypeOK, LinksAreValid, PathsFollowCommands
<1>1. ASSUME NEW h \in Handlers, add_user(h) \/ update_user(h) \/ delete_user(h)
      PROVE  LinksAreValid'
  <2>1. CASE add_user(h) \/ update_user(h)
    <3>1. req[h].pw \in Pws /\ place[h] \in Places
      BY <2>1 DEF add_user, update_user
    <3>2. [pw |-> req[h].pw, place |-> place[h]] # NoUser
      BY <3>1
    <3>3. \A i \in Ids : Exists(i) => users'[i] # NoUser
      BY <2>1, <3>2 DEF add_user, update_user
    <3> QED
      BY <2>1, <3>3 DEF add_user, update_user
  <2>2. CASE delete_user(h)
    BY <2>2 DEF delete_user
  <2> QED
    BY <1>1, <2>1, <2>2
<1>2. ASSUME NEW h \in Handlers, insert_child(h) \/ db_delete_child(h)
      PROVE  LinksAreValid'
  BY <1>2 DEF insert_child, db_delete_child
<1>3. ASSUME UNCHANGED <<users, children>> PROVE LinksAreValid'
  BY <1>3
<1>4. ASSUME NEW h \in Handlers, HandlerStep(h) PROVE LinksAreValid'
  BY <1>1, <1>2, <1>3, <1>4
  DEF HandlerStep, Receive, refuse, verify_user, get_user, is_user_exists, get_children_db,
      db_add_child, is_child_registered, get_meal, resolve_school_code, neis, send_response,
      inner_send_response
<1> QED
  BY <1>3, <1>4 DEF Next, Restart, vars

(***************************************************************************)
(* Every link joins two existing users, although the checks of ADD_CHILD   *)
(* and the DELETE of a user interleave (db_handler.c:246-273, 359-383).    *)
(***************************************************************************)
THEOREM LinksStayValid == Spec => []LinksAreValid
<1>1. Init => LinksAreValid
  BY DEF Init, LinksAreValid
<1> QED
  BY <1>1, ServerInvariant, LinksNext, PTL DEF Spec

\* A send takes the handler to recv; any other step leaves the count at zero.
LEMMA AnswersNext == ServerInv /\ AnsweredAtMostOnce /\ [Next]_vars => AnsweredAtMostOnce'
<1> SUFFICES ASSUME ServerInv, AnsweredAtMostOnce, [Next]_vars PROVE AnsweredAtMostOnce'
  OBVIOUS
<1> USE DEF ServerInv, TypeOK, AnsweredAtMostOnce
<1>1. CASE Restart
  BY <1>1 DEF Restart
<1>2. ASSUME NEW h \in Handlers, NEW r \in Requests, Receive(h, r) PROVE AnsweredAtMostOnce'
  BY <1>2 DEF Receive
<1>3. ASSUME NEW h \in Handlers, send_response(h) \/ inner_send_response(h)
      PROVE  AnsweredAtMostOnce'
  BY <1>3 DEF send_response, inner_send_response
<1>4. ASSUME NEW h \in Handlers, pc[h] # "recv", UNCHANGED answers,
             \A k \in Handlers : k # h => pc'[k] = pc[k]
      PROVE  AnsweredAtMostOnce'
  BY <1>4
<1>5. ASSUME NEW h \in Handlers, HandlerStep(h) PROVE AnsweredAtMostOnce'
  <2>1. CASE \/ refuse(h) \/ verify_user(h) \/ get_user(h) \/ is_user_exists(h)
             \/ add_user(h) \/ update_user(h) \/ delete_user(h) \/ get_children_db(h)
    BY <1>4, <2>1 DEF refuse, verify_user, get_user, is_user_exists, add_user, update_user,
       delete_user, get_children_db
  <2>2. CASE \/ db_add_child(h) \/ insert_child(h) \/ is_child_registered(h)
             \/ db_delete_child(h) \/ get_meal(h) \/ resolve_school_code(h) \/ neis(h)
    BY <1>4, <2>2 DEF db_add_child, insert_child, is_child_registered, db_delete_child, get_meal,
       resolve_school_code, neis
  <2> QED
    BY <1>2, <1>3, <1>5, <2>1, <2>2 DEF HandlerStep
<1>6. CASE UNCHANGED vars
  BY <1>6 DEF vars
<1> QED
  BY <1>1, <1>5, <1>6 DEF Next

(***************************************************************************)
(* No request is answered twice, although REGISTER_GENERAL is answered in  *)
(* two functions (server.c:139-142, 464-469).                              *)
(***************************************************************************)
THEOREM AnswersAreUnique == Spec => []AnsweredAtMostOnce
<1>1. Init => AnsweredAtMostOnce
  BY DEF Init, AnsweredAtMostOnce
<1> QED
  BY <1>1, ServerInvariant, AnswersNext, PTL DEF Spec

-----------------------------------------------------------------------------
\* The server implements the account service: under the mapping of Service every
\* function of a request is one step of AccountService or none.

USE DEF Service!Exists, Service!Linked, Service!InUse, Service!Plain, Service!Waits,
        Service!Say, Service!vars, Vouched

\* What the mapping makes of vouched and seen.
VouchedBar == [h \in Handlers |-> Vouched(h)]
SeenBar == [h \in Handlers |->
              IF req[h] # NoReq /\ Cmd(h) = "CHILD_MEAL" THEN place[h] ELSE NoPlace]

\* Both start in the same state.
LEMMA RefinementInit == Init => Service!Init
BY DEF Init, Service!Init

\* The request arrives; nothing has been vouched for.
LEMMA ReceiveAsks ==
  ASSUME NEW h \in Handlers, ServerInv, NEW r \in Requests, Receive(h, r)
  PROVE  Service!Ask(h, r)
<1> USE ServiceAssumption DEF ServerInv, TypeOK, PathsFollowCommands, CallersOf, Receive, FirstCall
<1>1. PICK f \in FirstCall(r.cmd) : pc' = [pc EXCEPT ![h] = f]
  OBVIOUS
<1>2. f \in Statements \ {"get_user", "get_meal"}
  OBVIOUS
<1>3. UNCHANGED VouchedBar
  BY <1>1, <1>2 DEF VouchedBar
<1>4. UNCHANGED SeenBar
  BY DEF SeenBar
<1> QED
  BY <1>3, <1>4 DEF Service!Ask, VouchedBar, SeenBar

\* A malformed request is refused.
LEMMA RefuseSays ==
  ASSUME NEW h \in Handlers, ServerInv, refuse(h)
  PROVE  Service!Other(h)
BY ServiceAssumption
  DEF ServerInv, TypeOK, PathsFollowCommands, CallersOf, refuse, Service!Other

\* The password is right, at this instant, or it is refused.
LEMMA VerifyVouches ==
  ASSUME NEW h \in Handlers, ServerInv, verify_user(h)
  PROVE  Service!Vouch(h) \/ Service!Login(h)
<1> USE ServiceAssumption DEF ServerInv, TypeOK, PathsFollowCommands, CallersOf, verify_user
<1>1. CASE Goto(h, "get_user")
  <2>1. Service!Waits(h, {"LOGIN"})
    BY <1>1
  <2> QED
    BY <1>1, <2>1 DEF Service!Vouch
<1>2. CASE Respond(h, Plain("INVALID_LOGIN"))
  BY <1>2 DEF Service!Login
<1> QED
  BY <1>1, <1>2

\* LOGIN is decided when the row is read; CHILD_MEAL looks the child up.
LEMMA GetUserReads ==
  ASSUME NEW h \in Handlers, ServerInv, get_user(h)
  PROVE  Service!Login(h) \/ Service!LookUp(h) \/ Service!ChildMeal(h)
<1> USE ServiceAssumption DEF ServerInv, TypeOK, PathsFollowCommands, CallersOf
<1>1. CASE Cmd(h) = "LOGIN"
  <2>1. UNCHANGED VouchedBar
    BY <1>1 DEF VouchedBar, get_user
  <2>2. UNCHANGED SeenBar
    BY <1>1 DEF SeenBar, get_user
  <2> QED
    BY <1>1, <2>1, <2>2 DEF get_user, Service!Login, VouchedBar, SeenBar
<1>2. CASE Cmd(h) = "CHILD_MEAL" /\ pc'[h] = "get_meal"
  <2>1. UNCHANGED VouchedBar
    BY <1>2 DEF VouchedBar, get_user
  <2>2. SeenBar' = [SeenBar EXCEPT ![h] = users[req[h].child].place]
    BY <1>2 DEF SeenBar, get_user
  <2> QED
    BY <1>2, <2>1, <2>2 DEF get_user, Service!LookUp, VouchedBar, SeenBar
<1>3. CASE Cmd(h) = "CHILD_MEAL" /\ pc'[h] # "get_meal"
  <2>1. Respond(h, Plain("CHILD_USER_NOT_FOUND")) /\ Misses(Exists(req[h].child))
    BY <1>3 DEF get_user
  <2>2. UNCHANGED VouchedBar /\ UNCHANGED SeenBar
    BY <1>3, <2>1 DEF VouchedBar, SeenBar, get_user
  <2> QED
    BY <1>3, <2>1, <2>2 DEF get_user, Service!ChildMeal, VouchedBar, SeenBar
<1> QED
  BY <1>1, <1>2, <1>3 DEF get_user

\* A taken id, or a child that does not exist, decides the request.
LEMMA IsUserExistsSays ==
  ASSUME NEW h \in Handlers, ServerInv, is_user_exists(h)
  PROVE  Service!Register(h) \/ Service!AddChild(h) \/ UNCHANGED Service!vars
BY ServiceAssumption
  DEF ServerInv, TypeOK, PathsFollowCommands, CallersOf, is_user_exists, Service!Register,
      Service!AddChild

\* The INSERT decides the registration; when it fails the request just ends.
LEMMA AddUserSays ==
  ASSUME NEW h \in Handlers, ServerInv, add_user(h)
  PROVE  Service!Register(h) \/ Service!GiveUp(h)
<1> USE ServiceAssumption DEF ServerInv, TypeOK, PathsFollowCommands, CallersOf, add_user
<1>1. CASE Respond(h, Plain("REGISTER_OK"))
  <2>1. UNCHANGED VouchedBar /\ UNCHANGED SeenBar
    BY <1>1 DEF VouchedBar, SeenBar
  <2>2. place[h] \in Places
    OBVIOUS
  <2>3. Service!Say(h, Plain("REGISTER_OK"))
    BY <1>1, <2>1 DEF VouchedBar, SeenBar
  <2>4. Service!Waits(h, {"REGISTER_GENERAL"})
    OBVIOUS
  <2>5. /\ ~Exists(req[h].id)
        /\ users' = [users EXCEPT ![req[h].id] = [pw |-> req[h].pw, place |-> place[h]]]
        /\ UNCHANGED children
    BY <1>1
  <2> HIDE DEF Service!Say, Service!Waits, add_user
  <2> QED
    BY <2>2, <2>3, <2>4, <2>5 DEF Service!Register
<1>2. CASE Finish(h)
  <2>1. VouchedBar' = [VouchedBar EXCEPT ![h] = FALSE]
    BY <1>2 DEF VouchedBar
  <2>2. SeenBar' = [SeenBar EXCEPT ![h] = NoPlace]
    BY <1>2 DEF SeenBar
  <2> QED
    BY <1>2, <2>1, <2>2 DEF Service!GiveUp, VouchedBar, SeenBar
<1> QED
  BY <1>1, <1>2

\* The UPDATE statement decides the request.
LEMMA UpdateUserSays ==
  ASSUME NEW h \in Handlers, ServerInv, update_user(h)
  PROVE  Service!Update(h)
BY ServiceAssumption
  DEF ServerInv, TypeOK, PathsFollowCommands, CallersOf, update_user, Service!Update

\* The DELETE statement decides the request.
LEMMA DeleteUserSays ==
  ASSUME NEW h \in Handlers, ServerInv, delete_user(h)
  PROVE  Service!Delete(h)
<1> USE ServiceAssumption DEF ServerInv, TypeOK, PathsFollowCommands, CallersOf, delete_user
<1>1. Service!Waits(h, {"DELETE"})
  OBVIOUS
<1>2. \A k \in Handlers : k # h => pc'[k] = pc[k] /\ reply'[k] = reply[k]
  OBVIOUS
<1>3. UNCHANGED <<req, place>> /\ ~Vouched(h) /\ ~Vouched(h)'
  OBVIOUS
<1>4. UNCHANGED VouchedBar
  BY <1>2, <1>3 DEF VouchedBar
<1>5. UNCHANGED SeenBar
  BY <1>3 DEF SeenBar
<1> QED
  BY <1>1, <1>4, <1>5 DEF Service!Delete, VouchedBar, SeenBar

\* GET_CHILDREN is never answered with a list.
LEMMA GetChildrenSays ==
  ASSUME NEW h \in Handlers, ServerInv, get_children_db(h)
  PROVE  Service!Other(h)
BY ServiceAssumption
  DEF ServerInv, TypeOK, PathsFollowCommands, CallersOf, get_children_db, Service!Other

\* The second look at the child decides only when it fails.
LEMMA AddChildChecks ==
  ASSUME NEW h \in Handlers, ServerInv, db_add_child(h)
  PROVE  Service!AddChild(h) \/ UNCHANGED Service!vars
BY ServiceAssumption
  DEF ServerInv, TypeOK, PathsFollowCommands, CallersOf, db_add_child, Service!AddChild

\* The INSERT of the link decides ADD_CHILD.
LEMMA InsertChildSays ==
  ASSUME NEW h \in Handlers, ServerInv, insert_child(h)
  PROVE  Service!AddChild(h)
BY ServiceAssumption
  DEF ServerInv, TypeOK, PathsFollowCommands, CallersOf, insert_child, Service!AddChild

\* The link is there, at this instant, or the request is refused.
LEMMA IsRegisteredVouches ==
  ASSUME NEW h \in Handlers, ServerInv, is_child_registered(h)
  PROVE  \/ Service!Vouch(h) \/ Service!DelChild(h) \/ Service!ChildMeal(h)
         \/ UNCHANGED Service!vars
<1> USE ServiceAssumption
    DEF ServerInv, TypeOK, PathsFollowCommands, CallersOf
<1>1. UNCHANGED SeenBar
  BY DEF SeenBar, is_child_registered
<1>2. CASE Cmd(h) = "DEL_CHILD"
  <2>1. UNCHANGED VouchedBar
    BY <1>2 DEF VouchedBar, is_child_registered
  <2> QED
    BY <1>1, <1>2, <2>1 DEF is_child_registered, Service!DelChild, VouchedBar, SeenBar
<1>3. CASE Cmd(h) = "CHILD_MULTI_MEAL"
  <2>1. UNCHANGED VouchedBar
    BY <1>3 DEF VouchedBar, is_child_registered
  <2> QED
    BY <1>1, <1>3, <2>1 DEF is_child_registered, Service!ChildMeal, VouchedBar, SeenBar
<1>4. CASE Cmd(h) = "CHILD_MEAL" /\ Goto(h, "get_user")
  <2>1. VouchedBar' = [VouchedBar EXCEPT ![h] = TRUE]
    BY <1>4 DEF VouchedBar, is_child_registered
  <2>2. Linked(req[h].child, req[h].id)
    BY <1>4 DEF is_child_registered
  <2> QED
    BY <1>1, <1>4, <2>1, <2>2 DEF is_child_registered, Service!Vouch, VouchedBar, SeenBar
<1>5. CASE Cmd(h) = "CHILD_MEAL" /\ Respond(h, Plain("INVALID_CHILD_ID"))
  <2>1. UNCHANGED VouchedBar
    BY <1>5 DEF VouchedBar, is_child_registered
  <2>2. Misses(Linked(req[h].child, req[h].id))
    BY <1>5 DEF is_child_registered
  <2> QED
    BY <1>1, <1>5, <2>1, <2>2 DEF is_child_registered, Service!ChildMeal, VouchedBar, SeenBar
<1> QED
  BY <1>2, <1>3, <1>4, <1>5 DEF is_child_registered

\* The DELETE of the link decides DEL_CHILD.
LEMMA DeleteChildSays ==
  ASSUME NEW h \in Handlers, ServerInv, db_delete_child(h)
  PROVE  Service!DelChild(h)
BY ServiceAssumption
  DEF ServerInv, TypeOK, PathsFollowCommands, CallersOf, db_delete_child, Service!DelChild

\* The answer to CHILD_MEAL is about the place that was looked up.
LEMMA GetMealSays ==
  ASSUME NEW h \in Handlers, ServerInv, get_meal(h)
  PROVE  Service!ChildMeal(h)
BY ServiceAssumption
  DEF ServerInv, TypeOK, PathsFollowCommands, CallersOf, get_meal, Service!ChildMeal

\* A school that is not found decides; one that is found does not.
LEMMA ResolveSays ==
  ASSUME NEW h \in Handlers, ServerInv, resolve_school_code(h)
  PROVE  \/ Service!Register(h) \/ Service!Update(h) \/ Service!Other(h)
         \/ UNCHANGED Service!vars
BY ServiceAssumption
  DEF ServerInv, TypeOK, PathsFollowCommands, CallersOf, resolve_school_code, Service!Register,
      Service!Update, Service!Other

\* NEIS decides the requests on meals.
LEMMA NeisSays ==
  ASSUME NEW h \in Handlers, ServerInv, neis(h)
  PROVE  Service!Other(h)
<1> USE ServiceAssumption DEF ServerInv, TypeOK, PathsFollowCommands, CallersOf, neis
<1>1. Service!Waits(h, {"GET_MEAL", "GET_MULTI_MEAL"})
  OBVIOUS
<1>2. PICK c \in {"MEAL_OK", "MEAL_NOT_FOUND"} : Respond(h, Plain(c))
  OBVIOUS
<1>3. Service!Say(h, Plain(c))
  BY <1>2
<1> QED
  BY <1>1, <1>2, <1>3 DEF Service!Other

\* Both calls of send_response deliver the answer.
LEMMA SendAnswers ==
  ASSUME NEW h \in Handlers, ServerInv, send_response(h) \/ inner_send_response(h)
  PROVE  Service!Answer(h)
<1> USE ServiceAssumption DEF ServerInv, TypeOK, PathsFollowCommands, CallersOf
<1>1. CASE send_response(h)
  <2>1. VouchedBar' = [VouchedBar EXCEPT ![h] = FALSE]
    BY <1>1 DEF VouchedBar, send_response
  <2>2. SeenBar' = [SeenBar EXCEPT ![h] = NoPlace]
    BY <1>1 DEF SeenBar, send_response
  <2> QED
    BY <1>1, <2>1, <2>2 DEF send_response, Service!Answer, VouchedBar, SeenBar
<1>2. CASE inner_send_response(h)
  <2>1. VouchedBar' = [VouchedBar EXCEPT ![h] = FALSE]
    BY <1>2 DEF VouchedBar, inner_send_response
  <2>2. SeenBar' = [SeenBar EXCEPT ![h] = NoPlace]
    BY <1>2 DEF SeenBar, inner_send_response
  <2> QED
    BY <1>2, <2>1, <2>2 DEF inner_send_response, Service!Answer, VouchedBar, SeenBar
<1> QED
  BY <1>1, <1>2

\* Every step of the server is a step of the service or changes nothing of it.
LEMMA RefinementNext == ServerInv /\ [Next]_vars => [Service!Next]_(Service!vars)
<1> SUFFICES ASSUME ServerInv, [Next]_vars PROVE [Service!Next]_(Service!vars)
  OBVIOUS
<1>1. CASE Restart
  BY <1>1 DEF Restart, Service!Restart, Service!Next
<1>2. ASSUME NEW h \in Handlers, HandlerStep(h) PROVE [Service!Next]_(Service!vars)
  <2> HIDE DEF Service!vars
  <2> QED
    BY <1>2, ReceiveAsks, RefuseSays, VerifyVouches, GetUserReads, IsUserExistsSays, AddUserSays,
       UpdateUserSays, DeleteUserSays, GetChildrenSays, AddChildChecks, InsertChildSays,
       IsRegisteredVouches, DeleteChildSays, GetMealSays, ResolveSays, NeisSays, SendAnswers
    DEF HandlerStep, Service!Next, Service!Decide
<1>3. CASE UNCHANGED vars
  BY <1>3 DEF vars
<1> QED
  BY <1>1, <1>2, <1>3 DEF Next

(***************************************************************************)
(* To its clients the server behaves as if requests took effect one at a   *)
(* time, although it runs a request as several SQL statements and the      *)
(* statements of all connections interleave (server.c:29-454): for ids and *)
(* passwords without quotes, which add_user pastes into its INSERT.        *)
(***************************************************************************)
THEOREM ServerImplementsService == Spec => ImplementsService
BY RefinementInit, RefinementNext, ServerInvariant, PTL
  DEF Spec, ImplementsService, Service!Spec
=============================================================================
