---------------------------- MODULE AccountData ----------------------------
(***************************************************************************)
(* The data that the account service and the server that implements it     *)
(* share: the two tables, requests and answers.                            *)
(***************************************************************************)

CONSTANTS
    Ids,        \* user ids
    Pws,        \* passwords
    Places,     \* pairs of an education office code and a school code
    Handlers,   \* connections that are served concurrently
    Requests,   \* the requests clients send
    DbFaults,   \* TRUE when a statement may fail although it could succeed
    NoUser, NoPlace, NoReq, NoReply

Users == [pw : Pws, place : Places]

Commands == {"LOGIN", "REGISTER_GENERAL", "UPDATE", "DELETE", "GET_CHILDREN",
             "ADD_CHILD", "DEL_CHILD", "CHILD_MEAL", "CHILD_MULTI_MEAL",
             "GET_MEAL", "GET_MULTI_MEAL", "INVALID"}

Codes == {"LOGIN_OK", "INVALID_LOGIN", "REGISTER_OK", "ID_DUPLICATE", "SCHOOL_NOT_FOUND",
          "UPDATE_OK", "DELETE_OK", "ADD_CHILD_OK", "CHILD_USER_NOT_FOUND",
          "DEL_CHILD_OK", "INVALID_CHILD_ID", "CHILD_MEAL_OK", "CHILD_MEAL_NOT_FOUND",
          "CHILD_MULTI_MEAL_OK", "MEAL_OK", "MEAL_NOT_FOUND", "INVALID_DATE",
          "INVALID_REQUEST", "DB_ERROR"}

\* LOGIN_OK and CHILD_MEAL_OK carry the place of an account.
Replies == [code : Codes, place : Places \cup {NoPlace}]

Plain(code) == [code |-> code, place |-> NoPlace]

\* The password is tried as given; the child is a parameter of some commands only.
ASSUME ServiceAssumption ==
    /\ Requests \subseteq [cmd : Commands, id : Ids, pw : Pws, child : Ids]
    /\ DbFaults \in BOOLEAN
    /\ NoUser \notin Users
    /\ NoPlace \notin Places
    /\ NoReq \notin Requests
    /\ NoReply \notin Replies

VARIABLES
    users,      \* the row of each id, or NoUser
    children    \* the links <<child, parent>>

Exists(i) == users[i] # NoUser

Linked(child, parent) == <<child, parent>> \in children

InUse(i) == \E j \in Ids : Linked(i, j) \/ Linked(j, i)
=============================================================================
