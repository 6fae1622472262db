--------------------------- MODULE AccountService ---------------------------
(***************************************************************************)
(* What the server promises to its clients about accounts and child links, *)
(* whatever the number of connections: a request takes effect at ONE       *)
(* instant between its arrival and its answer, the answer tells what       *)
(* happened at that instant, and a request that is refused changes         *)
(* nothing.  RequestServer, where a request is a sequence of SQL           *)
(* statements, implements this specification.                              *)
(*                                                                         *)
(* Three weaknesses of the code are part of the promise, because clients   *)
(* meet them: UPDATE and DELETE say OK for an id that has no row; LOGIN    *)
(* checks the password at one instant and reads the account at a later     *)
(* one, and so do the commands on a child after its link was checked; and  *)
(* a REGISTER_GENERAL that loses the race for its id gets no answer.       *)
(***************************************************************************)
EXTENDS AccountData

VARIABLES
    asked,      \* the request each connection waits for
    vouched,    \* whether its password, or its child's link, has been found valid
    seen,       \* the place of the child's account, once it has been looked up
    said        \* the answer that has been decided and is not yet sent

vars == <<users, children, asked, vouched, seen, said>>

TypeOK ==
    /\ users \in [Ids -> Users \cup {NoUser}]
    /\ children \subseteq Ids \X Ids
    /\ asked \in [Handlers -> Requests \cup {NoReq}]
    /\ vouched \in [Handlers -> BOOLEAN]
    /\ seen \in [Handlers -> Places \cup {NoPlace}]
    /\ said \in [Handlers -> Replies \cup {NoReply}]

Init ==
    /\ users = [i \in Ids |-> NoUser]
    /\ children = {}
    /\ asked = [h \in Handlers |-> NoReq]
    /\ vouched = [h \in Handlers |-> FALSE]
    /\ seen = [h \in Handlers |-> NoPlace]
    /\ said = [h \in Handlers |-> NoReply]

Ask(h, r) ==
    /\ asked[h] = NoReq
    /\ asked' = [asked EXCEPT ![h] = r]
    /\ UNCHANGED <<users, children, vouched, seen, said>>

-----------------------------------------------------------------------------
\* The one instant.  Say decides the answer of a request.

Waits(h, cmds) == asked[h] # NoReq /\ said[h] = NoReply /\ asked[h].cmd \in cmds

Say(h, r) ==
    /\ said' = [said EXCEPT ![h] = r]
    /\ UNCHANGED <<asked, vouched, seen>>

Vouch(h) ==
    /\ \/ /\ Waits(h, {"LOGIN"})
          /\ Exists(asked[h].id)
          /\ users[asked[h].id].pw = asked[h].pw
       \/ /\ Waits(h, {"CHILD_MEAL"})
          /\ Linked(asked[h].child, asked[h].id)
    /\ vouched' = [vouched EXCEPT ![h] = TRUE]
    /\ UNCHANGED <<users, children, asked, seen, said>>

LookUp(h) ==
    /\ Waits(h, {"CHILD_MEAL"})
    /\ vouched[h]
    /\ seen[h] = NoPlace
    /\ Exists(asked[h].child)
    /\ seen' = [seen EXCEPT ![h] = users[asked[h].child].place]
    /\ UNCHANGED <<users, children, asked, vouched, said>>

Login(h) ==
    /\ Waits(h, {"LOGIN"})
    /\ \/ /\ vouched[h]
          /\ Exists(asked[h].id)
          /\ Say(h, [code |-> "LOGIN_OK", place |-> users[asked[h].id].place])
       \/ /\ vouched[h]
          /\ ~Exists(asked[h].id) \/ DbFaults
          /\ Say(h, Plain("DB_ERROR"))
       \/ /\ Exists(asked[h].id) => users[asked[h].id].pw # asked[h].pw \/ DbFaults
          /\ Say(h, Plain("INVALID_LOGIN"))
    /\ UNCHANGED <<users, children>>

Register(h) ==
    /\ Waits(h, {"REGISTER_GENERAL"})
    /\ \/ /\ ~Exists(asked[h].id)
          /\ \E p \in Places :
               users' = [users EXCEPT ![asked[h].id] = [pw |-> asked[h].pw, place |-> p]]
          /\ Say(h, Plain("REGISTER_OK"))
       \/ /\ Exists(asked[h].id)
          /\ Say(h, Plain("ID_DUPLICATE"))
          /\ UNCHANGED users
       \/ /\ Say(h, Plain("SCHOOL_NOT_FOUND"))
          /\ UNCHANGED users
    /\ UNCHANGED children

\* The registration that finds its id taken after all ends without an answer.
GiveUp(h) ==
    /\ Waits(h, {"REGISTER_GENERAL"})
    /\ Exists(asked[h].id) \/ DbFaults
    /\ asked' = [asked EXCEPT ![h] = NoReq]
    /\ vouched' = [vouched EXCEPT ![h] = FALSE]
    /\ seen' = [seen EXCEPT ![h] = NoPlace]
    /\ UNCHANGED <<users, children, said>>

Update(h) ==
    /\ Waits(h, {"UPDATE"})
    /\ \/ /\ \E p \in Places :
               users' = IF Exists(asked[h].id)
                          THEN [users EXCEPT ![asked[h].id] = [pw |-> asked[h].pw, place |-> p]]
                          ELSE users
          /\ Say(h, Plain("UPDATE_OK"))
       \/ /\ Say(h, Plain("SCHOOL_NOT_FOUND"))
          /\ UNCHANGED users
       \/ /\ DbFaults
          /\ Say(h, Plain("DB_ERROR"))
          /\ UNCHANGED users
    /\ UNCHANGED children

Delete(h) ==
    /\ Waits(h, {"DELETE"})
    /\ \/ /\ ~InUse(asked[h].id)
          /\ users' = [users EXCEPT ![asked[h].id] = NoUser]
          /\ Say(h, Plain("DELETE_OK"))
       \/ /\ InUse(asked[h].id) \/ DbFaults
          /\ Say(h, Plain("DB_ERROR"))
          /\ UNCHANGED users
    /\ UNCHANGED children

AddChild(h) ==
    /\ Waits(h, {"ADD_CHILD"})
    /\ \/ /\ Exists(asked[h].child) /\ Exists(asked[h].id)
          /\ ~Linked(asked[h].child, asked[h].id)
          /\ children' = children \cup {<<asked[h].child, asked[h].id>>}
          /\ Say(h, Plain("ADD_CHILD_OK"))
       \/ /\ ~Exists(asked[h].child) \/ DbFaults
          /\ Say(h, Plain("CHILD_USER_NOT_FOUND"))
          /\ UNCHANGED children
       \/ /\ \/ ~Exists(asked[h].child) \/ ~Exists(asked[h].id)
             \/ Linked(asked[h].child, asked[h].id)
             \/ DbFaults
          /\ Say(h, Plain("DB_ERROR"))
          /\ UNCHANGED children
    /\ UNCHANGED users

DelChild(h) ==
    /\ Waits(h, {"DEL_CHILD"})
    /\ \/ /\ children' = children \ {<<asked[h].child, asked[h].id>>}
          /\ Say(h, Plain("DEL_CHILD_OK"))
       \/ /\ ~Linked(asked[h].child, asked[h].id) \/ DbFaults
          /\ Say(h, Plain("INVALID_CHILD_ID"))
          /\ UNCHANGED children
       \/ /\ DbFaults
          /\ Say(h, Plain("DB_ERROR"))
          /\ UNCHANGED children
    /\ UNCHANGED users

ChildMeal(h) ==
    /\ Waits(h, {"CHILD_MEAL", "CHILD_MULTI_MEAL"})
    /\ \/ /\ ~Linked(asked[h].child, asked[h].id) \/ DbFaults
          /\ Say(h, Plain("INVALID_CHILD_ID"))
       \/ /\ asked[h].cmd = "CHILD_MEAL" /\ seen[h] # NoPlace
          /\ \/ Say(h, [code |-> "CHILD_MEAL_OK", place |-> seen[h]])
             \/ Say(h, Plain("CHILD_MEAL_NOT_FOUND"))
       \/ /\ asked[h].cmd = "CHILD_MEAL" /\ vouched[h]
          /\ ~Exists(asked[h].child) \/ DbFaults
          /\ Say(h, Plain("CHILD_USER_NOT_FOUND"))
       \/ /\ asked[h].cmd = "CHILD_MULTI_MEAL"
          /\ Linked(asked[h].child, asked[h].id)
          /\ \/ Say(h, Plain("CHILD_MULTI_MEAL_OK"))
             \/ Say(h, Plain("INVALID_DATE"))
    /\ UNCHANGED <<users, children>>

\* Requests that have nothing to do with the accounts.
Other(h) ==
    /\ \/ Waits(h, {"GET_CHILDREN"}) /\ Say(h, Plain("DB_ERROR"))
       \/ Waits(h, {"INVALID"}) /\ Say(h, Plain("INVALID_REQUEST"))
       \/ /\ Waits(h, {"GET_MEAL", "GET_MULTI_MEAL"})
          /\ \E c \in {"MEAL_OK", "MEAL_NOT_FOUND", "SCHOOL_NOT_FOUND"} : Say(h, Plain(c))
       \/ Waits(h, {"GET_MULTI_MEAL"}) /\ Say(h, Plain("INVALID_DATE"))
    /\ UNCHANGED <<users, children>>

-----------------------------------------------------------------------------

Answer(h) ==
    /\ said[h] # NoReply
    /\ asked' = [asked EXCEPT ![h] = NoReq]
    /\ vouched' = [vouched EXCEPT ![h] = FALSE]
    /\ seen' = [seen EXCEPT ![h] = NoPlace]
    /\ said' = [said EXCEPT ![h] = NoReply]
    /\ UNCHANGED <<users, children>>

\* The server ends and starts again: answers are lost, the accounts are not.
Restart ==
    /\ asked' = [h \in Handlers |-> NoReq]
    /\ vouched' = [h \in Handlers |-> FALSE]
    /\ seen' = [h \in Handlers |-> NoPlace]
    /\ said' = [h \in Handlers |-> NoReply]
    /\ UNCHANGED <<users, children>>

Decide(h) ==
    \/ Login(h) \/ Register(h) \/ GiveUp(h) \/ Update(h) \/ Delete(h)
    \/ AddChild(h) \/ DelChild(h) \/ ChildMeal(h) \/ Other(h)

Next ==
    \/ \E h \in Handlers :
         \/ \E r \in Requests : Ask(h, r)
         \/ Vouch(h) \/ LookUp(h) \/ Decide(h) \/ Answer(h)
    \/ Restart

Spec == Init /\ [][Next]_vars
=============================================================================
