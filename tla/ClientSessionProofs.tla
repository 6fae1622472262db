------------------------- MODULE ClientSessionProofs -------------------------
(***************************************************************************)
(* Proofs about ClientSession, for every number of clients, accounts and   *)
(* messages under way: the types whether or not answers are late or split, *)
(* and, when they are neither, that client and server stay in step, that a *)
(* session is a granted one, and that nothing is left when there is none.  *)
(***************************************************************************)
EXTENDS ClientSession, SequenceTheorems, TLAPS

-----------------------------------------------------------------------------
\* The server's side of the types.

\* The answer that the server has decided belongs to the request it was asked.
SaidOK ==
    \A c \in Handlers : said[c] # NoReply =>
        /\ asked[c] # NoReq
        /\ said[c].code = "LOGIN_OK" => said[c].place \in Places
        /\ asked[c].cmd = "LOGIN" => said[c].code \in {"LOGIN_OK", "DB_ERROR", "INVALID_LOGIN"}
        /\ asked[c].cmd = "INVALID" => said[c].code = "INVALID_REQUEST"

ServerOK == Server!TypeOK /\ SaidOK

\* The service's names for the data are this module's.
LEMMA SameData ==
  /\ Server!Replies = Replies
  /\ Server!Users = Users
  /\ \A i : Server!Exists(i) <=> Exists(i)
  /\ \A code : Server!Plain(code) = Plain(code)
BY DEF Server!Replies, Replies, Server!Users, Users, Server!Codes, Codes, Server!Exists,
       Exists, Server!Plain, Plain

\* An answer without data is an answer.
LEMMA PlainReplies ==
  \A code \in Codes : Plain(code) \in Replies /\ Plain(code).code = code
                      /\ Plain(code) # NoReply
BY ServiceAssumption DEF Plain, Replies

\* Deciding an answer keeps the types if the answer fits the request.
LEMMA SayTypes ==
  ASSUME NEW c \in Handlers, NEW r \in Replies, ServerOK,
         asked[c] # NoReq,
         r.code = "LOGIN_OK" => r.place \in Places,
         asked[c].cmd = "LOGIN" => r.code \in {"LOGIN_OK", "DB_ERROR", "INVALID_LOGIN"},
         asked[c].cmd = "INVALID" => r.code = "INVALID_REQUEST",
         Server!Say(c, r),
         users' \in [Ids -> Users \cup {NoUser}],
         UNCHANGED children
  PROVE  ServerOK'
BY SameData DEF ServerOK, SaidOK, Server!TypeOK, Server!Say

\* Whatever a handler of the server does with a request keeps the types.
LEMMA WorkTypes ==
  ASSUME NEW c \in Handlers, ServerOK, Work(c)
  PROVE  ServerOK'
<1> DEFINE r == asked[c]
<1>1. CASE Server!Vouch(c)
  BY SameData, <1>1 DEF Server!Vouch, ServerOK, SaidOK, Server!TypeOK
<1>2. CASE Server!GiveUp(c)
  BY SameData, <1>2 DEF Server!GiveUp, Server!Waits, ServerOK, SaidOK, Server!TypeOK
<1>3. CASE Server!Login(c)
  <2>1. r # NoReq /\ r \in Requests /\ r.id \in Ids /\ r.cmd = "LOGIN"
    BY SameData, <1>3, ServiceAssumption DEF Server!Login, Server!Waits, ServerOK, Server!TypeOK
  <2>2. users' \in [Ids -> Users \cup {NoUser}] /\ UNCHANGED children
    BY SameData, <1>3 DEF Server!Login, ServerOK, Server!TypeOK
  <2>3. CASE /\ Exists(r.id)
             /\ Server!Say(c, [code |-> "LOGIN_OK", place |-> users[r.id].place])
    <3>1. users[r.id].place \in Places
      BY SameData, <2>1, <2>3 DEF Exists, Users, ServerOK, Server!TypeOK
    <3>2. [code |-> "LOGIN_OK", place |-> users[r.id].place] \in Replies
      BY <3>1 DEF Replies, Codes
    <3> QED
      BY <2>1, <2>2, <2>3, <3>1, <3>2, SayTypes
  <2>4. ASSUME NEW code \in {"DB_ERROR", "INVALID_LOGIN"}, Server!Say(c, Plain(code))
        PROVE  ServerOK'
    <3>1. code \in Codes /\ code # "LOGIN_OK"
      BY DEF Codes
    <3> QED
      BY <2>1, <2>2, <2>4, <3>1, PlainReplies, SayTypes
  <2> QED
    BY SameData, <1>3, <2>3, <2>4 DEF Server!Login
<1>4. ASSUME r # NoReq, r.cmd # "LOGIN",
             users' \in [Ids -> Users \cup {NoUser}], UNCHANGED children,
             NEW code \in Codes \ {"LOGIN_OK"}, Server!Say(c, Plain(code)),
             r.cmd = "INVALID" => code = "INVALID_REQUEST"
      PROVE  ServerOK'
  BY <1>4, PlainReplies, SayTypes
<1>5. CASE Server!Register(c)
  <2>1. r # NoReq /\ r \in Requests /\ r.pw \in Pws /\ r.cmd \notin {"LOGIN", "INVALID"}
    BY SameData, <1>5, ServiceAssumption DEF Server!Register, Server!Waits, ServerOK, Server!TypeOK
  <2>2. users' \in [Ids -> Users \cup {NoUser}] /\ UNCHANGED children
    <3>1. users \in [Ids -> Users \cup {NoUser}]
      BY SameData DEF ServerOK, Server!TypeOK
    <3>2. \A p \in Places : [pw |-> r.pw, place |-> p] \in Users
      BY <2>1 DEF Users
    <3>3. \/ UNCHANGED users
          \/ \E p \in Places : users' = [users EXCEPT ![r.id] = [pw |-> r.pw, place |-> p]]
      BY <1>5 DEF Server!Register
    <3> QED
      BY <1>5, <3>1, <3>2, <3>3 DEF Server!Register
  <2>3. \E code \in {"REGISTER_OK", "ID_DUPLICATE", "SCHOOL_NOT_FOUND"} :
          Server!Say(c, Plain(code))
    BY SameData, <1>5 DEF Server!Register
  <2> QED
    BY <1>4, <2>1, <2>2, <2>3 DEF Codes
<1>6. CASE Server!Update(c)
  <2>1. r # NoReq /\ r \in Requests /\ r.pw \in Pws /\ r.cmd \notin {"LOGIN", "INVALID"}
    BY SameData, <1>6, ServiceAssumption DEF Server!Update, Server!Waits, ServerOK, Server!TypeOK
  <2>2. users' \in [Ids -> Users \cup {NoUser}] /\ UNCHANGED children
    <3>1. users \in [Ids -> Users \cup {NoUser}]
      BY SameData DEF ServerOK, Server!TypeOK
    <3>2. \A p \in Places : [pw |-> r.pw, place |-> p] \in Users
      BY <2>1 DEF Users
    <3>3. \/ UNCHANGED users
          \/ \E p \in Places : users' = [users EXCEPT ![r.id] = [pw |-> r.pw, place |-> p]]
      BY <1>6 DEF Server!Update
    <3> QED
      BY <1>6, <3>1, <3>2, <3>3 DEF Server!Update
  <2>3. \E code \in {"UPDATE_OK", "SCHOOL_NOT_FOUND", "DB_ERROR"} :
          Server!Say(c, Plain(code))
    BY SameData, <1>6 DEF Server!Update
  <2> QED
    BY <1>4, <2>1, <2>2, <2>3 DEF Codes
<1>7. CASE Server!Delete(c)
  <2>1. r # NoReq /\ r.cmd \notin {"LOGIN", "INVALID"}
    BY SameData, <1>7 DEF Server!Delete, Server!Waits
  <2>2. users' \in [Ids -> Users \cup {NoUser}] /\ UNCHANGED children
    BY SameData, <1>7 DEF Server!Delete, ServerOK, Server!TypeOK
  <2>3. \E code \in {"DELETE_OK", "DB_ERROR"} : Server!Say(c, Plain(code))
    BY SameData, <1>7 DEF Server!Delete
  <2> QED
    BY <1>4, <2>1, <2>2, <2>3 DEF Codes
<1>8. CASE Server!Other(c)
  <2>1. r # NoReq /\ r.cmd # "LOGIN"
    BY SameData, <1>8 DEF Server!Other, Server!Waits
  <2>2. users' \in [Ids -> Users \cup {NoUser}] /\ UNCHANGED children
    BY SameData, <1>8 DEF Server!Other, ServerOK, Server!TypeOK
  <2>3. \E code \in {"DB_ERROR", "INVALID_REQUEST", "MEAL_OK", "MEAL_NOT_FOUND",
                     "SCHOOL_NOT_FOUND", "INVALID_DATE"} :
          /\ Server!Say(c, Plain(code))
          /\ r.cmd = "INVALID" => code = "INVALID_REQUEST"
    BY SameData, <1>8 DEF Server!Other, Server!Waits
  <2> QED
    BY <1>4, <2>1, <2>2, <2>3 DEF Codes
<1> QED
  BY <1>1, <1>2, <1>3, <1>5, <1>6, <1>7, <1>8 DEF Work

-----------------------------------------------------------------------------
\* Types.

\* What TypeOK says beyond the server's variables.
ClientOK ==
    /\ stage \in [Handlers -> {"off", "menu", "wait", "more"}]
    /\ linked \in [Handlers -> BOOLEAN]
    /\ user \in [Handlers -> Ids \cup {NoId}]
    /\ school \in [Handlers -> Places \cup {NoPlace, GluedPlace}]
    /\ request \in [Handlers -> Requests \cup {NoReq}]
    /\ login \in [Handlers -> Ids \cup {NoId, NoLogin}]
    /\ got \in [Handlers -> Seq(Segments)]
    /\ \A c \in Handlers :
         /\ request[c] # NoReq <=> stage[c] \in {"wait", "more"}
         /\ login[c] # NoLogin => request[c] # NoReq
         /\ got[c] # <<>> <=> stage[c] = "more"

LinkOK ==
    /\ up \in [Handlers -> Seq(Requests)]
    /\ down \in [Handlers -> Seq(Segments)]
    /\ granted \in [Handlers -> SUBSET (Ids \X Places)]

\* TypeOK with the answers that the server has decided.
TypeInv == ServerOK /\ ClientOK /\ LinkOK

\* The client's steps leave the server's variables alone.
LEMMA ServerSame ==
  ASSUME ServerOK, UNCHANGED serverVars
  PROVE  ServerOK'
BY DEF ServerOK, SaidOK, Server!TypeOK, serverVars

\* The school that a handler stores is one of the answer, its own, or what two
\* answers that ran together make of one.
LEMMA SchoolTypes ==
  ASSUME NEW c \in Handlers, NEW text \in Seq(Segments), text # <<>>, ClientOK,
         NEW p \in SchoolIn(c, text)
  PROVE  p \in Places \cup {NoPlace, GluedPlace}
<1>1. text[1] \in Segments
  <2>1. 1 \in 1 .. Len(text)
    BY EmptySeq, LenProperties
  <2> QED
    BY <2>1, ElementOfSeq
<1>2. text[1].rep.place \in Places \cup {NoPlace}
  BY <1>1 DEF Segments, Replies
<1> QED
  BY <1>2 DEF SchoolIn, ClientOK

\* What a handler of the client remembers of an answer has its type.
LEMMA HandleTypes ==
  ASSUME NEW c \in Handlers, NEW text \in Seq(Segments), text # <<>>, ClientOK,
         stage[c] \in {"wait", "more"}, Handle(c, text), UNCHANGED linked
  PROVE  ClientOK'
<1>1. user' \in [Handlers -> Ids \cup {NoId}]
  BY DEF Handle, HandleLogin, HandleOther, ClientOK
<1>2. school' \in [Handlers -> Places \cup {NoPlace, GluedPlace}]
  <2>1. \/ UNCHANGED school
        \/ \E p \in SchoolIn(c, text) : school' = [school EXCEPT ![c] = p]
    BY DEF Handle, HandleLogin, HandleOther
  <2> QED
    <3>1. ASSUME NEW p \in SchoolIn(c, text), school' = [school EXCEPT ![c] = p]
          PROVE  school' \in [Handlers -> Places \cup {NoPlace, GluedPlace}]
      <4>1. p \in Places \cup {NoPlace, GluedPlace}
        BY SchoolTypes
      <4> QED
        BY <3>1, <4>1 DEF ClientOK
    <3> QED
      BY <2>1, <3>1 DEF ClientOK
<1>3. stage' = [stage EXCEPT ![c] = "menu"] /\ request' = [request EXCEPT ![c] = NoReq]
      /\ login' = [login EXCEPT ![c] = NoLogin] /\ got' = [got EXCEPT ![c] = <<>>]
  BY DEF Handle
<1>4. <<>> \in Seq(Segments)
  BY EmptySeq
<1> QED
  BY <1>1, <1>2, <1>3, <1>4 DEF ClientOK

\* What recv takes and leaves is part of what was under way.
LEMMA PartTypes ==
  ASSUME NEW S, NEW s \in Seq(S), NEW n \in 1 .. Len(s)
  PROVE  /\ SubSeq(s, 1, n) \in Seq(S) /\ SubSeq(s, 1, n) # <<>>
         /\ SubSeq(s, n + 1, Len(s)) \in Seq(S)
<1>1. Len(s) \in Nat
  BY LenProperties
<1>2. \A k \in 1 .. Len(s) : s[k] \in S
  BY ElementOfSeq
<1>3. SubSeq(s, 1, n) \in Seq(S) /\ Len(SubSeq(s, 1, n)) = n
  BY <1>1, <1>2, SubSeqProperties
<1>4. SubSeq(s, n + 1, Len(s)) \in Seq(S)
  BY <1>1, <1>2, SubSeqProperties
<1>5. Len(<<>>) = 0
  BY EmptySeq
<1> QED
  BY <1>3, <1>4, <1>5

\* Types are kept when a client reads, or gives up.
LEMMA ReadTypes ==
  ASSUME NEW c \in Handlers, TypeInv, ClientReads(c)
  PROVE  TypeInv'
<1> ServerOK /\ ClientOK /\ LinkOK
  BY DEF TypeInv
<1>1. ServerOK'
  BY ServerSame DEF ClientReads, Receive, ReceiveEnd, Timeout
<1>2. CASE Receive(c)
  <2>1. PICK n \in 1 .. Len(down[c]) :
          LET text == got[c] \o SubSeq(down[c], 1, n) IN
          /\ down' = [down EXCEPT ![c] = SubSeq(@, n + 1, Len(@))]
          /\ IF HasDelimiter(text)
               THEN Handle(c, text)
               ELSE /\ stage' = [stage EXCEPT ![c] = "more"]
                    /\ got' = [got EXCEPT ![c] = text]
                    /\ UNCHANGED <<user, school, request, login>>
    BY <1>2 DEF Receive
  <2> DEFINE text == got[c] \o SubSeq(down[c], 1, n)
  <2>2. /\ SubSeq(down[c], 1, n) \in Seq(Segments) /\ SubSeq(down[c], 1, n) # <<>>
        /\ SubSeq(down[c], n + 1, Len(down[c])) \in Seq(Segments)
    BY PartTypes DEF LinkOK
  <2>3. text \in Seq(Segments) /\ text # <<>>
    <3>1. got[c] \in Seq(Segments)
      BY DEF ClientOK
    <3>2. text \in Seq(Segments)
      BY <2>2, <3>1, ConcatProperties
    <3>3. text = <<>> <=> got[c] = <<>> /\ SubSeq(down[c], 1, n) = <<>>
      <4> HIDE DEF text
      <4>1. \A s, t \in Seq(Segments) : s \o t = <<>> <=> s = <<>> /\ t = <<>>
        BY ConcatEqualIffEmpty
      <4> QED
        BY <2>2, <3>1, <4>1 DEF text
    <3> QED
      BY <2>2, <3>2, <3>3
  <2>4. LinkOK'
    BY <1>2, <2>1, <2>2 DEF Receive, LinkOK
  <2>5. stage[c] \in {"wait", "more"} /\ UNCHANGED linked
    BY <1>2 DEF Receive
  <2>6. CASE Handle(c, text)
    BY <2>3, <2>5, <2>6, HandleTypes, <1>1, <2>4 DEF TypeInv
  <2>7. CASE /\ stage' = [stage EXCEPT ![c] = "more"]
             /\ got' = [got EXCEPT ![c] = text]
             /\ UNCHANGED <<user, school, request, login>>
    <3>1. ClientOK'
      BY <2>3, <2>5, <2>7 DEF ClientOK
    <3> QED
      BY <3>1, <1>1, <2>4 DEF TypeInv
  <2> QED
    BY <2>1, <2>6, <2>7
<1>3. CASE ReceiveEnd(c)
  <2>1. LinkOK' /\ UNCHANGED linked
    BY <1>3 DEF ReceiveEnd, LinkOK, linkVars
  <2>2. stage[c] \in {"wait", "more"} /\ got[c] \in Seq(Segments)
    BY <1>3 DEF ReceiveEnd, ClientOK
  <2>3. CASE got[c] # <<>>
    BY <1>3, <2>1, <2>2, <2>3, HandleTypes, <1>1 DEF TypeInv, ReceiveEnd
  <2>4. CASE got[c] = <<>>
    <3>1. ClientOK'
      BY <1>3, <2>1, <2>4 DEF ReceiveEnd, ClientOK
    <3> QED
      BY <3>1, <1>1, <2>1 DEF TypeInv
  <2> QED
    BY <2>3, <2>4
<1>4. CASE Timeout(c)
  <2>1. LinkOK' /\ ClientOK'
    BY <1>4 DEF Timeout, LinkOK, ClientOK, linkVars
  <2> QED
    BY <2>1, <1>1 DEF TypeInv
<1> QED
  BY <1>2, <1>3, <1>4 DEF ClientReads

\* Types are kept at the menus.
LEMMA MenuTypes ==
  ASSUME NEW c \in Handlers, TypeInv,
         Start(c) \/ Logout(c) \/ Quit(c) \/ \E r \in Requests : Send(c, r)
  PROVE  TypeInv'
<1> ServerOK /\ ClientOK /\ LinkOK
  BY DEF TypeInv
<1>1. ServerOK'
  BY ServerSame DEF Start, Logout, Quit, Send
<1>2. <<>> \in Seq(Requests) /\ <<>> \in Seq(Segments)
  BY EmptySeq
<1>3. CASE Start(c)
  <2>1. ClientOK' /\ LinkOK'
    BY <1>3 DEF Start, ClientOK, LinkOK
  <2> QED
    BY <1>1, <2>1 DEF TypeInv
<1>4. CASE Logout(c)
  <2>1. ClientOK' /\ LinkOK'
    BY <1>4 DEF Logout, ClientOK, LinkOK, linkVars
  <2> QED
    BY <1>1, <2>1 DEF TypeInv
<1>5. CASE Quit(c)
  <2>1. ClientOK'
    BY <1>5 DEF Quit, ClientOK
  <2>2. LinkOK'
    BY <1>2, <1>5 DEF Quit, LinkOK
  <2> QED
    BY <1>1, <2>1, <2>2 DEF TypeInv
<1>6. ASSUME NEW r \in Requests, Send(c, r)
      PROVE  TypeInv'
  <2>1. Append(up[c], r) \in Seq(Requests)
    BY AppendProperties DEF LinkOK
  <2>2. LinkOK'
    BY <1>6, <2>1 DEF Send, LinkOK
  <2>3. ClientOK'
    <3>1. PICK i \in LoginsOf(c, r) : login' = [login EXCEPT ![c] = i]
      BY <1>6 DEF Send
    <3>2. i \in Ids \cup {NoId, NoLogin}
      BY ServiceAssumption DEF LoginsOf
    <3> QED
      BY <1>6, <3>1, <3>2, ServiceAssumption DEF Send, ClientOK
  <2> QED
    BY <1>1, <2>2, <2>3 DEF TypeInv
<1> QED
  BY <1>3, <1>4, <1>5, <1>6

\* Types are kept by a handler of the server, from recv to the answer.
LEMMA ServerTypes ==
  ASSUME NEW c \in Handlers, TypeInv, ServerStep(c)
  PROVE  TypeInv'
<1> ServerOK /\ ClientOK /\ LinkOK
  BY DEF TypeInv
<1>0. ClientOK'
  BY DEF ServerStep, Recv, Work, Reply, clientVars, linkVars, ClientOK
<1>1. CASE Recv(c)
  <2>1. PICK n \in 1 .. Len(up[c]) :
          /\ \E r \in IF n = 1 THEN {Head(up[c])} ELSE Glued(Head(up[c])) : Server!Ask(c, r)
          /\ up' = [up EXCEPT ![c] = SubSeq(@, n + 1, Len(@))]
    BY <1>1 DEF Recv
  <2>2. SubSeq(up[c], n + 1, Len(up[c])) \in Seq(Requests) /\ up[c] # <<>>
    BY PartTypes, EmptySeq DEF LinkOK
  <2>3. Head(up[c]) \in Requests
    BY <2>2, HeadTailProperties DEF LinkOK
  <2>4. PICK r \in Requests : Server!Ask(c, r)
    BY <2>1, <2>3, GlueAssumption
  <2>5. ServerOK'
    BY <2>4 DEF Server!Ask, ServerOK, SaidOK, Server!TypeOK
  <2>6. LinkOK'
    BY <1>1, <2>1, <2>2 DEF Recv, LinkOK
  <2> QED
    BY <1>0, <2>5, <2>6 DEF TypeInv
<1>2. CASE Work(c)
  BY <1>0, <1>2, WorkTypes DEF TypeInv, Work, linkVars, LinkOK
<1>3. CASE Reply(c)
  <2>1. ServerOK'
    BY <1>3 DEF Reply, Server!Answer, ServerOK, SaidOK, Server!TypeOK
  <2>2. said[c] \in Replies /\ asked[c] \in Requests
    BY <1>3, SameData DEF Reply, Server!Answer, ServerOK, SaidOK, Server!TypeOK
  <2>3. \A t \in Travels(said[c], asked[c]) : down[c] \o t \in Seq(Segments)
    <3>1. \A k \in {"whole", "head", "rest"} :
            [part |-> k, rep |-> said[c], req |-> asked[c]] \in Segments
      BY <2>2 DEF Segments
    <3>2. \A s, t \in Segments : <<s>> \in Seq(Segments) /\ <<s, t>> \in Seq(Segments)
      OBVIOUS
    <3>3. Travels(said[c], asked[c]) \subseteq Seq(Segments)
      BY <3>1, <3>2 DEF Travels
    <3> QED
      BY <3>3, ConcatProperties DEF LinkOK
  <2>4. down' \in [Handlers -> Seq(Segments)]
    BY <1>3, <2>3 DEF Reply, LinkOK
  <2>5. granted' \in [Handlers -> SUBSET (Ids \X Places)]
    <3>1. said[c].code = "LOGIN_OK" => <<asked[c].id, said[c].place>> \in Ids \X Places
      BY <1>3, <2>2, ServiceAssumption DEF Reply, Server!Answer, ServerOK, SaidOK
    <3> QED
      BY <1>3, <3>1 DEF Reply, LinkOK
  <2> QED
    BY <1>0, <1>3, <2>1, <2>4, <2>5 DEF TypeInv, Reply, LinkOK
<1> QED
  BY <1>1, <1>2, <1>3 DEF ServerStep

\* Types are kept when the server ends.
LEMMA EndTypes == TypeInv /\ ServerEnds => TypeInv'
<1> SUFFICES ASSUME TypeInv, ServerEnds
             PROVE  TypeInv'
  OBVIOUS
<1> ServerOK /\ ClientOK /\ LinkOK
  BY DEF TypeInv
<1>1. ServerOK'
  BY DEF ServerEnds, Server!Restart, ServerOK, SaidOK, Server!TypeOK
<1>2. ClientOK' /\ LinkOK'
  BY EmptySeq DEF ServerEnds, clientVars, ClientOK, LinkOK
<1> QED
  BY <1>1, <1>2 DEF TypeInv

\* The types hold at first.
LEMMA TypeInit == Init => TypeInv
<1> SUFFICES ASSUME Init
             PROVE  TypeInv
  OBVIOUS
<1>1. ServerOK
  BY DEF Init, Server!Init, ServerOK, SaidOK, Server!TypeOK
<1>2. ClientOK /\ LinkOK
  BY EmptySeq DEF Init, ClientOK, LinkOK
<1> QED
  BY <1>1, <1>2 DEF TypeInv

\* Every step keeps the types.
LEMMA TypeNext == TypeInv /\ [Next]_vars => TypeInv'
<1> SUFFICES ASSUME TypeInv, [Next]_vars
             PROVE  TypeInv'
  OBVIOUS
<1>1. ASSUME NEW c \in Handlers, ClientStep(c)
      PROVE  TypeInv'
  BY <1>1, ReadTypes, MenuTypes DEF ClientStep, Typed
<1>2. ASSUME NEW c \in Handlers, ServerStep(c)
      PROVE  TypeInv'
  BY <1>2, ServerTypes
<1>3. CASE UNCHANGED vars
  <2>1. ServerOK'
    BY <1>3, ServerSame DEF TypeInv, vars
  <2>2. ClientOK' /\ LinkOK'
    BY <1>3 DEF TypeInv, vars, clientVars, linkVars, ClientOK, LinkOK
  <2> QED
    BY <2>1, <2>2 DEF TypeInv
<1> QED
  BY <1>1, <1>2, <1>3, EndTypes DEF Next

(***************************************************************************)
(* Every variable of the clients, the connections and the server stays     *)
(* within its type, however late, split or glued the messages are; a       *)
(* client has a request in its hands exactly while it waits                *)
(* (network.c:102-155).                                                    *)
(***************************************************************************)
THEOREM TypesAreKept == Spec => []TypeOK
<1>1. TypeInv => TypeOK
  BY DEF TypeInv, TypeOK, ServerOK, ClientOK, LinkOK
<1> QED
  BY <1>1, TypeInit, TypeNext, PTL DEF Spec

-----------------------------------------------------------------------------
\* Answers in time and whole: what is under way is never more than one thing.

\* handle_login waits for the answer to the LOGIN it sent, which may be malformed.
LoginFits(c) ==
    login[c] # NoLogin =>
        \/ request[c].cmd = "LOGIN" /\ request[c].id = login[c]
        \/ request[c].cmd = "INVALID"

\* An answer under way says what the server has decided about the request.
Truthful(c, s) ==
    /\ s.part = "whole"
    /\ s.req = request[c]
    /\ login[c] # NoLogin /\ s.rep.code \in Successes =>
         s.rep.code = "LOGIN_OK" /\ <<login[c], s.rep.place>> \in granted[c]

\* The request is on its way, is worked on, or its answer is on its way back.
OneThing(c) ==
    \/ up[c] = <<request[c]>> /\ asked[c] = NoReq /\ down[c] = <<>>
    \/ up[c] = <<>> /\ asked[c] = request[c] /\ down[c] = <<>>
    \/ up[c] = <<>> /\ asked[c] = NoReq
       /\ \E s \in Segments : down[c] = <<s>> /\ Truthful(c, s)

\* Nothing is under way but what the client waits for, and the session it has
\* was granted.
Sync(c) ==
    /\ stage[c] # "more"
    /\ stage[c] # "wait" => Silent(c)
    /\ stage[c] = "wait" => Silent(c) \/ OneThing(c)
    /\ ~linked[c] => up[c] = <<>> /\ asked[c] = NoReq
    /\ stage[c] = "off" => user[c] = NoId
    /\ LoginFits(c)
    /\ user[c] # NoId => <<user[c], school[c]>> \in granted[c]
    /\ user[c] = NoId => school[c] = NoPlace

SyncInv == TypeInv /\ \A c \in Handlers : Sync(c)

\* Sequences of one element, and what recv makes of them.
LEMMA Singletons ==
  ASSUME NEW x
  PROVE  /\ <<x>> # <<>> /\ Len(<<x>>) = 1 /\ Head(<<x>>) = x
         /\ SubSeq(<<x>>, 1, 1) = <<x>> /\ SubSeq(<<x>>, 2, 1) = <<>>
         /\ <<>> \o <<x>> = <<x>> /\ Append(<<>>, x) = <<x>> /\ Len(<<>>) = 0
<1>1. <<x>> # <<>> /\ Len(<<x>>) = 1 /\ Head(<<x>>) = x /\ Len(<<>>) = 0
  OBVIOUS
<1>2. <<x>> \in Seq({x}) /\ <<>> \in Seq({x})
  OBVIOUS
<1>3. SubSeq(<<x>>, 1, 1) = <<x>>
  BY <1>1, <1>2, SubSeqFull
<1>4. SubSeq(<<x>>, 2, 1) = <<>>
  BY <1>1, <1>2, SubSeqEmpty
<1>5. <<>> \o <<x>> = <<x>>
  BY <1>2, ConcatEmptySeq
<1>6. Append(<<>>, x) = <<x>>
  OBVIOUS
<1> QED
  BY <1>1, <1>3, <1>4, <1>5, <1>6

\* A step of one client, or of the server for it, is nothing to the others.
LEMMA OthersSync ==
  ASSUME NEW d \in Handlers, Sync(d),
         up'[d] = up[d], down'[d] = down[d], asked'[d] = asked[d], linked'[d] = linked[d],
         granted'[d] = granted[d], stage'[d] = stage[d], user'[d] = user[d],
         school'[d] = school[d], request'[d] = request[d], login'[d] = login[d]
  PROVE  Sync(d)'
BY DEF Sync, Silent, OneThing, Truthful, LoginFits

\* An answer, read whole, opens the session that the server has granted.
LEMMA ReceiveSync ==
  ASSUME NEW c \in Handlers, SyncInv, Receive(c)
  PROVE  Sync(c)'
<1> ServerOK /\ ClientOK /\ LinkOK /\ Sync(c)
  BY DEF SyncInv, TypeInv
<1>1. PICK n \in 1 .. Len(down[c]) :
        LET text == got[c] \o SubSeq(down[c], 1, n) IN
        /\ down' = [down EXCEPT ![c] = SubSeq(@, n + 1, Len(@))]
        /\ IF HasDelimiter(text)
             THEN Handle(c, text)
             ELSE /\ stage' = [stage EXCEPT ![c] = "more"]
                  /\ got' = [got EXCEPT ![c] = text]
                  /\ UNCHANGED <<user, school, request, login>>
  BY DEF Receive
<1>2. stage[c] = "wait" /\ got[c] = <<>> /\ UNCHANGED <<asked, linked, up, granted>>
  BY DEF Receive, Sync, ClientOK, serverVars
<1>3. down[c] # <<>>
  BY Singletons
<1>4. PICK s \in Segments : down[c] = <<s>> /\ Truthful(c, s) /\ up[c] = <<>> /\ asked[c] = NoReq
  BY <1>2, <1>3 DEF Sync, Silent, OneThing
<1>5. n = 1 /\ got[c] \o SubSeq(down[c], 1, n) = <<s>> /\ SubSeq(down[c], n + 1, Len(down[c])) = <<>>
  <2>1. n = 1
    BY <1>4, Singletons
  <2> QED
    BY <2>1, <1>2, <1>4, Singletons
<1>6. down'[c] = <<>>
  BY <1>1, <1>5 DEF LinkOK
<1>7. HasDelimiter(<<s>>) /\ <<s>>[1] = s /\ Len(<<s>>) = 1
  BY <1>4 DEF HasDelimiter, Truthful
<1>8. Handle(c, <<s>>)
  BY <1>1, <1>5, <1>7
<1>9. stage'[c] = "menu"
  BY <1>8 DEF Handle, ClientOK
<1>10. /\ user'[c] # NoId => <<user'[c], school'[c]>> \in granted[c]
       /\ user'[c] = NoId => school'[c] = NoPlace
  <2>1. CASE UNCHANGED <<user, school>>
    BY <2>1 DEF Sync
  <2>2. CASE ~UNCHANGED <<user, school>>
    <3>1. /\ login[c] # NoLogin
          /\ TRUE \in Status(<<s>>)
          /\ user' = [user EXCEPT ![c] = login[c]]
          /\ \E p \in SchoolIn(c, <<s>>) : school' = [school EXCEPT ![c] = p]
      BY <1>8, <2>2 DEF Handle, HandleLogin, HandleOther
    <3>2. s.part = "whole" /\ s.rep.code \in Successes
      BY <3>1, <1>4, <1>7 DEF Status, Truthful
    <3>3. s.rep.code = "LOGIN_OK" /\ <<login[c], s.rep.place>> \in granted[c]
      BY <3>1, <3>2, <1>4 DEF Truthful
    <3>4. SchoolIn(c, <<s>>) = {s.rep.place}
      BY <3>2, <3>3, <1>7 DEF SchoolIn
    <3>5. user'[c] = login[c] /\ school'[c] = s.rep.place
      BY <3>1, <3>4 DEF ClientOK
    <3>6. login[c] # NoId
      BY <3>3, ClientAssumption DEF LinkOK
    <3> QED
      BY <3>3, <3>5, <3>6
  <2> QED
    BY <2>1, <2>2
<1>11. login'[c] = NoLogin
  BY <1>8 DEF Handle, ClientOK
<1> QED
  BY <1>2, <1>4, <1>6, <1>9, <1>10, <1>11 DEF Sync, Silent, LoginFits

\* A client that reads, or gives up, is in step at its menu again.
LEMMA ReadsSync ==
  ASSUME ~Slow, NEW c \in Handlers, SyncInv, ClientReads(c)
  PROVE  \A d \in Handlers : Sync(d)'
<1> ServerOK /\ ClientOK /\ LinkOK /\ \A d \in Handlers : Sync(d)
  BY DEF SyncInv, TypeInv
<1>1. CASE Receive(c)
  <2>1. ASSUME NEW d \in Handlers, d # c
        PROVE  Sync(d)'
    <3>1. /\ up'[d] = up[d] /\ down'[d] = down[d] /\ asked'[d] = asked[d]
          /\ linked'[d] = linked[d] /\ granted'[d] = granted[d]
      BY <1>1, <2>1 DEF Receive, serverVars, LinkOK
    <3>2. /\ stage'[d] = stage[d] /\ user'[d] = user[d] /\ school'[d] = school[d]
          /\ request'[d] = request[d] /\ login'[d] = login[d]
      <4>1. \/ \E text : Handle(c, text)
            \/ /\ stage' = [stage EXCEPT ![c] = "more"]
               /\ UNCHANGED <<user, school, request, login>>
        BY <1>1 DEF Receive
      <4>2. ASSUME NEW text, Handle(c, text)
            PROVE  /\ stage'[d] = stage[d] /\ user'[d] = user[d] /\ school'[d] = school[d]
                   /\ request'[d] = request[d] /\ login'[d] = login[d]
        BY <4>2, <2>1 DEF Handle, HandleLogin, HandleOther, ClientOK
      <4> QED
        BY <4>1, <4>2, <2>1 DEF ClientOK
    <3> QED
      BY <3>1, <3>2, OthersSync
  <2> QED
    BY <1>1, <2>1, ReceiveSync
<1>2. CASE ReceiveEnd(c) \/ Timeout(c)
  <2>1. stage[c] = "wait" /\ got[c] = <<>>
    BY <1>2 DEF ReceiveEnd, Timeout, Sync, ClientOK
  <2>2. Silent(c)
    BY <1>2 DEF ReceiveEnd, Timeout, Sync, Silent
  <2>3. /\ stage' = [stage EXCEPT ![c] = "menu"]
        /\ request' = [request EXCEPT ![c] = NoReq]
        /\ login' = [login EXCEPT ![c] = NoLogin]
        /\ UNCHANGED <<user, school, asked, up, down, linked, granted>>
    BY <1>2, <2>1 DEF ReceiveEnd, Timeout, serverVars, linkVars
  <2>4. Sync(c)'
    BY <2>2, <2>3 DEF Sync, Silent, ClientOK, LoginFits
  <2>5. ASSUME NEW d \in Handlers, d # c
        PROVE  Sync(d)'
    BY <2>3, <2>5, OthersSync DEF ClientOK
  <2> QED
    BY <2>4, <2>5
<1> QED
  BY <1>1, <1>2 DEF ClientReads

\* A menu sends a request only when nothing is under way.
LEMMA MenuSync ==
  ASSUME NEW c \in Handlers, SyncInv,
         Start(c) \/ Logout(c) \/ Quit(c) \/ \E r \in Requests : Send(c, r)
  PROVE  \A d \in Handlers : Sync(d)'
<1> ServerOK /\ ClientOK /\ LinkOK /\ \A d \in Handlers : Sync(d)
  BY DEF SyncInv, TypeInv
<1>0. UNCHANGED asked
  BY DEF Start, Logout, Quit, Send, serverVars
<1>1. ASSUME NEW d \in Handlers, d # c
      PROVE  Sync(d)'
  <2>1. /\ up'[d] = up[d] /\ down'[d] = down[d]
        /\ linked'[d] = linked[d] /\ granted'[d] = granted[d]
    BY <1>1 DEF Start, Logout, Quit, Send, linkVars, LinkOK, ClientOK
  <2>2. /\ stage'[d] = stage[d] /\ user'[d] = user[d] /\ school'[d] = school[d]
        /\ request'[d] = request[d] /\ login'[d] = login[d]
    BY <1>1 DEF Start, Logout, Quit, Send, ClientOK
  <2> QED
    BY <1>0, <2>1, <2>2, OthersSync
<1>2. CASE Start(c)
  <2>1. Silent(c)
    BY <1>2 DEF Start, Sync
  <2>2. /\ stage'[c] = "menu"
        /\ user'[c] = NoId /\ school'[c] = NoPlace /\ login'[c] = NoLogin
        /\ up'[c] = <<>> /\ down'[c] = <<>>
    BY <1>2, <2>1 DEF Start, linkVars, Sync, Silent, ClientOK, LinkOK
  <2>3. Sync(c)'
    BY <1>0, <2>1, <2>2 DEF Sync, Silent, LoginFits
  <2> QED
    BY <1>1, <2>3
<1>3. CASE Logout(c)
  <2>1. Silent(c)
    BY <1>3 DEF Logout, Sync
  <2>2. /\ stage'[c] = "menu"
        /\ user'[c] = NoId /\ school'[c] = NoPlace /\ login'[c] = NoLogin
        /\ up'[c] = <<>> /\ down'[c] = <<>>
    BY <1>3, <2>1 DEF Logout, linkVars, Sync, Silent, ClientOK, LinkOK
  <2>3. Sync(c)'
    BY <1>0, <2>1, <2>2 DEF Sync, Silent, LoginFits
  <2> QED
    BY <1>1, <2>3
<1>4. CASE Quit(c)
  <2>1. Silent(c)
    BY <1>4 DEF Quit, Sync
  <2>2. /\ stage'[c] = "off"
        /\ user'[c] = NoId /\ school'[c] = NoPlace /\ login'[c] = NoLogin
        /\ up'[c] = <<>> /\ down'[c] = <<>>
    BY <1>4, <2>1 DEF Quit, linkVars, Sync, Silent, ClientOK, LinkOK
  <2>3. Sync(c)'
    BY <1>0, <2>1, <2>2 DEF Sync, Silent, LoginFits
  <2> QED
    BY <1>1, <2>3
<1>5. ASSUME NEW r \in Requests, Send(c, r)
      PROVE  Sync(c)'
  <2>1. Silent(c) /\ stage[c] = "menu"
    BY <1>5 DEF Send, Sync
  <2>2. stage'[c] = "wait" /\ request'[c] = r /\ UNCHANGED <<user, school, linked, down, granted>>
    BY <1>5 DEF Send, ClientOK
  <2>3. up'[c] = IF linked[c] THEN <<r>> ELSE <<>>
    BY <1>5, <2>1, Singletons DEF Send, Silent, LinkOK
  <2>4. LoginFits(c)'
    BY <1>5, <2>2 DEF Send, LoginsOf, LoginFits, ClientOK
  <2> QED
    BY <1>0, <2>1, <2>2, <2>3, <2>4 DEF Sync, Silent, OneThing
<1> QED
  BY <1>1, <1>2, <1>3, <1>4, <1>5

\* The server answers the request that the client waits for.
LEMMA ServerSync ==
  ASSUME ~Split, NEW c \in Handlers, SyncInv, ServerStep(c)
  PROVE  \A d \in Handlers : Sync(d)'
<1> ServerOK /\ ClientOK /\ LinkOK /\ \A d \in Handlers : Sync(d)
  BY DEF SyncInv, TypeInv
<1>0. UNCHANGED <<stage, user, school, request, login, linked>>
  BY DEF ServerStep, Recv, Work, Reply, clientVars, linkVars
<1>1. ASSUME NEW d \in Handlers, d # c
      PROVE  Sync(d)'
  <2>1. up'[d] = up[d] /\ down'[d] = down[d] /\ granted'[d] = granted[d]
    BY <1>1 DEF ServerStep, Recv, Work, Reply, linkVars, LinkOK
  <2>2. asked'[d] = asked[d]
    BY <1>1 DEF ServerStep, Recv, Work, Reply, Server!Ask, Server!Answer, Server!Vouch,
         Server!Login, Server!Register, Server!GiveUp, Server!Update, Server!Delete,
         Server!Other, Server!Say, ServerOK, Server!TypeOK
  <2> QED
    BY <1>0, <2>1, <2>2, OthersSync
<1>2. CASE Recv(c)
  <2>1. PICK n \in 1 .. Len(up[c]) :
          /\ \E r \in IF n = 1 THEN {Head(up[c])} ELSE Glued(Head(up[c])) : Server!Ask(c, r)
          /\ up' = [up EXCEPT ![c] = SubSeq(@, n + 1, Len(@))]
    BY <1>2 DEF Recv
  <2>2. stage[c] = "wait" /\ up[c] = <<request[c]>> /\ asked[c] = NoReq /\ down[c] = <<>>
        /\ linked[c]
    <3>1. up[c] # <<>>
      BY Singletons
    <3> QED
      BY <3>1 DEF Sync, Silent, OneThing
  <2>3. n = 1
    BY <2>2, Singletons
  <2>4. up'[c] = <<>> /\ asked'[c] = request[c]
    BY <2>1, <2>2, <2>3, Singletons DEF LinkOK, Server!Ask, ServerOK, Server!TypeOK
  <2>5. UNCHANGED <<down, granted>>
    BY <1>2 DEF Recv
  <2> QED
    BY <1>0, <1>1, <2>2, <2>4, <2>5 DEF Sync, OneThing, LoginFits
<1>3. CASE Work(c)
  <2>1. \/ UNCHANGED asked
        \/ asked[c] # NoReq /\ asked' = [asked EXCEPT ![c] = NoReq]
    BY <1>3 DEF Work, Server!Vouch, Server!Login, Server!Register, Server!GiveUp,
         Server!Update, Server!Delete, Server!Other, Server!Say, Server!Waits
  <2>2. UNCHANGED <<up, down, granted>>
    BY <1>3 DEF Work, linkVars
  <2>3. CASE UNCHANGED asked
    BY <1>0, <1>1, <2>2, <2>3, OthersSync
  <2>4. CASE asked[c] # NoReq /\ asked' = [asked EXCEPT ![c] = NoReq]
    <3>1. up[c] = <<>> /\ down[c] = <<>>
      BY <2>4 DEF Sync, Silent, OneThing
    <3>2. Silent(c)'
      BY <2>2, <2>4, <3>1 DEF Silent, ServerOK, Server!TypeOK
    <3> QED
      BY <1>0, <1>1, <2>2, <3>2 DEF Sync, Silent, LoginFits
  <2> QED
    BY <2>1, <2>3, <2>4
<1>4. CASE Reply(c)
  <2>1. /\ said[c] # NoReply /\ asked[c] # NoReq /\ asked[c] \in Requests
        /\ said[c] \in Replies
    BY <1>4, SameData DEF Reply, Server!Answer, ServerOK, SaidOK, Server!TypeOK
  <2>2. /\ stage[c] = "wait" /\ up[c] = <<>> /\ asked[c] = request[c] /\ down[c] = <<>>
        /\ linked[c]
    BY <2>1 DEF Sync, Silent, OneThing
  <2>3. PICK s \in Segments : s = [part |-> "whole", rep |-> said[c], req |-> asked[c]]
    BY <2>1 DEF Segments
  <2>4. down'[c] = <<s>>
    <3>1. Travels(said[c], asked[c]) = {<<s>>}
      BY <2>3 DEF Travels
    <3>2. down' = [down EXCEPT ![c] = @ \o <<s>>]
      BY <1>4, <2>2, <3>1 DEF Reply
    <3> QED
      BY <2>2, <3>2, Singletons DEF LinkOK
  <2>5. asked'[c] = NoReq /\ up'[c] = <<>>
    BY <1>4, <2>2 DEF Reply, Server!Answer, ServerOK, Server!TypeOK
  <2>6. granted[c] \subseteq granted'[c]
    BY <1>4 DEF Reply, LinkOK
  <2>7. said[c].code = "LOGIN_OK" => <<request[c].id, said[c].place>> \in granted'[c]
    BY <1>4, <2>2 DEF Reply, LinkOK
  <2>8. login[c] # NoLogin /\ said[c].code \in Successes =>
          said[c].code = "LOGIN_OK" /\ request[c].id = login[c]
    <3>1. asked[c].cmd = "LOGIN" => said[c].code \in {"LOGIN_OK", "DB_ERROR", "INVALID_LOGIN"}
      BY <2>1 DEF ServerOK, SaidOK
    <3>2. asked[c].cmd = "INVALID" => said[c].code = "INVALID_REQUEST"
      BY <2>1 DEF ServerOK, SaidOK
    <3> QED
      BY <2>2, <3>1, <3>2 DEF Successes, Sync, LoginFits
  <2>9. Truthful(c, s)'
    BY <1>0, <2>2, <2>3, <2>7, <2>8 DEF Truthful
  <2>10. OneThing(c)'
    BY <2>3, <2>4, <2>5, <2>9 DEF OneThing
  <2>11. Sync(c)'
    BY <1>0, <2>2, <2>5, <2>6, <2>10 DEF Sync, LoginFits
  <2> QED
    BY <1>1, <2>11
<1> QED
  BY <1>2, <1>3, <1>4 DEF ServerStep

\* The end of the server takes requests away, and adds nothing.
LEMMA EndSync ==
  ASSUME SyncInv, ServerEnds
  PROVE  \A d \in Handlers : Sync(d)'
BY DEF ServerEnds, Server!Restart, clientVars, SyncInv, TypeInv, Sync, Silent, OneThing, Truthful,
       LoginFits

\* Nothing is under way at first.
LEMMA SyncInit == Init => SyncInv
<1> SUFFICES ASSUME Init
             PROVE  \A c \in Handlers : Sync(c)
  BY TypeInit DEF SyncInv
<1> QED
  BY DEF Init, Server!Init, Sync, Silent, LoginFits

\* Every step keeps SyncInv, if answers are neither late nor split.
LEMMA SyncNext ==
  ASSUME ~Slow, ~Split
  PROVE  SyncInv /\ [Next]_vars => SyncInv'
<1> SUFFICES ASSUME SyncInv, [Next]_vars
             PROVE  \A d \in Handlers : Sync(d)'
  BY TypeNext DEF SyncInv
<1>1. ASSUME NEW c \in Handlers, ClientStep(c)
      PROVE  \A d \in Handlers : Sync(d)'
  BY <1>1, ReadsSync, MenuSync DEF ClientStep, Typed
<1>2. ASSUME NEW c \in Handlers, ServerStep(c)
      PROVE  \A d \in Handlers : Sync(d)'
  BY <1>2, ServerSync
<1>3. CASE UNCHANGED vars
  BY <1>3, OthersSync DEF SyncInv, vars, serverVars, clientVars, linkVars
<1> QED
  BY <1>1, <1>2, <1>3, EndSync DEF Next

\* SyncInv says more than InStep: there is no second thing, and no other.
LEMMA SyncImplies == SyncInv => InStep /\ SessionIsOneLogin /\ LoggedOutIsClean
<1> SUFFICES ASSUME SyncInv
             PROVE  InStep /\ SessionIsOneLogin /\ LoggedOutIsClean
  OBVIOUS
<1>1. SessionIsOneLogin /\ LoggedOutIsClean
  BY DEF SyncInv, Sync, SessionIsOneLogin, LoggedOutIsClean
<1>2. ASSUME NEW c \in Handlers, stage[c] = "menu"
      PROVE  Silent(c)
  BY <1>2 DEF SyncInv, Sync
<1>3. ASSUME NEW c \in Handlers, stage[c] \in {"wait", "more"}
      PROVE  /\ Behind(c) <= 1
             /\ up[c] # <<>> => Head(up[c]) = request[c]
             /\ asked[c] # NoReq => asked[c] = request[c]
             /\ down[c] # <<>> => Head(down[c]).req = request[c]
  <2>1. Silent(c) \/ OneThing(c)
    BY <1>3 DEF SyncInv, Sync
  <2>2. request[c] # NoReq
    BY <1>3 DEF SyncInv, TypeInv, ClientOK
  <2>3. CASE Silent(c)
    BY <2>3 DEF Silent, Behind
  <2>4. CASE OneThing(c)
    <3>1. CASE up[c] = <<request[c]>> /\ asked[c] = NoReq /\ down[c] = <<>>
      BY <3>1, Singletons DEF Behind
    <3>2. CASE up[c] = <<>> /\ asked[c] = request[c] /\ down[c] = <<>>
      BY <3>2, Singletons DEF Behind
    <3>3. ASSUME NEW s \in Segments, up[c] = <<>>, asked[c] = NoReq, down[c] = <<s>>,
                 Truthful(c, s)
          PROVE  /\ Behind(c) <= 1
                 /\ up[c] = <<>> /\ asked[c] = NoReq
                 /\ Head(down[c]).req = request[c]
      BY <3>3, Singletons DEF Behind, Truthful
    <3> QED
      BY <2>2, <2>4, <3>1, <3>2, <3>3 DEF OneThing
  <2> QED
    BY <2>1, <2>3, <2>4
<1> QED
  BY <1>1, <1>2, <1>3 DEF InStep

(***************************************************************************)
(* When answers come within five seconds and in one piece, client and      *)
(* server stay in step, for every number of clients and whatever is sent,  *)
(* also when the server answers nothing, refuses the connection or ends    *)
(* (network.c:102-155, server.c:34-42).                                    *)
(***************************************************************************)
THEOREM ClientsStayInStep ==
  ASSUME ~Slow, ~Split
  PROVE  Spec => []InStep
<1>1. SyncInv /\ [Next]_vars => SyncInv'
  BY SyncNext
<1>2. SyncInv => InStep
  BY SyncImplies
<1> QED
  BY <1>1, <1>2, SyncInit, PTL DEF Spec

(***************************************************************************)
(* Under the same conditions a session is one that the server has granted: *)
(* nobody is logged in by the answer to another request                    *)
(* (handlers.c:33-80).                                                     *)
(***************************************************************************)
THEOREM SessionsAreGranted ==
  ASSUME ~Slow, ~Split
  PROVE  Spec => []SessionIsOneLogin
<1>1. SyncInv /\ [Next]_vars => SyncInv'
  BY SyncNext
<1>2. SyncInv => SessionIsOneLogin
  BY SyncImplies
<1> QED
  BY <1>1, <1>2, SyncInit, PTL DEF Spec

(***************************************************************************)
(* And who is logged out has no school left over, although the login       *)
(* screen also sends a LOGIN without an id: the server refuses it, and the *)
(* refusal is what the client reads (menu.c:78-86, handlers.c:33-80,       *)
(* 136-142).  With late answers this is false.                             *)
(***************************************************************************)
THEOREM LogoutsAreClean ==
  ASSUME ~Slow, ~Split
  PROVE  Spec => []LoggedOutIsClean
<1>1. SyncInv /\ [Next]_vars => SyncInv'
  BY SyncNext
<1>2. SyncInv => LoggedOutIsClean
  BY SyncImplies
<1> QED
  BY <1>1, <1>2, SyncInit, PTL DEF Spec
=============================================================================
