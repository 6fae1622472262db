---------------------------- MODULE ClientSession ----------------------------
(***************************************************************************)
(* The console client (src/client: client.c, network.c, handlers.c,        *)
(* menu.c, menu_general.c) over its TCP connection to the server.  What    *)
(* the server does with a request is what AccountService promises; every   *)
(* handler of the server serves one client.                                *)
(*                                                                         *)
(* Requests and answers carry neither a length nor a number.  A client     *)
(* takes the next bytes that arrive for the answer to its latest request,  *)
(* and gives up waiting after five seconds; the server takes the bytes of  *)
(* one recv for one request.  So the channels are sequences, recv takes a  *)
(* prefix of what is under way, and an answer that comes too late stays in *)
(* the channel.                                                            *)
(*                                                                         *)
(* Abstractions: what the client prints is left out, what it remembers is  *)
(* not; an education office and a school are one place; the role is left   *)
(* out, because every row has the role GENERAL; a request fits into one    *)
(* segment, an answer that carries data may come in two when Split.        *)
(***************************************************************************)
EXTENDS Naturals, Sequences, AccountData

CONSTANTS
    NoId,           \* the empty id, of current_user_id or typed at the login screen
    NoLogin,        \* no LOGIN is waited for
    GluedId,        \* the id of a DELETE that ran together with another request
    GluedPw,        \* the password of a LOGIN that did
    GluedPlace,     \* the school of an answer that ran together with another
    Slow,           \* TRUE when an answer may take more than five seconds
    Split,          \* TRUE when an answer may arrive in two segments
    MaxBehind       \* bound: requests and answers under way on a connection

VARIABLES
    asked, vouched, seen, said,     \* of AccountService
    stage,      \* where each client is
    linked,     \* whether its connection is open at both ends
    user,       \* current_user_id
    school,     \* current_user_edu_office and current_user_school
    request,    \* the request whose answer the client waits for, as the server reads it
    login,      \* the id with which handle_login waits, or NoLogin in the other handlers
    got,        \* the buffer of receive_response
    up, down,   \* the two directions of the connection
    granted     \* history: the accounts that LOGIN_OK was sent for

ASSUME ClientAssumption ==
    /\ NoId \notin Ids /\ NoLogin \notin Ids \cup {NoId}
    /\ GluedPlace \notin Places \cup {NoPlace}
    /\ GluedId \in Ids /\ GluedPw \in Pws
    /\ Slow \in BOOLEAN /\ Split \in BOOLEAN
    /\ MaxBehind \in Nat \ {0}

serverVars == <<users, children, asked, vouched, seen, said>>
clientVars == <<stage, user, school, request, login, got>>
linkVars   == <<linked, up, down, granted>>
vars == <<serverVars, clientVars, linkVars>>

Server == INSTANCE AccountService

\* The requests that people type; the others come about when two run together.
\* INVALID stands for one in which a field was left empty.
Typed == {r \in Requests : r.id # GluedId /\ r.pw # GluedPw}

Successes == {"LOGIN_OK", "REGISTER_OK", "UPDATE_OK", "DELETE_OK", "MEAL_OK"}

\* A segment on its way to the client, with the request it answers.
Segments == [part : {"whole", "head", "rest"}, rep : Replies, req : Requests]

TypeOK ==
    /\ Server!TypeOK
    /\ stage \in [Handlers -> {"off", "menu", "wait", "more"}]
    /\ linked \in [Handlers -> BOOLEAN]
    /\ user \in [Handlers -> Ids \cup {NoId}]
    /\ school \in [Handlers -> Places \cup {NoPlace, GluedPlace}]
    /\ request \in [Handlers -> Requests \cup {NoReq}]
    /\ login \in [Handlers -> Ids \cup {NoId, NoLogin}]
    /\ up \in [Handlers -> Seq(Requests)]
    /\ down \in [Handlers -> Seq(Segments)]
    /\ got \in [Handlers -> Seq(Segments)]
    /\ granted \in [Handlers -> SUBSET (Ids \X Places)]
    /\ \A c \in Handlers :
         /\ request[c] # NoReq <=> stage[c] \in {"wait", "more"}
         /\ login[c] # NoLogin => request[c] # NoReq
         /\ got[c] # <<>> <=> stage[c] = "more"

Init ==
    /\ Server!Init
    /\ stage = [c \in Handlers |-> "off"]
    /\ linked = [c \in Handlers |-> FALSE]
    /\ user = [c \in Handlers |-> NoId]
    /\ school = [c \in Handlers |-> NoPlace]
    /\ request = [c \in Handlers |-> NoReq]
    /\ login = [c \in Handlers |-> NoLogin]
    /\ got = [c \in Handlers |-> <<>>]
    /\ up = [c \in Handlers |-> <<>>]
    /\ down = [c \in Handlers |-> <<>>]
    /\ granted = [c \in Handlers |-> {}]

-----------------------------------------------------------------------------
\* The menus.

\* A client starts when the handler of the connection before has ended.  The
\* server may close the new connection at once, because it is full.
Start(c) ==
    /\ stage[c] = "off"
    /\ asked[c] = NoReq /\ up[c] = <<>>
    /\ stage' = [stage EXCEPT ![c] = "menu"]
    /\ \E open \in BOOLEAN : linked' = [linked EXCEPT ![c] = open]
    /\ granted' = [granted EXCEPT ![c] = {}]
    /\ UNCHANGED <<serverVars, user, school, request, login, got, up, down>>

\* What each menu can send.  The login screen takes an empty id, password or
\* school, the screens on meals empty names: the server then finds too few
\* parameters.  So it does for one's own school when there is none.
LoginMenu == {"LOGIN", "REGISTER_GENERAL", "INVALID"}

GeneralMenu ==
    {"GET_MEAL", "GET_MULTI_MEAL", "REGISTER_GENERAL", "UPDATE", "DELETE", "INVALID"}

\* The ids with which handle_login may have sent r: a malformed request is a LOGIN
\* without id or password, or one of another handler.
LoginsOf(c, r) ==
    CASE r.cmd = "LOGIN" -> {r.id}
      [] r.cmd = "INVALID" /\ user[c] = NoId -> (Ids \ {GluedId}) \cup {NoId, NoLogin}
      [] OTHER -> {NoLogin}

Behind(c) == Len(up[c]) + Len(down[c]) + (IF asked[c] = NoReq THEN 0 ELSE 1)

\* send_data does not notice that the server has closed the connection.
Send(c, r) ==
    /\ stage[c] = "menu"
    /\ r.cmd \in IF user[c] = NoId THEN LoginMenu ELSE GeneralMenu
    /\ Behind(c) < MaxBehind
    /\ stage' = [stage EXCEPT ![c] = "wait"]
    /\ request' = [request EXCEPT ![c] = r]
    /\ \E i \in LoginsOf(c, r) : login' = [login EXCEPT ![c] = i]
    /\ up' = IF linked[c] THEN [up EXCEPT ![c] = Append(@, r)] ELSE up
    /\ UNCHANGED <<serverVars, user, school, got, linked, down, granted>>

\* handle_logout: the server is not told.
Logout(c) ==
    /\ stage[c] = "menu"
    /\ user[c] # NoId
    /\ user' = [user EXCEPT ![c] = NoId]
    /\ school' = [school EXCEPT ![c] = NoPlace]
    /\ UNCHANGED <<serverVars, stage, request, login, got, linkVars>>

\* The client ends.  Requests that the server has not read may still reach it.
Quit(c) ==
    /\ stage[c] = "menu"
    /\ stage' = [stage EXCEPT ![c] = "off"]
    /\ user' = [user EXCEPT ![c] = NoId]
    /\ school' = [school EXCEPT ![c] = NoPlace]
    /\ linked' = [linked EXCEPT ![c] = FALSE]
    /\ down' = [down EXCEPT ![c] = <<>>]
    /\ \E rest \in {up[c], <<>>} : up' = [up EXCEPT ![c] = rest]
    /\ UNCHANGED <<serverVars, request, login, got, granted>>

-----------------------------------------------------------------------------
\* receive_response, and what a handler does with its text.

\* "//" follows the status, and separates the data of LOGIN_OK.
HasDelimiter(text) ==
    \E i \in 1 .. Len(text) : text[i].part # "rest" \/ text[i].rep.code = "LOGIN_OK"

\* atoi of the first token; the rest of a menu may begin with any number.
Status(text) ==
    IF text[1].part = "rest" THEN BOOLEAN ELSE {text[1].rep.code \in Successes}

\* The tokens after the message: office, school and role are taken if all
\* three are there, whatever they are.
SchoolIn(c, text) ==
    IF /\ text[1].rep.code = "LOGIN_OK"
       /\ text[1].part = "whole" \/ (text[1].part = "head" /\ Len(text) > 1)
      THEN {text[1].rep.place}
      ELSE {school[c]} \cup (IF Len(text) > 1 THEN {GluedPlace} ELSE {})

\* WRONG variant of HandleLogin: any answer to a LOGIN opens a session.
HandleLoginAny(c, text) ==
    /\ login[c] # NoLogin
    /\ user' = [user EXCEPT ![c] = login[c]]
    /\ \E p \in SchoolIn(c, text) : school' = [school EXCEPT ![c] = p]

\* The id that was typed is stored as soon as the status is RESP_SUCCESS.  When
\* it is empty nobody is logged in, but the school is stored.
HandleLogin(c, text) ==
    /\ login[c] # NoLogin
    /\ \/ /\ TRUE \in Status(text)
          /\ user' = [user EXCEPT ![c] = login[c]]
          /\ \E p \in SchoolIn(c, text) : school' = [school EXCEPT ![c] = p]
       \/ /\ FALSE \in Status(text)
          /\ UNCHANGED <<user, school>>

\* The other handlers show the answer and remember nothing, not even when it
\* says that the account of the session was changed or deleted.
HandleOther ==
    UNCHANGED <<user, school>>

Handle(c, text) ==
    /\ stage' = [stage EXCEPT ![c] = "menu"]
    /\ request' = [request EXCEPT ![c] = NoReq]
    /\ login' = [login EXCEPT ![c] = NoLogin]
    /\ got' = [got EXCEPT ![c] = <<>>]
    /\ IF login[c] # NoLogin THEN HandleLogin(c, text) ELSE HandleOther

\* recv takes what has arrived; the loop goes on until "//" is in the buffer.
Receive(c) ==
    /\ stage[c] \in {"wait", "more"}
    /\ \E n \in 1 .. Len(down[c]) :
         LET text == got[c] \o SubSeq(down[c], 1, n) IN
         /\ down' = [down EXCEPT ![c] = SubSeq(@, n + 1, Len(@))]
         /\ IF HasDelimiter(text)
              THEN Handle(c, text)
              ELSE /\ stage' = [stage EXCEPT ![c] = "more"]
                   /\ got' = [got EXCEPT ![c] = text]
                   /\ UNCHANGED <<user, school, request, login>>
    /\ UNCHANGED <<serverVars, linked, up, granted>>

\* recv returns 0 or fails: nothing can arrive any more.
ReceiveEnd(c) ==
    /\ stage[c] \in {"wait", "more"}
    /\ ~linked[c] /\ down[c] = <<>>
    /\ IF got[c] # <<>>
         THEN Handle(c, got[c])
         ELSE /\ stage' = [stage EXCEPT ![c] = "menu"]
              /\ request' = [request EXCEPT ![c] = NoReq]
              /\ login' = [login EXCEPT ![c] = NoLogin]
              /\ UNCHANGED <<user, school, got>>
    /\ UNCHANGED <<serverVars, linkVars>>

\* The server has nothing to say to the client: it waits in recv.
Silent(c) == up[c] = <<>> /\ asked[c] = NoReq /\ down[c] = <<>>

\* WRONG variants of Timeout: recv without select waits for bytes or the end;
\* a client that gives up still has the request; select does not wait at all.
NoTimeout(c) ==
    /\ stage[c] = "wait"
    /\ ~linked[c]
    /\ ReceiveEnd(c)

TimeoutKeepsRequest(c) ==
    /\ stage[c] = "wait"
    /\ linked[c]
    /\ Slow \/ Silent(c)
    /\ stage' = [stage EXCEPT ![c] = "menu"]
    /\ UNCHANGED <<serverVars, user, school, request, login, got, linkVars>>

TimeoutAtOnce(c) ==
    /\ stage[c] = "wait"
    /\ linked[c]
    /\ stage' = [stage EXCEPT ![c] = "menu"]
    /\ request' = [request EXCEPT ![c] = NoReq]
    /\ login' = [login EXCEPT ![c] = NoLogin]
    /\ UNCHANGED <<serverVars, user, school, got, linkVars>>

\* select reports no byte for five seconds.
Timeout(c) ==
    /\ stage[c] = "wait"
    /\ linked[c]
    /\ Slow \/ Silent(c)
    /\ stage' = [stage EXCEPT ![c] = "menu"]
    /\ request' = [request EXCEPT ![c] = NoReq]
    /\ login' = [login EXCEPT ![c] = NoLogin]
    /\ UNCHANGED <<serverVars, user, school, got, linkVars>>

ClientReads(c) == Receive(c) \/ ReceiveEnd(c) \/ Timeout(c)

ClientStep(c) ==
    \/ Start(c) \/ Logout(c) \/ Quit(c) \/ ClientReads(c)
    \/ \E r \in Typed : Send(c, r)

-----------------------------------------------------------------------------
\* The server's end of the connection.

\* What the server may read of r and the requests that follow it.  The last
\* parameter of r swallows the first word of the next one, and what follows is
\* not looked at; a request that lacks parameters finds them there.
Glued(r) ==
    CASE r.cmd = "LOGIN" -> {[r EXCEPT !.pw = GluedPw]}
      [] r.cmd = "DELETE" -> {[r EXCEPT !.id = GluedId, !.child = GluedId]}
      [] r.cmd = "INVALID" ->
           {r} \cup {q \in Typed : q.cmd \in {"GET_MEAL", "GET_MULTI_MEAL", "REGISTER_GENERAL"}}
               \cup {q \in Requests : q.cmd = "LOGIN" /\ q.pw = GluedPw}
      [] OTHER -> {r}

ASSUME GlueAssumption == \A r \in Requests : Glued(r) \subseteq Requests

\* WRONG variant of Recv: the request stays in the buffer and is handled again.
RecvTwice(c) ==
    /\ up[c] # <<>>
    /\ \/ up' = [up EXCEPT ![c] = Tail(@)]
       \/ up' = up
    /\ Server!Ask(c, Head(up[c]))
    /\ UNCHANGED <<clientVars, linked, down, granted>>

Recv(c) ==
    /\ \E n \in 1 .. Len(up[c]) :
         /\ \E r \in IF n = 1 THEN {Head(up[c])} ELSE Glued(Head(up[c])) : Server!Ask(c, r)
         /\ up' = [up EXCEPT ![c] = SubSeq(@, n + 1, Len(@))]
    /\ UNCHANGED <<clientVars, linked, down, granted>>

\* No menu of this client sends the commands on children.
Work(c) ==
    /\ \/ Server!Vouch(c) \/ Server!Login(c) \/ Server!Register(c) \/ Server!GiveUp(c)
       \/ Server!Update(c) \/ Server!Delete(c) \/ Server!Other(c)
    /\ UNCHANGED <<clientVars, linkVars>>

\* The segments that answer r to request q may travel in.
Travels(r, q) ==
    {<<[part |-> "whole", rep |-> r, req |-> q]>>}
      \cup (IF Split /\ r.code \in {"LOGIN_OK", "MEAL_OK"}
              THEN {<<[part |-> "head", rep |-> r, req |-> q],
                      [part |-> "rest", rep |-> r, req |-> q]>>}
              ELSE {})

Reply(c) ==
    /\ Server!Answer(c)
    /\ IF linked[c]
         THEN \E t \in Travels(said[c], asked[c]) : down' = [down EXCEPT ![c] = @ \o t]
         ELSE down' = down
    /\ granted' = IF said[c].code = "LOGIN_OK"
                    THEN [granted EXCEPT ![c] = @ \cup {<<asked[c].id, said[c].place>>}]
                    ELSE granted
    /\ UNCHANGED <<clientVars, linked, up>>

\* The server ends: every connection breaks, and no client connects again.
ServerEnds ==
    /\ Server!Restart
    /\ linked' = [c \in Handlers |-> FALSE]
    /\ up' = [c \in Handlers |-> <<>>]
    /\ UNCHANGED <<clientVars, down, granted>>

ServerStep(c) == Recv(c) \/ Work(c) \/ Reply(c)

Next == ServerEnds \/ \E c \in Handlers : ClientStep(c) \/ ServerStep(c)

Spec == Init /\ [][Next]_vars

(***************************************************************************)
(* Fairness: a client that waits runs on when recv or select returns, and  *)
(* a handler of the server works off what it has received.                 *)
(***************************************************************************)
FairSpec ==
    /\ Spec
    /\ \A c \in Handlers : WF_vars(ClientReads(c)) /\ WF_vars(ServerStep(c))

-----------------------------------------------------------------------------
\* Properties.

(***************************************************************************)
(* A session is one login: the id and the school that the client has in    *)
(* its globals are those of one LOGIN_OK which the server has sent on this *)
(* connection (handlers.c:33-80, client.c:58).                             *)
(***************************************************************************)
SessionIsOneLogin ==
    \A c \in Handlers : user[c] # NoId => <<user[c], school[c]>> \in granted[c]

(***************************************************************************)
(* Client and server stay in step: a client at its menu has no request or  *)
(* answer under way, one that waits has at most one, and it is the one     *)
(* that it waits for (network.c:102-155, server.c:34-42).                  *)
(***************************************************************************)
InStep ==
    \A c \in Handlers :
        /\ stage[c] = "menu" => Silent(c)
        /\ stage[c] \in {"wait", "more"} =>
             /\ Behind(c) <= 1
             /\ up[c] # <<>> => Head(up[c]) = request[c]
             /\ asked[c] # NoReq => asked[c] = request[c]
             /\ down[c] # <<>> => Head(down[c]).req = request[c]

(***************************************************************************)
(* Who is logged out has no school left over that the next session could   *)
(* inherit (handlers.c:136-142).  This takes answers that come in time:    *)
(* the login screen sends a LOGIN with an empty id too (menu.c:78-86), and *)
(* handle_login would take a late LOGIN_OK for the answer to it, and store *)
(* its school beside the empty id (handlers.c:53-75).                      *)
(***************************************************************************)
LoggedOutIsClean ==
    \A c \in Handlers : user[c] = NoId => school[c] = NoPlace

(***************************************************************************)
(* A client that waits for an answer comes back to its menu, also when the *)
(* server never answers (network.c:108-121).                               *)
(***************************************************************************)
EveryWaitEnds ==
    \A c \in Handlers : stage[c] \in {"wait", "more"} ~> stage[c] = "menu"
=============================================================================
