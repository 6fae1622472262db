-------------------------------- MODULE Wire --------------------------------
(***************************************************************************)
(* One request on its way: the text that the client's handlers build from  *)
(* what was typed (src/client/handlers.c), what strtok makes of it in      *)
(* handle_client (src/server/server.c), the text of the answer, what       *)
(* strtok makes of that in the handler, and what the user is told          *)
(* (src/client/menu.c, src/client/menu_general.c).                         *)
(*                                                                         *)
(* A text is a sequence of words and slashes; a word is a run of           *)
(* characters without a slash.                                             *)
(***************************************************************************)
EXTENDS Texts

CONSTANTS
    Words,    \* what the user may type between two slashes
    Typed,    \* the texts the user may type where nothing is checked
    Slash

Commands ==
    {"LOGIN", "REGISTER_GENERAL", "UPDATE", "DELETE", "GET_CHILDREN", "ADD_CHILD",
     "DEL_CHILD", "CHILD_MEAL", "CHILD_MULTI_MEAL", "GET_MEAL", "GET_MULTI_MEAL"}

\* What the programs themselves write into a text, and the two codes.
Signs == Commands \cup
    {"RESP_LOGIN_OK", "RESP_DB_ERROR", "ERR_INVALID_LOGIN", "RESP_REGISTER_OK",
     "ERR_ID_DUPLICATE", "SCHOOL_NOT_FOUND", "RESP_UPDATE_OK", "RESP_DELETE_OK",
     "RESP_MEAL_OK", "ERR_MEAL_NOT_FOUND", "ERR_INVALID_DATE_FORMAT",
     "RESP_UNKNOWN_COMMAND", "RESP_INVALID_REQUEST", "edu", "school", "role", "meal"}

ASSUME WireAssumption ==
    /\ Slash \notin Words /\ Slash \notin Signs /\ Slash \notin {0, 1}
    /\ Typed \subseteq Seq(Words \cup {Slash})

VARIABLES
    place,        \* where the request is
    request,   \* the request the user means
    text,      \* what is on the wire
    heard,     \* what the server has understood
    told       \* what the user has been told

wireVars == <<place, request, text, heard, told>>

NoRequest == [screen |-> "none", cmd |-> "none", fields |-> <<>>]

\* What an asker with a form means by each of its fields.
Form(cmd) ==
    CASE cmd = "LOGIN" -> <<"id", "pw">>
      [] cmd \in {"REGISTER_GENERAL", "UPDATE"} -> <<"id", "pw", "edu", "school">>
      [] cmd = "DELETE" -> <<"id">>
      [] cmd = "GET_MEAL" -> <<"edu", "school", "date">>
      [] cmd = "GET_MULTI_MEAL" -> <<"edu", "school", "period">>
      [] cmd = "CHILD_MEAL" -> <<"id", "child", "date">>
      [] cmd = "CHILD_MULTI_MEAL" -> <<"id", "child", "start", "end">>
      [] OTHER -> <<>>

-----------------------------------------------------------------------------
\* Texts.

\* The command or status first, and "//" before each of the other parts.
Line(head, parts) == Joined(<<head>>, parts, <<Slash, Slash>>)

\* The parts of a text: strtok(text, "//").
Tokens(t) == strtok(t, {Slash})

NULL == <<>>

\* A part that the reader of a text looks for.
Part(tokens, k) == IF k <= Len(tokens) THEN tokens[k] ELSE NULL

-----------------------------------------------------------------------------
\* The client builds a request.

\* Text that has passed is_valid_id, is_valid_password, is_valid_edu_office or
\* validate_date_format, or that came from the server: one word.
Checked == {<<w>> : w \in Words}

\* get_school_input asks again for less than two characters.
LongEnough == Typed \ {<<>>, <<Slash>>}

Send(screen, cmd, fields) ==
    /\ place = "menu"
    /\ request' = [screen |-> screen, cmd |-> cmd, fields |-> fields]
    /\ text' = Line(cmd, fields)
    /\ place' = "sent"
    /\ UNCHANGED <<heard, told>>

AskLogin == \E f \in Typed \X Typed : Send("login", "LOGIN", f)

AskRegister ==
    \E f \in Checked \X Checked \X Checked \X Typed : Send("login", "REGISTER_GENERAL", f)

AskUser ==
    \/ \E cmd \in {"REGISTER_GENERAL", "UPDATE"} :
       \E f \in Checked \X Checked \X Checked \X LongEnough : Send("users", cmd, f)
    \/ \E id \in Checked : Send("users", "DELETE", <<id>>)

AskMeal ==
    \E cmd \in {"GET_MEAL", "GET_MULTI_MEAL"} :
    \E f \in Checked \X Checked \X Checked : Send("meals", cmd, f)

\* Of another school's meal only the period is checked.
AskOtherMeal ==
    \/ \E f \in Typed \X Typed \X LongEnough : Send("meals", "GET_MEAL", f)
    \/ \E f \in Typed \X Typed \X Checked : Send("meals", "GET_MULTI_MEAL", f)

\* The two functions for children's meals that no menu calls yet.
AskChildMeal ==
    \/ \E f \in Checked \X Checked \X Checked : Send("children", "CHILD_MEAL", f)
    \/ \E f \in Checked \X Checked \X Checked \X Checked :
           Send("children", "CHILD_MULTI_MEAL", f)

-----------------------------------------------------------------------------
\* The server reads it.

\* The variables that the parser fills, in their order.
Positions(cmd) ==
    CASE cmd = "GET_MEAL" -> <<"edu", "school", "date">>
      [] cmd = "GET_MULTI_MEAL" -> <<"edu", "school", "period">>
      [] OTHER -> <<"id", "pw", "edu", "school", "date", "child", "period">>

\* WRONG variant of Needs: the chain does not test the last parameter of a
\* registration or of a login.
NeedsFewer(cmd) ==
    CASE cmd \in {"LOGIN", "DELETE", "GET_CHILDREN"} -> {"id"}
      [] cmd \in {"REGISTER_GENERAL", "UPDATE"} -> {"id", "pw", "edu"}
      [] cmd \in {"ADD_CHILD", "DEL_CHILD"} -> {"id", "child"}
      [] cmd = "CHILD_MEAL" -> {"id", "child", "date"}
      [] cmd = "CHILD_MULTI_MEAL" -> {"id", "child", "period"}
      [] cmd = "GET_MEAL" -> {"edu", "school"}
      [] cmd = "GET_MULTI_MEAL" -> {"edu", "school", "period"}
      [] OTHER -> {}

\* WRONG variant of Needs: an update must also say a date.
NeedsMore(cmd) ==
    IF cmd = "UPDATE" THEN {"id", "pw", "edu", "school", "date"}
    ELSE NeedsFewer(cmd)

\* Those that must not be NULL.
Needs(cmd) ==
    CASE cmd = "LOGIN" -> {"id", "pw"}
      [] cmd \in {"REGISTER_GENERAL", "UPDATE"} -> {"id", "pw", "edu", "school"}
      [] cmd \in {"DELETE", "GET_CHILDREN"} -> {"id"}
      [] cmd \in {"ADD_CHILD", "DEL_CHILD"} -> {"id", "child"}
      [] cmd = "CHILD_MEAL" -> {"id", "child", "date"}
      [] cmd = "CHILD_MULTI_MEAL" -> {"id", "child", "period"}
      [] cmd = "GET_MEAL" -> {"edu", "school", "date"}
      [] cmd = "GET_MULTI_MEAL" -> {"edu", "school", "period"}
      [] OTHER -> {}

\* The value of each variable after the parser.
Parsed(tokens) ==
    LET places == Positions(tokens[1][1])
    IN  [n \in Range(places) |->
            Part(tokens, 1 + CHOOSE k \in 1 .. Len(places) : places[k] = n)]

Understood(tokens) ==
    LET cmd  == tokens[1][1]
        args == Parsed(tokens)
    IN  [verdict |->
            IF cmd \notin Commands THEN "RESP_UNKNOWN_COMMAND"
            ELSE IF \E n \in Needs(cmd) : args[n] = NULL THEN "RESP_INVALID_REQUEST"
            ELSE "taken",
         args |-> args]

Read ==
    /\ place = "sent"
    /\ heard' = Understood(Tokens(text))
    /\ place' = "read"
    /\ UNCHANGED <<request, text, told>>

\* The answers each command may get, with their data.
Replies(cmd) ==
    LET ok(message, data) == <<1, message, data>>
        error(message)    == <<0, message, <<>>>>
    IN  CASE cmd = "LOGIN" ->
                 {ok("RESP_LOGIN_OK", <<<<"edu">>, <<"school">>, <<"role">>>>),
                  error("RESP_DB_ERROR"), error("ERR_INVALID_LOGIN")}
          [] cmd = "REGISTER_GENERAL" ->
                 {ok("RESP_REGISTER_OK", <<>>), error("ERR_ID_DUPLICATE"),
                  error("SCHOOL_NOT_FOUND")}
          [] cmd = "UPDATE" ->
                 {ok("RESP_UPDATE_OK", <<>>), error("SCHOOL_NOT_FOUND"),
                  error("RESP_DB_ERROR")}
          [] cmd = "DELETE" -> {ok("RESP_DELETE_OK", <<>>), error("RESP_DB_ERROR")}
          [] cmd \in {"GET_MEAL", "GET_MULTI_MEAL"} ->
                 {ok("RESP_MEAL_OK", <<<<"meal">>>>), error("SCHOOL_NOT_FOUND"),
                  error("ERR_MEAL_NOT_FOUND")}
                 \cup (IF cmd = "GET_MULTI_MEAL" THEN {error("ERR_INVALID_DATE_FORMAT")} ELSE {})
          [] OTHER -> {}

\* WRONG variant of send_response: a LOGIN is answered without its data.
send_no_data(reply) == Line(reply[1], <<<<reply[2]>>>>)

\* send_response: the data follows the message if there is any.
send_response(reply) == Line(reply[1], <<<<reply[2]>>>> \o reply[3])

Reply ==
    /\ place = "read"
    /\ \E reply \in IF heard.verdict = "taken" THEN Replies(request.cmd)
                    ELSE {<<0, heard.verdict, <<>>>>} :
           text' = send_response(reply)
    /\ place' = "replied"
    /\ UNCHANGED <<request, heard, told>>

\* The answer does not come: the connection is gone, or a registration's INSERT
\* has failed.
Silence ==
    /\ place \in {"sent", "read"}
    /\ text' = <<>>
    /\ place' = "replied"
    /\ UNCHANGED <<request, heard, told>>

-----------------------------------------------------------------------------
\* The client tells the user.

\* handle_login: the status, and three parts after the message.
handle_login(tokens) ==
    IF tokens[1] = <<1>> /\ Part(tokens, 5) # NULL THEN "success" ELSE "refusal"

handle_register(tokens) ==
    CASE tokens[1] = <<1>> /\ tokens[2] = <<"RESP_REGISTER_OK">> -> "success"
      [] tokens[1] = <<0>> /\ tokens[2] = <<"ERR_ID_DUPLICATE">> -> "duplicate"
      [] OTHER -> "refusal"

\* handle_add_user, handle_update_user: their false is a communication error to
\* the menu.
handle_user(cmd, tokens) ==
    IF tokens[1] = <<1>> /\ (cmd = "UPDATE" \/ tokens[2] = <<"RESP_REGISTER_OK">>)
      THEN "success" ELSE "communication error"

handle_delete_user(tokens) == IF tokens[1] = <<1>> THEN "success" ELSE "refusal"

\* No answer is an error to every handler.  get_meal_from_neis,
\* get_meals_period_from_neis: any answer is shown as a meal.
Told(screen, cmd, tokens) ==
    CASE tokens = <<>> -> "communication error"
      [] tokens # <<>> /\ cmd = "LOGIN" -> handle_login(tokens)
      [] tokens # <<>> /\ cmd = "DELETE" -> handle_delete_user(tokens)
      [] tokens # <<>> /\ screen = "users" /\ cmd # "DELETE" -> handle_user(cmd, tokens)
      [] tokens # <<>> /\ screen = "login" /\ cmd # "LOGIN" -> handle_register(tokens)
      [] tokens # <<>> /\ screen = "meals" -> "success"
      [] OTHER -> "answered"

Tell ==
    /\ place = "replied"
    /\ told' = Told(request.screen, request.cmd, Tokens(text))
    /\ place' = "told"
    /\ UNCHANGED <<request, text, heard>>

\* The menu again.
GoOn ==
    /\ place = "told"
    /\ place' = "menu"
    /\ request' = NoRequest
    /\ text' = <<>>
    /\ heard' = [verdict |-> "none", args |-> <<>>]
    /\ told' = "none"

WireInit ==
    /\ place = "menu"
    /\ request = NoRequest
    /\ text = <<>>
    /\ heard = [verdict |-> "none", args |-> <<>>]
    /\ told = "none"

WireNext ==
    \/ AskLogin \/ AskRegister \/ AskUser \/ AskMeal \/ AskOtherMeal
    \/ AskChildMeal
    \/ Read \/ Reply \/ Silence \/ Tell \/ GoOn

WireSpec == WireInit /\ [][WireNext]_wireVars

-----------------------------------------------------------------------------
SlashFree == \A k \in 1 .. Len(request.fields) : Slash \notin Range(request.fields[k])

Complete == \A k \in 1 .. Len(request.fields) : request.fields[k] # <<>>

\* What was meant by the field with this name.
Meant(n) ==
    LET form == Form(request.cmd)
        k    == CHOOSE k \in 1 .. Len(form) : form[k] = n
    IN  request.fields[k]

UnderstoodAsMeant ==
    \A n \in Needs(request.cmd) :
        n \in Range(Form(request.cmd)) /\ Meant(n) = heard.args[n]

(* If no field has a slash in it, the server acts on exactly the values that
   were typed, or refuses the request: an empty field shifts the later ones to
   the left, and only the test of the last parameter notices
   (src/server/server.c:64-98, 100-433). *)
NeverMisread == (heard.verdict = "taken" /\ SlashFree) => UnderstoodAsMeant

(* A request of the client's menus without empty fields and slashes is never
   refused for its form: what the handlers build (src/client/handlers.c) is what
   the parser's positions and the chain's tests expect (src/server/server.c:76-98). *)
MenusSpeakTheProtocol ==
    (/\ request.screen \in {"login", "users", "meals"}
     /\ Complete /\ SlashFree
     /\ heard.verdict # "none") => heard.verdict = "taken"

(* On the screens for accounts the user is told of a success exactly when the
   server has answered with RESP_SUCCESS, whatever each handler looks at in the
   answer (src/client/handlers.c:50-80, 102-133, 278-307, 330-345, 365-379). *)
SuccessIsTheServers ==
    (place = "told" /\ request.screen \in {"login", "users"})
        => (told = "success" <=> (text # <<>> /\ text[1] = 1))
=============================================================================
