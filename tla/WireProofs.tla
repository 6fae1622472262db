----------------------------- MODULE WireProofs -----------------------------
(***************************************************************************)
(* The three properties of Wire, for every vocabulary and everything that  *)
(* may be typed.  All of them come down to what strtok makes of a line     *)
(* (TextProofs): the parts that are not empty, if none has a slash in it.  *)
(***************************************************************************)
EXTENDS Wire, TextProofs

-----------------------------------------------------------------------------
\* Lines and their parts.

Letters == Words \cup {Slash} \cup Signs \cup {0, 1}

\* Texts without a slash.
Plain == Seq(Other(Letters, {Slash}))

\* What the tokens of a line are, if no part has a slash in it.
LEMMA TokensOfLine ==
  ASSUME NEW head \in Other(Letters, {Slash}), NEW parts \in Seq(Plain)
  PROVE  Tokens(Line(head, parts)) = WithHead(<<head>>, Filled(parts))
<1>1. PICK both \in Seq(Only(Letters, {Slash})) : both = <<Slash, Slash>>
  <2>1. <<Slash, Slash>> \in Seq(Only(Letters, {Slash}))
    BY DEF Letters, Only
  <2> QED
    BY <2>1
<1>2. both # <<>>
  BY <1>1
<1>3. PICK h \in Seq(Other(Letters, {Slash})) : h = <<head>>
  <2>1. <<head>> \in Seq(Other(Letters, {Slash}))
    OBVIOUS
  <2> QED
    BY <2>1
<1>4. h # <<>>
  BY <1>3
<1>5. parts \in Seq(Seq(Other(Letters, {Slash})))
  BY DEF Plain
<1>6. strtok(Joined(h, parts, both), {Slash}) = Filled(WithHead(h, parts))
  BY <1>2, <1>5, StrtokJoined
<1>7. Filled(WithHead(h, parts)) = WithHead(h, Filled(parts))
  BY <1>4, <1>5, FilledFirst
<1> QED
  BY <1>1, <1>3, <1>6, <1>7 DEF Tokens, Line

\* The first token, and the others by their number.
LEMMA PartsOfLine ==
  ASSUME NEW head \in Other(Letters, {Slash}), NEW parts \in Seq(Plain)
  PROVE  /\ Tokens(Line(head, parts))[1] = <<head>>
         /\ Len(Filled(parts)) \in Nat
         /\ Len(Tokens(Line(head, parts))) = Len(Filled(parts)) + 1
         /\ \A k \in Nat \ {0} :
                Part(Tokens(Line(head, parts)), k + 1) = Part(Filled(parts), k)
<1>1. PICK f \in Seq(Plain) : f = Filled(parts)
  <2>1. Filled(parts) \in Seq(Plain)
    BY FilledTypes DEF Plain
  <2> QED
    BY <2>1
<1>2. PICK h \in Plain : h = <<head>>
  <2>1. <<head>> \in Plain
    BY DEF Plain
  <2> QED
    BY <2>1
<1>3. PICK t : t = WithHead(h, f)
  OBVIOUS
<1>4. /\ Len(f) \in Nat /\ Len(t) = Len(f) + 1 /\ t[1] = h
      /\ \A k \in 1 .. Len(f) : t[k + 1] = f[k]
  BY <1>3, PartsWithHead
<1>5. ASSUME NEW k \in Nat \ {0}
      PROVE  Part(t, k + 1) = Part(f, k)
  BY <1>4 DEF Part
<1>6. t = Tokens(Line(head, parts))
  BY <1>1, <1>2, <1>3, TokensOfLine
<1> QED
  BY <1>1, <1>2, <1>4, <1>5, <1>6

\* Where something stands that stands there only.
LEMMA Place ==
  ASSUME NEW s, NEW k \in 1 .. Len(s), \A j \in 1 .. Len(s) : s[j] = s[k] => j = k
  PROVE  (CHOOSE j \in 1 .. Len(s) : s[j] = s[k]) = k
  OBVIOUS

-----------------------------------------------------------------------------
\* The client's forms and the server's parser.

\* Which screen asks what.
Asked == {<<"login", "LOGIN">>, <<"login", "REGISTER_GENERAL">>,
          <<"users", "REGISTER_GENERAL">>, <<"users", "UPDATE">>, <<"users", "DELETE">>,
          <<"meals", "GET_MEAL">>, <<"meals", "GET_MULTI_MEAL">>,
          <<"children", "CHILD_MEAL">>, <<"children", "CHILD_MULTI_MEAL">>}

MenuCommands == {"LOGIN", "REGISTER_GENERAL", "UPDATE", "DELETE", "GET_MEAL", "GET_MULTI_MEAL"}

ChildCommands == {"CHILD_MEAL", "CHILD_MULTI_MEAL"}

\* The requests that the menus and handlers make.
Requests ==
    {r \in [screen : {"login", "users", "meals", "children"}, cmd : MenuCommands \cup ChildCommands,
            fields : Seq(Seq(Words \cup {Slash}))] :
        <<r.screen, r.cmd>> \in Asked /\ Len(r.fields) = Len(Form(r.cmd))}

\* The parser expects what the form says, and all of it.
Agrees(cmd) ==
    /\ Len(Form(cmd)) \in 1 .. Len(Positions(cmd)) /\ Len(Positions(cmd)) \in Nat
    /\ DOMAIN Positions(cmd) = 1 .. Len(Positions(cmd))
    /\ DOMAIN Form(cmd) = 1 .. Len(Form(cmd))
    /\ \A k \in 1 .. Len(Form(cmd)) :
          /\ Positions(cmd)[k] = Form(cmd)[k]
          /\ \A j \in 1 .. Len(Positions(cmd)) : Positions(cmd)[j] = Positions(cmd)[k] => j = k
    /\ Needs(cmd) = Range(Form(cmd))

LEMMA MenusAgree ==
  ASSUME NEW cmd \in MenuCommands
  PROVE  Agrees(cmd)
<1>1. CASE cmd = "LOGIN"
  <2>1. Positions(cmd) = <<"id", "pw", "edu", "school", "date", "child", "period">>
    BY <1>1 DEF Positions
  <2>2. Form(cmd) = <<"id", "pw">>
    BY <1>1 DEF Form
  <2>3. Needs(cmd) = {"id", "pw"}
    BY <1>1 DEF Needs
  <2>4. Needs(cmd) = Range(Form(cmd))
    BY <2>2, <2>3 DEF Range
  <2>5. DOMAIN Positions(cmd) = 1 .. Len(Positions(cmd)) /\ DOMAIN Form(cmd) = 1 .. Len(Form(cmd))
    BY <2>1, <2>2
  <2>6. Len(Form(cmd)) \in 1 .. Len(Positions(cmd)) /\ Len(Positions(cmd)) \in Nat
    BY <2>1, <2>2
  <2>7. ASSUME NEW k \in 1 .. Len(Form(cmd))
        PROVE  Positions(cmd)[k] = Form(cmd)[k]
    BY <2>1, <2>2
  <2>8. ASSUME NEW k \in 1 .. Len(Form(cmd)), NEW j \in 1 .. Len(Positions(cmd)),
               Positions(cmd)[j] = Positions(cmd)[k]
        PROVE  j = k
    BY <2>1, <2>2, <2>8
  <2> QED
    BY <2>4, <2>5, <2>6, <2>7, <2>8 DEF Agrees
<1>2. CASE cmd \in {"REGISTER_GENERAL", "UPDATE"}
  <2>1. Positions(cmd) = <<"id", "pw", "edu", "school", "date", "child", "period">>
    BY <1>2 DEF Positions
  <2>2. Form(cmd) = <<"id", "pw", "edu", "school">>
    BY <1>2 DEF Form
  <2>3. Needs(cmd) = {"id", "pw", "edu", "school"}
    BY <1>2 DEF Needs
  <2>4. Needs(cmd) = Range(Form(cmd))
    BY <2>2, <2>3 DEF Range
  <2>5. DOMAIN Positions(cmd) = 1 .. Len(Positions(cmd)) /\ DOMAIN Form(cmd) = 1 .. Len(Form(cmd))
    BY <2>1, <2>2
  <2>6. Len(Form(cmd)) \in 1 .. Len(Positions(cmd)) /\ Len(Positions(cmd)) \in Nat
    BY <2>1, <2>2
  <2>7. ASSUME NEW k \in 1 .. Len(Form(cmd))
        PROVE  Positions(cmd)[k] = Form(cmd)[k]
    BY <2>1, <2>2
  <2>8. ASSUME NEW k \in 1 .. Len(Form(cmd)), NEW j \in 1 .. Len(Positions(cmd)),
               Positions(cmd)[j] = Positions(cmd)[k]
        PROVE  j = k
    BY <2>1, <2>2, <2>8
  <2> QED
    BY <2>4, <2>5, <2>6, <2>7, <2>8 DEF Agrees
<1>3. CASE cmd = "DELETE"
  <2>1. Positions(cmd) = <<"id", "pw", "edu", "school", "date", "child", "period">>
    BY <1>3 DEF Positions
  <2>2. Form(cmd) = <<"id">>
    BY <1>3 DEF Form
  <2>3. Needs(cmd) = {"id"}
    BY <1>3 DEF Needs
  <2>4. Needs(cmd) = Range(Form(cmd))
    BY <2>2, <2>3 DEF Range
  <2>5. DOMAIN Positions(cmd) = 1 .. Len(Positions(cmd)) /\ DOMAIN Form(cmd) = 1 .. Len(Form(cmd))
    BY <2>1, <2>2
  <2>6. Len(Form(cmd)) \in 1 .. Len(Positions(cmd)) /\ Len(Positions(cmd)) \in Nat
    BY <2>1, <2>2
  <2>7. ASSUME NEW k \in 1 .. Len(Form(cmd))
        PROVE  Positions(cmd)[k] = Form(cmd)[k]
    BY <2>1, <2>2
  <2>8. ASSUME NEW k \in 1 .. Len(Form(cmd)), NEW j \in 1 .. Len(Positions(cmd)),
               Positions(cmd)[j] = Positions(cmd)[k]
        PROVE  j = k
    BY <2>1, <2>2, <2>8
  <2> QED
    BY <2>4, <2>5, <2>6, <2>7, <2>8 DEF Agrees
<1>4. CASE cmd = "GET_MEAL"
  <2>1. Positions(cmd) = <<"edu", "school", "date">>
    BY <1>4 DEF Positions
  <2>2. Form(cmd) = <<"edu", "school", "date">>
    BY <1>4 DEF Form
  <2>3. Needs(cmd) = {"edu", "school", "date"}
    BY <1>4 DEF Needs
  <2>4. Needs(cmd) = Range(Form(cmd))
    BY <2>2, <2>3 DEF Range
  <2>5. DOMAIN Positions(cmd) = 1 .. Len(Positions(cmd)) /\ DOMAIN Form(cmd) = 1 .. Len(Form(cmd))
    BY <2>1, <2>2
  <2>6. Len(Form(cmd)) \in 1 .. Len(Positions(cmd)) /\ Len(Positions(cmd)) \in Nat
    BY <2>1, <2>2
  <2>7. ASSUME NEW k \in 1 .. Len(Form(cmd))
        PROVE  Positions(cmd)[k] = Form(cmd)[k]
    BY <2>1, <2>2
  <2>8. ASSUME NEW k \in 1 .. Len(Form(cmd)), NEW j \in 1 .. Len(Positions(cmd)),
               Positions(cmd)[j] = Positions(cmd)[k]
        PROVE  j = k
    BY <2>1, <2>2, <2>8
  <2> QED
    BY <2>4, <2>5, <2>6, <2>7, <2>8 DEF Agrees
<1>5. CASE cmd = "GET_MULTI_MEAL"
  <2>1. Positions(cmd) = <<"edu", "school", "period">>
    BY <1>5 DEF Positions
  <2>2. Form(cmd) = <<"edu", "school", "period">>
    BY <1>5 DEF Form
  <2>3. Needs(cmd) = {"edu", "school", "period"}
    BY <1>5 DEF Needs
  <2>4. Needs(cmd) = Range(Form(cmd))
    BY <2>2, <2>3 DEF Range
  <2>5. DOMAIN Positions(cmd) = 1 .. Len(Positions(cmd)) /\ DOMAIN Form(cmd) = 1 .. Len(Form(cmd))
    BY <2>1, <2>2
  <2>6. Len(Form(cmd)) \in 1 .. Len(Positions(cmd)) /\ Len(Positions(cmd)) \in Nat
    BY <2>1, <2>2
  <2>7. ASSUME NEW k \in 1 .. Len(Form(cmd))
        PROVE  Positions(cmd)[k] = Form(cmd)[k]
    BY <2>1, <2>2
  <2>8. ASSUME NEW k \in 1 .. Len(Form(cmd)), NEW j \in 1 .. Len(Positions(cmd)),
               Positions(cmd)[j] = Positions(cmd)[k]
        PROVE  j = k
    BY <2>1, <2>2, <2>8
  <2> QED
    BY <2>4, <2>5, <2>6, <2>7, <2>8 DEF Agrees
<1> QED
  BY <1>1, <1>2, <1>3, <1>4, <1>5 DEF MenuCommands

\* For a child's meal the server wants its name at the sixth place, where the
\* client's handlers have nothing.
Misfits(cmd) ==
    /\ DOMAIN Positions(cmd) = 1 .. 7 /\ Len(Positions(cmd)) = 7 /\ Positions(cmd)[6] = "child"
    /\ \A j \in 1 .. Len(Positions(cmd)) : Positions(cmd)[j] = "child" => j = 6
    /\ Len(Form(cmd)) <= 4
    /\ "child" \in Needs(cmd)

LEMMA ChildrenMisfit ==
  ASSUME NEW cmd \in ChildCommands
  PROVE  Misfits(cmd)
<1>1. CASE cmd = "CHILD_MEAL"
  <2>1. Positions(cmd) = <<"id", "pw", "edu", "school", "date", "child", "period">>
    BY <1>1 DEF Positions
  <2>2. Form(cmd) = <<"id", "child", "date">> /\ "child" \in Needs(cmd)
    BY <1>1 DEF Form, Needs
  <2>3. DOMAIN Positions(cmd) = 1 .. 7 /\ Len(Positions(cmd)) = 7 /\ Positions(cmd)[6] = "child"
    BY <2>1
  <2>4. \A j \in 1 .. 7 : Positions(cmd)[j] = "child" => j = 6
    BY <2>1
  <2>5. Len(Form(cmd)) <= 4
    BY <2>2
  <2> QED
    BY <2>2, <2>3, <2>4, <2>5 DEF Misfits
<1>2. CASE cmd = "CHILD_MULTI_MEAL"
  <2>1. Positions(cmd) = <<"id", "pw", "edu", "school", "date", "child", "period">>
    BY <1>2 DEF Positions
  <2>2. Form(cmd) = <<"id", "child", "start", "end">> /\ "child" \in Needs(cmd)
    BY <1>2 DEF Form, Needs
  <2>3. DOMAIN Positions(cmd) = 1 .. 7 /\ Len(Positions(cmd)) = 7 /\ Positions(cmd)[6] = "child"
    BY <2>1
  <2>4. \A j \in 1 .. 7 : Positions(cmd)[j] = "child" => j = 6
    BY <2>1
  <2>5. Len(Form(cmd)) <= 4
    BY <2>2
  <2> QED
    BY <2>2, <2>3, <2>4, <2>5 DEF Misfits
<1> QED
  BY <1>1, <1>2 DEF ChildCommands

-----------------------------------------------------------------------------
\* What the server understands of a request without slashes.

PlainRequests == {r \in Requests : r.fields \in Seq(Plain)}

LEMMA SlashFreeIsPlain ==
  ASSUME NEW fields \in Seq(Seq(Words \cup {Slash})),
         \A k \in 1 .. Len(fields) : Slash \notin Range(fields[k])
  PROVE  fields \in Seq(Plain)
<1>1. ASSUME NEW k \in 1 .. Len(fields)
      PROVE  fields[k] \in Plain
  <2>1. PICK t \in Seq(Words \cup {Slash}) : t = fields[k]
    OBVIOUS
  <2>2. ASSUME NEW j \in 1 .. Len(t)
        PROVE  t[j] \in Other(Letters, {Slash})
    <3>1. t[j] \in Words \cup {Slash} /\ j \in DOMAIN t
      OBVIOUS
    <3>2. t[j] # Slash
      BY <2>1, <3>1 DEF Range
    <3> QED
      BY <3>1, <3>2 DEF Other, Letters
  <2>3. t \in Seq(Other(Letters, {Slash}))
    BY <2>2, SequenceOf
  <2> QED
    BY <2>1, <2>3 DEF Plain
<1> QED
  BY <1>1

LEMMA CommandsAreLetters ==
  ASSUME NEW r \in Requests
  PROVE  r.cmd \in Other(Letters, {Slash}) /\ r.cmd \in Commands
  BY WireAssumption DEF Requests, MenuCommands, ChildCommands, Commands, Signs, Letters, Other

Heard(r) == Understood(Tokens(Line(r.cmd, r.fields)))

LEMMA ParsedByPlace ==
  ASSUME NEW r \in PlainRequests, NEW k \in 1 .. Len(Positions(r.cmd)),
         Len(Positions(r.cmd)) \in Nat, DOMAIN Positions(r.cmd) = 1 .. Len(Positions(r.cmd)),
         \A j \in 1 .. Len(Positions(r.cmd)) : Positions(r.cmd)[j] = Positions(r.cmd)[k] => j = k
  PROVE  Heard(r).args[Positions(r.cmd)[k]] = Part(Filled(r.fields), k)
<1> DEFINE cmd == r.cmd
           n == Positions(cmd)[k]
<1>1. r \in Requests /\ r.fields \in Seq(Plain)
  BY DEF PlainRequests
<1>2. cmd \in Other(Letters, {Slash})
  BY <1>1, CommandsAreLetters
<1>3. PICK tokens : tokens = Tokens(Line(cmd, r.fields))
  OBVIOUS
<1>4. tokens[1] = <<cmd>> /\ Part(tokens, k + 1) = Part(Filled(r.fields), k)
  <2>1. k \in Nat \ {0}
    OBVIOUS
  <2> QED
    BY <1>1, <1>2, <1>3, <2>1, PartsOfLine
<1>5. tokens[1][1] = cmd
  BY <1>4
<1>6. (CHOOSE j \in 1 .. Len(Positions(cmd)) : Positions(cmd)[j] = n) = k
  BY Place
<1>7. n \in Range(Positions(cmd))
  BY DEF Range
<1> HIDE DEF cmd, n
<1>8. Parsed(tokens)[n] = Part(tokens, 1 + k)
  BY <1>5, <1>6, <1>7 DEF Parsed
<1>9. 1 + k = k + 1
  OBVIOUS
<1>10. Heard(r).args = Parsed(tokens)
  BY <1>3 DEF Heard, Understood, cmd
<1> QED
  BY <1>4, <1>8, <1>9, <1>10 DEF n, cmd

\* What the server takes is what was meant: it looks at the last field, and there is
\* one there only if no field was empty.
LEMMA HeardAsMeant ==
  ASSUME NEW r \in PlainRequests, Heard(r).verdict = "taken",
         NEW n \in Needs(r.cmd)
  PROVE  /\ n \in Range(Form(r.cmd))
         /\ r.fields[CHOOSE k \in 1 .. Len(Form(r.cmd)) : Form(r.cmd)[k] = n] = Heard(r).args[n]
<1>1. /\ r \in Requests /\ r.fields \in Seq(Plain) /\ r.fields \in Seq(Seq(Words \cup {Slash}))
      /\ Len(r.fields) = Len(Form(r.cmd)) /\ r.cmd \in MenuCommands \cup ChildCommands
  BY DEF PlainRequests, Requests
<1>2. \A m \in Needs(r.cmd) : Heard(r).args[m] # NULL
  <2>1. r.cmd \in Other(Letters, {Slash})
    BY <1>1, CommandsAreLetters
  <2>2. Tokens(Line(r.cmd, r.fields))[1] = <<r.cmd>>
    BY <1>1, <2>1, PartsOfLine
  <2>3. Tokens(Line(r.cmd, r.fields))[1][1] = r.cmd
    BY <2>2
  <2> QED
    BY <2>3 DEF Heard, Understood
<1>3. /\ Len(Filled(r.fields)) \in 0 .. Len(r.fields)
      /\ Len(Filled(r.fields)) = Len(r.fields) => Filled(r.fields) = r.fields
  BY <1>1, FilledKeeps DEF Plain
<1>4. CASE r.cmd \in MenuCommands
  <2>1. Agrees(r.cmd)
    BY <1>4, MenusAgree
  <2>2. ASSUME NEW k \in 1 .. Len(Form(r.cmd))
        PROVE  /\ Heard(r).args[Form(r.cmd)[k]] = Part(Filled(r.fields), k)
               /\ Form(r.cmd)[k] \in Range(Form(r.cmd))
               /\ Form(r.cmd)[k] \in Needs(r.cmd)
    <3>1. /\ k \in 1 .. Len(Positions(r.cmd)) /\ Positions(r.cmd)[k] = Form(r.cmd)[k]
          /\ Len(Positions(r.cmd)) \in Nat /\ DOMAIN Positions(r.cmd) = 1 .. Len(Positions(r.cmd))
          /\ \A j \in 1 .. Len(Positions(r.cmd)) : Positions(r.cmd)[j] = Positions(r.cmd)[k] => j = k
      BY <2>1 DEF Agrees
    <3>2. Heard(r).args[Positions(r.cmd)[k]] = Part(Filled(r.fields), k)
      BY <3>1, ParsedByPlace
    <3>3. Form(r.cmd)[k] \in Range(Form(r.cmd)) /\ Form(r.cmd)[k] \in Needs(r.cmd)
      BY <2>1 DEF Agrees, Range
    <3> QED
      BY <3>1, <3>2, <3>3
  <2>3. Filled(r.fields) = r.fields
    <3>1. PICK m \in 1 .. Len(Form(r.cmd)) : m = Len(Form(r.cmd))
      BY <2>1 DEF Agrees
    <3>2. Part(Filled(r.fields), m) # NULL
      BY <1>2, <2>2
    <3>3. m <= Len(Filled(r.fields))
      BY <3>2 DEF Part
    <3> QED
      BY <1>1, <1>3, <3>1, <3>3
  <2>4. PICK k \in 1 .. Len(Form(r.cmd)) : Form(r.cmd)[k] = n
    BY <2>1 DEF Agrees, Range
  <2>5. (CHOOSE j \in 1 .. Len(Form(r.cmd)) : Form(r.cmd)[j] = Form(r.cmd)[k]) = k
    <3>1. ASSUME NEW j \in 1 .. Len(Form(r.cmd)), Form(r.cmd)[j] = Form(r.cmd)[k]
          PROVE  j = k
      BY <2>1, <3>1 DEF Agrees
    <3> QED
      BY <3>1, Place
  <2>6. Part(r.fields, k) = r.fields[k]
    BY <1>1 DEF Part
  <2> QED
    BY <2>2, <2>3, <2>4, <2>5, <2>6
<1>5. CASE r.cmd \in ChildCommands
  <2>1. Misfits(r.cmd)
    BY <1>5, ChildrenMisfit
  <2>2. Heard(r).args[Positions(r.cmd)[6]] = Part(Filled(r.fields), 6)
    <3>1. /\ 6 \in 1 .. Len(Positions(r.cmd)) /\ Len(Positions(r.cmd)) \in Nat
          /\ DOMAIN Positions(r.cmd) = 1 .. Len(Positions(r.cmd))
          /\ \A j \in 1 .. Len(Positions(r.cmd)) : Positions(r.cmd)[j] = Positions(r.cmd)[6] => j = 6
      BY <2>1 DEF Misfits
    <3> QED
      BY <3>1, ParsedByPlace
  <2>3. Part(Filled(r.fields), 6) = NULL
    <3>1. ~ (6 <= Len(Filled(r.fields)))
      BY <1>1, <1>3, <2>1 DEF Misfits
    <3> QED
      BY <3>1 DEF Part
  <2> QED
    BY <1>2, <2>1, <2>2, <2>3 DEF Misfits
<1> QED
  BY <1>1, <1>4, <1>5

\* What the menus send without empty fields is taken.
LEMMA MenusAreTaken ==
  ASSUME NEW r \in PlainRequests, r.cmd \in MenuCommands,
         \A k \in 1 .. Len(r.fields) : r.fields[k] # <<>>
  PROVE  Heard(r).verdict = "taken"
<1>1. /\ r \in Requests /\ r.fields \in Seq(Plain) /\ Len(r.fields) = Len(Form(r.cmd))
  BY DEF PlainRequests, Requests
<1>2. Agrees(r.cmd)
  BY MenusAgree
<1>3. Filled(r.fields) = r.fields
  BY <1>1, FilledKeeps DEF Plain
<1>4. ASSUME NEW n \in Needs(r.cmd)
      PROVE  Heard(r).args[n] # NULL
  <2>1. PICK k \in 1 .. Len(Form(r.cmd)) : Form(r.cmd)[k] = n
    BY <1>2 DEF Agrees, Range
  <2>2. /\ k \in 1 .. Len(Positions(r.cmd)) /\ Positions(r.cmd)[k] = n
        /\ Len(Positions(r.cmd)) \in Nat /\ DOMAIN Positions(r.cmd) = 1 .. Len(Positions(r.cmd))
        /\ \A j \in 1 .. Len(Positions(r.cmd)) : Positions(r.cmd)[j] = Positions(r.cmd)[k] => j = k
    BY <1>2, <2>1 DEF Agrees
  <2>3. Heard(r).args[Positions(r.cmd)[k]] = Part(Filled(r.fields), k)
    BY <2>2, ParsedByPlace
  <2>4. k \in 1 .. Len(r.fields) /\ Part(r.fields, k) = r.fields[k]
    BY <1>1, <2>1 DEF Part
  <2> QED
    BY <1>3, <2>2, <2>3, <2>4 DEF NULL
<1>5. r.cmd \in Other(Letters, {Slash}) /\ r.cmd \in Commands
  BY <1>1, CommandsAreLetters
<1>6. Tokens(Line(r.cmd, r.fields))[1] = <<r.cmd>>
  BY <1>1, <1>5, PartsOfLine
<1>7. Tokens(Line(r.cmd, r.fields))[1][1] = r.cmd
  BY <1>6
<1> QED
  BY <1>4, <1>5, <1>7 DEF Heard, Understood

-----------------------------------------------------------------------------
\* What the user is told.

Refusals == {<<0, "RESP_UNKNOWN_COMMAND", <<>>>>, <<0, "RESP_INVALID_REQUEST", <<>>>>}

\* What may be on the wire when the client looks.
Answers(cmd) == {<<>>} \cup {send_response(reply) : reply \in Replies(cmd) \cup Refusals}

Datas == {<<>>, <<<<"meal">>>>, <<<<"edu">>, <<"school">>, <<"role">>>>}

\* What the handlers rely on: a success has its own message, and its data.
Telling(cmd, reply) ==
    /\ reply[1] \in {0, 1} /\ reply[2] \in Signs /\ reply[3] \in Datas
    /\ reply[1] = 0 => reply[2] # "RESP_REGISTER_OK"
    /\ reply[1] = 1 /\ cmd = "REGISTER_GENERAL" => reply[2] = "RESP_REGISTER_OK"
    /\ reply[1] = 1 /\ cmd = "LOGIN" => reply[3] = <<<<"edu">>, <<"school">>, <<"role">>>>

LEMMA RepliesTell ==
  ASSUME NEW cmd \in MenuCommands \cup ChildCommands, NEW reply \in Replies(cmd) \cup Refusals
  PROVE  Telling(cmd, reply)
<1>1. CASE reply \in Refusals
  BY <1>1 DEF Refusals, Telling, Signs, Datas
<1>2. CASE reply \in Replies(cmd) /\ cmd = "LOGIN"
  BY <1>2 DEF Replies, Telling, Signs, Datas
<1>3. CASE reply \in Replies(cmd) /\ cmd = "REGISTER_GENERAL"
  BY <1>3 DEF Replies, Telling, Signs, Datas
<1>4. CASE reply \in Replies(cmd) /\ cmd = "UPDATE"
  BY <1>4 DEF Replies, Telling, Signs, Datas
<1>5. CASE reply \in Replies(cmd) /\ cmd = "DELETE"
  BY <1>5 DEF Replies, Telling, Signs, Datas
<1>6. CASE reply \in Replies(cmd) /\ cmd \in {"GET_MEAL", "GET_MULTI_MEAL"}
  BY <1>6 DEF Replies, Telling, Signs, Datas
<1>7. CASE reply \in Replies(cmd) /\ cmd \in ChildCommands
  BY <1>7 DEF Replies, ChildCommands
<1> QED
  BY <1>1, <1>2, <1>3, <1>4, <1>5, <1>6, <1>7 DEF MenuCommands

\* The parts of an answer arrive as they were sent.
LEMMA AnswerArrives ==
  ASSUME NEW cmd, NEW reply, Telling(cmd, reply)
  PROVE  LET t      == send_response(reply)
             tokens == Tokens(t)
         IN  /\ t # <<>> /\ t[1] = reply[1]
             /\ Len(tokens) = 2 + Len(reply[3])
             /\ tokens[1] = <<reply[1]>> /\ tokens[2] = <<reply[2]>>
             /\ \A k \in 3 .. Len(tokens) : tokens[k] # <<>>
<1>1. /\ reply[1] \in Other(Letters, {Slash}) /\ reply[2] \in Other(Letters, {Slash})
      /\ reply[3] \in Datas
  BY WireAssumption DEF Telling, Other, Letters
<1>2. PICK h \in Plain, m \in Plain : h = <<reply[1]>> /\ m = <<reply[2]>>
  <2>1. <<reply[1]>> \in Plain /\ <<reply[2]>> \in Plain
    BY <1>1 DEF Plain
  <2> QED
    BY <2>1
<1>3. PICK data \in Seq(Plain) : data = reply[3] /\ \A k \in 1 .. Len(data) : data[k] # <<>>
  <2>1. /\ "meal" \in Other(Letters, {Slash}) /\ "edu" \in Other(Letters, {Slash})
        /\ "school" \in Other(Letters, {Slash}) /\ "role" \in Other(Letters, {Slash})
    BY WireAssumption DEF Other, Letters, Signs
  <2>2. /\ <<"meal">> \in Plain /\ <<"edu">> \in Plain /\ <<"school">> \in Plain
        /\ <<"role">> \in Plain
    BY <2>1 DEF Plain
  <2>3. <<>> \in Seq(Plain)
    OBVIOUS
  <2>4. <<<<"meal">>>> \in Seq(Plain)
    BY <2>2
  <2>5. <<<<"edu">>, <<"school">>, <<"role">>>> \in Seq(Plain)
    BY <2>2
  <2>6. reply[3] \in Seq(Plain)
    BY <1>1, <2>3, <2>4, <2>5 DEF Datas
  <2>7. \A k \in 1 .. Len(reply[3]) : reply[3][k] # <<>>
    <3>1. CASE reply[3] = <<>>
      BY <3>1
    <3>2. CASE reply[3] = <<<<"meal">>>>
      BY <3>2
    <3>3. CASE reply[3] = <<<<"edu">>, <<"school">>, <<"role">>>>
      BY <3>3
    <3> QED
      BY <1>1, <3>1, <3>2, <3>3 DEF Datas
  <2> QED
    BY <2>6, <2>7
<1>4. PICK parts : parts = WithHead(m, data)
  OBVIOUS
<1>5. /\ Len(parts) = Len(data) + 1 /\ parts[1] = m
      /\ \A k \in 1 .. Len(data) : parts[k + 1] = data[k]
  BY <1>2, <1>3, <1>4, PartsWithHead
<1>6. parts \in Seq(Plain)
  <2>1. <<m>> \in Seq(Plain)
    BY <1>2
  <2> QED
    BY <1>3, <1>4, <2>1 DEF WithHead
<1>7. \A k \in 1 .. Len(parts) : parts[k] # <<>>
  <2>1. ASSUME NEW k \in 1 .. Len(parts)
        PROVE  parts[k] # <<>>
    <3>1. CASE k = 1
      <4>1. m # <<>>
        BY <1>2
      <4> QED
        BY <1>5, <3>1, <4>1
    <3>2. CASE k # 1
      <4>1. k - 1 \in 1 .. Len(data) /\ (k - 1) + 1 = k
        BY <1>3, <1>5, <3>2
      <4> QED
        BY <1>3, <1>5, <4>1
    <3> QED
      BY <3>1, <3>2
  <2> QED
    BY <2>1
<1>8. Filled(parts) = parts
  BY <1>6, <1>7, FilledKeeps DEF Plain
<1>9. PICK t : t = Line(reply[1], parts)
  OBVIOUS
<1>10. t = send_response(reply)
  BY <1>2, <1>3, <1>4, <1>9 DEF send_response, WithHead
<1>11. t # <<>> /\ t[1] = reply[1]
  <2>1. PICK C : C = Letters
    OBVIOUS
  <2>2. Other(Letters, {Slash}) \subseteq C /\ Slash \in C
    BY <2>1 DEF Other, Letters
  <2>3. h \in Seq(C) /\ h # <<>> /\ <<Slash, Slash>> \in Seq(C)
    <3>1. reply[1] \in C
      BY <1>1, <2>2
    <3>2. <<reply[1]>> \in Seq(C) /\ <<reply[1]>> # <<>>
      BY <3>1
    <3>3. <<Slash, Slash>> \in Seq(C)
      BY <2>2
    <3> QED
      BY <1>2, <3>2, <3>3
  <2>4. parts \in Seq(Seq(C))
    <3>1. Plain \subseteq Seq(C)
      BY <2>2, SeqMonotonic DEF Plain
    <3> QED
      BY <1>6, <3>1, SeqMonotonic
  <2>5. PICK g, both : g = h /\ both = <<Slash, Slash>>
    OBVIOUS
  <2>6. Joined(g, parts, both) # <<>> /\ Joined(g, parts, both)[1] = g[1]
    BY <2>3, <2>4, <2>5, JoinedFirst
  <2> QED
    BY <1>2, <1>9, <2>5, <2>6 DEF Line
<1>12. PICK tokens : tokens = Tokens(t)
  OBVIOUS
<1>13. tokens = WithHead(h, parts)
  BY <1>1, <1>6, <1>8, <1>2, <1>9, <1>12, TokensOfLine
<1>14. /\ Len(tokens) = Len(parts) + 1 /\ tokens[1] = h
       /\ \A k \in 1 .. Len(parts) : tokens[k + 1] = parts[k]
  BY <1>6, <1>13, PartsWithHead
<1>15. tokens[2] = m
  <2>1. 1 \in 1 .. Len(parts) /\ 1 + 1 = 2
    BY <1>3, <1>5
  <2> QED
    BY <1>5, <1>14, <2>1
<1>16. ASSUME NEW k \in 3 .. Len(tokens)
       PROVE  tokens[k] # <<>>
  <2>1. k - 1 \in 1 .. Len(parts) /\ (k - 1) + 1 = k
    BY <1>3, <1>5, <1>14
  <2> QED
    BY <1>7, <1>14, <2>1
<1> QED
  BY <1>2, <1>3, <1>5, <1>10, <1>11, <1>12, <1>14, <1>15, <1>16

LEMMA NothingArrives == Tokens(<<>>) = <<>>
  BY ScannedEmpty DEF Tokens, strtok, AtStart

\* A success is told exactly if the answer says one.
LEMMA SuccessIsTold ==
  ASSUME NEW cmd \in MenuCommands, NEW screen \in {"login", "users"},
         <<screen, cmd>> \in Asked,
         NEW t \in Answers(cmd)
  PROVE  Told(screen, cmd, Tokens(t)) = "success" <=> (t # <<>> /\ t[1] = 1)
<1>1. CASE t = <<>>
  BY <1>1, NothingArrives DEF Told
<1>2. CASE t # <<>>
  <2>1. PICK reply \in Replies(cmd) \cup Refusals : t = send_response(reply)
    BY <1>2 DEF Answers
  <2>2. Telling(cmd, reply)
    BY RepliesTell
  <2>3. PICK tokens : tokens = Tokens(t)
    OBVIOUS
  <2>4. /\ t[1] = reply[1] /\ Len(tokens) = 2 + Len(reply[3])
        /\ tokens[1] = <<reply[1]>> /\ tokens[2] = <<reply[2]>>
        /\ \A k \in 3 .. Len(tokens) : tokens[k] # <<>>
    BY <2>1, <2>2, <2>3, AnswerArrives
  <2>5. tokens # <<>>
    <3>1. Len(reply[3]) \in Nat
      BY <2>2 DEF Telling, Datas
    <3>2. Len(<<>>) = 0
      OBVIOUS
    <3> QED
      BY <2>4, <3>1, <3>2
  <2>6. tokens[1] = <<1>> <=> reply[1] = 1
    BY <2>4
  <2>7. CASE cmd = "LOGIN"
    <3>1. reply[1] = 1 => Part(tokens, 5) # NULL
      <4> SUFFICES ASSUME reply[1] = 1 PROVE Part(tokens, 5) # NULL
        OBVIOUS
      <4>1. reply[3] = <<<<"edu">>, <<"school">>, <<"role">>>>
        BY <2>2, <2>7 DEF Telling
      <4>2. Len(reply[3]) = 3
        BY <4>1
      <4>3. Len(tokens) = 2 + Len(reply[3])
        BY <2>4
      <4>4. Len(tokens) = 5
        BY <4>2, <4>3
      <4> QED
        BY <2>4, <4>4 DEF Part, NULL
    <3>2. Told(screen, cmd, tokens) = handle_login(tokens)
      BY <2>5, <2>7 DEF Told, Asked
    <3> QED
      BY <1>2, <2>3, <2>4, <2>6, <3>1, <3>2 DEF handle_login
  <2>8. CASE cmd = "DELETE"
    <3>1. Told(screen, cmd, tokens) = handle_delete_user(tokens)
      BY <2>5, <2>8 DEF Told, Asked
    <3> QED
      BY <1>2, <2>3, <2>4, <2>6, <3>1 DEF handle_delete_user
  <2>9. tokens[2] = <<"RESP_REGISTER_OK">> <=> reply[2] = "RESP_REGISTER_OK"
    BY <2>4
  <2>10. CASE cmd \in {"REGISTER_GENERAL", "UPDATE"} /\ screen = "users"
    <3>1. Told(screen, cmd, tokens) = handle_user(cmd, tokens)
      BY <2>5, <2>10 DEF Told
    <3> QED
      BY <1>2, <2>2, <2>3, <2>4, <2>6, <2>9, <2>10, <3>1 DEF handle_user, Telling
  <2>11. CASE cmd = "REGISTER_GENERAL" /\ screen = "login"
    <3>1. Told(screen, cmd, tokens) = handle_register(tokens)
      BY <2>5, <2>11 DEF Told
    <3>2. Told(screen, cmd, tokens) = "success" <=> tokens[1] = <<1>> /\ tokens[2] = <<"RESP_REGISTER_OK">>
      BY <3>1 DEF handle_register
    <3> QED
      BY <1>2, <2>2, <2>3, <2>4, <2>6, <2>9, <2>11, <3>2 DEF Telling
  <2> QED
    BY <2>7, <2>8, <2>10, <2>11 DEF MenuCommands, Asked
<1> QED
  BY <1>1, <1>2

-----------------------------------------------------------------------------
\* The invariant: what is on the wire at each point of a request's way.

WireInv ==
    /\ place \in {"menu", "sent", "read", "replied", "told"}
    /\ IF place = "menu" THEN request = NoRequest ELSE request \in Requests
    /\ heard.verdict # "none" => place # "menu" /\ heard = Heard(request)
    /\ place = "sent" => heard.verdict = "none" /\ text = Line(request.cmd, request.fields)
    /\ place = "read" => heard.verdict # "none"
    /\ place \in {"replied", "told"} => text \in Answers(request.cmd)
    /\ place = "told" => told = Told(request.screen, request.cmd, Tokens(text))

LEMMA AskKeepsInv ==
  ASSUME WireInv, NEW screen, NEW cmd, NEW fields, Send(screen, cmd, fields),
         cmd \in MenuCommands \cup ChildCommands, <<screen, cmd>> \in Asked,
         fields \in Seq(Seq(Words \cup {Slash})), Len(fields) = Len(Form(cmd))
  PROVE  WireInv'
<1>1. /\ place = "menu" /\ place' = "sent" /\ text' = Line(cmd, fields) /\ UNCHANGED heard
      /\ request' = [screen |-> screen, cmd |-> cmd, fields |-> fields]
  BY DEF Send
<1>2. request' \in Requests
  BY <1>1 DEF Requests, Asked
<1>3. heard.verdict = "none"
  BY <1>1 DEF WireInv
<1> QED
  BY <1>1, <1>2, <1>3 DEF WireInv

\* What may be typed.
LEMMA TypedTexts ==
  /\ Typed \subseteq Seq(Words \cup {Slash})
  /\ Checked \subseteq Seq(Words \cup {Slash})
  /\ LongEnough \subseteq Seq(Words \cup {Slash})
<1>1. Typed \subseteq Seq(Words \cup {Slash})
  BY WireAssumption
<1>2. ASSUME NEW w \in Words
      PROVE  <<w>> \in Seq(Words \cup {Slash})
  OBVIOUS
<1>3. Checked \subseteq Seq(Words \cup {Slash})
  BY <1>2 DEF Checked
<1>4. LongEnough \subseteq Typed
  BY DEF LongEnough
<1> QED
  BY <1>1, <1>3, <1>4

\* Two, three and four texts.
LEMMA Tuples ==
  ASSUME NEW C, NEW C1, NEW C2, NEW C3, NEW C4,
         C1 \subseteq C, C2 \subseteq C, C3 \subseteq C, C4 \subseteq C
  PROVE  /\ \A f \in C1 \X C2 : f \in Seq(C) /\ Len(f) = 2
         /\ \A f \in C1 \X C2 \X C3 : f \in Seq(C) /\ Len(f) = 3
         /\ \A f \in C1 \X C2 \X C3 \X C4 : f \in Seq(C) /\ Len(f) = 4
<1>1. ASSUME NEW t1 \in C1, NEW t2 \in C2
      PROVE  <<t1, t2>> \in Seq(C) /\ Len(<<t1, t2>>) = 2
  OBVIOUS
<1>2. ASSUME NEW t1 \in C1, NEW t2 \in C2, NEW t3 \in C3
      PROVE  <<t1, t2, t3>> \in Seq(C) /\ Len(<<t1, t2, t3>>) = 3
  OBVIOUS
<1>3. ASSUME NEW t1 \in C1, NEW t2 \in C2, NEW t3 \in C3, NEW t4 \in C4
      PROVE  <<t1, t2, t3, t4>> \in Seq(C) /\ Len(<<t1, t2, t3, t4>>) = 4
  OBVIOUS
<1>4. ASSUME NEW f \in C1 \X C2
      PROVE  f \in Seq(C) /\ Len(f) = 2
  <2>1. PICK t1 \in C1, t2 \in C2 :
            f = <<t1, t2>>
    OBVIOUS
  <2> QED
    BY <1>1, <2>1
<1>5. ASSUME NEW f \in C1 \X C2 \X C3
      PROVE  f \in Seq(C) /\ Len(f) = 3
  <2>1. PICK t1 \in C1, t2 \in C2, t3 \in C3 :
            f = <<t1, t2, t3>>
    OBVIOUS
  <2> QED
    BY <1>2, <2>1
<1>6. ASSUME NEW f \in C1 \X C2 \X C3 \X C4
      PROVE  f \in Seq(C) /\ Len(f) = 4
  <2>1. PICK t1 \in C1, t2 \in C2, t3 \in C3, t4 \in C4 :
            f = <<t1, t2, t3, t4>>
    OBVIOUS
  <2> QED
    BY <1>3, <2>1
<1> QED
  BY <1>4, <1>5, <1>6

LEMMA AskersKeepInv ==
  ASSUME WireInv,
         AskLogin \/ AskRegister \/ AskUser \/ AskMeal \/ AskOtherMeal \/ AskChildMeal
  PROVE  WireInv'
<1>1. PICK T : T = Seq(Words \cup {Slash})
  OBVIOUS
<1>2. Typed \subseteq T /\ Checked \subseteq T /\ LongEnough \subseteq T
  BY <1>1, TypedTexts
<1>3. ASSUME NEW screen, NEW cmd \in MenuCommands \cup ChildCommands, NEW f,
             Send(screen, cmd, f), <<screen, cmd>> \in Asked,
             f \in Seq(T) /\ Len(f) = Len(Form(cmd))
      PROVE  WireInv'
  BY <1>1, <1>3, AskKeepsInv
<1>4. CASE AskLogin
  <2>1. PICK f \in Typed \X Typed : Send("login", "LOGIN", f)
    BY <1>4 DEF AskLogin
  <2>2. f \in Seq(T) /\ Len(f) = 2
    BY <1>2, Tuples
  <2>3. <<"login", "LOGIN">> \in Asked /\ Len(Form("LOGIN")) = 2
    BY DEF Asked, Form
  <2>4. "LOGIN" \in MenuCommands \cup ChildCommands
    BY DEF MenuCommands, ChildCommands
  <2> QED
    BY <1>3, <2>1, <2>2, <2>3, <2>4
<1>5. CASE AskRegister
  <2>1. PICK f \in Checked \X Checked \X Checked \X Typed : Send("login", "REGISTER_GENERAL", f)
    BY <1>5 DEF AskRegister
  <2>2. f \in Seq(T) /\ Len(f) = 4
    BY <1>2, Tuples
  <2>3. <<"login", "REGISTER_GENERAL">> \in Asked /\ Len(Form("REGISTER_GENERAL")) = 4
    BY DEF Asked, Form
  <2>4. "REGISTER_GENERAL" \in MenuCommands \cup ChildCommands
    BY DEF MenuCommands, ChildCommands
  <2> QED
    BY <1>3, <2>1, <2>2, <2>3, <2>4
<1>6. CASE AskUser
  <2>1. CASE \E id \in Checked : Send("users", "DELETE", <<id>>)
    <3>1. PICK id \in T : Send("users", "DELETE", <<id>>)
      BY <1>2, <2>1
    <3>2. <<id>> \in Seq(T) /\ Len(<<id>>) = 1
      OBVIOUS
    <3>3. <<"users", "DELETE">> \in Asked /\ Len(Form("DELETE")) = 1
      BY DEF Asked, Form
    <3>4. "DELETE" \in MenuCommands \cup ChildCommands
      BY DEF MenuCommands
    <3>5. PICK f : f = <<id>>
      OBVIOUS
    <3>6. Send("users", "DELETE", f) /\ f \in Seq(T) /\ Len(f) = Len(Form("DELETE"))
      BY <3>1, <3>2, <3>3, <3>5
    <3> QED
      BY <1>3, <3>3, <3>4, <3>6
  <2>2. CASE \E cmd \in {"REGISTER_GENERAL", "UPDATE"} :
             \E f \in Checked \X Checked \X Checked \X LongEnough : Send("users", cmd, f)
    <3>1. PICK cmd \in {"REGISTER_GENERAL", "UPDATE"}, f \in Checked \X Checked \X Checked \X LongEnough : Send("users", cmd, f)
      BY <2>2
    <3>2. f \in Seq(T) /\ Len(f) = 4
      BY <1>2, Tuples
    <3>3. <<"users", cmd>> \in Asked /\ Len(Form(cmd)) = 4
      BY DEF Asked, Form
    <3>4. cmd \in MenuCommands \cup ChildCommands
      BY DEF MenuCommands, ChildCommands
    <3> QED
      BY <1>3, <3>1, <3>2, <3>3, <3>4
  <2> QED
    BY <1>6, <2>1, <2>2 DEF AskUser
<1>7. CASE AskMeal
  <2>1. PICK cmd \in {"GET_MEAL", "GET_MULTI_MEAL"}, f \in Checked \X Checked \X Checked : Send("meals", cmd, f)
    BY <1>7 DEF AskMeal
  <2>2. f \in Seq(T) /\ Len(f) = 3
    BY <1>2, Tuples
  <2>3. <<"meals", cmd>> \in Asked /\ Len(Form(cmd)) = 3
    BY DEF Asked, Form
  <2>4. cmd \in MenuCommands \cup ChildCommands
    BY DEF MenuCommands, ChildCommands
  <2> QED
    BY <1>3, <2>1, <2>2, <2>3, <2>4
<1>8. CASE AskOtherMeal
  <2>1. CASE \E f \in Typed \X Typed \X LongEnough : Send("meals", "GET_MEAL", f)
    <3>1. PICK f \in Typed \X Typed \X LongEnough : Send("meals", "GET_MEAL", f)
      BY <2>1
    <3>2. f \in Seq(T) /\ Len(f) = 3
      BY <1>2, Tuples
    <3>3. <<"meals", "GET_MEAL">> \in Asked /\ Len(Form("GET_MEAL")) = 3
      BY DEF Asked, Form
    <3>4. "GET_MEAL" \in MenuCommands \cup ChildCommands
      BY DEF MenuCommands, ChildCommands
    <3> QED
      BY <1>3, <3>1, <3>2, <3>3, <3>4
  <2>2. CASE \E f \in Typed \X Typed \X Checked : Send("meals", "GET_MULTI_MEAL", f)
    <3>1. PICK f \in Typed \X Typed \X Checked : Send("meals", "GET_MULTI_MEAL", f)
      BY <2>2
    <3>2. f \in Seq(T) /\ Len(f) = 3
      BY <1>2, Tuples
    <3>3. <<"meals", "GET_MULTI_MEAL">> \in Asked /\ Len(Form("GET_MULTI_MEAL")) = 3
      BY DEF Asked, Form
    <3>4. "GET_MULTI_MEAL" \in MenuCommands \cup ChildCommands
      BY DEF MenuCommands, ChildCommands
    <3> QED
      BY <1>3, <3>1, <3>2, <3>3, <3>4
  <2> QED
    BY <1>8, <2>1, <2>2 DEF AskOtherMeal
<1>9. CASE AskChildMeal
  <2>1. CASE \E f \in Checked \X Checked \X Checked : Send("children", "CHILD_MEAL", f)
    <3>1. PICK f \in Checked \X Checked \X Checked : Send("children", "CHILD_MEAL", f)
      BY <2>1
    <3>2. f \in Seq(T) /\ Len(f) = 3
      BY <1>2, Tuples
    <3>3. <<"children", "CHILD_MEAL">> \in Asked /\ Len(Form("CHILD_MEAL")) = 3
      BY DEF Asked, Form
    <3>4. "CHILD_MEAL" \in MenuCommands \cup ChildCommands
      BY DEF MenuCommands, ChildCommands
    <3> QED
      BY <1>3, <3>1, <3>2, <3>3, <3>4
  <2>2. CASE \E f \in Checked \X Checked \X Checked \X Checked :
                 Send("children", "CHILD_MULTI_MEAL", f)
    <3>1. PICK f \in Checked \X Checked \X Checked \X Checked : Send("children", "CHILD_MULTI_MEAL", f)
      BY <2>2
    <3>2. f \in Seq(T) /\ Len(f) = 4
      BY <1>2, Tuples
    <3>3. <<"children", "CHILD_MULTI_MEAL">> \in Asked /\ Len(Form("CHILD_MULTI_MEAL")) = 4
      BY DEF Asked, Form
    <3>4. "CHILD_MULTI_MEAL" \in MenuCommands \cup ChildCommands
      BY DEF MenuCommands, ChildCommands
    <3> QED
      BY <1>3, <3>1, <3>2, <3>3, <3>4
  <2> QED
    BY <1>9, <2>1, <2>2 DEF AskChildMeal
<1> QED
  BY <1>4, <1>5, <1>6, <1>7, <1>8, <1>9

LEMMA WireStep ==
  ASSUME WireInv, [WireNext]_wireVars
  PROVE  WireInv'
<1>1. CASE AskLogin \/ AskRegister \/ AskUser \/ AskMeal \/ AskOtherMeal \/ AskChildMeal
  BY <1>1, AskersKeepInv
<1>2. CASE Read
  <2>1. /\ place = "sent" /\ place' = "read" /\ UNCHANGED <<request, text, told>>
        /\ heard' = Understood(Tokens(text)) /\ text = Line(request.cmd, request.fields)
    BY <1>2 DEF Read, WireInv
  <2>2. heard' = Heard(request') /\ heard'.verdict # "none"
    BY <2>1 DEF Heard, Understood
  <2> QED
    BY <2>1, <2>2 DEF WireInv
<1>3. CASE Reply
  <2>1. /\ place = "read" /\ place' = "replied" /\ UNCHANGED <<request, heard, told>>
        /\ request \in Requests /\ heard = Heard(request)
    BY <1>3 DEF Reply, WireInv
  <2>2. PICK reply \in IF heard.verdict = "taken" THEN Replies(request.cmd)
                       ELSE {<<0, heard.verdict, <<>>>>} :
            text' = send_response(reply)
    BY <1>3 DEF Reply
  <2>3. heard.verdict \in {"taken", "RESP_UNKNOWN_COMMAND", "RESP_INVALID_REQUEST"}
    BY <2>1 DEF Heard, Understood
  <2>4. reply \in Replies(request.cmd) \cup Refusals
    BY <2>2, <2>3 DEF Refusals
  <2>5. text' \in Answers(request.cmd)
    BY <2>2, <2>4 DEF Answers
  <2> QED
    BY <2>1, <2>5 DEF WireInv
<1>4. CASE Silence
  <2>1. text' \in Answers(request.cmd)
    BY <1>4 DEF Silence, Answers
  <2> QED
    BY <1>4, <2>1 DEF Silence, WireInv
<1>5. CASE Tell
  BY <1>5 DEF Tell, WireInv
<1>6. CASE GoOn
  BY <1>6 DEF GoOn, WireInv, NoRequest
<1>7. CASE UNCHANGED wireVars
  BY <1>7 DEF wireVars, WireInv
<1> QED
  BY <1>1, <1>2, <1>3, <1>4, <1>5, <1>6, <1>7 DEF WireNext

(* The texts on the wire are lines of the client and answers of the server, and
   what the server has understood is what its parser makes of the request. *)
THEOREM WireInvariant == WireSpec => []WireInv
<1>1. WireInit => WireInv
  BY DEF WireInit, WireInv, NoRequest
<1>2. WireInv /\ [WireNext]_wireVars => WireInv'
  BY WireStep
<1> QED
  BY <1>1, <1>2, PTL DEF WireSpec

LEMMA SlashFreeRequest ==
  ASSUME WireInv, SlashFree, request \in Requests
  PROVE  request \in PlainRequests
<1>1. request.fields \in Seq(Seq(Words \cup {Slash}))
  BY DEF Requests
<1>2. request.fields \in Seq(Plain)
  BY <1>1, SlashFreeIsPlain DEF SlashFree
<1> QED
  BY <1>2 DEF PlainRequests

(* The server acts on the values that were typed, or on none, if there is no slash
   in them: for every vocabulary, and for all that may be typed. *)
THEOREM RequestsAreNotMisread == WireSpec => []NeverMisread
<1>1. ASSUME WireInv
      PROVE  NeverMisread
  <2> SUFFICES ASSUME heard.verdict = "taken", SlashFree, NEW n \in Needs(request.cmd)
               PROVE  n \in Range(Form(request.cmd)) /\ Meant(n) = heard.args[n]
    BY DEF NeverMisread, UnderstoodAsMeant
  <2>1. request \in Requests /\ heard = Heard(request)
    BY <1>1 DEF WireInv
  <2>2. request \in PlainRequests
    BY <1>1, <2>1, SlashFreeRequest
  <2>3. Meant(n) = request.fields[CHOOSE k \in 1 .. Len(Form(request.cmd)) : Form(request.cmd)[k] = n]
    BY DEF Meant
  <2>4. Heard(request).verdict = "taken"
    BY <2>1
  <2> QED
    BY <2>1, <2>2, <2>3, <2>4, HeardAsMeant
<1>2. WireInv => NeverMisread
  BY <1>1
<1>3. WireSpec => []WireInv
  BY WireInvariant
<1> QED
  BY <1>2, <1>3, PTL

(* What the menus send without empty fields and slashes is not refused for its
   form. *)
THEOREM MenusAreUnderstood == WireSpec => []MenusSpeakTheProtocol
<1>1. ASSUME WireInv
      PROVE  MenusSpeakTheProtocol
  <2> SUFFICES ASSUME request.screen \in {"login", "users", "meals"}, Complete, SlashFree,
                      heard.verdict # "none"
               PROVE  heard.verdict = "taken"
    BY DEF MenusSpeakTheProtocol
  <2>1. request \in Requests /\ heard = Heard(request)
    BY <1>1 DEF WireInv
  <2>2. request \in PlainRequests
    BY <1>1, <2>1, SlashFreeRequest
  <2>3. request.cmd \in MenuCommands
    BY <2>1 DEF Requests, Asked, MenuCommands, ChildCommands
  <2> QED
    BY <1>1, <2>1, <2>2, <2>3, MenusAreTaken DEF Complete
<1>2. WireInv => MenusSpeakTheProtocol
  BY <1>1
<1>3. WireSpec => []WireInv
  BY WireInvariant
<1> QED
  BY <1>2, <1>3, PTL

(* On the screens for accounts the user is told of a success exactly when the
   answer says one. *)
THEOREM SuccessesAreTrue == WireSpec => []SuccessIsTheServers
<1>1. ASSUME WireInv
      PROVE  SuccessIsTheServers
  <2> SUFFICES ASSUME place = "told", request.screen \in {"login", "users"}
               PROVE  told = "success" <=> (text # <<>> /\ text[1] = 1)
    BY DEF SuccessIsTheServers
  <2>1. /\ request \in Requests /\ text \in Answers(request.cmd)
        /\ told = Told(request.screen, request.cmd, Tokens(text))
    BY <1>1 DEF WireInv
  <2>2. /\ request.cmd \in MenuCommands
        /\ <<request.screen, request.cmd>> \in Asked
    BY <2>1 DEF Requests, Asked, MenuCommands, ChildCommands
  <2> QED
    BY <1>1, <2>1, <2>2, SuccessIsTold
<1>2. WireInv => SuccessIsTheServers
  BY <1>1
<1>3. WireSpec => []WireInv
  BY WireInvariant
<1> QED
  BY <1>2, <1>3, PTL
=============================================================================
