-------------------------------- MODULE Texts --------------------------------
(***************************************************************************)
(* Texts as both programs treat them: parts with a separator between them, *)
(* put together with snprintf and strcat or by NEIS, and taken apart with  *)
(* strtok (src/server/server.c, src/server/neis_api.c,                     *)
(* src/client/handlers.c).                                                 *)
(*                                                                         *)
(* A text is a sequence of characters.  Every operator is a function of    *)
(* how much of its argument has been read.                                 *)
(***************************************************************************)
EXTENDS Integers, Sequences, Functions

\* The head, and the separator before each of the other parts.
Joined(head, parts, separator) ==
    LET whole[k \in 0 .. Len(parts)] ==
            IF k = 0 THEN head ELSE whole[k - 1] \o separator \o parts[k]
    IN  whole[Len(parts)]

\* The tokens so far, and whether strtok is inside the last one.
AtStart == [tokens |-> <<>>, inside |-> FALSE]

Reads(state, c, delimiters) ==
    IF c \in delimiters THEN [state EXCEPT !.inside = FALSE]
    ELSE IF state.inside
      THEN [state EXCEPT !.tokens[Len(state.tokens)] = Append(@, c)]
    ELSE [tokens |-> Append(state.tokens, <<c>>), inside |-> TRUE]

Scanned(t, delimiters) ==
    LET scan[k \in 0 .. Len(t)] ==
            IF k = 0 THEN AtStart ELSE Reads(scan[k - 1], t[k], delimiters)
    IN  scan[Len(t)]

\* What strtok returns until it returns NULL: its second argument is a set of
\* characters, any run of which separates, and no token is empty.
strtok(t, delimiters) == Scanned(t, delimiters).tokens

\* The parts that are not empty.
Filled(parts) ==
    LET filled[k \in 0 .. Len(parts)] ==
            IF k = 0 THEN <<>>
            ELSE IF parts[k] = <<>> THEN filled[k - 1]
            ELSE Append(filled[k - 1], parts[k])
    IN  filled[Len(parts)]
=============================================================================
