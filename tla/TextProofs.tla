----------------------------- MODULE TextProofs -----------------------------
(***************************************************************************)
(* What the operators of Texts do for every text.  They are functions of   *)
(* how much has been read, so that their facts are inductions, each by the *)
(* least number for which it would be wrong.                               *)
(***************************************************************************)
EXTENDS Texts, SequenceTheorems, WellFoundedInduction, TLAPS

-----------------------------------------------------------------------------
\* Induction.

LEMMA LeastNumber ==
  ASSUME NEW T, T \subseteq Nat, T # {}
  PROVE  \E n \in T : \A m \in Nat : m < n => m \notin T
<1>1. PICK n \in T : \A m \in T : ~ (<<m, n>> \in OpToRel(<, Nat))
  BY NatLessThanWellFounded, WFMin
<1> QED
  BY <1>1 DEF OpToRel

\* A set with 0 and, up to n, with the next number of each has those up to n.
LEMMA Induction ==
  ASSUME NEW n \in Nat, NEW T, 0 \in T, \A k \in 1 .. n : k - 1 \in T => k \in T
  PROVE  \A k \in 0 .. n : k \in T
<1> DEFINE Missing == (0 .. n) \ T
<1> SUFFICES ASSUME Missing # {} PROVE FALSE
  OBVIOUS
<1>1. PICK k \in Missing : \A m \in Nat : m < k => m \notin Missing
  <2>1. Missing \subseteq Nat
    OBVIOUS
  <2> HIDE DEF Missing
  <2> QED
    BY <2>1, LeastNumber
<1> QED
  BY <1>1

Alike(f, g, n)  == \A k \in 0 .. n : f[k] = g[k]
GoAlike(f, g, n) == \A k \in 1 .. n : f[k - 1] = g[k - 1] => f[k] = g[k]

\* Two functions that start alike and go on alike are alike.
LEMMA SameSteps ==
  ASSUME NEW n \in Nat, NEW f, NEW g, f[0] = g[0], GoAlike(f, g, n)
  PROVE  Alike(f, g, n)
<1> DEFINE T == {k \in 0 .. n : f[k] = g[k]}
<1>1. 0 \in T /\ \A k \in 1 .. n : k - 1 \in T => k \in T
  BY DEF GoAlike
<1> HIDE DEF T
<1>2. \A k \in 0 .. n : k \in T
  BY <1>1, Induction
<1> QED
  BY <1>2 DEF T, Alike

Scans(f, step, base, t) ==
    /\ f[0] = base
    /\ \A k \in 1 .. Len(t) : f[k] = step[<<f[k - 1], t[k]>>]

\* A text can be scanned by any function of what has been read and the next character.
LEMMA ScanExists ==
  ASSUME NEW S, NEW C, NEW step \in [S \X C -> S], NEW base \in S, NEW t \in Seq(C)
  PROVE  \E f \in [0 .. Len(t) -> S] : Scans(f, step, base, t)
<1> DEFINE Goes(f, n) ==
             f = [k \in 0 .. n |-> IF k = 0 THEN base ELSE step[<<f[k - 1], t[k]>>]]
           T == {n \in 0 .. Len(t) : \E f \in [0 .. n -> S] : Goes(f, n)}
<1>1. 0 \in T
  <2> DEFINE f == [k \in 0 .. 0 |-> base]
  <2>1. f \in [0 .. 0 -> S]
    OBVIOUS
  <2>2. Goes(f, 0)
    OBVIOUS
  <2>3. \E g \in [0 .. 0 -> S] : Goes(g, 0)
    BY <2>1, <2>2
  <2> QED
    BY <2>3
<1>2. ASSUME NEW n \in 1 .. Len(t), n - 1 \in T
      PROVE  n \in T
  <2>1. PICK g \in [0 .. n - 1 -> S] : Goes(g, n - 1)
    BY <1>2
  <2> DEFINE f == [k \in 0 .. n |-> IF k = n THEN step[<<g[n - 1], t[n]>>] ELSE g[k]]
  <2>2. t[n] \in C
    OBVIOUS
  <2>3. f \in [0 .. n -> S]
    BY <2>1, <2>2
  <2>4. ASSUME NEW k \in 0 .. n
        PROVE  f[k] = IF k = 0 THEN base ELSE step[<<f[k - 1], t[k]>>]
    <3>1. CASE k = n
      <4>1. f[k] = step[<<g[n - 1], t[n]>>] /\ f[n - 1] = g[n - 1]
        BY <3>1
      <4> HIDE DEF f
      <4> QED
        BY <3>1, <4>1
    <3>2. CASE k # n /\ k # 0
      <4>1. f[k] = g[k] /\ f[k - 1] = g[k - 1] /\ k \in 0 .. n - 1
        BY <3>2
      <4>2. g[k] = step[<<g[k - 1], t[k]>>]
        BY <2>1, <3>2, <4>1
      <4> HIDE DEF f
      <4> QED
        BY <3>2, <4>1, <4>2
    <3>3. CASE k # n /\ k = 0
      <4>1. f[k] = g[k] /\ k \in 0 .. n - 1
        BY <3>3
      <4>2. g[k] = base
        BY <2>1, <3>3, <4>1
      <4> QED
        BY <3>3, <4>1, <4>2
    <3> QED
      BY <3>1, <3>2, <3>3
  <2>5. Goes(f, n)
    <3>1. f = [k \in 0 .. n |-> f[k]]
      OBVIOUS
    <3> HIDE DEF f
    <3> QED
      BY <2>4, <3>1
  <2> HIDE DEF f, Goes
  <2>6. \E h \in [0 .. n -> S] : Goes(h, n)
    BY <2>3, <2>5
  <2> QED
    BY <2>6
<1>3. \A k \in 0 .. Len(t) : k \in T
  <2>1. Len(t) \in Nat
    OBVIOUS
  <2>2. \A k \in 1 .. Len(t) : k - 1 \in T => k \in T
    BY <1>2
  <2> HIDE DEF T
  <2> QED
    BY <1>1, <2>1, <2>2, Induction
<1>4. Len(t) \in T
  BY <1>3
<1>5. PICK f \in [0 .. Len(t) -> S] : Goes(f, Len(t))
  BY <1>4
<1>6. f[0] = base
  <2>1. 0 \in 0 .. Len(t)
    BY <1>4
  <2> QED
    BY <1>5, <2>1
<1>7. ASSUME NEW k \in 1 .. Len(t)
      PROVE  f[k] = step[<<f[k - 1], t[k]>>]
  <2>1. k \in 0 .. Len(t) /\ k # 0
    OBVIOUS
  <2> QED
    BY <1>5, <2>1
<1> QED
  BY <1>6, <1>7 DEF Scans

-----------------------------------------------------------------------------
\* Joined.

Joins(f, C, head, parts, separator) ==
    /\ f \in [0 .. Len(parts) -> Seq(C)]
    /\ f[0] = head
    /\ \A k \in 1 .. Len(parts) : f[k] = f[k - 1] \o separator \o parts[k]
    /\ Joined(head, parts, separator) = f[Len(parts)]

LEMMA JoinedSteps ==
  ASSUME NEW C, NEW head \in Seq(C), NEW parts \in Seq(Seq(C)), NEW separator \in Seq(C)
  PROVE  \E f : Joins(f, C, head, parts, separator)
<1> DEFINE step == [x \in Seq(C) \X Seq(C) |-> x[1] \o separator \o x[2]]
           Goes(f) == f = [k \in 0 .. Len(parts) |->
                             IF k = 0 THEN head ELSE f[k - 1] \o separator \o parts[k]]
<1>1. /\ Len(parts) \in Nat
      /\ \A k \in 1 .. Len(parts) : parts[k] \in Seq(C) /\ k - 1 \in 0 .. Len(parts)
  OBVIOUS
<1>2. step \in [Seq(C) \X Seq(C) -> Seq(C)]
  OBVIOUS
<1>3. \A u, v \in Seq(C) : step[<<u, v>>] = u \o separator \o v
  OBVIOUS
<1> HIDE DEF step
<1>4. PICK f \in [0 .. Len(parts) -> Seq(C)] : Scans(f, step, head, parts)
  BY <1>2, ScanExists
<1>5. ASSUME NEW k \in 1 .. Len(parts)
      PROVE  f[k] = f[k - 1] \o separator \o parts[k]
  <2>1. f[k] = step[<<f[k - 1], parts[k]>>]
    BY <1>4 DEF Scans
  <2> QED
    BY <1>1, <1>3, <2>1
<1>6. f[0] = head
  BY <1>4 DEF Scans
<1>7. Goes(f)
  BY <1>5, <1>6
<1>8. PICK g : Goes(g) /\ Joined(head, parts, separator) = g[Len(parts)]
  <2>1. Joined(head, parts, separator) = (CHOOSE g : Goes(g))[Len(parts)]
    BY DEF Joined
  <2> HIDE DEF Goes
  <2>2. Goes(CHOOSE g : Goes(g))
    BY <1>7
  <2> QED
    BY <2>1, <2>2
<1>9. g[0] = head
  <2>1. 0 \in 0 .. Len(parts)
    BY <1>1
  <2> QED
    BY <1>8, <2>1
<1>10. ASSUME NEW k \in 1 .. Len(parts), f[k - 1] = g[k - 1]
       PROVE  f[k] = g[k]
  <2>1. k \in 0 .. Len(parts) /\ k # 0
    BY <1>1
  <2>2. g[k] = g[k - 1] \o separator \o parts[k]
    BY <1>8, <2>1
  <2> HIDE DEF Goes
  <2> QED
    BY <1>5, <1>10, <2>2
<1> HIDE DEF Goes
<1>11. f[Len(parts)] = g[Len(parts)]
  <2>1. f[0] = g[0]
    BY <1>6, <1>9
  <2>2. GoAlike(f, g, Len(parts))
    BY <1>10 DEF GoAlike
  <2>3. Alike(f, g, Len(parts))
    BY <1>1, <2>1, <2>2, SameSteps
  <2> QED
    BY <1>1, <2>3 DEF Alike
<1>12. Joins(f, C, head, parts, separator)
  BY <1>5, <1>6, <1>8, <1>11 DEF Joins
<1> QED
  BY <1>12

\* No parts, and one part more.
LEMMA JoinedEmpty ==
  ASSUME NEW C, NEW head \in Seq(C), NEW separator \in Seq(C)
  PROVE  Joined(head, <<>>, separator) = head
<1>1. <<>> \in Seq(Seq(C)) /\ Len(<<>>) = 0
  OBVIOUS
<1>2. PICK f : Joins(f, C, head, <<>>, separator)
  BY <1>1, JoinedSteps
<1> QED
  BY <1>1, <1>2 DEF Joins

LEMMA JoinedTypes ==
  ASSUME NEW C, NEW head \in Seq(C), NEW parts \in Seq(Seq(C)), NEW separator \in Seq(C)
  PROVE  Joined(head, parts, separator) \in Seq(C)
<1>1. PICK f : Joins(f, C, head, parts, separator)
  BY JoinedSteps
<1>2. Len(parts) \in 0 .. Len(parts)
  OBVIOUS
<1> QED
  BY <1>1, <1>2 DEF Joins

WithOneMore(t, separator, p) == t \o separator \o p

LEMMA JoinedAppend ==
  ASSUME NEW C, NEW head \in Seq(C), NEW parts \in Seq(Seq(C)), NEW p \in Seq(C),
         NEW separator \in Seq(C)
  PROVE  Joined(head, Append(parts, p), separator)
           = WithOneMore(Joined(head, parts, separator), separator, p)
<1>1. PICK n \in Nat : n = Len(parts)
  OBVIOUS
<1>2. PICK more \in Seq(Seq(C)) : more = Append(parts, p)
  <2>1. Append(parts, p) \in Seq(Seq(C))
    OBVIOUS
  <2> QED
    BY <2>1
<1>3. /\ Len(more) = n + 1 /\ more[n + 1] = p
      /\ \A k \in 1 .. n : more[k] = parts[k]
  BY <1>1, <1>2
<1>4. PICK f : Joins(f, C, head, parts, separator)
  BY JoinedSteps
<1>5. PICK g : Joins(g, C, head, more, separator)
  BY JoinedSteps
<1>6. f[n] = g[n]
  <2>1. f[0] = g[0]
    BY <1>4, <1>5 DEF Joins
  <2>2. ASSUME NEW k \in 1 .. n
        PROVE  /\ f[k] = f[k - 1] \o separator \o parts[k]
               /\ g[k] = g[k - 1] \o separator \o parts[k]
    <3>1. k \in 1 .. Len(parts) /\ k \in 1 .. Len(more) /\ more[k] = parts[k]
      BY <1>1, <1>3
    <3> QED
      BY <1>4, <1>5, <3>1 DEF Joins
  <2>3. GoAlike(f, g, n)
    BY <2>2 DEF GoAlike
  <2>4. Alike(f, g, n)
    BY <2>1, <2>3, SameSteps
  <2> QED
    BY <2>4 DEF Alike
<1>7. g[n + 1] = g[n] \o separator \o p
  <2>1. n + 1 \in 1 .. Len(more) /\ (n + 1) - 1 = n
    BY <1>3
  <2> QED
    BY <1>3, <1>5, <2>1 DEF Joins
<1>8. Joined(head, parts, separator) = f[n] /\ Joined(head, more, separator) = g[n + 1]
  BY <1>1, <1>3, <1>4, <1>5 DEF Joins
<1> QED
  BY <1>2, <1>6, <1>7, <1>8 DEF WithOneMore

-----------------------------------------------------------------------------
\* Filled.

Fills(f, C, parts) ==
    /\ f \in [0 .. Len(parts) -> Seq(Seq(C))]
    /\ f[0] = <<>>
    /\ \A k \in 1 .. Len(parts) : f[k] = IF parts[k] = <<>> THEN f[k - 1] ELSE Append(f[k - 1], parts[k])
    /\ Filled(parts) = f[Len(parts)]

LEMMA FilledSteps ==
  ASSUME NEW C, NEW parts \in Seq(Seq(C))
  PROVE  \E f : Fills(f, C, parts)
<1> DEFINE step == [x \in Seq(Seq(C)) \X Seq(C) |-> IF x[2] = <<>> THEN x[1] ELSE Append(x[1], x[2])]
           Goes(f) == f = [k \in 0 .. Len(parts) |-> IF k = 0 THEN <<>> ELSE IF parts[k] = <<>> THEN f[k - 1] ELSE Append(f[k - 1], parts[k])]
<1>1. /\ Len(parts) \in Nat
      /\ \A k \in 1 .. Len(parts) : parts[k] \in Seq(C) /\ k - 1 \in 0 .. Len(parts)
  OBVIOUS
<1>2. step \in [Seq(Seq(C)) \X Seq(C) -> Seq(Seq(C))]
  OBVIOUS
<1>3. \A u \in Seq(Seq(C)), v \in Seq(C) : step[<<u, v>>] = IF v = <<>> THEN u ELSE Append(u, v)
  OBVIOUS
<1>4. <<>> \in Seq(Seq(C))
  OBVIOUS
<1> HIDE DEF step
<1>5. PICK f \in [0 .. Len(parts) -> Seq(Seq(C))] : Scans(f, step, <<>>, parts)
  BY <1>2, <1>4, ScanExists
<1>6. ASSUME NEW k \in 1 .. Len(parts)
      PROVE  f[k] = IF parts[k] = <<>> THEN f[k - 1] ELSE Append(f[k - 1], parts[k])
  <2>1. f[k] = step[<<f[k - 1], parts[k]>>]
    BY <1>5 DEF Scans
  <2> QED
    BY <1>1, <1>3, <2>1
<1>7. f[0] = <<>>
  BY <1>5 DEF Scans
<1>8. Goes(f)
  <2>1. ASSUME NEW k \in 0 .. Len(parts)
        PROVE  f[k] = IF k = 0 THEN <<>> ELSE IF parts[k] = <<>> THEN f[k - 1] ELSE Append(f[k - 1], parts[k])
    <3>1. CASE k = 0
      BY <1>7, <3>1
    <3>2. CASE k # 0
      <4>1. k \in 1 .. Len(parts)
        BY <1>1, <3>2
      <4> QED
        BY <1>6, <3>2, <4>1
    <3> QED
      BY <3>1, <3>2
  <2> QED
    BY <2>1
<1>9. PICK g : Goes(g) /\ Filled(parts) = g[Len(parts)]
  <2>1. Filled(parts) = (CHOOSE g : Goes(g))[Len(parts)]
    BY DEF Filled
  <2> HIDE DEF Goes
  <2>2. Goes(CHOOSE g : Goes(g))
    BY <1>8
  <2> QED
    BY <2>1, <2>2
<1>10. g[0] = <<>>
  <2>1. 0 \in 0 .. Len(parts)
    BY <1>1
  <2> QED
    BY <1>9, <2>1
<1>11. ASSUME NEW k \in 1 .. Len(parts), f[k - 1] = g[k - 1]
       PROVE  f[k] = g[k]
  <2>1. k \in 0 .. Len(parts) /\ k # 0
    BY <1>1
  <2>2. g[k] = IF parts[k] = <<>> THEN g[k - 1] ELSE Append(g[k - 1], parts[k])
    BY <1>9, <2>1
  <2> HIDE DEF Goes
  <2> QED
    BY <1>6, <1>11, <2>2
<1> HIDE DEF Goes
<1>12. f[Len(parts)] = g[Len(parts)]
  <2>1. f[0] = g[0]
    BY <1>7, <1>10
  <2>2. GoAlike(f, g, Len(parts))
    BY <1>11 DEF GoAlike
  <2>3. Alike(f, g, Len(parts))
    BY <1>1, <2>1, <2>2, SameSteps
  <2> QED
    BY <1>1, <2>3 DEF Alike
<1>13. Fills(f, C, parts)
  BY <1>6, <1>7, <1>9, <1>12 DEF Fills
<1> QED
  BY <1>13

LEMMA FilledEmpty ==
  ASSUME NEW C
  PROVE  Filled(<<>>) = <<>>
<1>1. <<>> \in Seq(Seq(C)) /\ Len(<<>>) = 0
  OBVIOUS
<1>2. PICK f : Fills(f, C, <<>>)
  BY <1>1, FilledSteps
<1> QED
  BY <1>1, <1>2 DEF Fills

LEMMA FilledTypes ==
  ASSUME NEW C, NEW parts \in Seq(Seq(C))
  PROVE  Filled(parts) \in Seq(Seq(C))
<1>1. PICK f : Fills(f, C, parts)
  BY FilledSteps
<1>2. Len(parts) \in 0 .. Len(parts)
  OBVIOUS
<1> QED
  BY <1>1, <1>2 DEF Fills

LEMMA FilledAppend ==
  ASSUME NEW C, NEW parts \in Seq(Seq(C)), NEW p \in Seq(C)
  PROVE  Filled(Append(parts, p)) = IF p = <<>> THEN Filled(parts) ELSE Append(Filled(parts), p)
<1>1. PICK n \in Nat : n = Len(parts)
  OBVIOUS
<1>2. PICK more \in Seq(Seq(C)) : more = Append(parts, p)
  <2>1. Append(parts, p) \in Seq(Seq(C))
    OBVIOUS
  <2> QED
    BY <2>1
<1>3. /\ Len(more) = n + 1 /\ more[n + 1] = p
      /\ \A k \in 1 .. n : more[k] = parts[k]
  BY <1>1, <1>2
<1>4. PICK f : Fills(f, C, parts)
  BY FilledSteps
<1>5. PICK g : Fills(g, C, more)
  BY FilledSteps
<1>6. f[n] = g[n]
  <2>1. f[0] = g[0]
    BY <1>4, <1>5 DEF Fills
  <2>2. ASSUME NEW k \in 1 .. n
        PROVE  /\ f[k] = IF parts[k] = <<>> THEN f[k - 1] ELSE Append(f[k - 1], parts[k])
               /\ g[k] = IF parts[k] = <<>> THEN g[k - 1] ELSE Append(g[k - 1], parts[k])
    <3>1. k \in 1 .. Len(parts) /\ k \in 1 .. Len(more) /\ more[k] = parts[k]
      BY <1>1, <1>3
    <3> QED
      BY <1>4, <1>5, <3>1 DEF Fills
  <2>3. GoAlike(f, g, n)
    BY <2>2 DEF GoAlike
  <2>4. Alike(f, g, n)
    BY <2>1, <2>3, SameSteps
  <2> QED
    BY <2>4 DEF Alike
<1>7. g[n + 1] = IF p = <<>> THEN g[n] ELSE Append(g[n], p)
  <2>1. n + 1 \in 1 .. Len(more) /\ (n + 1) - 1 = n
    BY <1>3
  <2> QED
    BY <1>3, <1>5, <2>1 DEF Fills
<1>8. Filled(parts) = f[n] /\ Filled(more) = g[n + 1]
  BY <1>1, <1>3, <1>4, <1>5 DEF Fills
<1> QED
  BY <1>2, <1>6, <1>7, <1>8

-----------------------------------------------------------------------------
\* strtok.

\* The states of strtok: inside a token there is one.
Scanning(C) == {s \in [tokens : Seq(Seq(C)), inside : BOOLEAN] : s.inside => s.tokens # <<>>}

LEMMA AppendIsLonger ==
  ASSUME NEW C, NEW s \in Seq(C), NEW c \in C
  PROVE  Append(s, c) # <<>>
<1>1. Append(s, c) \in Seq(C) /\ Len(Append(s, c)) = Len(s) + 1 /\ Len(s) \in Nat
  OBVIOUS
<1>2. Len(<<>>) = 0
  OBVIOUS
<1> QED
  BY <1>1, <1>2

LEMMA ReadsTypes ==
  ASSUME NEW C, NEW delimiters, NEW s \in Scanning(C), NEW c \in C
  PROVE  Reads(s, c, delimiters) \in Scanning(C)
<1>1. CASE c \in delimiters
  BY <1>1 DEF Reads, Scanning
<1>2. CASE c \notin delimiters /\ s.inside
  <2> DEFINE n == Len(s.tokens)
  <2>1. n \in 1 .. Len(s.tokens) /\ s.tokens[n] \in Seq(C)
    BY <1>2 DEF Scanning
  <2>2. Append(s.tokens[n], c) \in Seq(C)
    BY <2>1
  <2>3. [s.tokens EXCEPT ![n] = Append(@, c)] \in Seq(Seq(C)) /\ [s.tokens EXCEPT ![n] = Append(@, c)] # <<>>
    BY <1>2, <2>1, <2>2 DEF Scanning
  <2> QED
    BY <1>2, <2>3 DEF Reads, Scanning
<1>3. CASE c \notin delimiters /\ ~s.inside
  <2>1. s.tokens \in Seq(Seq(C)) /\ <<c>> \in Seq(C)
    BY DEF Scanning
  <2>2. Append(s.tokens, <<c>>) \in Seq(Seq(C))
    BY <2>1
  <2>3. Append(s.tokens, <<c>>) # <<>>
    BY <2>1, AppendIsLonger
  <2> QED
    BY <1>3, <2>2, <2>3 DEF Reads, Scanning
<1> QED
  BY <1>1, <1>2, <1>3

ScansText(f, C, t, delimiters) ==
    /\ f \in [0 .. Len(t) -> Scanning(C)]
    /\ f[0] = AtStart
    /\ \A k \in 1 .. Len(t) : f[k] = Reads(f[k - 1], t[k], delimiters)
    /\ Scanned(t, delimiters) = f[Len(t)]

LEMMA ScannedSteps ==
  ASSUME NEW C, NEW t \in Seq(C), NEW delimiters
  PROVE  \E f : ScansText(f, C, t, delimiters)
<1> DEFINE step == [x \in Scanning(C) \X C |-> Reads(x[1], x[2], delimiters)]
           Goes(f) == f = [k \in 0 .. Len(t) |-> IF k = 0 THEN AtStart ELSE Reads(f[k - 1], t[k], delimiters)]
<1>1. /\ Len(t) \in Nat
      /\ \A k \in 1 .. Len(t) : t[k] \in C /\ k - 1 \in 0 .. Len(t)
  OBVIOUS
<1>2. step \in [Scanning(C) \X C -> Scanning(C)]
  BY ReadsTypes
<1>3. \A u \in Scanning(C), v \in C : step[<<u, v>>] = Reads(u, v, delimiters)
  OBVIOUS
<1>4. AtStart \in Scanning(C)
  BY DEF AtStart, Scanning
<1> HIDE DEF step
<1>5. PICK f \in [0 .. Len(t) -> Scanning(C)] : Scans(f, step, AtStart, t)
  BY <1>2, <1>4, ScanExists
<1>6. ASSUME NEW k \in 1 .. Len(t)
      PROVE  f[k] = Reads(f[k - 1], t[k], delimiters)
  <2>1. f[k] = step[<<f[k - 1], t[k]>>]
    BY <1>5 DEF Scans
  <2> QED
    BY <1>1, <1>3, <2>1
<1>7. f[0] = AtStart
  BY <1>5 DEF Scans
<1>8. Goes(f)
  <2>1. ASSUME NEW k \in 0 .. Len(t)
        PROVE  f[k] = IF k = 0 THEN AtStart ELSE Reads(f[k - 1], t[k], delimiters)
    <3>1. CASE k = 0
      BY <1>7, <3>1
    <3>2. CASE k # 0
      <4>1. k \in 1 .. Len(t)
        BY <1>1, <3>2
      <4> QED
        BY <1>6, <3>2, <4>1
    <3> QED
      BY <3>1, <3>2
  <2> QED
    BY <2>1
<1>9. PICK g : Goes(g) /\ Scanned(t, delimiters) = g[Len(t)]
  <2>1. Scanned(t, delimiters) = (CHOOSE g : Goes(g))[Len(t)]
    BY DEF Scanned
  <2> HIDE DEF Goes
  <2>2. Goes(CHOOSE g : Goes(g))
    BY <1>8
  <2> QED
    BY <2>1, <2>2
<1>10. g[0] = AtStart
  <2>1. 0 \in 0 .. Len(t)
    BY <1>1
  <2> QED
    BY <1>9, <2>1
<1>11. ASSUME NEW k \in 1 .. Len(t), f[k - 1] = g[k - 1]
       PROVE  f[k] = g[k]
  <2>1. k \in 0 .. Len(t) /\ k # 0
    BY <1>1
  <2>2. g[k] = Reads(g[k - 1], t[k], delimiters)
    BY <1>9, <2>1
  <2> HIDE DEF Goes
  <2> QED
    BY <1>6, <1>11, <2>2
<1> HIDE DEF Goes
<1>12. f[Len(t)] = g[Len(t)]
  <2>1. f[0] = g[0]
    BY <1>7, <1>10
  <2>2. GoAlike(f, g, Len(t))
    BY <1>11 DEF GoAlike
  <2>3. Alike(f, g, Len(t))
    BY <1>1, <2>1, <2>2, SameSteps
  <2> QED
    BY <1>1, <2>3 DEF Alike
<1>13. ScansText(f, C, t, delimiters)
  BY <1>6, <1>7, <1>9, <1>12 DEF ScansText
<1> QED
  BY <1>13

LEMMA ScannedEmpty ==
  ASSUME NEW C, NEW delimiters
  PROVE  Scanned(<<>>, delimiters) = AtStart
<1>1. <<>> \in Seq(C) /\ Len(<<>>) = 0
  OBVIOUS
<1>2. PICK f : ScansText(f, C, <<>>, delimiters)
  BY <1>1, ScannedSteps
<1> QED
  BY <1>1, <1>2 DEF ScansText

LEMMA ScannedTypes ==
  ASSUME NEW C, NEW t \in Seq(C), NEW delimiters
  PROVE  Scanned(t, delimiters) \in Scanning(C)
<1>1. PICK f : ScansText(f, C, t, delimiters)
  BY ScannedSteps
<1>2. Len(t) \in 0 .. Len(t)
  OBVIOUS
<1> QED
  BY <1>1, <1>2 DEF ScansText

LEMMA ScannedAppend ==
  ASSUME NEW C, NEW t \in Seq(C), NEW c \in C, NEW delimiters
  PROVE  Scanned(Append(t, c), delimiters) = Reads(Scanned(t, delimiters), c, delimiters)
<1>1. PICK n \in Nat : n = Len(t)
  OBVIOUS
<1>2. PICK more \in Seq(C) : more = Append(t, c)
  <2>1. Append(t, c) \in Seq(C)
    OBVIOUS
  <2> QED
    BY <2>1
<1>3. /\ Len(more) = n + 1 /\ more[n + 1] = c
      /\ \A k \in 1 .. n : more[k] = t[k]
  BY <1>1, <1>2
<1>4. PICK f : ScansText(f, C, t, delimiters)
  BY ScannedSteps
<1>5. PICK g : ScansText(g, C, more, delimiters)
  BY ScannedSteps
<1>6. f[n] = g[n]
  <2>1. f[0] = g[0]
    BY <1>4, <1>5 DEF ScansText
  <2>2. ASSUME NEW k \in 1 .. n
        PROVE  /\ f[k] = Reads(f[k - 1], t[k], delimiters)
               /\ g[k] = Reads(g[k - 1], t[k], delimiters)
    <3>1. k \in 1 .. Len(t) /\ k \in 1 .. Len(more) /\ more[k] = t[k]
      BY <1>1, <1>3
    <3> QED
      BY <1>4, <1>5, <3>1 DEF ScansText
  <2>3. GoAlike(f, g, n)
    BY <2>2 DEF GoAlike
  <2>4. Alike(f, g, n)
    BY <2>1, <2>3, SameSteps
  <2> QED
    BY <2>4 DEF Alike
<1>7. g[n + 1] = Reads(g[n], c, delimiters)
  <2>1. n + 1 \in 1 .. Len(more) /\ (n + 1) - 1 = n
    BY <1>3
  <2> QED
    BY <1>3, <1>5, <2>1 DEF ScansText
<1>8. Scanned(t, delimiters) = f[n] /\ Scanned(more, delimiters) = g[n + 1]
  BY <1>1, <1>3, <1>4, <1>5 DEF ScansText
<1> QED
  BY <1>2, <1>6, <1>7, <1>8

-----------------------------------------------------------------------------
\* Induction over sequences.

LEMMA SequenceOf ==
  ASSUME NEW C, NEW D, NEW t \in Seq(C), \A k \in 1 .. Len(t) : t[k] \in D
  PROVE  t \in Seq(D)
  OBVIOUS

LEMMA LastApart ==
  ASSUME NEW C, NEW t \in Seq(C), NEW n \in Nat, Len(t) = n + 1
  PROVE  \E u \in Seq(C), c \in C : t = Append(u, c) /\ Len(u) = n
<1> DEFINE u == [k \in 1 .. n |-> t[k]]
<1>1. \A k \in 1 .. n + 1 : t[k] \in C
  OBVIOUS
<1>2. u \in Seq(C) /\ Len(u) = n
  BY <1>1
<1>3. t = Append(u, t[n + 1])
  <2>1. Append(u, t[n + 1]) \in Seq(C) /\ Len(Append(u, t[n + 1])) = n + 1
    BY <1>1, <1>2
  <2>2. \A k \in 1 .. n + 1 : Append(u, t[n + 1])[k] = t[k]
    BY <1>2
  <2> HIDE DEF u
  <2> QED
    BY <2>1, <2>2, SeqEqual
<1> HIDE DEF u
<1> QED
  BY <1>1, <1>2, <1>3

\* A set with the empty sequence and with every sequence by one longer than one in
\* it has them all.
LEMMA SequenceInduction ==
  ASSUME NEW C, NEW T, <<>> \in T,
         \A t \in Seq(C), c \in C : t \in T => Append(t, c) \in T
  PROVE  Seq(C) \subseteq T
<1> SUFFICES ASSUME NEW t \in Seq(C) PROVE t \in T
  OBVIOUS
<1> DEFINE N == {n \in Nat : \A u \in Seq(C) : Len(u) = n => u \in T}
<1>1. 0 \in N
  <2>1. \A u \in Seq(C) : Len(u) = 0 => u = <<>>
    BY EmptySeq
  <2> QED
    BY <2>1
<1>2. ASSUME NEW k \in 1 .. Len(t), k - 1 \in N
      PROVE  k \in N
  <2>1. ASSUME NEW u \in Seq(C), Len(u) = k
        PROVE  u \in T
    <3>1. k - 1 \in Nat /\ Len(u) = (k - 1) + 1
      BY <2>1
    <3>2. PICK v \in Seq(C), c \in C : u = Append(v, c) /\ Len(v) = k - 1
      BY <3>1, LastApart
    <3> QED
      BY <1>2, <3>2
  <2> QED
    BY <2>1
<1>3. \A k \in 0 .. Len(t) : k \in N
  <2>1. Len(t) \in Nat
    OBVIOUS
  <2>2. \A k \in 1 .. Len(t) : k - 1 \in N => k \in N
    BY <1>2
  <2> HIDE DEF N
  <2> QED
    BY <1>1, <2>1, <2>2, Induction
<1> QED
  BY <1>3

LEMMA ConcatAppend ==
  ASSUME NEW C, NEW t \in Seq(C), NEW u \in Seq(C), NEW c \in C
  PROVE  t \o Append(u, c) = Append(t \o u, c)
<1>1. <<c>> \in Seq(C) /\ Append(u, c) = u \o <<c>> /\ Append(t \o u, c) = (t \o u) \o <<c>>
  OBVIOUS
<1> QED
  BY <1>1, ConcatAssociative

-----------------------------------------------------------------------------
\* What strtok returns for parts with separators between them.

\* One text behind another.
Then(t, u) == t \o u

\* The delimiters among some characters, and the others.
Only(C, delimiters)  == C \cap delimiters
Other(C, delimiters) == C \ delimiters

\* Delimiters add no token, and end one.
LEMMA ScanSeparator ==
  ASSUME NEW C, NEW delimiters, NEW t \in Seq(C),
         NEW u \in Seq(Only(C, delimiters))
  PROVE  /\ Then(t, u) \in Seq(C)
         /\ Scanned(Then(t, u), delimiters).tokens = Scanned(t, delimiters).tokens
         /\ u # <<>> => ~ Scanned(Then(t, u), delimiters).inside
<1> USE DEF Only
<1> DEFINE Right(v) == /\ v \in Seq(C)
                       /\ Scanned(t \o v, delimiters).tokens = Scanned(t, delimiters).tokens
                       /\ v # <<>> => ~ Scanned(t \o v, delimiters).inside
           T == {v \in Seq(Only(C, delimiters)) : Right(v)}
<1>1. <<>> \in T
  <2>1. <<>> \in Seq(C) /\ <<>> \in Seq(Only(C, delimiters)) /\ t \o <<>> = t
    OBVIOUS
  <2> QED
    BY <2>1
<1>2. ASSUME NEW v \in Seq(Only(C, delimiters)), NEW c \in Only(C, delimiters), v \in T
      PROVE  Append(v, c) \in T
  <2>1. /\ Append(v, c) \in Seq(C) /\ Append(v, c) \in Seq(Only(C, delimiters))
        /\ t \o v \in Seq(C) /\ v \in Seq(C)
    BY <1>2
  <2>2. t \o Append(v, c) = Append(t \o v, c)
    BY <2>1, ConcatAppend
  <2>3. PICK s \in Scanning(C) : s = Scanned(t \o v, delimiters)
    BY <2>1, ScannedTypes
  <2>4. Scanned(t \o Append(v, c), delimiters) = Reads(s, c, delimiters)
    BY <2>1, <2>2, <2>3, ScannedAppend
  <2>5. Reads(s, c, delimiters) = [s EXCEPT !.inside = FALSE]
    BY DEF Reads
  <2>6. s.tokens = Scanned(t, delimiters).tokens
    BY <1>2, <2>3
  <2>7. s \in [tokens : Seq(Seq(C)), inside : BOOLEAN]
    BY DEF Scanning
  <2>8. /\ Scanned(t \o Append(v, c), delimiters).tokens = Scanned(t, delimiters).tokens
        /\ ~ Scanned(t \o Append(v, c), delimiters).inside
    BY <2>4, <2>5, <2>6, <2>7
  <2> QED
    BY <2>1, <2>8
<1> HIDE DEF T
<1>3. u \in T
  BY <1>1, <1>2, SequenceInduction
<1>4. u \in Seq(C) /\ Right(u)
  BY <1>3 DEF T
<1> QED
  BY <1>4 DEF Then

\* The state after one more part.
WithPart(s, p) ==
    IF p = <<>> THEN s ELSE [tokens |-> Append(s.tokens, p), inside |-> TRUE]

\* Between tokens, a part without delimiters is one more token.
LEMMA ScanPart ==
  ASSUME NEW C, NEW delimiters, NEW t \in Seq(C),
         NEW p \in Seq(Other(C, delimiters)),
         ~ Scanned(t, delimiters).inside
  PROVE  /\ Then(t, p) \in Seq(C)
         /\ Scanned(Then(t, p), delimiters) = WithPart(Scanned(t, delimiters), p)
<1> USE DEF Other
<1>1. PICK s \in Scanning(C) : s = Scanned(t, delimiters)
  BY ScannedTypes
<1> DEFINE After(v) == WithPart(s, v)
           T == {v \in Seq(Other(C, delimiters)) : Scanned(t \o v, delimiters) = After(v)}
<1>2. s.tokens \in Seq(Seq(C)) /\ s.inside = FALSE /\ s = [tokens |-> s.tokens, inside |-> s.inside]
  BY <1>1 DEF Scanning
<1>3. <<>> \in T
  <2>1. <<>> \in Seq(Other(C, delimiters)) /\ t \o <<>> = t
    OBVIOUS
  <2> QED
    BY <1>1, <2>1 DEF WithPart
<1>4. ASSUME NEW v \in Seq(Other(C, delimiters)), NEW c \in Other(C, delimiters), v \in T
      PROVE  Append(v, c) \in T
  <2>1. /\ Append(v, c) \in Seq(C) /\ Append(v, c) \in Seq(Other(C, delimiters))
        /\ t \o v \in Seq(C) /\ v \in Seq(C)
    BY <1>4
  <2>2. t \o Append(v, c) = Append(t \o v, c)
    BY <2>1, ConcatAppend
  <2>3. Scanned(t \o Append(v, c), delimiters) = Reads(After(v), c, delimiters)
    BY <1>4, <2>1, <2>2, ScannedAppend
  <2>4. Append(v, c) # <<>>
    BY <2>1, AppendIsLonger
  <2>5. Reads(After(v), c, delimiters) = [tokens |-> Append(s.tokens, Append(v, c)), inside |-> TRUE]
    <3>1. CASE v = <<>>
      <4>1. Append(v, c) = <<c>>
        BY <3>1
      <4>2. Reads(s, c, delimiters) = [tokens |-> Append(s.tokens, <<c>>), inside |-> TRUE]
        BY <1>2 DEF Reads
      <4> QED
        BY <3>1, <4>1, <4>2 DEF WithPart
    <3>2. CASE v # <<>>
      <4>1. PICK more \in Seq(Seq(C)) : more = Append(s.tokens, v)
        <5>1. Append(s.tokens, v) \in Seq(Seq(C))
          BY <1>2, <2>1
        <5> QED
          BY <5>1
      <4>2. PICK n \in Nat : n = Len(s.tokens)
        <5>1. Len(s.tokens) \in Nat
          BY <1>2
        <5> QED
          BY <5>1
      <4>3. Len(more) = n + 1 /\ more[n + 1] = v /\ \A k \in 1 .. n : more[k] = s.tokens[k]
        BY <1>2, <2>1, <4>1, <4>2
      <4>4. [more EXCEPT ![n + 1] = Append(v, c)] = Append(s.tokens, Append(v, c))
        <5> DEFINE a == [more EXCEPT ![n + 1] = Append(v, c)]
                   b == Append(s.tokens, Append(v, c))
        <5>1. n + 1 \in 1 .. Len(more)
          BY <4>3
        <5>2. /\ a \in Seq(Seq(C)) /\ Len(a) = n + 1
              /\ \A j \in 1 .. n + 1 : a[j] = IF j = n + 1 THEN Append(v, c) ELSE more[j]
          BY <2>1, <4>3, <5>1, ExceptSeq
        <5>3. /\ b \in Seq(Seq(C)) /\ Len(b) = n + 1
              /\ \A j \in 1 .. n + 1 : b[j] = IF j = n + 1 THEN Append(v, c) ELSE s.tokens[j]
          BY <1>2, <2>1, <4>2
        <5>4. \A j \in 1 .. n + 1 : a[j] = b[j]
          BY <4>3, <5>2, <5>3
        <5> HIDE DEF a, b
        <5>5. Len(a) = Len(b) /\ \A j \in 1 .. Len(a) : a[j] = b[j]
          BY <5>2, <5>3, <5>4
        <5>6. a = b
          BY <5>2, <5>3, <5>5, SeqEqual
        <5> QED
          BY <5>6 DEF a, b
      <4>5. Reads([tokens |-> more, inside |-> TRUE], c, delimiters)
              = [tokens |-> [more EXCEPT ![n + 1] = Append(v, c)], inside |-> TRUE]
        BY <4>3 DEF Reads
      <4> QED
        BY <3>2, <4>1, <4>4, <4>5 DEF WithPart
    <3> QED
      BY <3>1, <3>2
  <2>6. Scanned(t \o Append(v, c), delimiters) = After(Append(v, c))
    BY <2>3, <2>4, <2>5 DEF WithPart
  <2> HIDE DEF After
  <2> QED
    BY <2>1, <2>6
<1>5. t \o p \in Seq(C)
  <2>1. p \in Seq(C)
    OBVIOUS
  <2> QED
    BY <2>1
<1> HIDE DEF T, After
<1>6. p \in T
  BY <1>3, <1>4, SequenceInduction
<1> QED
  BY <1>1, <1>5, <1>6 DEF T, After, Then

LEMMA ScanFirst ==
  ASSUME NEW C, NEW delimiters, NEW p \in Seq(Other(C, delimiters))
  PROVE  Scanned(p, delimiters).tokens = IF p = <<>> THEN <<>> ELSE <<p>>
<1>1. PICK e \in Seq(C) : e = <<>>
  <2>1. <<>> \in Seq(C)
    OBVIOUS
  <2> QED
    BY <2>1
<1>2. PICK s : s = Scanned(e, delimiters)
  OBVIOUS
<1>3. s.inside = FALSE /\ s.tokens = <<>>
  BY <1>1, <1>2, ScannedEmpty DEF AtStart
<1>4. Scanned(Then(e, p), delimiters) = WithPart(s, p)
  BY <1>2, <1>3, ScanPart
<1>5. Then(e, p) = p
  BY <1>1 DEF Then, Other
<1> QED
  BY <1>3, <1>4, <1>5 DEF WithPart

WithHead(head, parts) == <<head>> \o parts

(* strtok finds the parts that are not empty, and nothing else, whatever stands
   between them, if they have no delimiter in them and every character between
   them is one. *)
THEOREM StrtokJoined ==
  ASSUME NEW C, NEW delimiters, NEW separator \in Seq(Only(C, delimiters)), separator # <<>>,
         NEW head \in Seq(Other(C, delimiters)), NEW parts \in Seq(Seq(Other(C, delimiters)))
  PROVE  strtok(Joined(head, parts, separator), delimiters) = Filled(WithHead(head, parts))
<1> DEFINE W == Seq(Other(C, delimiters))
           Line(ps) == Joined(head, ps, separator)
           T == {ps \in Seq(W) : Scanned(Line(ps), delimiters).tokens = Filled(<<head>> \o ps)}
<1>1. W \subseteq Seq(C) /\ separator \in Seq(C) /\ <<>> \in W
  BY DEF Only, Other
<1>2. <<>> \in T
  <2>1. Line(<<>>) = head
    BY <1>1, JoinedEmpty
  <2>2. Scanned(head, delimiters).tokens = IF head = <<>> THEN <<>> ELSE <<head>>
    BY ScanFirst
  <2>3. /\ <<>> \in Seq(W) /\ <<>> \in Seq(Seq(C)) /\ head \in Seq(C)
        /\ <<head>> \o <<>> = <<head>> /\ <<head>> = Append(<<>>, head)
    BY <1>1
  <2>4. Filled(Append(<<>>, head)) = IF head = <<>> THEN Filled(<<>>) ELSE Append(Filled(<<>>), head)
    BY <2>3, FilledAppend
  <2>5. Filled(<<head>>) = IF head = <<>> THEN <<>> ELSE <<head>>
    BY <2>3, <2>4, FilledEmpty
  <2> QED
    BY <2>1, <2>2, <2>3, <2>5
<1>3. ASSUME NEW ps \in Seq(W), NEW p \in W, ps \in T
      PROVE  Append(ps, p) \in T
  <2>1. /\ ps \in Seq(Seq(C)) /\ p \in Seq(C)
        /\ <<head>> \o ps \in Seq(W) /\ <<head>> \o ps \in Seq(Seq(C))
        /\ <<head>> \in Seq(W) /\ head \in Seq(C)
    BY <1>1
  <2>2. Line(ps) \in Seq(C) /\ Line(Append(ps, p)) = Line(ps) \o separator \o p
    <3>1. Joined(head, ps, separator) \in Seq(C)
      BY <1>1, <2>1, JoinedTypes
    <3>2. Joined(head, Append(ps, p), separator)
            = WithOneMore(Joined(head, ps, separator), separator, p)
      BY <1>1, <2>1, JoinedAppend
    <3> QED
      BY <3>1, <3>2 DEF WithOneMore
  <2>3. PICK l \in Seq(C), t \in Seq(C) : l = Line(ps) /\ t = Then(l, separator)
    <3>1. Line(ps) \o separator \in Seq(C)
      BY <1>1, <2>2
    <3> QED
      BY <2>2, <3>1 DEF Then
  <2> HIDE DEF Line
  <2>4. Scanned(t, delimiters).tokens = Filled(<<head>> \o ps) /\ ~ Scanned(t, delimiters).inside
    BY <1>3, <2>2, <2>3, ScanSeparator
  <2>5. Scanned(Then(t, p), delimiters).tokens
          = IF p = <<>> THEN Filled(<<head>> \o ps) ELSE Append(Filled(<<head>> \o ps), p)
    <3>1. Scanned(Then(t, p), delimiters) = WithPart(Scanned(t, delimiters), p)
      BY <2>4, ScanPart
    <3> QED
      BY <2>4, <3>1 DEF WithPart
  <2>6. <<head>> \o Append(ps, p) = Append(<<head>> \o ps, p)
    BY <2>1, ConcatAppend
  <2>7. Filled(Append(<<head>> \o ps, p))
          = IF p = <<>> THEN Filled(<<head>> \o ps) ELSE Append(Filled(<<head>> \o ps), p)
    BY <2>1, FilledAppend
  <2>8. Scanned(Line(Append(ps, p)), delimiters).tokens = Filled(<<head>> \o Append(ps, p))
    BY <2>2, <2>3, <2>5, <2>6, <2>7 DEF Then
  <2>9. Append(ps, p) \in Seq(W)
    OBVIOUS
  <2> QED
    BY <2>8, <2>9
<1> HIDE DEF T
<1>4. parts \in T
  BY <1>2, <1>3, SequenceInduction
<1> QED
  BY <1>4 DEF T, strtok, WithHead

LEMMA PartsWithHead ==
  ASSUME NEW C, NEW h \in C, NEW f \in Seq(C)
  PROVE  /\ Len(f) \in Nat
         /\ Len(WithHead(h, f)) = Len(f) + 1
         /\ WithHead(h, f)[1] = h
         /\ \A k \in 1 .. Len(f) : WithHead(h, f)[k + 1] = f[k]
<1>1. <<h>> \in Seq(C) /\ Len(<<h>>) = 1 /\ <<h>>[1] = h
  OBVIOUS
<1> QED
  BY <1>1, ConcatProperties DEF WithHead

\* Nothing is left out exactly if the number stays the same.
LEMMA FilledKeeps ==
  ASSUME NEW C, NEW parts \in Seq(Seq(C))
  PROVE  /\ Len(Filled(parts)) \in 0 .. Len(parts)
         /\ Len(Filled(parts)) = Len(parts) => Filled(parts) = parts
         /\ (\A k \in 1 .. Len(parts) : parts[k] # <<>>) => Filled(parts) = parts
<1> DEFINE Right(ps) == /\ Filled(ps) \in Seq(Seq(C))
                        /\ Len(Filled(ps)) \in 0 .. Len(ps)
                        /\ Len(Filled(ps)) = Len(ps) => Filled(ps) = ps
                        /\ (\A k \in 1 .. Len(ps) : ps[k] # <<>>) => Filled(ps) = ps
           T == {ps \in Seq(Seq(C)) : Right(ps)}
<1>1. <<>> \in T
  <2>1. <<>> \in Seq(Seq(C)) /\ Len(<<>>) = 0
    OBVIOUS
  <2>2. PICK e \in Seq(Seq(C)) : e = <<>>
    BY <2>1
  <2>3. Filled(e) = e /\ Len(e) = 0
    BY <2>2, FilledEmpty
  <2>4. Right(e)
    BY <2>3
  <2> HIDE DEF Right
  <2> QED
    BY <2>2, <2>4
<1>2. ASSUME NEW ps \in Seq(Seq(C)), NEW p \in Seq(C), ps \in T
      PROVE  Append(ps, p) \in T
  <2>1. PICK more \in Seq(Seq(C)) : more = Append(ps, p)
    <3>1. Append(ps, p) \in Seq(Seq(C))
      OBVIOUS
    <3> QED
      BY <3>1
  <2>2. /\ Len(ps) \in Nat /\ Len(more) = Len(ps) + 1 /\ more[Len(ps) + 1] = p
        /\ \A k \in 1 .. Len(ps) : more[k] = ps[k]
    BY <2>1
  <2>3. PICK f \in Seq(Seq(C)) : f = Filled(ps)
    BY FilledTypes
  <2>4. /\ Filled(more) = IF p = <<>> THEN f ELSE Append(f, p)
        /\ Filled(more) \in Seq(Seq(C))
    BY <2>1, <2>3, FilledAppend, FilledTypes
  <2>5. /\ Len(f) \in 0 .. Len(ps)
        /\ Len(f) = Len(ps) => f = ps
        /\ (\A k \in 1 .. Len(ps) : ps[k] # <<>>) => f = ps
    BY <1>2, <2>3
  <2>6. Len(f) \in Nat /\ Len(f) <= Len(ps)
    <3>1. Len(f) \in 0 .. Len(ps)
      BY <2>5
    <3> QED
      BY <2>2, <3>1
  <2>7. Right(more)
    <3>1. CASE p = <<>>
      <4>1. Filled(more) = f
        BY <2>4, <3>1
      <4>2. ~ \A k \in 1 .. Len(more) : more[k] # <<>>
        BY <2>2, <3>1
      <4> QED
        BY <2>2, <2>4, <2>6, <4>1, <4>2
    <3>2. CASE p # <<>>
      <4>1. Filled(more) = Append(f, p) /\ Len(Filled(more)) = Len(f) + 1
        BY <2>4, <3>2
      <4>2. f = ps => Filled(more) = more
        BY <2>1, <4>1
      <4>3. Len(Filled(more)) \in 0 .. Len(more)
        BY <2>2, <2>6, <4>1
      <4>4. Len(Filled(more)) = Len(more) => Filled(more) = more
        <5>1. Len(Filled(more)) = Len(more) => Len(f) = Len(ps)
          BY <2>2, <2>6, <4>1
        <5> QED
          BY <2>5, <4>2, <5>1
      <4>5. (\A k \in 1 .. Len(more) : more[k] # <<>>) => Filled(more) = more
        <5>1. (\A k \in 1 .. Len(more) : more[k] # <<>>) => \A k \in 1 .. Len(ps) : ps[k] # <<>>
          BY <2>2
        <5> QED
          BY <2>5, <4>2, <5>1
      <4> QED
        BY <2>4, <4>3, <4>4, <4>5
    <3> QED
      BY <3>1, <3>2
  <2> HIDE DEF Right
  <2> QED
    BY <2>1, <2>7
<1> HIDE DEF T
<1>3. parts \in T
  BY <1>1, <1>2, SequenceInduction
<1> QED
  BY <1>3 DEF T

\* A first part that is not empty is the first token.
LEMMA FilledFirst ==
  ASSUME NEW C, NEW head \in Seq(C), head # <<>>, NEW parts \in Seq(Seq(C))
  PROVE  Filled(WithHead(head, parts)) = WithHead(head, Filled(parts))
<1> DEFINE T == {ps \in Seq(Seq(C)) : Filled(<<head>> \o ps) = <<head>> \o Filled(ps)}
<1>1. <<head>> \in Seq(Seq(C))
  OBVIOUS
<1>2. <<>> \in T
  <2>1. PICK e \in Seq(Seq(C)) : e = <<>>
    <3>1. <<>> \in Seq(Seq(C))
      OBVIOUS
    <3> QED
      BY <3>1
  <2>2. Filled(e) = e
    BY <2>1, FilledEmpty
  <2>3. Filled(Append(e, head)) = Append(e, head)
    BY <2>2, FilledAppend
  <2>4. <<head>> \o e = Append(e, head)
    BY <2>1
  <2> QED
    BY <2>1, <2>2, <2>3, <2>4
<1>3. ASSUME NEW ps \in Seq(Seq(C)), NEW p \in Seq(C), ps \in T
      PROVE  Append(ps, p) \in T
  <2>1. PICK more \in Seq(Seq(C)) : more = Append(ps, p)
    <3>1. Append(ps, p) \in Seq(Seq(C))
      OBVIOUS
    <3> QED
      BY <3>1
  <2>2. PICK f \in Seq(Seq(C)) : f = Filled(ps)
    BY FilledTypes
  <2>3. PICK whole \in Seq(Seq(C)) : whole = <<head>> \o ps
    <3>1. <<head>> \o ps \in Seq(Seq(C))
      BY <1>1
    <3> QED
      BY <3>1
  <2>4. Filled(whole) = <<head>> \o f
    BY <1>3, <2>2, <2>3
  <2>5. Filled(more) = IF p = <<>> THEN f ELSE Append(f, p)
    BY <2>1, <2>2, FilledAppend
  <2>6. <<head>> \o more = Append(whole, p)
    BY <1>1, <2>1, <2>3, ConcatAppend
  <2>7. Filled(Append(whole, p)) = IF p = <<>> THEN Filled(whole) ELSE Append(Filled(whole), p)
    BY FilledAppend
  <2>8. <<head>> \o Append(f, p) = Append(<<head>> \o f, p)
    BY <1>1, ConcatAppend
  <2>9. Filled(<<head>> \o more) = <<head>> \o Filled(more)
    BY <2>4, <2>5, <2>6, <2>7, <2>8
  <2> QED
    BY <2>1, <2>9
<1> HIDE DEF T
<1>4. parts \in T
  BY <1>2, <1>3, SequenceInduction
<1> QED
  BY <1>4 DEF T, WithHead

\* A text begins with its head.
LEMMA JoinedFirst ==
  ASSUME NEW C, NEW head \in Seq(C), head # <<>>, NEW parts \in Seq(Seq(C)),
         NEW separator \in Seq(C)
  PROVE  /\ Joined(head, parts, separator) # <<>>
         /\ Joined(head, parts, separator)[1] = head[1]
<1> DEFINE Right(t) == Len(t) > 0 /\ t[1] = head[1]
           T == {ps \in Seq(Seq(C)) : Right(Joined(head, ps, separator))}
<1>1. <<>> \in T
  <2>1. Joined(head, <<>>, separator) = head
    BY JoinedEmpty
  <2>2. Len(head) > 0
    BY EmptySeq
  <2>3. <<>> \in Seq(Seq(C))
    OBVIOUS
  <2> QED
    BY <2>1, <2>2, <2>3
<1>2. ASSUME NEW ps \in Seq(Seq(C)), NEW p \in Seq(C), ps \in T
      PROVE  Append(ps, p) \in T
  <2>1. PICK t \in Seq(C) : t = Joined(head, ps, separator)
    BY JoinedTypes
  <2>2. Joined(head, Append(ps, p), separator) = WithOneMore(t, separator, p)
    BY <2>1, JoinedAppend
  <2>3. Right(t)
    BY <1>2, <2>1
  <2>4. Right(t \o separator \o p)
    <3>1. t \o separator \in Seq(C)
      OBVIOUS
    <3>2. Right(t \o separator)
      BY <2>3
    <3> HIDE DEF Right
    <3>3. PICK u \in Seq(C) : u = t \o separator
      BY <3>1
    <3>4. Right(u \o p)
      BY <3>2, <3>3 DEF Right
    <3> QED
      BY <3>3, <3>4
  <2>5. Append(ps, p) \in Seq(Seq(C))
    OBVIOUS
  <2> HIDE DEF Right
  <2> QED
    BY <2>2, <2>4, <2>5 DEF WithOneMore
<1> HIDE DEF T
<1>3. parts \in T
  BY <1>1, <1>2, SequenceInduction
<1>4. Right(Joined(head, parts, separator))
  BY <1>3 DEF T
<1>5. Len(<<>>) = 0
  OBVIOUS
<1> QED
  BY <1>4, <1>5
=============================================================================
