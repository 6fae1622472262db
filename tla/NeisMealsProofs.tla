--------------------------- MODULE NeisMealsProofs ---------------------------
(***************************************************************************)
(* What is allocated for a call of NEIS is freed once, and plain menus are *)
(* shown as NEIS has sent them as far as the buffers hold them, whatever   *)
(* the sizes of the dishes and of the buffers are.                         *)
(***************************************************************************)
EXTENDS NeisMeals, TextProofs

-----------------------------------------------------------------------------
\* What the functions of MenuText do for every text.

Copying(C) == [inside : BOOLEAN, text : Seq(C)]

LEMMA CopiesTypes ==
  ASSUME NEW C, NEW s \in Copying(C), NEW c \in C
  PROVE  Copies(s, c) \in Copying(C)
<1>1. Append(s.text, c) \in Seq(C)
  BY DEF Copying
<1> QED
  BY <1>1 DEF Copies, Copying

LEMMA NothingTypes ==
  ASSUME NEW C
  PROVE  NothingCopied \in Copying(C)
<1>1. <<>> \in Seq(C)
  OBVIOUS
<1> QED
  BY <1>1 DEF NothingCopied, Copying

CopiesText(f, C, t) ==
    /\ f \in [0 .. Len(t) -> Copying(C)]
    /\ f[0] = NothingCopied
    /\ \A k \in 1 .. Len(t) : f[k] = Copies(f[k - 1], t[k])
    /\ Copied(t) = f[Len(t)]

LEMMA CopiedSteps ==
  ASSUME NEW C, NEW t \in Seq(C)
  PROVE  \E f : CopiesText(f, C, t)
<1> DEFINE step == [x \in Copying(C) \X C |-> Copies(x[1], x[2])]
           Goes(f) == f = [k \in 0 .. Len(t) |-> IF k = 0 THEN NothingCopied ELSE Copies(f[k - 1], t[k])]
<1>1. /\ Len(t) \in Nat
      /\ \A k \in 1 .. Len(t) : t[k] \in C /\ k - 1 \in 0 .. Len(t)
  OBVIOUS
<1>2. step \in [Copying(C) \X C -> Copying(C)]
  BY CopiesTypes
<1>3. \A u \in Copying(C), v \in C : step[<<u, v>>] = Copies(u, v)
  OBVIOUS
<1>4. NothingCopied \in Copying(C)
  BY NothingTypes
<1> HIDE DEF step
<1>5. PICK f \in [0 .. Len(t) -> Copying(C)] : Scans(f, step, NothingCopied, t)
  BY <1>2, <1>4, ScanExists
<1>6. ASSUME NEW k \in 1 .. Len(t)
      PROVE  f[k] = Copies(f[k - 1], t[k])
  <2>1. f[k] = step[<<f[k - 1], t[k]>>]
    BY <1>5 DEF Scans
  <2> QED
    BY <1>1, <1>3, <2>1
<1>7. f[0] = NothingCopied
  BY <1>5 DEF Scans
<1>8. Goes(f)
  <2>1. ASSUME NEW k \in 0 .. Len(t)
        PROVE  f[k] = IF k = 0 THEN NothingCopied ELSE Copies(f[k - 1], t[k])
    <3>1. CASE k = 0
      BY <1>7, <3>1
    <3>2. CASE k # 0
      <4>1. k \in 1 .. Len(t)
        BY <1>1, <3>2
      <4> QED
        BY <1>6, <3>2, <4>1
    <3> QED
      BY <3>1, <3>2
  <2> QED
    BY <2>1
<1>9. PICK g : Goes(g) /\ Copied(t) = g[Len(t)]
  <2>1. Copied(t) = (CHOOSE g : Goes(g))[Len(t)]
    BY DEF Copied
  <2> HIDE DEF Goes
  <2>2. Goes(CHOOSE g : Goes(g))
    BY <1>8
  <2> QED
    BY <2>1, <2>2
<1>10. g[0] = NothingCopied
  <2>1. 0 \in 0 .. Len(t)
    BY <1>1
  <2> QED
    BY <1>9, <2>1
<1>11. ASSUME NEW k \in 1 .. Len(t), f[k - 1] = g[k - 1]
       PROVE  f[k] = g[k]
  <2>1. k \in 0 .. Len(t) /\ k # 0
    BY <1>1
  <2>2. g[k] = Copies(g[k - 1], t[k])
    BY <1>9, <2>1
  <2> HIDE DEF Goes
  <2> QED
    BY <1>6, <1>11, <2>2
<1> HIDE DEF Goes
<1>12. f[Len(t)] = g[Len(t)]
  <2>1. f[0] = g[0]
    BY <1>7, <1>10
  <2>2. GoAlike(f, g, Len(t))
    BY <1>11 DEF GoAlike
  <2>3. Alike(f, g, Len(t))
    BY <1>1, <2>1, <2>2, SameSteps
  <2> QED
    BY <1>1, <2>3 DEF Alike
<1>13. CopiesText(f, C, t)
  BY <1>6, <1>7, <1>9, <1>12 DEF CopiesText
<1> QED
  BY <1>13

LEMMA CopiedEmpty ==
  ASSUME NEW C
  PROVE  Copied(<<>>) = NothingCopied
<1>1. <<>> \in Seq(C) /\ Len(<<>>) = 0
  OBVIOUS
<1>2. PICK f : CopiesText(f, C, <<>>)
  BY <1>1, CopiedSteps
<1> QED
  BY <1>1, <1>2 DEF CopiesText

LEMMA CopiedTypes ==
  ASSUME NEW C, NEW t \in Seq(C)
  PROVE  Copied(t) \in Copying(C)
<1>1. PICK f : CopiesText(f, C, t)
  BY CopiedSteps
<1>2. Len(t) \in 0 .. Len(t)
  OBVIOUS
<1> QED
  BY <1>1, <1>2 DEF CopiesText

LEMMA CopiedAppend ==
  ASSUME NEW C, NEW t \in Seq(C), NEW c \in C
  PROVE  Copied(Append(t, c)) = Copies(Copied(t), c)
<1>1. PICK n \in Nat : n = Len(t)
  OBVIOUS
<1>2. PICK more \in Seq(C) : more = Append(t, c)
  <2>1. Append(t, c) \in Seq(C)
    OBVIOUS
  <2> QED
    BY <2>1
<1>3. /\ Len(more) = n + 1 /\ more[n + 1] = c
      /\ \A k \in 1 .. n : more[k] = t[k]
  BY <1>1, <1>2
<1>4. PICK f : CopiesText(f, C, t)
  BY CopiedSteps
<1>5. PICK g : CopiesText(g, C, more)
  BY CopiedSteps
<1>6. f[n] = g[n]
  <2>1. f[0] = g[0]
    BY <1>4, <1>5 DEF CopiesText
  <2>2. ASSUME NEW k \in 1 .. n
        PROVE  /\ f[k] = Copies(f[k - 1], t[k])
               /\ g[k] = Copies(g[k - 1], t[k])
    <3>1. k \in 1 .. Len(t) /\ k \in 1 .. Len(more) /\ more[k] = t[k]
      BY <1>1, <1>3
    <3> QED
      BY <1>4, <1>5, <3>1 DEF CopiesText
  <2>3. GoAlike(f, g, n)
    BY <2>2 DEF GoAlike
  <2>4. Alike(f, g, n)
    BY <2>1, <2>3, SameSteps
  <2> QED
    BY <2>4 DEF Alike
<1>7. g[n + 1] = Copies(g[n], c)
  <2>1. n + 1 \in 1 .. Len(more) /\ (n + 1) - 1 = n
    BY <1>3
  <2> QED
    BY <1>3, <1>5, <2>1 DEF CopiesText
<1>8. Copied(t) = f[n] /\ Copied(more) = g[n + 1]
  BY <1>1, <1>3, <1>4, <1>5 DEF CopiesText
<1> QED
  BY <1>2, <1>6, <1>7, <1>8

-----------------------------------------------------------------------------
\* A dish without its brackets.

LEMMA NoBracket ==
  ASSUME NEW C, NEW t \in Seq(C), \A k \in 1 .. Len(t) : t[k] # "("
  PROVE  BeforeBracket(t) = t
BY DEF BeforeBracket

LEMMA FirstIs ==
  ASSUME NEW places \in SUBSET Nat, NEW n \in places, \A k \in places : n <= k
  PROVE  First(places) = n
<1>1. ASSUME NEW k \in places, \A j \in places : k <= j
      PROVE  k = n
  BY <1>1
<1> QED
  BY <1>1 DEF First

LEMMA FirstBracket ==
  ASSUME NEW C, NEW t \in Seq(C), NEW n \in 1 .. Len(t), t[n] = "(",
         \A k \in 1 .. n - 1 : t[k] # "("
  PROVE  BeforeBracket(t) = SubSeq(t, 1, n - 1)
<1>1. PICK brackets \in SUBSET Nat : brackets = {k \in 1 .. Len(t) : t[k] = "("}
  <2>1. {k \in 1 .. Len(t) : t[k] = "("} \in SUBSET Nat
    OBVIOUS
  <2> QED
    BY <2>1
<1>2. n \in brackets /\ \A k \in brackets : n <= k
  BY <1>1
<1>3. First(brackets) = n /\ brackets # {}
  BY <1>2, FirstIs
<1> QED
  BY <1>1, <1>3 DEF BeforeBracket

HasBracket(t) == \E k \in 1 .. Len(t) : t[k] = "("

LEMMA BracketExists ==
  ASSUME NEW C, NEW t \in Seq(C), HasBracket(t)
  PROVE  \E n \in 1 .. Len(t) : t[n] = "(" /\ \A k \in 1 .. n - 1 : t[k] # "("
<1> DEFINE T == {k \in 1 .. Len(t) : t[k] = "("}
<1>1. T \subseteq Nat /\ T # {}
  BY DEF HasBracket
<1>2. PICK n \in T : \A m \in Nat : m < n => m \notin T
  <2> HIDE DEF T
  <2> QED
    BY <1>1, LeastNumber
<1>3. n \in 1 .. Len(t) /\ t[n] = "("
  OBVIOUS
<1>4. ASSUME NEW k \in 1 .. n - 1
      PROVE  t[k] # "("
  <2>1. k \in Nat /\ k < n /\ k \in 1 .. Len(t)
    BY <1>3
  <2> QED
    BY <1>2, <2>1
<1> QED
  BY <1>3, <1>4

\* What stands after the first bracket does not count.
LEMMA BeforeBracketAppend ==
  ASSUME NEW C, NEW t \in Seq(C), NEW c \in C
  PROVE  BeforeBracket(Append(t, c))
           = IF HasBracket(t) THEN BeforeBracket(t)
             ELSE IF c = "(" THEN t ELSE Append(t, c)
<1>1. PICK more \in Seq(C) : more = Append(t, c)
  <2>1. Append(t, c) \in Seq(C)
    OBVIOUS
  <2> QED
    BY <2>1
<1>2. PICK n \in Nat : n = Len(t)
  OBVIOUS
<1>3. /\ Len(more) = n + 1 /\ more[n + 1] = c
      /\ \A k \in 1 .. n : more[k] = t[k]
  BY <1>1, <1>2
<1>4. CASE HasBracket(t)
  <2>1. PICK b \in 1 .. Len(t) : t[b] = "(" /\ \A k \in 1 .. b - 1 : t[k] # "("
    BY <1>4, BracketExists
  <2>2. b \in 1 .. n /\ b \in 1 .. Len(more)
    BY <1>2, <1>3, <2>1
  <2>3. more[b] = "(" /\ \A k \in 1 .. b - 1 : more[k] # "("
    BY <1>3, <2>1, <2>2
  <2>4. BeforeBracket(t) = SubSeq(t, 1, b - 1)
    BY <2>1, FirstBracket
  <2>5. BeforeBracket(more) = SubSeq(more, 1, b - 1)
    BY <2>2, <2>3, FirstBracket
  <2>6. SubSeq(more, 1, b - 1) = SubSeq(t, 1, b - 1)
    BY <1>2, <1>3, <2>2
  <2> QED
    BY <1>1, <1>4, <2>4, <2>5, <2>6
<1>5. CASE ~ HasBracket(t) /\ c = "("
  <2>1. \A k \in 1 .. n : more[k] # "("
    BY <1>2, <1>3, <1>5 DEF HasBracket
  <2>2. n + 1 \in 1 .. Len(more) /\ (n + 1) - 1 = n
    BY <1>3
  <2>3. BeforeBracket(more) = SubSeq(more, 1, n)
    BY <1>3, <1>5, <2>1, <2>2, FirstBracket
  <2>4. SubSeq(more, 1, n) = t
    BY <1>1, <1>2
  <2> QED
    BY <1>1, <1>5, <2>3, <2>4
<1>6. CASE ~ HasBracket(t) /\ c # "("
  <2>1. \A k \in 1 .. Len(more) : more[k] # "("
    <3>1. \A k \in 1 .. Len(more) : k \in 1 .. n \/ k = n + 1
      BY <1>3
    <3> QED
      BY <1>2, <1>3, <1>6, <3>1 DEF HasBracket
  <2> QED
    BY <1>1, <1>6, <2>1, NoBracket
<1> QED
  BY <1>4, <1>5, <1>6

LEMMA BracketAppend ==
  ASSUME NEW C, NEW t \in Seq(C), NEW c \in C
  PROVE  HasBracket(Append(t, c)) <=> HasBracket(t) \/ c = "("
<1>1. PICK n \in Nat : n = Len(t)
  OBVIOUS
<1>2. /\ Len(Append(t, c)) = n + 1 /\ Append(t, c)[n + 1] = c
      /\ \A k \in 1 .. n : Append(t, c)[k] = t[k]
  BY <1>1
<1>3. \A k \in 1 .. n + 1 : k \in 1 .. n \/ k = n + 1
  OBVIOUS
<1>4. n + 1 \in 1 .. n + 1 /\ \A k \in 1 .. n : k \in 1 .. n + 1
  OBVIOUS
<1> QED
  BY <1>1, <1>2, <1>3, <1>4 DEF HasBracket

Unclosed(C) == C \ {")"}

\* Before any bracket closes, what is copied is what stands before the first one.
LEMMA CopiesBeforeBracket ==
  ASSUME NEW C, NEW t \in Seq(Unclosed(C))
  PROVE  Copied(t) = [inside |-> HasBracket(t), text |-> BeforeBracket(t)]
<1> DEFINE Right(u) == /\ Copied(u).inside = HasBracket(u)
                       /\ Copied(u).text = BeforeBracket(u)
           T == {u \in Seq(Unclosed(C)) : Right(u)}
<1>1. <<>> \in T
  <2>1. <<>> \in Seq(Unclosed(C)) /\ Len(<<>>) = 0
    OBVIOUS
  <2>2. HasBracket(<<>>) = FALSE /\ BeforeBracket(<<>>) = <<>>
    <3>1. PICK e \in Seq(Unclosed(C)) : e = <<>> /\ Len(e) = 0
      BY <2>1
    <3>2. \A k \in 1 .. Len(e) : e[k] # "("
      BY <3>1
    <3>3. BeforeBracket(e) = e
      BY <3>2, NoBracket
    <3>4. HasBracket(e) = FALSE
      BY <3>1 DEF HasBracket
    <3> QED
      BY <3>1, <3>3, <3>4
  <2>3. Copied(<<>>) = NothingCopied
    BY CopiedEmpty
  <2>4. NothingCopied.inside = FALSE /\ NothingCopied.text = <<>>
    BY DEF NothingCopied
  <2>5. Right(<<>>)
    BY <2>2, <2>3, <2>4
  <2> HIDE DEF Right
  <2> QED
    BY <2>1, <2>5
<1>2. ASSUME NEW u \in Seq(Unclosed(C)), NEW c \in Unclosed(C), u \in T
      PROVE  Append(u, c) \in T
  <2>1. Append(u, c) \in Seq(Unclosed(C)) /\ c # ")"
    BY DEF Unclosed
  <2>2. Copied(Append(u, c)) = Copies(Copied(u), c)
    BY CopiedAppend
  <2>3. HasBracket(Append(u, c)) <=> HasBracket(u) \/ c = "("
    BY BracketAppend
  <2>4. BeforeBracket(Append(u, c))
          = IF HasBracket(u) THEN BeforeBracket(u)
            ELSE IF c = "(" THEN u ELSE Append(u, c)
    BY BeforeBracketAppend
  <2>5. ~ HasBracket(u) => BeforeBracket(u) = u
    BY NoBracket DEF HasBracket
  <2>6. Copied(u) \in Copying(Unclosed(C))
    BY CopiedTypes
  <2>7. PICK s \in Copying(Unclosed(C)) : s = Copied(u)
    BY <2>6
  <2>8. s.inside = HasBracket(u) /\ s.text = BeforeBracket(u)
    BY <1>2, <2>7
  <2>9. HasBracket(u) \in BOOLEAN /\ HasBracket(Append(u, c)) \in BOOLEAN
    BY DEF HasBracket
  <2>10. Copies(s, c).inside = (HasBracket(u) \/ c = "(")
    BY <2>1, <2>8, <2>9 DEF Copies, Copying
  <2>11. Copies(s, c).text = IF HasBracket(u) \/ c = "(" THEN s.text ELSE Append(s.text, c)
    BY <2>1, <2>8 DEF Copies, Copying
  <2>12. Right(Append(u, c))
    BY <2>2, <2>3, <2>4, <2>5, <2>7, <2>8, <2>9, <2>10, <2>11
  <2> QED
    BY <2>1, <2>12
<1> HIDE DEF T
<1>3. Seq(Unclosed(C)) \subseteq T
  BY <1>1, <1>2, SequenceInduction
<1>4. Right(t)
  BY <1>3 DEF T
<1>5. Copied(t) \in Copying(Unclosed(C))
  BY CopiedTypes
<1> QED
  BY <1>4, <1>5 DEF Copying

\* The working copy that ends at the first bracket is the dish without brackets.
LEMMA BracketsAreCut ==
  ASSUME NEW C, NEW dish \in Seq(C), BracketIsLast(dish)
  PROVE  WithoutBrackets(dish) = BeforeBracket(dish)
<1>1. CASE \A k \in 1 .. Len(dish) : dish[k] # ")"
  <2>1. \A k \in 1 .. Len(dish) : dish[k] \in Unclosed(C)
    BY <1>1 DEF Unclosed
  <2>2. dish \in Seq(Unclosed(C))
    BY <2>1, SequenceOf
  <2>3. Copied(dish).text = BeforeBracket(dish)
    BY <2>2, CopiesBeforeBracket
  <2> QED
    BY <2>3 DEF WithoutBrackets
<1>2. CASE \E k \in 1 .. Len(dish) : dish[k] = ")"
  <2>1. PICK k \in 1 .. Len(dish) : dish[k] = ")"
    BY <1>2
  <2>2. PICK j \in 1 .. k : k = Len(dish) /\ dish[j] = "("
    BY <2>1 DEF BracketIsLast
  <2>3. PICK n \in Nat : Len(dish) = n + 1
    <3>1. Len(dish) - 1 \in Nat /\ Len(dish) = (Len(dish) - 1) + 1
      BY <2>1
    <3> QED
      BY <3>1
  <2>4. PICK t \in Seq(C), c \in C : dish = Append(t, c) /\ Len(t) = n
    BY <2>3, LastApart
  <2>5. c = ")" /\ \A i \in 1 .. n : t[i] = dish[i]
    BY <2>1, <2>2, <2>3, <2>4
  <2>6. \A i \in 1 .. n : dish[i] # ")"
    BY <2>3 DEF BracketIsLast
  <2>7. \A i \in 1 .. Len(t) : t[i] \in Unclosed(C)
    BY <2>4, <2>5, <2>6 DEF Unclosed
  <2>8. t \in Seq(Unclosed(C))
    BY <2>7, SequenceOf
  <2>9. HasBracket(t)
    <3>1. j # k
      BY <2>1, <2>2
    <3>2. j \in 1 .. n
      BY <2>1, <2>2, <2>3, <3>1
    <3> QED
      BY <2>2, <2>4, <2>5, <3>2 DEF HasBracket
  <2>10. Copied(t).text = BeforeBracket(t)
    BY <2>8, CopiesBeforeBracket
  <2>11. Copied(dish) = Copies(Copied(t), ")")
    BY <2>4, <2>5, CopiedAppend
  <2>12. Copied(t) \in Copying(C)
    BY CopiedTypes
  <2>13. Copies(Copied(t), ")").text = Copied(t).text
    BY <2>12 DEF Copies, Copying
  <2>14. BeforeBracket(dish) = BeforeBracket(t)
    BY <2>4, <2>9, BeforeBracketAppend
  <2> QED
    BY <2>10, <2>11, <2>13, <2>14 DEF WithoutBrackets
<1> QED
  BY <1>1, <1>2

-----------------------------------------------------------------------------
\* The lines of a menu.

\* The lines for the dishes, each by one of the two ways to take its brackets away.
Cut(dishes)  == [k \in 1 .. Len(dishes) |-> Trim(BeforeBracket(dishes[k]))]
Bare(dishes) == [k \in 1 .. Len(dishes) |-> Trim(WithoutBrackets(dishes[k]))]

LEMMA TrimTypes ==
  ASSUME NEW C, NEW t \in Seq(C)
  PROVE  Trim(t) \in Seq(C)
<1> DEFINE inside == {k \in 1 .. Len(t) : t[k] # Blank}
<1>1. CASE inside = {}
  BY <1>1 DEF Trim
<1>2. CASE inside # {}
  <2>1. inside \subseteq Nat
    OBVIOUS
  <2>2. PICK n \in inside : \A m \in Nat : m < n => m \notin inside
    <3> HIDE DEF inside
    <3> QED
      BY <1>2, <2>1, LeastNumber
  <2>3. n \in inside /\ \A k \in inside : n <= k
    BY <2>1, <2>2
  <2>4. First(inside) = n
    <3> HIDE DEF inside
    <3> QED
      BY <2>1, <2>3, FirstIs
  <2> DEFINE later == {m \in Nat : m <= Len(t) /\ (Len(t) - m) \in inside}
  <2>5. later \subseteq Nat /\ later # {}
    <3>1. Len(t) - n \in Nat /\ Len(t) - (Len(t) - n) = n /\ Len(t) - n <= Len(t)
      BY <2>3
    <3> QED
      BY <2>3, <3>1
  <2>6. PICK m \in later : \A l \in Nat : l < m => l \notin later
    <3> HIDE DEF later
    <3> QED
      BY <2>5, LeastNumber
  <2>7. PICK f \in inside : f = Len(t) - m
    OBVIOUS
  <2>8. ASSUME NEW k \in inside
        PROVE  k <= f
    <3>1. Len(t) - k \in Nat /\ Len(t) - (Len(t) - k) = k /\ Len(t) - k <= Len(t)
      OBVIOUS
    <3>2. Len(t) - k \in later
      BY <3>1
    <3>3. ~ (Len(t) - k < m)
      BY <2>6, <3>1, <3>2
    <3> QED
      BY <2>7, <3>1, <3>3
  <2>9. Final(inside) = f
    <3>1. ASSUME NEW k \in inside, \A j \in inside : k >= j
          PROVE  k = f
      BY <2>7, <2>8, <3>1
    <3>2. \A j \in inside : f >= j
      BY <2>8
    <3> HIDE DEF inside
    <3> QED
      BY <2>7, <3>1, <3>2 DEF Final
  <2>10. Trim(t) = SubSeq(t, n, f)
    BY <1>2, <2>4, <2>9 DEF Trim
  <2>11. n \in 1 .. Len(t) /\ f \in 1 .. Len(t)
    BY <2>3, <2>7
  <2> QED
    BY <2>10, <2>11
<1> QED
  BY <1>1, <1>2

LEMMA TrimEmpty == Trim(<<>>) = <<>>
BY DEF Trim

LEMMA BeforeBracketTypes ==
  ASSUME NEW C, NEW t \in Seq(C)
  PROVE  BeforeBracket(t) \in Seq(C)
<1>1. CASE HasBracket(t)
  <2>1. PICK n \in 1 .. Len(t) : t[n] = "(" /\ \A k \in 1 .. n - 1 : t[k] # "("
    BY <1>1, BracketExists
  <2>2. BeforeBracket(t) = SubSeq(t, 1, n - 1)
    BY <2>1, FirstBracket
  <2>3. \A k \in 1 .. n - 1 : k \in 1 .. Len(t)
    OBVIOUS
  <2> QED
    BY <2>2, <2>3
<1>2. CASE ~ HasBracket(t)
  BY <1>2, NoBracket DEF HasBracket
<1> QED
  BY <1>1, <1>2

LEMMA CutTypes ==
  ASSUME NEW C, NEW dishes \in Seq(Seq(C))
  PROVE  Cut(dishes) \in Seq(Seq(C)) /\ Len(Cut(dishes)) = Len(dishes)
<1>1. \A k \in 1 .. Len(dishes) : dishes[k] \in Seq(C)
  OBVIOUS
<1>2. \A k \in 1 .. Len(dishes) : Trim(BeforeBracket(dishes[k])) \in Seq(C)
  BY <1>1, BeforeBracketTypes, TrimTypes
<1>3. Len(dishes) \in Nat
  OBVIOUS
<1> QED
  BY <1>2, <1>3 DEF Cut

LEMMA CutAppend ==
  ASSUME NEW C, NEW dishes \in Seq(Seq(C)), NEW d \in Seq(C)
  PROVE  Cut(Append(dishes, d)) = Append(Cut(dishes), Trim(BeforeBracket(d)))
<1>1. PICK n \in Nat : n = Len(dishes)
  OBVIOUS
<1>2. PICK more \in Seq(Seq(C)) : more = Append(dishes, d)
  <2>1. Append(dishes, d) \in Seq(Seq(C))
    OBVIOUS
  <2> QED
    BY <2>1
<1>3. /\ Len(more) = n + 1 /\ more[n + 1] = d
      /\ \A k \in 1 .. n : more[k] = dishes[k]
  BY <1>1, <1>2
<1>4. Trim(BeforeBracket(d)) \in Seq(C)
  BY BeforeBracketTypes, TrimTypes
<1>5. PICK e \in Seq(C) : e = Trim(BeforeBracket(d))
  BY <1>4
<1>6. PICK cut \in Seq(Seq(C)) : cut = Cut(dishes) /\ Len(cut) = n
  BY <1>1, CutTypes
<1>7. PICK longer \in Seq(Seq(C)) : longer = Cut(more) /\ Len(longer) = n + 1
  BY <1>3, CutTypes
<1>8. \A k \in 1 .. n : longer[k] = cut[k]
  <2>1. \A k \in 1 .. n : k \in 1 .. n + 1
    OBVIOUS
  <2> QED
    BY <1>1, <1>3, <1>6, <1>7, <2>1 DEF Cut
<1>9. longer[n + 1] = e
  <2>1. n + 1 \in 1 .. n + 1
    OBVIOUS
  <2> QED
    BY <1>3, <1>5, <1>7, <2>1 DEF Cut
<1>10. longer = Append(cut, e)
  BY <1>6, <1>7, <1>8, <1>9
<1> QED
  BY <1>2, <1>5, <1>6, <1>7, <1>10

\* To leave out the empty dishes first, or their lines only, is the same.
LEMMA EmptyDishes ==
  ASSUME NEW C, NEW dishes \in Seq(Seq(C))
  PROVE  Filled(Cut(Filled(dishes))) = Filled(Cut(dishes))
<1> DEFINE T == {ds \in Seq(Seq(C)) : Filled(Cut(Filled(ds))) = Filled(Cut(ds))}
<1>1. <<>> \in T
  <2>1. <<>> \in Seq(Seq(C))
    OBVIOUS
  <2> QED
    BY <2>1, FilledEmpty
<1>2. ASSUME NEW ds \in Seq(Seq(C)), NEW d \in Seq(C), ds \in T
      PROVE  Append(ds, d) \in T
  <2>1. Append(ds, d) \in Seq(Seq(C)) /\ Filled(ds) \in Seq(Seq(C))
    BY FilledTypes
  <2>2. PICK e \in Seq(C) : e = Trim(BeforeBracket(d))
    BY BeforeBracketTypes, TrimTypes
  <2>3. Cut(Append(ds, d)) = Append(Cut(ds), e)
    BY <2>2, CutAppend
  <2>4. Cut(ds) \in Seq(Seq(C)) /\ Cut(Filled(ds)) \in Seq(Seq(C))
    BY <2>1, CutTypes
  <2>5. Filled(Cut(Append(ds, d)))
          = IF e = <<>> THEN Filled(Cut(ds)) ELSE Append(Filled(Cut(ds)), e)
    BY <2>3, <2>4, FilledAppend
  <2>6. Filled(Append(ds, d)) = IF d = <<>> THEN Filled(ds) ELSE Append(Filled(ds), d)
    BY FilledAppend
  <2>7. Filled(Cut(Filled(ds))) = Filled(Cut(ds))
    BY <1>2
  <2>8. CASE d = <<>>
    <3>1. BeforeBracket(d) = d
      <4>1. \A k \in 1 .. Len(d) : d[k] # "("
        BY <2>8
      <4> QED
        BY <4>1, NoBracket
    <3>2. e = <<>>
      BY <2>2, <2>8, <3>1, TrimEmpty
    <3> QED
      BY <2>1, <2>5, <2>6, <2>7, <2>8, <3>2
  <2>9. CASE d # <<>>
    <3>1. Cut(Filled(Append(ds, d))) = Append(Cut(Filled(ds)), e)
      BY <2>1, <2>2, <2>6, <2>9, CutAppend
    <3>2. Filled(Cut(Filled(Append(ds, d))))
            = IF e = <<>> THEN Filled(Cut(Filled(ds))) ELSE Append(Filled(Cut(Filled(ds))), e)
      BY <2>4, <3>1, FilledAppend
    <3> QED
      BY <2>1, <2>5, <2>7, <3>2
  <2> QED
    BY <2>8, <2>9
<1> HIDE DEF T
<1>3. Seq(Seq(C)) \subseteq T
  BY <1>1, <1>2, SequenceInduction
<1> QED
  BY <1>3 DEF T

Characters == DOMAIN Bytes

LEMMA BreakTypes ==
  /\ Break \in Seq(Only(Characters, Range(Break)))
  /\ Break # <<>>
<1>1. Break \in Seq({"<", "b", "r", "/", ">"})
  BY DEF Break
<1>2. \A k \in 1 .. Len(Break) : Break[k] \in Range(Break)
  BY <1>1 DEF Range
<1>3. \A k \in 1 .. Len(Break) : Break[k] \in Only(Characters, Range(Break))
  BY <1>2, MealsAssumption DEF Only, Characters
<1>4. Break \in Seq(Only(Characters, Range(Break)))
  BY <1>1, <1>3, SequenceOf
<1>5. Break # <<>>
  BY DEF Break
<1> QED
  BY <1>4, <1>5

LEMMA PlainTypes ==
  ASSUME NEW d \in Seq(Characters), Plain(d)
  PROVE  d \in Seq(Other(Characters, Range(Break)))
<1>1. \A k \in 1 .. Len(d) : d[k] \in Characters /\ d[k] \in Range(d)
  BY DEF Range
<1>2. \A k \in 1 .. Len(d) : d[k] \in Other(Characters, Range(Break))
  BY <1>1 DEF Other, Plain
<1> QED
  BY <1>2, SequenceOf

\* strtok finds the dishes that are there.
LEMMA DishesAreFound ==
  ASSUME NEW row \in Seq(Seq(Characters)), \A k \in 1 .. Len(row) : Plain(row[k])
  PROVE  strtok(MenuOf(row), Range(Break)) = Filled(row)
<1> DEFINE W == Seq(Other(Characters, Range(Break)))
<1>1. CASE row = <<>>
  <2>1. strtok(<<>>, Range(Break)) = <<>>
    BY ScannedEmpty DEF strtok, AtStart
  <2>2. MenuOf(row) = <<>>
    BY <1>1 DEF MenuOf
  <2> QED
    BY <1>1, <2>1, <2>2, FilledEmpty
<1>2. CASE row # <<>>
  <2>1. \A k \in 1 .. Len(row) : row[k] \in W
    BY PlainTypes
  <2>2. row \in Seq(W)
    <3> HIDE DEF W
    <3> QED
      BY <2>1, SequenceOf
  <2>3. Head(row) \in W /\ Tail(row) \in Seq(W)
    <3> HIDE DEF W
    <3> QED
      BY <1>2, <2>2
  <2>4. row = WithHead(Head(row), Tail(row))
    <3> HIDE DEF W
    <3> QED
      BY <1>2, <2>2 DEF WithHead
  <2>5. PICK h \in W, ps \in Seq(W) : h = Head(row) /\ ps = Tail(row)
    BY <2>3
  <2>6. strtok(Joined(h, ps, Break), Range(Break)) = Filled(WithHead(h, ps))
    <3>1. PICK D : D = Range(Break)
      OBVIOUS
    <3>2. PICK s : s = Break
      OBVIOUS
    <3>3. s \in Seq(Only(Characters, D)) /\ s # <<>>
      BY <3>1, <3>2, BreakTypes
    <3>4. h \in Seq(Other(Characters, D)) /\ ps \in Seq(Seq(Other(Characters, D)))
      BY <3>1
    <3>5. strtok(Joined(h, ps, s), D) = Filled(WithHead(h, ps))
      BY <3>3, <3>4, StrtokJoined
    <3> QED
      BY <3>1, <3>2, <3>5
  <2>7. MenuOf(row) = Joined(h, ps, Break)
    BY <1>2, <2>5 DEF MenuOf
  <2> QED
    BY <2>4, <2>5, <2>6, <2>7
<1> QED
  BY <1>1, <1>2

(* Of every day whose dishes have none of the characters of "<br/>", and brackets at
   their end only, the server shows the dishes as NEIS means them: each on a line of its
   own, in order, without brackets and blanks around them, and nothing else
   (src/server/neis_api.c:251-281, 388-429). *)
THEOREM PlainMenus ==
  ASSUME NEW row \in Seq(Seq(Characters)), \A k \in 1 .. Len(row) : Plain(row[k])
  PROVE  ShownLines(MenuOf(row)) = MealLines(row)
<1>1. ShownLines(MenuOf(row)) = Filled(Cut(Filled(row)))
  BY DishesAreFound DEF ShownLines, Cut
<1>2. Filled(Cut(Filled(row))) = Filled(Cut(row))
  BY EmptyDishes
<1>3. \A k \in 1 .. Len(row) : WithoutBrackets(row[k]) = BeforeBracket(row[k])
  BY BracketsAreCut DEF Plain
<1>4. Cut(row) = Bare(row)
  BY <1>3 DEF Cut, Bare
<1> QED
  BY <1>1, <1>2, <1>4 DEF MealLines, Bare

-----------------------------------------------------------------------------
\* The invariant: what is allocated where the handler is, and the days it has shown.

AllocatedAt(place) ==
    CASE place = "perform"          -> {"curl", "chunk"}
      [] place = "parse"            -> {"chunk"}
      [] place \in {"look", "days"} -> {"json"}
      [] place = "show"             -> {"json", "copy", "result"}
      [] place = "day"              -> {"json", "copy"}
      [] OTHER                      -> {}

\* Of a process that has ended, or overruns a buffer, only that nothing was freed twice.
AllocatedHere ==
    /\ held \in [Resources -> Int]
    /\ \A r \in Resources : held[r] \in 0 .. 1
    /\ stage \notin {"overrun", "ended"} =>
         \A r \in Resources : held[r] = IF r \in AllocatedAt(stage) THEN 1 ELSE 0

Places == {"idle", "check", "init", "perform", "parse", "look", "show", "days", "day",
           "returned", "overrun", "ended"}

MealsTypeOK ==
    /\ stage \in Places
    /\ call \in {"none", "school", "meal", "period"}
    /\ query \in {"none", "meal", "period"}
    /\ doc \in Documents
    /\ shown \in Seq(Seq(Seq(Characters)))
    /\ used \in Int
    /\ found \in BOOLEAN

\* Nothing is shown before a document has been looked at.
NothingShownYet ==
    stage \in {"check", "init", "perform", "parse", "look"} \/ call = "school" => shown = <<>>

Line(row)        == ShownLines(MenuOf(row))
LinesOf(rows, n) == [k \in 1 .. n |-> Line(rows[k])]

\* strlen(buffer) after n days of which none is cut, and when none is.
UsedFor(rows, n) == PeriodTitle + Total([k \in 1 .. n |-> DayBytes(Line(rows[k])) + 1])

AllFit(rows, n) ==
    \A k \in 1 .. n : DayBytes(Line(rows[k])) < EntrySize /\ UsedFor(rows, k) < MealSize

\* One day, or an entry for each of the first days of a period, after it for all of them;
\* as long as they fit, the whole of them.
DaysShown ==
    /\ stage \in {"show", "days", "day", "overrun"} \/ MealIsFound => doc.shape = "rows"
    /\ stage = "show" => call = "meal"
    /\ stage \in {"days", "day"} => call = "period"
    /\ stage = "overrun" => call \in {"meal", "period"}
    /\ stage = "show" \/ ((MealIsFound \/ stage = "overrun") /\ call = "meal") => doc.rows # <<>>
    /\ MealIsFound /\ call = "meal" /\ MealFits(Line(doc.rows[1])) =>
         shown = LinesOf(doc.rows, 1)
    /\ MealIsFound /\ call = "period" => Len(shown) = Len(doc.rows)
    /\ stage = "days" => Len(shown) <= Len(doc.rows)
    /\ stage = "day" => Len(shown) < Len(doc.rows)
    /\ stage \in {"days", "day"} \/ (MealIsFound /\ call = "period") =>
         (AllFit(doc.rows, Len(shown)) => shown = LinesOf(doc.rows, Len(shown)))
    /\ stage \in {"days", "day"} =>
         (AllFit(doc.rows, Len(shown)) => used = UsedFor(doc.rows, Len(shown)))

\* A buffer is overrun only by what does not fit into it.
OverrunsAreDue ==
    stage = "overrun" =>
        \/ call = "meal" /\ ~MealFits(Line(doc.rows[1]))
        \/ call = "period" /\ ~AllFit(doc.rows, Len(doc.rows))

MealsInv == MealsTypeOK /\ NothingShownYet /\ DaysShown /\ OverrunsAreDue

LEMMA AllocatedAtEach ==
  /\ \A place \in {"idle", "check", "init", "returned"} : AllocatedAt(place) = {}
  /\ AllocatedAt("perform") = {"curl", "chunk"}
  /\ AllocatedAt("parse") = {"chunk"}
  /\ AllocatedAt("look") = {"json"} /\ AllocatedAt("days") = {"json"}
  /\ AllocatedAt("show") = {"json", "copy", "result"}
  /\ AllocatedAt("day") = {"json", "copy"}
BY DEF AllocatedAt

LEMMA AllocatedInit == NeisInit => AllocatedHere
BY AllocatedAtEach DEF NeisInit, AllocatedHere

LEMMA AllocatedStep == AllocatedHere /\ [NeisNext]_neisVars => AllocatedHere'
<1> SUFFICES ASSUME AllocatedHere, [NeisNext]_neisVars
             PROVE  AllocatedHere'
  OBVIOUS
<1>1. /\ held \in [Resources -> Int]
      /\ \A r \in Resources : held[r] \in 0 .. 1
      /\ stage \notin {"overrun", "ended"} =>
           \A r \in Resources : held[r] = IF r \in AllocatedAt(stage) THEN 1 ELSE 0
  BY DEF AllocatedHere
<1>2. ASSUME held' = held, stage' \in {"overrun", "ended"} \/
                (stage \notin {"overrun", "ended"} /\ AllocatedAt(stage') = AllocatedAt(stage))
      PROVE  AllocatedHere'
  BY <1>1, <1>2 DEF AllocatedHere
<1>3. CASE Ask \/ Resolved \/ Answer \/ CheckDays
  <2>1. stage \in {"idle", "check", "init", "returned"}
    BY <1>3 DEF Ask, Resolved, Answer, CheckDays
  <2>2. stage' \in {"idle", "check", "init", "returned"} /\ held' = held
    BY <1>3 DEF Ask, Resolved, Answer, CheckDays, Return
  <2> QED
    BY <1>2, <2>1, <2>2, AllocatedAtEach
<1>4. CASE InitCurl
  <2>1. CASE Return(FALSE) /\ held' = held
    BY <1>2, <1>4, <2>1, AllocatedAtEach DEF InitCurl, Return
  <2>2. CASE stage' = "perform" /\ held' = [held EXCEPT !["curl"] = @ + 1, !["chunk"] = @ + 1]
    BY <1>1, <1>4, <2>2, AllocatedAtEach DEF InitCurl, AllocatedHere, Resources
  <2> QED
    BY <1>4, <2>1, <2>2 DEF InitCurl
<1>5. CASE Perform
  <2>1. CASE Return(FALSE) /\ held' = [held EXCEPT !["curl"] = @ - 1, !["chunk"] = @ - 1]
    BY <1>1, <1>5, <2>1, AllocatedAtEach DEF Perform, Return, AllocatedHere, Resources
  <2>2. CASE Free("curl") /\ stage' = "parse"
    BY <1>1, <1>5, <2>2, AllocatedAtEach DEF Perform, Free, AllocatedHere, Resources
  <2> QED
    BY <1>5, <2>1, <2>2 DEF Perform
<1>6. CASE Parse
  <2> stage = "parse"
    BY <1>6 DEF Parse
  <2>1. CASE Return(FALSE) /\ Free("chunk")
    BY <1>1, <2>1, AllocatedAtEach DEF Return, Free, AllocatedHere, Resources
  <2>2. CASE stage' = "look" /\ held' = [held EXCEPT !["chunk"] = @ - 1, !["json"] = @ + 1]
    BY <1>1, <2>2, AllocatedAtEach DEF AllocatedHere, Resources
  <2> QED
    BY <1>6, <2>1, <2>2 DEF Parse
<1>7. ASSUME stage \in {"look", "days"}, stage' = "returned", Free("json")
      PROVE  AllocatedHere'
  BY <1>1, <1>7, AllocatedAtEach DEF Free, AllocatedHere, Resources
<1>8. CASE Refuse \/ FindSchool \/ EndPeriod
  BY <1>7, <1>8 DEF Refuse, FindSchool, EndPeriod, Return
<1>9. CASE FindMeal
  <2>1. CASE Return(FALSE) /\ Free("json")
    BY <1>7, <1>9, <2>1 DEF FindMeal, Return
  <2>2. CASE stage' = "show" /\ held' = [held EXCEPT !["copy"] = @ + 1, !["result"] = @ + 1]
    BY <1>1, <1>9, <2>2, AllocatedAtEach DEF FindMeal, AllocatedHere, Resources
  <2> QED
    BY <1>9, <2>1, <2>2 DEF FindMeal
<1>10. CASE ShowMeal
  BY <1>1, <1>10, AllocatedAtEach DEF ShowMeal, Return, AllocatedHere, Resources
<1>11. CASE StartPeriod
  BY <1>2, <1>11, AllocatedAtEach DEF StartPeriod
<1>12. CASE CopyDay
  BY <1>1, <1>12, AllocatedAtEach DEF CopyDay, Get, AllocatedHere, Resources
<1>13. CASE ShowDay
  BY <1>1, <1>13, AllocatedAtEach DEF ShowDay, Free, AllocatedHere, Resources
<1>14. CASE TripOver \/ Overrun
  BY <1>2, <1>14 DEF TripOver, Overrun
<1>15. CASE UNCHANGED neisVars
  BY <1>1, <1>15 DEF neisVars, AllocatedHere
<1> QED
  BY <1>3, <1>4, <1>5, <1>6, <1>8, <1>9, <1>10, <1>11, <1>12, <1>13, <1>14, <1>15
     DEF NeisNext

(* On every way through a call of NEIS each of the curl handle, the received text, the
   parsed document and the working copies is freed once and not again
   (src/server/neis_api.c:63-113, 157-168, 187-188, 200-297, 324-437). *)
THEOREM CallsFreeWhatTheyAllocate == NeisSpec => []EverythingIsFreedOnce
<1>1. AllocatedHere => EverythingIsFreedOnce
  <2> SUFFICES ASSUME AllocatedHere
               PROVE  EverythingIsFreedOnce
    OBVIOUS
  <2>1. \A r \in Resources : held[r] \in 0 .. 1
    BY DEF AllocatedHere
  <2>2. ASSUME stage \in {"idle", "returned"}, NEW r \in Resources
        PROVE  held[r] = 0
    BY <2>2, AllocatedAtEach DEF AllocatedHere
  <2> QED
    BY <2>1, <2>2 DEF EverythingIsFreedOnce
<1> QED
  BY <1>1, AllocatedInit, AllocatedStep, PTL DEF NeisSpec

-----------------------------------------------------------------------------
\* The days that are shown.

LEMMA DocumentTypes ==
  ASSUME NEW d \in Documents
  PROVE  /\ d.rows \in Seq(Seq(Seq(Characters)))
         /\ Len(d.rows) \in Nat
<1>1. ASSUME NEW menu \in DayMenus
      PROVE  menu \in Seq(Seq(Characters))
  <2>1. PICK n \in 0 .. MaxDishes : menu \in [1 .. n -> Dishes]
    BY <1>1 DEF DayMenus
  <2>2. menu \in [1 .. n -> Seq(Characters)] /\ n \in Nat
    BY <2>1, MealsAssumption DEF Characters
  <2> QED
    BY <2>2
<1>2. CASE d \in [shape : Shapes \ {"rows"}, rows : {<<>>}]
  <2>1. d.rows = <<>>
    BY <1>2
  <2>2. <<>> \in Seq(Seq(Seq(Characters))) /\ Len(<<>>) = 0
    OBVIOUS
  <2> QED
    BY <2>1, <2>2
<1>3. CASE d \in [shape : {"rows"}, rows : UNION {[1 .. n -> DayMenus] : n \in 0 .. MaxRows}]
  <2>1. PICK n \in 0 .. MaxRows : d.rows \in [1 .. n -> DayMenus]
    BY <1>3
  <2>2. n \in Nat
    BY <2>1, MealsAssumption
  <2>3. d.rows \in [1 .. n -> Seq(Seq(Characters))]
    BY <1>1, <2>1
  <2> QED
    BY <2>2, <2>3
<1> QED
  BY <1>2, <1>3 DEF Documents

LEMMA FirstDays ==
  ASSUME NEW rows, NEW n \in Nat
  PROVE  /\ Len(LinesOf(rows, n)) = n
         /\ LinesOf(rows, n + 1) = Append(LinesOf(rows, n), Line(rows[n + 1]))
<1> DEFINE S == {Line(rows[k]) : k \in 1 .. n + 1}
<1>1. PICK longer \in Seq(S) : longer = LinesOf(rows, n + 1) /\ Len(longer) = n + 1
  <2>1. LinesOf(rows, n + 1) \in [1 .. n + 1 -> S] /\ n + 1 \in Nat
    BY DEF LinesOf
  <2> HIDE DEF S
  <2> QED
    BY <2>1
<1>2. PICK lines \in Seq(S) : lines = LinesOf(rows, n) /\ Len(lines) = n
  <2>1. \A k \in 1 .. n : k \in 1 .. n + 1
    OBVIOUS
  <2>2. LinesOf(rows, n) \in [1 .. n -> S]
    BY <2>1 DEF LinesOf
  <2> HIDE DEF S
  <2> QED
    BY <2>2
<1>3. \A k \in 1 .. n : longer[k] = lines[k]
  <2>1. \A k \in 1 .. n : k \in 1 .. n + 1
    OBVIOUS
  <2> QED
    BY <1>1, <1>2, <2>1 DEF LinesOf
<1>4. PICK e \in S : e = Line(rows[n + 1]) /\ e = longer[n + 1]
  <2>1. n + 1 \in 1 .. n + 1
    OBVIOUS
  <2> QED
    BY <1>1, <2>1 DEF LinesOf
<1> HIDE DEF S
<1>5. longer = Append(lines, e)
  BY <1>1, <1>2, <1>3, <1>4
<1> QED
  BY <1>1, <1>2, <1>4, <1>5

LEMMA NoDays ==
  ASSUME NEW rows
  PROVE  LinesOf(rows, 0) = <<>>
BY DEF LinesOf

-----------------------------------------------------------------------------
\* Sizes.

SumsOf(f, t) ==
    /\ f[0] = 0
    /\ \A k \in 1 .. Len(t) : f[k] = f[k - 1] + t[k]
    /\ Total(t) = f[Len(t)]

LEMMA TotalSteps ==
  ASSUME NEW t \in Seq(Int)
  PROVE  \E f \in [0 .. Len(t) -> Int] : SumsOf(f, t)
<1> DEFINE step == [x \in Int \X Int |-> x[1] + x[2]]
           Goes(f) == f = [k \in 0 .. Len(t) |-> IF k = 0 THEN 0 ELSE f[k - 1] + t[k]]
<1>1. /\ Len(t) \in Nat
      /\ \A k \in 1 .. Len(t) : t[k] \in Int /\ k - 1 \in 0 .. Len(t)
  OBVIOUS
<1>2. step \in [Int \X Int -> Int]
  OBVIOUS
<1>3. \A u \in Int, v \in Int : step[<<u, v>>] = u + v
  OBVIOUS
<1> HIDE DEF step
<1>4. PICK f \in [0 .. Len(t) -> Int] : Scans(f, step, 0, t)
  <2>1. 0 \in Int
    OBVIOUS
  <2> QED
    BY <1>2, <2>1, ScanExists
<1>5. ASSUME NEW k \in 1 .. Len(t)
      PROVE  f[k] = f[k - 1] + t[k]
  <2>1. f[k] = step[<<f[k - 1], t[k]>>]
    BY <1>4 DEF Scans
  <2> QED
    BY <1>1, <1>3, <2>1
<1>6. f[0] = 0
  BY <1>4 DEF Scans
<1>7. Goes(f)
  <2>1. ASSUME NEW k \in 0 .. Len(t)
        PROVE  f[k] = IF k = 0 THEN 0 ELSE f[k - 1] + t[k]
    <3>1. k # 0 => k \in 1 .. Len(t)
      BY <1>1
    <3> QED
      BY <1>5, <1>6, <3>1
  <2> QED
    BY <2>1
<1>8. PICK g : Goes(g) /\ Total(t) = g[Len(t)]
  <2>1. Total(t) = (CHOOSE g : Goes(g))[Len(t)]
    BY DEF Total
  <2> HIDE DEF Goes
  <2>2. Goes(CHOOSE g : Goes(g))
    BY <1>7
  <2> QED
    BY <2>1, <2>2
<1>9. g[0] = 0
  <2>1. 0 \in 0 .. Len(t)
    BY <1>1
  <2> QED
    BY <1>8, <2>1
<1>10. ASSUME NEW k \in 1 .. Len(t), f[k - 1] = g[k - 1]
       PROVE  f[k] = g[k]
  <2>1. k \in 0 .. Len(t) /\ k # 0
    BY <1>1
  <2>2. g[k] = g[k - 1] + t[k]
    BY <1>8, <2>1
  <2> HIDE DEF Goes
  <2> QED
    BY <1>5, <1>10, <2>2
<1> HIDE DEF Goes
<1>11. f[Len(t)] = g[Len(t)]
  <2>1. f[0] = g[0]
    BY <1>6, <1>9
  <2>2. GoAlike(f, g, Len(t))
    BY <1>10 DEF GoAlike
  <2>3. Alike(f, g, Len(t))
    BY <1>1, <2>1, <2>2, SameSteps
  <2> QED
    BY <1>1, <2>3 DEF Alike
<1> QED
  BY <1>5, <1>6, <1>8, <1>11 DEF SumsOf

LEMMA TotalTypes ==
  ASSUME NEW t \in Seq(Int)
  PROVE  Total(t) \in Int
<1>1. PICK f \in [0 .. Len(t) -> Int] : SumsOf(f, t)
  BY TotalSteps
<1>2. Len(t) \in 0 .. Len(t)
  OBVIOUS
<1> QED
  BY <1>1, <1>2 DEF SumsOf

LEMMA TotalEmpty == Total(<<>>) = 0
<1>1. <<>> \in Seq(Int) /\ Len(<<>>) = 0
  OBVIOUS
<1>2. PICK f \in [0 .. Len(<<>>) -> Int] : SumsOf(f, <<>>)
  BY <1>1, TotalSteps
<1> QED
  BY <1>1, <1>2 DEF SumsOf

\* One number more adds it to the total.
LEMMA TotalNext ==
  ASSUME NEW n \in Nat, NEW s \in Seq(Int), NEW t \in Seq(Int),
         Len(s) = n, Len(t) = n + 1, \A k \in 1 .. n : t[k] = s[k]
  PROVE  Total(t) = Total(s) + t[n + 1]
<1>1. PICK f \in [0 .. n -> Int] : SumsOf(f, s)
  BY TotalSteps
<1>2. PICK g \in [0 .. n + 1 -> Int] : SumsOf(g, t)
  BY TotalSteps
<1>3. f[n] = g[n]
  <2>1. f[0] = g[0]
    BY <1>1, <1>2 DEF SumsOf
  <2>2. ASSUME NEW k \in 1 .. n
        PROVE  f[k] = f[k - 1] + s[k] /\ g[k] = g[k - 1] + s[k]
    <3>1. k \in 1 .. Len(s) /\ k \in 1 .. Len(t) /\ t[k] = s[k]
      OBVIOUS
    <3> QED
      BY <1>1, <1>2, <3>1 DEF SumsOf
  <2>3. GoAlike(f, g, n)
    BY <2>2 DEF GoAlike
  <2>4. Alike(f, g, n)
    BY <2>1, <2>3, SameSteps
  <2> QED
    BY <2>4 DEF Alike
<1>4. g[n + 1] = g[n] + t[n + 1]
  <2>1. n + 1 \in 1 .. Len(t) /\ (n + 1) - 1 = n
    OBVIOUS
  <2> QED
    BY <1>2, <2>1 DEF SumsOf
<1>5. Total(s) = f[n] /\ Total(t) = g[n + 1]
  BY <1>1, <1>2 DEF SumsOf
<1> QED
  BY <1>3, <1>4, <1>5

LEMMA DayBytesTypes ==
  ASSUME NEW lines \in Seq(Seq(Characters))
  PROVE  DayBytes(lines) \in Int
<1>1. ASSUME NEW text \in Seq(Characters)
      PROVE  TextBytes(text) \in Int
  <2>1. \A k \in 1 .. Len(text) : Bytes[text[k]] \in Int
    BY MealsAssumption DEF Characters
  <2>2. [k \in 1 .. Len(text) |-> Bytes[text[k]]] \in Seq(Int)
    BY <2>1
  <2> QED
    BY <2>2, TotalTypes DEF TextBytes
<1>2. \A k \in 1 .. Len(lines) : 5 + TextBytes(lines[k]) \in Int
  BY <1>1
<1>3. [k \in 1 .. Len(lines) |-> 5 + TextBytes(lines[k])] \in Seq(Int)
  BY <1>2
<1>4. LinesBytes(lines) \in Int
  BY <1>3, TotalTypes DEF LinesBytes
<1> QED
  BY <1>4 DEF DayBytes

\* The lines of a day are made of what NEIS has sent.
LEMMA LineTypes ==
  ASSUME NEW row \in Seq(Seq(Characters))
  PROVE  Line(row) \in Seq(Seq(Characters))
<1>1. Break \in Seq(Characters)
  <2>1. Only(Characters, Range(Break)) \subseteq Characters
    BY DEF Only
  <2> QED
    BY <2>1, BreakTypes
<1>2. MenuOf(row) \in Seq(Characters)
  <2>1. CASE row = <<>>
    BY <2>1 DEF MenuOf
  <2>2. CASE row # <<>>
    <3>1. Head(row) \in Seq(Characters) /\ Tail(row) \in Seq(Seq(Characters))
      BY <2>2
    <3> QED
      BY <1>1, <2>2, <3>1, JoinedTypes DEF MenuOf
  <2> QED
    BY <2>1, <2>2
<1>3. strtok(MenuOf(row), Range(Break)) \in Seq(Seq(Characters))
  <2>1. Scanned(MenuOf(row), Range(Break)) \in Scanning(Characters)
    BY <1>2, ScannedTypes
  <2> QED
    BY <2>1 DEF Scanning, strtok
<1>4. PICK items \in Seq(Seq(Characters)) : items = strtok(MenuOf(row), Range(Break))
  BY <1>3
<1>5. Filled(Cut(items)) \in Seq(Seq(Characters))
  BY CutTypes, FilledTypes
<1> QED
  BY <1>4, <1>5 DEF Line, ShownLines, Cut

LEMMA CutsTypes ==
  ASSUME NEW lines \in Seq(Seq(Characters)), NEW kept \in Cuts(lines)
  PROVE  kept \in Seq(Seq(Characters))
<1>1. PICK n \in 0 .. Len(lines) : kept = SubSeq(lines, 1, n)
  BY DEF Cuts
<1>2. \A k \in 1 .. n : k \in 1 .. Len(lines)
  OBVIOUS
<1> QED
  BY <1>1, <1>2

\* What a day adds to those before it.
LEMMA UsedForNext ==
  ASSUME NEW rows \in Seq(Seq(Seq(Characters))), NEW n \in Nat, n < Len(rows)
  PROVE  /\ UsedFor(rows, n) \in Int
         /\ DayBytes(Line(rows[n + 1])) \in Int
         /\ UsedFor(rows, n + 1) = UsedFor(rows, n) + DayBytes(Line(rows[n + 1])) + 1
<1> DEFINE s == [k \in 1 .. n |-> DayBytes(Line(rows[k])) + 1]
           t == [k \in 1 .. n + 1 |-> DayBytes(Line(rows[k])) + 1]
<1>1. ASSUME NEW k \in 1 .. n + 1
      PROVE  DayBytes(Line(rows[k])) \in Int
  <2>1. rows[k] \in Seq(Seq(Characters))
    OBVIOUS
  <2> QED
    BY <2>1, LineTypes, DayBytesTypes
<1>2. s \in Seq(Int) /\ Len(s) = n /\ t \in Seq(Int) /\ Len(t) = n + 1
  BY <1>1
<1>3. /\ \A k \in 1 .. n : t[k] = s[k]
      /\ t[n + 1] = DayBytes(Line(rows[n + 1])) + 1
  OBVIOUS
<1>4. UsedFor(rows, n) = 31 + Total(s) /\ UsedFor(rows, n + 1) = 31 + Total(t)
  BY DEF UsedFor, PeriodTitle
<1> HIDE DEF s, t
<1>5. Total(t) = Total(s) + t[n + 1] /\ Total(s) \in Int
  BY <1>2, <1>3, TotalNext, TotalTypes
<1>6. DayBytes(Line(rows[n + 1])) \in Int
  BY <1>1
<1>7. PICK sum \in Int, day \in Int : sum = Total(s) /\ day = DayBytes(Line(rows[n + 1]))
  BY <1>5, <1>6
<1>8. UsedFor(rows, n) = 31 + sum /\ UsedFor(rows, n + 1) = 31 + (sum + (day + 1))
  BY <1>3, <1>4, <1>5, <1>7
<1>9. 31 + sum \in Int /\ 31 + (sum + (day + 1)) = (31 + sum) + day + 1
  OBVIOUS
<1> QED
  BY <1>7, <1>8, <1>9

LEMMA UsedForNone ==
  ASSUME NEW rows
  PROVE  UsedFor(rows, 0) = PeriodTitle
<1>1. [k \in 1 .. 0 |-> DayBytes(Line(rows[k])) + 1] = <<>>
  OBVIOUS
<1> QED
  BY <1>1, TotalEmpty DEF UsedFor, PeriodTitle

LEMMA FewerFit ==
  ASSUME NEW rows, NEW n \in Nat, NEW m \in Nat, m <= n, AllFit(rows, n)
  PROVE  AllFit(rows, m)
BY DEF AllFit

LEMMA MealsInit == NeisInit => MealsInv
<1> SUFFICES ASSUME NeisInit
             PROVE  MealsInv
  OBVIOUS
<1>1. NoDocument \in Documents
  BY DEF NoDocument, Documents, Shapes
<1>2. stage = "idle" /\ call = "none" /\ query = "none" /\ doc \in Documents /\ found = FALSE
      /\ shown = <<>> /\ used = 0
  BY <1>1 DEF NeisInit
<1>3. MealsTypeOK
  <2>1. <<>> \in Seq(Seq(Seq(Characters))) /\ 0 \in Int
    OBVIOUS
  <2> QED
    BY <1>2, <2>1 DEF MealsTypeOK, Places
<1>4. NothingShownYet /\ DaysShown /\ OverrunsAreDue
  BY <1>2 DEF NothingShownYet, DaysShown, MealIsFound, OverrunsAreDue
<1> QED
  BY <1>3, <1>4 DEF MealsInv

\* Where nothing is shown and nothing is found, there is nothing to say of the days.
LEMMA NothingToShow ==
  ASSUME MealsTypeOK', NothingShownYet',
         stage' \in {"idle", "check", "init", "perform", "parse", "look", "ended"}
           \/ (stage' = "returned" /\ (found' = FALSE \/ call' \in {"none", "school"}))
  PROVE  MealsInv'
BY DEF MealsTypeOK, DaysShown, MealIsFound, OverrunsAreDue, MealsInv

LEMMA MealsStep == MealsInv /\ [NeisNext]_neisVars => MealsInv'
<1> SUFFICES ASSUME MealsInv, [NeisNext]_neisVars
             PROVE  MealsInv'
  OBVIOUS
<1>1. MealsTypeOK /\ NothingShownYet /\ DaysShown /\ OverrunsAreDue
  BY DEF MealsInv
<1>2. doc.rows \in Seq(Seq(Seq(Characters))) /\ Len(doc.rows) \in Nat
  BY <1>1, DocumentTypes DEF MealsTypeOK
<1>3. NoDocument \in Documents
  BY DEF NoDocument, Documents, Shapes
<1>4. CASE Ask
  BY <1>1, <1>4, NothingToShow DEF Ask, MealsTypeOK, Places, NothingShownYet
<1>5. CASE Resolved
  BY <1>1, <1>3, <1>5, NothingToShow DEF Resolved, MealsTypeOK, Places, NothingShownYet
<1>6. CASE Answer
  BY <1>1, <1>3, <1>6, NothingToShow DEF Answer, MealsTypeOK, Places, NothingShownYet
<1>7. CASE CheckDays
  BY <1>1, <1>7, NothingToShow DEF CheckDays, Return, MealsTypeOK, Places, NothingShownYet
<1>8. CASE InitCurl
  BY <1>1, <1>8, NothingToShow DEF InitCurl, Return, MealsTypeOK, Places, NothingShownYet
<1>9. CASE Perform
  <2>1. stage = "perform" /\ UNCHANGED <<call, query, shown, used>>
    BY <1>9 DEF Perform
  <2>2. doc' \in Documents /\ \/ stage' = "returned" /\ found' = FALSE
                              \/ stage' = "parse" /\ found' = found
    BY <1>1, <1>9 DEF Perform, Return, MealsTypeOK
  <2> QED
    BY <1>1, <2>1, <2>2, NothingToShow DEF MealsTypeOK, Places, NothingShownYet
<1>10. CASE Parse
  <2>1. stage = "parse" /\ UNCHANGED <<call, query, doc, shown, used>>
    BY <1>10 DEF Parse
  <2>2. \/ stage' = "returned" /\ found' = FALSE
        \/ stage' = "look" /\ found' = found
    BY <1>10 DEF Parse, Return
  <2> QED
    BY <1>1, <2>1, <2>2, NothingToShow DEF MealsTypeOK, Places, NothingShownYet
<1>11. CASE TripOver
  BY <1>1, <1>11, NothingToShow DEF TripOver, MealsTypeOK, Places, NothingShownYet
<1>12. CASE Refuse
  BY <1>1, <1>12, NothingToShow DEF Refuse, Return, MealsTypeOK, Places, NothingShownYet
<1>13. CASE FindSchool
  BY <1>1, <1>13, NothingToShow DEF FindSchool, Return, MealsTypeOK, Places, NothingShownYet
<1>14. CASE FindMeal
  BY <1>1, <1>14 DEF FindMeal, Return, MealsTypeOK, Places, NothingShownYet, DaysShown,
                     MealIsFound, OverrunsAreDue, MealsInv
<1>15. CASE ShowMeal
  <2>1. stage = "show" /\ stage' = "returned" /\ found' = TRUE
        /\ UNCHANGED <<call, query, doc, used>>
    BY <1>15 DEF ShowMeal, Return
  <2>2. call = "meal" /\ doc.shape = "rows" /\ doc.rows # <<>>
    BY <1>1, <2>1 DEF DaysShown
  <2>3. PICK row \in Seq(Seq(Characters)) : row = doc.rows[1]
    BY <1>2, <2>2
  <2>4. PICK kept \in IF MealFits(Line(row)) THEN {Line(row)} ELSE Cuts(Line(row)) :
            shown' = <<kept>>
    BY <1>15, <2>3 DEF ShowMeal, Line
  <2>5. kept \in Seq(Seq(Characters))
    BY <2>4, LineTypes, CutsTypes
  <2>6. shown' \in Seq(Seq(Seq(Characters)))
    BY <2>4, <2>5
  <2>7. MealFits(Line(row)) => shown' = LinesOf(doc.rows, 1)
    BY <2>3, <2>4 DEF LinesOf
  <2>8. MealsTypeOK' /\ NothingShownYet' /\ OverrunsAreDue'
    BY <1>1, <2>1, <2>2, <2>6 DEF MealsTypeOK, Places, NothingShownYet, OverrunsAreDue
  <2>9. DaysShown'
    BY <2>1, <2>2, <2>3, <2>7 DEF DaysShown, MealIsFound
  <2> QED
    BY <2>8, <2>9 DEF MealsInv
<1>16. CASE StartPeriod
  <2>1. /\ stage = "look" /\ call = "period" /\ doc.shape = "rows" /\ stage' = "days"
        /\ used' = PeriodTitle /\ UNCHANGED <<call, query, doc, shown, found>>
    BY <1>16 DEF StartPeriod
  <2>2. shown = <<>> /\ Len(shown) = 0
    BY <1>1, <2>1 DEF NothingShownYet
  <2>3. shown = LinesOf(doc.rows, 0) /\ PeriodTitle = UsedFor(doc.rows, 0)
    BY <2>2, NoDays, UsedForNone
  <2>4. MealsTypeOK' /\ NothingShownYet' /\ OverrunsAreDue'
    BY <1>1, <2>1 DEF MealsTypeOK, Places, NothingShownYet, OverrunsAreDue, PeriodTitle
  <2>5. DaysShown'
    BY <1>2, <2>1, <2>2, <2>3 DEF DaysShown, MealIsFound
  <2> QED
    BY <2>4, <2>5 DEF MealsInv
<1>17. CASE CopyDay
  <2>1. /\ stage = "days" /\ stage' = "day" /\ Len(shown) < Len(doc.rows)
        /\ UNCHANGED <<call, query, doc, shown, used, found>>
    BY <1>17 DEF CopyDay
  <2>2. MealsTypeOK' /\ NothingShownYet' /\ OverrunsAreDue'
    BY <1>1, <2>1 DEF MealsTypeOK, Places, NothingShownYet, OverrunsAreDue
  <2>3. DaysShown'
    BY <1>1, <2>1 DEF DaysShown, MealIsFound
  <2> QED
    BY <2>2, <2>3 DEF MealsInv
<1>18. ASSUME stage = "day"
       PROVE  \E n \in Nat, line \in Seq(Seq(Characters)) :
                 /\ n = Len(shown) /\ n < Len(doc.rows)
                 /\ line = Line(doc.rows[n + 1]) /\ DayBytes(line) \in Int
                 /\ AllFit(doc.rows, n + 1) =>
                      /\ AllFit(doc.rows, n)
                      /\ shown = LinesOf(doc.rows, n)
                      /\ used + DayBytes(line) + 1 = UsedFor(doc.rows, n + 1)
                      /\ DayBytes(line) < EntrySize
                      /\ used + DayBytes(line) + 1 < MealSize
  <2>1. PICK n \in Nat : n = Len(shown)
    BY <1>1 DEF MealsTypeOK
  <2>2. n < Len(doc.rows)
    BY <1>1, <1>18, <2>1 DEF DaysShown
  <2>3. doc.rows[n + 1] \in Seq(Seq(Characters))
    BY <1>2, <2>2
  <2>4. PICK line \in Seq(Seq(Characters)) : line = Line(doc.rows[n + 1])
    BY <2>3, LineTypes
  <2>5. /\ DayBytes(line) \in Int
        /\ UsedFor(doc.rows, n + 1) = UsedFor(doc.rows, n) + DayBytes(line) + 1
    BY <1>2, <2>2, <2>4, UsedForNext
  <2>6. ASSUME AllFit(doc.rows, n + 1)
        PROVE  /\ AllFit(doc.rows, n)
               /\ shown = LinesOf(doc.rows, n)
               /\ used + DayBytes(line) + 1 = UsedFor(doc.rows, n + 1)
               /\ DayBytes(line) < EntrySize
               /\ used + DayBytes(line) + 1 < MealSize
    <3>1. AllFit(doc.rows, n)
      BY <2>6, FewerFit
    <3>2. shown = LinesOf(doc.rows, n) /\ used = UsedFor(doc.rows, n)
      BY <1>1, <1>18, <2>1, <3>1 DEF DaysShown
    <3>3. DayBytes(line) < EntrySize /\ UsedFor(doc.rows, n + 1) < MealSize
      <4>1. n + 1 \in 1 .. n + 1
        OBVIOUS
      <4> QED
        BY <2>4, <2>6, <4>1 DEF AllFit
    <3> QED
      BY <2>5, <3>1, <3>2, <3>3
  <2> QED
    BY <2>1, <2>2, <2>4, <2>5, <2>6
<1>19. CASE ShowDay
  <2>1. stage = "day" /\ stage' = "days" /\ UNCHANGED <<call, query, doc, found>>
    BY <1>19 DEF ShowDay
  <2>2. PICK n \in Nat, line \in Seq(Seq(Characters)) :
                 /\ n = Len(shown) /\ n < Len(doc.rows)
                 /\ line = Line(doc.rows[n + 1]) /\ DayBytes(line) \in Int
                 /\ AllFit(doc.rows, n + 1) =>
                      /\ AllFit(doc.rows, n)
                      /\ shown = LinesOf(doc.rows, n)
                      /\ used + DayBytes(line) + 1 = UsedFor(doc.rows, n + 1)
                      /\ DayBytes(line) < EntrySize
                      /\ used + DayBytes(line) + 1 < MealSize
    BY <1>18, <2>1
  <2>3. PICK fits \in BOOLEAN : fits <=> used + DayBytes(line) + 1 < MealSize
    <3>1. (used + DayBytes(line) + 1 < MealSize) \in BOOLEAN
      OBVIOUS
    <3> QED
      BY <3>1
  <2>4. /\ \E kept \in IF fits THEN {line} ELSE Cuts(line) : shown' = Append(shown, kept)
        /\ used' = IF fits THEN used + DayBytes(line) + 1 ELSE MealSize
    BY <1>19, <2>2, <2>3 DEF ShowDay, Line
  <2>5. PICK kept \in Seq(Seq(Characters)) :
            shown' = Append(shown, kept) /\ (fits => kept = line)
    BY <2>4, CutsTypes
  <2>6. shown \in Seq(Seq(Seq(Characters))) /\ used \in Int
    BY <1>1 DEF MealsTypeOK
  <2>7. shown' \in Seq(Seq(Seq(Characters))) /\ Len(shown') = n + 1
    BY <2>2, <2>5, <2>6
  <2>8. used' \in Int
    BY <2>2, <2>4, <2>6, MealsAssumption
  <2>9. AllFit(doc.rows, n + 1) =>
            shown' = LinesOf(doc.rows, n + 1) /\ used' = UsedFor(doc.rows, n + 1)
    <3>1. LinesOf(doc.rows, n + 1) = Append(LinesOf(doc.rows, n), Line(doc.rows[n + 1]))
      BY FirstDays
    <3> QED
      BY <2>2, <2>3, <2>4, <2>5, <3>1
  <2>10. call = "period" /\ doc.shape = "rows"
    BY <1>1, <2>1 DEF DaysShown
  <2>11. MealsTypeOK' /\ NothingShownYet' /\ OverrunsAreDue'
    BY <1>1, <2>1, <2>7, <2>8, <2>10 DEF MealsTypeOK, Places, NothingShownYet, OverrunsAreDue
  <2>12. DaysShown'
    BY <1>2, <2>1, <2>2, <2>7, <2>9, <2>10 DEF DaysShown, MealIsFound
  <2> QED
    BY <2>11, <2>12 DEF MealsInv
<1>20. CASE Overrun
  <2>1. stage' = "overrun" /\ UNCHANGED <<call, query, doc, shown, used, found>>
    BY <1>20 DEF Overrun
  <2>2. stage \in {"show", "day"}
    BY <1>20 DEF Overrun
  <2>3. /\ doc.shape = "rows" /\ call \in {"meal", "period"}
        /\ call = "meal" => doc.rows # <<>>
    BY <1>1, <2>2 DEF DaysShown
  <2>4. OverrunsAreDue'
    <3>1. CASE stage = "show"
      <4>1. call = "meal" /\ ~MealFits(Line(doc.rows[1]))
        BY <1>1, <1>20, <3>1 DEF Overrun, DaysShown, Line
      <4> QED
        BY <2>1, <4>1 DEF OverrunsAreDue
    <3>2. CASE stage = "day"
      <4>1. PICK n \in Nat, line \in Seq(Seq(Characters)) :
                 /\ n = Len(shown) /\ n < Len(doc.rows)
                 /\ line = Line(doc.rows[n + 1]) /\ DayBytes(line) \in Int
                 /\ AllFit(doc.rows, n + 1) =>
                      /\ DayBytes(line) < EntrySize
                      /\ used + DayBytes(line) + 1 < MealSize
        BY <1>18, <3>2
      <4>2. DayBytes(line) >= EntrySize \/ used + DayBytes(line) + 1 >= MealSize
        BY <1>20, <3>2, <4>1 DEF Overrun, Line
      <4>3. ~AllFit(doc.rows, n + 1)
        BY <1>1, <4>1, <4>2, MealsAssumption DEF MealsTypeOK
      <4>4. ~AllFit(doc.rows, Len(doc.rows))
        <5>1. n + 1 \in Nat /\ n + 1 <= Len(doc.rows)
          BY <1>2, <4>1
        <5> QED
          BY <1>2, <4>3, <5>1, FewerFit
      <4>5. call = "period"
        BY <1>1, <3>2 DEF DaysShown
      <4> QED
        BY <2>1, <4>4, <4>5 DEF OverrunsAreDue
    <3> QED
      BY <2>2, <3>1, <3>2
  <2>5. MealsTypeOK' /\ NothingShownYet'
    BY <1>1, <2>1, <2>3 DEF MealsTypeOK, Places, NothingShownYet
  <2>6. DaysShown'
    BY <2>1, <2>3 DEF DaysShown, MealIsFound
  <2> QED
    BY <2>4, <2>5, <2>6 DEF MealsInv
<1>21. CASE EndPeriod
  <2>1. /\ stage = "days" /\ Len(shown) = Len(doc.rows) /\ stage' = "returned" /\ found' = TRUE
        /\ used' = 0 /\ UNCHANGED <<call, query, doc, shown>>
    BY <1>21 DEF EndPeriod, Return
  <2>2. MealsTypeOK' /\ NothingShownYet' /\ OverrunsAreDue'
    BY <1>1, <2>1 DEF MealsTypeOK, Places, NothingShownYet, DaysShown, OverrunsAreDue
  <2>3. DaysShown'
    BY <1>1, <2>1 DEF DaysShown, MealIsFound
  <2> QED
    BY <2>2, <2>3 DEF MealsInv
<1>22. CASE UNCHANGED neisVars
  BY <1>1, <1>22 DEF neisVars, MealsTypeOK, NothingShownYet, DaysShown, MealIsFound,
                     OverrunsAreDue, MealsInv
<1> QED
  BY <1>4, <1>5, <1>6, <1>7, <1>8, <1>9, <1>10, <1>11, <1>12, <1>13, <1>14, <1>15, <1>16,
     <1>17, <1>19, <1>20, <1>21, <1>22 DEF NeisNext

(* The meal of a day comes from the first row of a document that has one, and a period has
   an entry for each of its rows, in their order, none left out or written twice; the
   entries are whole as long as each is shorter than entry and all of them together are
   shorter than buffer.  Past the end of a buffer is written only when they are not
   (src/server/neis_api.c:224-298, 364-437). *)
THEOREM MealsInvariant == NeisSpec => []MealsInv
<1>1. NeisInit => MealsInv
  BY MealsInit
<1>2. MealsInv /\ [NeisNext]_neisVars => MealsInv'
  BY MealsStep
<1> QED
  BY <1>1, <1>2, PTL DEF NeisSpec

(* Dishes without the letters b and r and without slashes, and with brackets only at
   their end, are shown day by day, each on a line of its own, in the order in which
   NEIS sends them, and nothing else is, provided that each day is shorter than entry
   and the meal or the period shorter than MAX_MEAL_LEN; then no buffer is overrun
   either.  So it is for buffers of any sizes and dishes of any characters, each of
   any number of bytes (src/server/neis_api.c:230-298, 373-436). *)
THEOREM PlainMenusAreShown == NeisSpec => []PlainDishesAreShown
<1>1. MealsInv => PlainDishesAreShown
  <2> SUFFICES ASSUME MealsInv,
                      \A row \in Range(doc.rows) : \A d \in Range(row) : Plain(d),
                      call = "meal" /\ MealsOf(doc.rows) # <<>> =>
                          MealFits(MealsOf(doc.rows)[1]),
                      call = "period" => PeriodFits(MealsOf(doc.rows))
               PROVE  stage # "overrun" /\ (MealIsFound => ShowsItsRows)
    BY DEF PlainDishesAreShown
  <2>1. doc.rows \in Seq(Seq(Seq(Characters))) /\ Len(doc.rows) \in Nat
    BY DocumentTypes DEF MealsInv, MealsTypeOK
  <2>2. ASSUME NEW k \in 1 .. Len(doc.rows)
        PROVE  Line(doc.rows[k]) = MealLines(doc.rows[k])
    <3>1. PICK row \in Seq(Seq(Characters)) : row = doc.rows[k] /\ row \in Range(doc.rows)
      BY <2>1 DEF Range
    <3>2. \A j \in 1 .. Len(row) : row[j] \in Range(row)
      BY DEF Range
    <3>3. \A j \in 1 .. Len(row) : Plain(row[j])
      BY <3>1, <3>2
    <3>4. ShownLines(MenuOf(row)) = MealLines(row)
      BY <3>3, PlainMenus
    <3> QED
      BY <3>1, <3>4 DEF Line
  <2>3. MealsOf(doc.rows) = LinesOf(doc.rows, Len(doc.rows))
    BY <2>2 DEF MealsOf, LinesOf
  <2>4. CASE call = "meal"
    <3>1. doc.rows # <<>> => MealFits(Line(doc.rows[1]))
      <4> SUFFICES ASSUME doc.rows # <<>>
                   PROVE  MealFits(Line(doc.rows[1]))
        OBVIOUS
      <4>1. 1 \in 1 .. Len(doc.rows)
        BY <2>1
      <4>2. MealsOf(doc.rows)[1] = Line(doc.rows[1])
        BY <2>3, <4>1 DEF LinesOf
      <4>3. Len(MealsOf(doc.rows)) = Len(doc.rows) /\ Len(doc.rows) # 0
        BY <2>1, <2>3, <4>1, FirstDays
      <4>4. MealsOf(doc.rows) # <<>>
        BY <4>3
      <4> QED
        BY <2>4, <4>2, <4>4
    <3>2. stage # "overrun"
      BY <2>4, <3>1 DEF MealsInv, DaysShown, OverrunsAreDue
    <3>3. ASSUME MealIsFound
          PROVE  ShowsItsRows
      <4>1. doc.rows # <<>>
        BY <2>4, <3>3 DEF MealsInv, DaysShown
      <4>2. 1 \in 1 .. Len(doc.rows)
        BY <2>1, <4>1
      <4>3. shown = LinesOf(doc.rows, 1)
        BY <2>4, <3>1, <3>3, <4>1 DEF MealsInv, DaysShown
      <4>4. shown = <<MealLines(doc.rows[1])>>
        BY <2>2, <4>2, <4>3 DEF LinesOf
      <4> QED
        BY <2>4, <4>4 DEF ShowsItsRows, MealsOf
    <3> QED
      BY <3>2, <3>3
  <2>5. CASE call = "period"
    <3>1. AllFit(doc.rows, Len(doc.rows))
      <4>1. PICK days : days = MealsOf(doc.rows)
        OBVIOUS
      <4>2. Len(days) = Len(doc.rows) /\ \A k \in 1 .. Len(doc.rows) : days[k] = Line(doc.rows[k])
        BY <2>1, <2>3, <4>1, FirstDays DEF LinesOf
      <4>3. ASSUME NEW k \in 1 .. Len(doc.rows)
            PROVE  DayBytes(Line(doc.rows[k])) < EntrySize /\ UsedFor(doc.rows, k) < MealSize
        <5>1. DayBytes(days[k]) < EntrySize /\ UsedAfter(days, k) < MealSize
          BY <2>5, <4>1, <4>2 DEF PeriodFits
        <5>2. \A j \in 1 .. k : days[j] = Line(doc.rows[j])
          BY <2>1, <4>2
        <5>3. UsedAfter(days, k) = UsedFor(doc.rows, k)
          BY <5>2 DEF UsedAfter, UsedFor
        <5> QED
          BY <4>2, <5>1, <5>3
      <4> QED
        BY <4>3 DEF AllFit
    <3>2. stage # "overrun"
      BY <2>5, <3>1 DEF MealsInv, OverrunsAreDue
    <3>3. ASSUME MealIsFound
          PROVE  ShowsItsRows
      <4>1. shown = LinesOf(doc.rows, Len(doc.rows))
        BY <2>5, <3>1, <3>3 DEF MealsInv, DaysShown
      <4> QED
        BY <2>3, <2>5, <4>1 DEF ShowsItsRows
    <3> QED
      BY <3>2, <3>3
  <2>6. CASE call \notin {"meal", "period"}
    BY <2>6 DEF MealIsFound, MealsInv, DaysShown
  <2> QED
    BY <2>4, <2>5, <2>6
<1>2. NeisSpec => []MealsInv
  BY MealsInvariant
<1> QED
  BY <1>1, <1>2, PTL
=============================================================================
