------------------------- MODULE ReplyStream_proofs -------------------------
(***************************************************************************)
(* For every reply of the grammar, with texts of any length, in which a    *)
(* list or an object with a bracket in a string comes last, if at all:     *)
(* wherever the reply stops, the parser stands where it should (ReplyInv), *)
(* and from it what the browser is shown, what is stored, and what is      *)
(* refused.  The core is StepOfParser: one character takes the parser from *)
(* one place in the reply to the next, and yields just the character of    *)
(* the text, or the scalar, that lies between the two; after a bracket     *)
(* that leads it astray in the last field (StepAstray) it yields nothing.  *)
(***************************************************************************)
EXTENDS ReplyStream, SequenceTheorems, FiniteSetTheorems, SetInduction

Chars == Seq(Char)

-----------------------------------------------------------------------------
(* Texts: a character in front, characters of one kind in front.           *)

LEMMA OneChar ==
  ASSUME NEW c \in Char
  PROVE  <<c>> \in Chars /\ <<c>> \in Seq(Char) /\ Append(<<>>, c) = <<c>>
<1>1. <<c>> \in Seq(Char) /\ Append(<<>>, c) = <<c>>
  OBVIOUS
<1> QED BY <1>1 DEF Chars

LEMMA Signs ==
  /\ "\"" \in Char /\ "\\" \in Char /\ "," \in Char /\ " " \in Char /\ ":" \in Char
  /\ "[" \in Char /\ "]" \in Char /\ "{" \in Char /\ "}" \in Char
  /\ "s" \in Char /\ "a" \in Char /\ "1" \in Char /\ "0" \in Char /\ "u" \in Char /\ "h" \in Char
  BY DEF Char, Plain

LEMMA NoChars ==
  <<>> \in Chars
  BY EmptySeq DEF Chars

LEMMA InFront ==
  ASSUME NEW c \in Char, NEW t \in Chars
  PROVE  /\ <<c>> \o t \in Chars /\ <<c>> \o t # <<>>
         /\ Head(<<c>> \o t) = c /\ Tail(<<c>> \o t) = t
         /\ Len(<<c>> \o t) = Len(t) + 1
<1>1. <<c>> \in Seq(Char)
  OBVIOUS
<1>2. /\ <<c>> \o t \in Seq(Char) /\ Len(<<c>> \o t) = Len(t) + 1
      /\ \A i \in 1 .. Len(t) + 1 : (<<c>> \o t)[i] = IF i <= 1 THEN <<c>>[i] ELSE t[i - 1]
  BY <1>1, ConcatProperties DEF Chars
<1> QED BY <1>2 DEF Chars

LEMMA Joined ==
  ASSUME NEW s \in Chars, NEW t \in Chars
  PROVE  /\ s \o t \in Chars /\ Len(s \o t) = Len(s) + Len(t)
         /\ \A i \in 1 .. Len(s) + Len(t) : (s \o t)[i] = IF i <= Len(s) THEN s[i] ELSE t[i - Len(s)]
         /\ s # <<>> => Head(s \o t) = Head(s) /\ Tail(s \o t) = Tail(s) \o t /\ s \o t # <<>>
         /\ <<>> \o t = t /\ s \o <<>> = s
<1>1. /\ s \o t \in Chars /\ Len(s \o t) = Len(s) + Len(t)
      /\ \A i \in 1 .. Len(s) + Len(t) : (s \o t)[i] = IF i <= Len(s) THEN s[i] ELSE t[i - Len(s)]
  BY ConcatProperties DEF Chars
<1>2. <<>> \o t = t /\ s \o <<>> = s
  BY ConcatEmptySeq DEF Chars
<1>3. ASSUME s # <<>>
      PROVE  Head(s \o t) = Head(s) /\ Tail(s \o t) = Tail(s) \o t /\ s \o t # <<>>
  <2>1. Len(s) >= 1
    BY <1>3 DEF Chars
  <2>2. s = <<Head(s)>> \o Tail(s) /\ Tail(s) \in Chars /\ Head(s) \in Char
    BY <1>3, <2>1 DEF Chars
  <2>3. <<Head(s)>> \in Seq(Char) /\ Tail(s) \o t \in Chars
    BY <2>2, ConcatProperties DEF Chars
  <2>4. s \o t = <<Head(s)>> \o (Tail(s) \o t)
    BY <2>2, <2>3, ConcatAssociative DEF Chars
  <2> QED BY <2>2, <2>3, <2>4, InFront
<1> QED BY <1>1, <1>2, <1>3

Grouped(a, b, t) == (a \o b) \o t = a \o (b \o t)

LEMMA Regroup ==
  ASSUME NEW s \in Chars, NEW t \in Chars, NEW u \in Chars
  PROVE  Grouped(s, t, u)
  BY ConcatAssociative DEF Chars, Grouped

LEMMA JoinType ==
  ASSUME NEW s \in Chars, NEW t \in Chars
  PROVE  s \o t \in Chars
  BY Joined

GroupedFour(a, b, c, t)      == ((a \o b) \o c) \o t = a \o (b \o (c \o t))
GroupedFive(a, b, c, d, t)   == (((a \o b) \o c) \o d) \o t = a \o (b \o (c \o (d \o t)))
GroupedSix(a, b, c, d, e, t) == ((((a \o b) \o c) \o d) \o e) \o t = a \o (b \o (c \o (d \o (e \o t))))

LEMMA RegroupFour ==
  ASSUME NEW a \in Chars, NEW b \in Chars, NEW c \in Chars, NEW t \in Chars
  PROVE  GroupedFour(a, b, c, t)
<1>1. PICK ab \in Chars, ct \in Chars : ab = a \o b /\ ct = c \o t
  BY JoinType
<1>2. Grouped(ab, c, t) /\ Grouped(a, b, ct)
  BY Regroup
<1> QED BY <1>1, <1>2 DEF Grouped, GroupedFour

LEMMA RegroupFive ==
  ASSUME NEW a \in Chars, NEW b \in Chars, NEW c \in Chars, NEW d \in Chars, NEW t \in Chars
  PROVE  GroupedFive(a, b, c, d, t)
<1>1. PICK ab \in Chars, dt \in Chars : ab = a \o b /\ dt = d \o t
  BY JoinType
<1>2. PICK cdt \in Chars : cdt = c \o dt
  BY JoinType
<1>3. GroupedFour(ab, c, d, t) /\ Grouped(a, b, cdt)
  BY Regroup, RegroupFour
<1> QED BY <1>1, <1>2, <1>3 DEF Grouped, GroupedFour, GroupedFive

LEMMA RegroupSix ==
  ASSUME NEW a \in Chars, NEW b \in Chars, NEW c \in Chars, NEW d \in Chars, NEW e \in Chars, NEW t \in Chars
  PROVE  GroupedSix(a, b, c, d, e, t)
<1>1. PICK ab \in Chars, et \in Chars : ab = a \o b /\ et = e \o t
  BY JoinType
<1>2. PICK det \in Chars : det = d \o et
  BY JoinType
<1>3. PICK cdet \in Chars : cdet = c \o det
  BY JoinType
<1>4. GroupedFive(ab, c, d, e, t) /\ Grouped(a, b, cdet)
  BY Regroup, RegroupFive
<1> QED BY <1>1, <1>2, <1>3, <1>4 DEF Grouped, GroupedFive, GroupedSix

LEMMA JoinFive ==
  ASSUME NEW a \in Chars, NEW b \in Chars, NEW c \in Chars, NEW d \in Chars, NEW e \in Chars
  PROVE  (((a \o b) \o c) \o d) \o e \in Chars
<1>1. a \o b \in Chars
  BY JoinType
<1>2. (a \o b) \o c \in Chars
  BY <1>1, JoinType
<1>3. ((a \o b) \o c) \o d \in Chars
  BY <1>2, JoinType
<1> QED BY <1>3, JoinType

Paired(c, d, t) == <<c, d>> \o t = <<c>> \o (<<d>> \o t)

LEMMA Pair ==
  ASSUME NEW c \in Char, NEW d \in Char, NEW t \in Chars
  PROVE  <<c, d>> \in Chars /\ Paired(c, d, t)
<1>1. PICK a \in Chars, b \in Chars : a = <<c>> /\ b = <<d>>
  BY OneChar
<1>2. <<c, d>> \in Chars
  BY DEF Chars
<1>3. a \o b = <<c, d>>
  <2>1. a \o b \in Chars /\ Len(a \o b) = 2 /\ (a \o b)[1] = c /\ (a \o b)[2] = d
    BY <1>1, Joined
  <2>2. PICK u \in Chars, w \in Chars : u = a \o b /\ w = <<c, d>>
    BY <1>2, <2>1
  <2>3. Len(w) = 2 /\ w[1] = c /\ w[2] = d
    BY <2>2
  <2>4. \A i \in 1 .. 2 : i = 1 \/ i = 2
    OBVIOUS
  <2>5. \A i \in 1 .. Len(u) : u[i] = w[i]
    BY <2>1, <2>2, <2>3, <2>4
  <2>6. u = w
    BY <2>1, <2>2, <2>3, <2>5, SeqEqual, ZenonT(60) DEF Chars
  <2> QED BY <2>2, <2>6
<1>4. Grouped(a, b, t)
  BY Regroup
<1> QED BY <1>1, <1>2, <1>3, <1>4 DEF Grouped, Paired

LEMMA WithinHere ==
  ASSUME NEW S, NEW t \in Chars
  PROVE  Within(t, S, t)
<1>1. Len(t) - Len(t) = 0 /\ SubSeq(t, 1, Len(t)) = t
  BY SubSeqFull DEF Chars
<1> QED BY <1>1 DEF Within

LEMMA WithinWiden ==
  ASSUME NEW S, NEW U, S \subseteq U, NEW r, NEW t, Within(r, S, t)
  PROVE  Within(r, U, t)
  BY DEF Within

LEMMA WithinBy ==
  ASSUME NEW S, NEW r, NEW t, NEW n \in Nat, Len(r) = n, NEW k \in Nat, k = n - Len(t),
         \A j \in 1 .. k : r[j] \in S, SubSeq(r, k + 1, n) = t
  PROVE  Within(r, S, t)
  BY DEF Within

\* The length of the text of S, as a number of its own.
Split(r, S, t, k) ==
  k = Len(r) - Len(t) /\ (\A j \in 1 .. k : r[j] \in S) /\ SubSeq(r, k + 1, Len(r)) = t

LEMMA WithinSplit ==
  ASSUME NEW S, NEW r \in Chars, NEW t \in Chars, Within(r, S, t)
  PROVE  \E k \in 0 .. Len(r) : Split(r, S, t, k)
<1> DEFINE k == Len(r) - Len(t)
<1>1. Len(r) \in Nat /\ Len(t) \in Nat /\ k >= 0
  BY DEF Within, Chars
<1>2. k \in 0 .. Len(r)
  BY <1>1
<1>3. Split(r, S, t, k)
  BY DEF Within, Split
<1> QED BY <1>2, <1>3

\* A part of one text that agrees with a part of another.
AgreeOn(r, k, s, m, n) == \A i \in 1 .. n : r[k + i] = s[m + i]
SameParts(r, k, s, m, n) == SubSeq(r, k + 1, k + n) = SubSeq(s, m + 1, m + n)

LEMMA PartsEqual ==
  ASSUME NEW r \in Chars, NEW s \in Chars, NEW m \in Nat, NEW k \in Nat, NEW n \in Nat,
         k + n <= Len(r), m + n <= Len(s), AgreeOn(r, k, s, m, n)
  PROVE  SameParts(r, k, s, m, n)
<1> DEFINE a == SubSeq(r, k + 1, k + n)
           b == SubSeq(s, m + 1, m + n)
<1>0. Len(r) \in Nat /\ Len(s) \in Nat
  BY DEF Chars
<1>1. \A i \in k + 1 .. k + n : r[i] \in Char
  BY <1>0 DEF Chars
<1>2. \A i \in m + 1 .. m + n : s[i] \in Char
  BY <1>0 DEF Chars
<1>3. a \in Seq(Char) /\ Len(a) = n /\ \A i \in 1 .. n : a[i] = r[k + i]
  BY <1>1, SubSeqProperties
<1>4. b \in Seq(Char) /\ Len(b) = n /\ \A i \in 1 .. n : b[i] = s[m + i]
  BY <1>2, SubSeqProperties
<1> SUFFICES a = b
  BY DEF SameParts
<1> HIDE DEF a, b
<1> QED BY <1>3, <1>4, SeqEqual DEF AgreeOn

\* A text of S in front.
LEMMA WithinMore ==
  ASSUME NEW S, NEW w \in Chars, \A j \in 1 .. Len(w) : w[j] \in S, NEW r \in Chars, NEW t \in Chars,
         Within(r, S, t)
  PROVE  Within(w \o r, S, t)
<1> DEFINE b == w \o r
<1>1. PICK k \in 0 .. Len(r) : Split(r, S, t, k)
  BY WithinSplit
<1>2. /\ Len(w) \in Nat /\ Len(r) \in Nat /\ Len(t) \in Nat
      /\ k = Len(r) - Len(t) /\ Len(r) = k + Len(t) /\ k \in Nat
  BY <1>1 DEF Split, Chars
<1>3. b \in Chars /\ Len(b) = Len(w) + Len(r)
  BY Joined
<1>4. ASSUME NEW x \in 1 .. Len(w)  PROVE b[x] = w[x]
  BY <1>2, Joined
<1>5. ASSUME NEW x \in 1 .. Len(r)  PROVE b[Len(w) + x] = r[x]
  <2>1. Len(w) + x \in 1 .. Len(w) + Len(r) /\ ~(Len(w) + x <= Len(w)) /\ Len(w) + x - Len(w) = x
    BY <1>2
  <2> QED BY <2>1, Joined
<1> HIDE DEF b
<1>6. ASSUME NEW j \in 1 .. Len(w) + k  PROVE b[j] \in S
  <2>1. CASE j \in 1 .. Len(w)
    BY <1>4, <2>1
  <2>2. CASE j > Len(w)
    <3>1. PICK x \in 1 .. k : j = Len(w) + x
      <4>1. j - Len(w) \in 1 .. k /\ j = Len(w) + (j - Len(w))
        BY <1>2, <2>2
      <4> QED BY <4>1
    <3>2. x \in 1 .. Len(r) /\ r[x] \in S
      BY <1>1, <1>2 DEF Split
    <3> QED BY <1>5, <3>1, <3>2
  <2> QED BY <1>2, <2>1, <2>2
<1>7. SubSeq(b, Len(w) + k + 1, Len(w) + k + Len(t)) = SubSeq(r, k + 1, k + Len(t))
  <2>1. PICK x \in Nat, n \in Nat : x = Len(w) + k /\ n = Len(t)
    BY <1>2
  <2>2. ASSUME NEW i \in 1 .. n  PROVE b[x + i] = r[k + i]
    <3>1. k + i \in 1 .. Len(r) /\ x + i = Len(w) + (k + i)
      BY <1>2, <2>1
    <3> QED BY <1>5, <3>1
  <2>3. x + n <= Len(b) /\ k + n <= Len(r)
    BY <1>2, <1>3, <2>1
  <2>4. SubSeq(b, x + 1, x + n) = SubSeq(r, k + 1, k + n)
    <3>1. AgreeOn(b, x, r, k, n)
      BY <2>2 DEF AgreeOn
    <3>2. SameParts(b, x, r, k, n)
      BY <1>2, <1>3, <2>3, <3>1, PartsEqual
    <3> QED BY <3>2 DEF SameParts
  <2> QED BY <2>1, <2>4
<1>8. SubSeq(b, Len(w) + k + 1, Len(b)) = t
  <2>1. Len(b) = Len(w) + k + Len(t)
    BY <1>2, <1>3
  <2> QED BY <1>1, <1>2, <1>7, <2>1 DEF Split
<1>9. Len(b) \in Nat /\ Len(w) + k \in Nat /\ Len(w) + k = Len(b) - Len(t)
  BY <1>2, <1>3
<1>10. Within(b, S, t)
  BY <1>6, <1>8, <1>9, WithinBy
<1> QED BY <1>10 DEF b

LEMMA WithinStep ==
  ASSUME NEW S, NEW r \in Chars, NEW t \in Chars, Within(r, S, t), r # <<>>, r # t
  PROVE  Head(r) \in S /\ Within(Tail(r), S, t)
<1> DEFINE b == Tail(r)
<1>1. PICK k \in 0 .. Len(r) : Split(r, S, t, k)
  BY WithinSplit
<1>2. /\ Len(r) \in Nat /\ Len(r) # 0 /\ Len(t) \in Nat
      /\ k = Len(r) - Len(t) /\ Len(r) = k + Len(t) /\ k \in Nat
  BY <1>1 DEF Split, Chars
<1>3. k # 0
  <2>1. SubSeq(r, 1, Len(r)) = r
    BY SubSeqFull DEF Chars
  <2>2. k = 0 => k + 1 = 1
    OBVIOUS
  <2> QED BY <1>1, <2>1, <2>2 DEF Split
<1>4. PICK m \in Nat : k = m + 1
  <2>1. k - 1 \in Nat /\ k = (k - 1) + 1
    BY <1>2, <1>3
  <2> QED BY <2>1
<1>5. /\ b \in Chars /\ Len(b) = Len(r) - 1 /\ Head(r) = r[1]
      /\ \A i \in 1 .. Len(b) : b[i] = r[i + 1]
  BY HeadTailProperties DEF Chars
<1> HIDE DEF b
<1>6. ASSUME NEW j \in 1 .. m  PROVE b[j] \in S
  <2>1. j \in 1 .. Len(b) /\ j + 1 \in 1 .. k
    BY <1>2, <1>4, <1>5
  <2> QED BY <1>1, <1>5, <2>1 DEF Split
<1>7. SubSeq(b, m + 1, m + Len(t)) = SubSeq(r, k + 1, k + Len(t))
  <2>1. PICK n \in Nat : n = Len(t)
    BY <1>2
  <2>2. m + n <= Len(b) /\ k + n <= Len(r) /\ Len(b) \in Nat
    BY <1>2, <1>4, <1>5, <2>1
  <2>3. ASSUME NEW i \in 1 .. n  PROVE b[m + i] = r[k + i]
    <3>1. m + i \in 1 .. Len(b)
      BY <2>2
    <3>2. m + i + 1 = k + i
      BY <1>4
    <3> QED BY <1>5, <3>1, <3>2
  <2>4. SubSeq(b, m + 1, m + n) = SubSeq(r, k + 1, k + n)
    <3>1. AgreeOn(b, m, r, k, n)
      BY <2>3 DEF AgreeOn
    <3>2. SameParts(b, m, r, k, n)
      BY <1>2, <1>5, <2>2, <3>1, PartsEqual
    <3> QED BY <3>2 DEF SameParts
  <2> QED BY <2>1, <2>4
<1>8. SubSeq(b, m + 1, Len(b)) = t
  <2>1. Len(b) = m + Len(t)
    BY <1>2, <1>4, <1>5
  <2> QED BY <1>1, <1>2, <1>7, <2>1 DEF Split
<1>9. Len(b) \in Nat /\ m = Len(b) - Len(t)
  BY <1>2, <1>4, <1>5
<1>10. Within(b, S, t)
  BY <1>6, <1>8, <1>9, WithinBy
<1>11. Head(r) \in S
  <2>1. 1 \in 1 .. k
    BY <1>2, <1>3
  <2> QED BY <1>1, <1>5, <2>1 DEF Split
<1> QED BY <1>10, <1>11 DEF b
\* A text of S ends at a character that is not one.
LEMMA WithinThen ==
  ASSUME NEW S, NEW c \in Char, c \notin S, NEW r \in Chars, NEW t \in Chars, Within(r, S, <<c>> \o t)
  PROVE  /\ r # <<>>
         /\ \/ Head(r) = c /\ Tail(r) = t
            \/ Head(r) \in S /\ Within(Tail(r), S, <<c>> \o t)
<1>1. /\ <<c>> \o t \in Chars /\ Head(<<c>> \o t) = c /\ Tail(<<c>> \o t) = t
      /\ Len(<<c>> \o t) = Len(t) + 1
  BY InFront
<1>2. Len(r) \in Nat /\ Len(t) \in Nat /\ Len(r) - Len(<<c>> \o t) >= 0
  BY DEF Within, Chars
<1>3. r # <<>>
  BY <1>1, <1>2 DEF Chars
<1> QED BY <1>1, <1>3, WithinStep

-----------------------------------------------------------------------------
(* Flattening, from the front.                                             *)

\* The values FlattenSeq goes through.
Flattens(f, s) ==
  /\ f[1] = s[1]
  /\ \A i \in 2 .. Len(s) : f[i] = f[i - 1] \o s[i]

FlattensTo(f, s) == f \in [1 .. Len(s) -> Chars] /\ Flattens(f, s) /\ FlattenSeq(s) = f[Len(s)]

LEMMA FlattenRuns ==
  ASSUME NEW s \in Seq(Chars), s # <<>>, NEW f, NEW g, Flattens(f, s), Flattens(g, s)
  PROVE  \A i \in 1 .. Len(s) : f[i] = g[i]
<1> DEFINE T == {n \in Nat : n + 1 <= Len(s) => f[n + 1] = g[n + 1]}
<1>1. 0 \in T
  BY DEF Flattens
<1>2. ASSUME NEW n \in Nat, n \in T  PROVE n + 1 \in T
  <2> SUFFICES ASSUME n + 1 + 1 <= Len(s)  PROVE f[n + 1 + 1] = g[n + 1 + 1]
    OBVIOUS
  <2>1. n + 1 + 1 \in 2 .. Len(s) /\ (n + 1 + 1) - 1 = n + 1 /\ n + 1 <= Len(s)
    OBVIOUS
  <2>2. f[n + 1] = g[n + 1]
    BY <1>2, <2>1
  <2>3. f[n + 1 + 1] = f[n + 1] \o s[n + 1 + 1] /\ g[n + 1 + 1] = g[n + 1] \o s[n + 1 + 1]
    BY <2>1 DEF Flattens
  <2> QED BY <2>2, <2>3
<1> HIDE DEF T
<1>3. Nat \subseteq T
  BY <1>1, <1>2, AllNumbers
<1>4. ASSUME NEW i \in 1 .. Len(s)  PROVE f[i] = g[i]
  <2>1. PICK n \in Nat : i = n + 1
    <3>1. i - 1 \in Nat /\ i = (i - 1) + 1
      OBVIOUS
    <3> QED BY <3>1
  <2>2. n \in T /\ n + 1 <= Len(s)
    BY <1>3, <2>1
  <2> QED BY <2>1, <2>2 DEF T
<1> QED BY <1>4

LEMMA FlattenRun ==
  ASSUME NEW s \in Seq(Chars), s # <<>>
  PROVE  \E f : FlattensTo(f, s)
<1>1. PICK n \in Nat : Len(s) = n + 1
  <2>1. Len(s) \in Nat /\ Len(s) # 0
    OBVIOUS
  <2>2. Len(s) - 1 \in Nat /\ Len(s) = (Len(s) - 1) + 1
    BY <2>1
  <2> QED BY <2>2
<1> DEFINE next == [k \in 1 .. n |-> [t \in Chars |-> t \o s[k + 1]]]
           Eq(f) == f = [i \in 1 .. Len(s) |-> IF i = 1 THEN s[i] ELSE f[i - 1] \o s[i]]
           h == CHOOSE f : Eq(f)
<1>2. next \in [1 .. n -> [Chars -> Chars]]
  <2> SUFFICES ASSUME NEW k \in 1 .. n, NEW t \in Chars  PROVE t \o s[k + 1] \in Chars
    OBVIOUS
  <2>1. s[k + 1] \in Chars
    BY <1>1
  <2> QED BY <2>1, Joined
<1>3. s[1] \in Chars
  BY <1>1
<1>4. PICK e \in [0 .. n -> Chars] : e[0] = s[1] /\ \A k \in 1 .. n : e[k] = next[k][e[k - 1]]
  <2> HIDE DEF next
  <2>1. HasRun(Chars, s[1], n, next)
    BY <1>2, <1>3, RunExists
  <2> QED BY <2>1 DEF HasRun
<1> DEFINE f == [i \in 1 .. Len(s) |-> e[i - 1]]
<1>5. f \in [1 .. Len(s) -> Chars]
  BY <1>1
<1>6. f[1] = s[1]
  BY <1>1, <1>4
<1>7. ASSUME NEW i \in 2 .. Len(s)  PROVE f[i] = f[i - 1] \o s[i]
  <2>1. PICK k \in 1 .. n : i = k + 1
    <3>1. i - 1 \in 1 .. n /\ i = (i - 1) + 1
      BY <1>1
    <3> QED BY <3>1
  <2>2. k - 1 \in 0 .. n /\ i - 1 = k /\ (i - 1) - 1 = k - 1 /\ i - 1 \in 1 .. Len(s) /\ i \in 1 .. Len(s)
    BY <1>1, <2>1
  <2>3. e[k] = e[k - 1] \o s[k + 1]
    BY <1>4, <2>2
  <2>4. f[i] = e[k] /\ f[i - 1] = e[k - 1]
    BY <2>2
  <2> QED BY <2>1, <2>3, <2>4
<1> HIDE DEF f
<1>8. Flattens(f, s)
  BY <1>6, <1>7 DEF Flattens
<1>9. Eq(f)
  <2>1. ASSUME NEW i \in 1 .. Len(s)  PROVE f[i] = IF i = 1 THEN s[i] ELSE f[i - 1] \o s[i]
    BY <1>6, <1>7, SMTT(30)
  <2> QED BY <1>5, <2>1
<1>10. Eq(h)
  BY <1>9
<1>11. FlattenSeq(s) = h[Len(s)]
  BY <1>1 DEF FlattenSeq
<1> HIDE DEF h
<1>12. Flattens(h, s)
  <2>1. ASSUME NEW i \in 1 .. Len(s)  PROVE h[i] = IF i = 1 THEN s[i] ELSE h[i - 1] \o s[i]
    BY <1>10
  <2>2. 1 \in 1 .. Len(s)
    BY <1>1
  <2>3. h[1] = s[1]
    BY <2>1, <2>2
  <2>4. ASSUME NEW i \in 2 .. Len(s)  PROVE h[i] = h[i - 1] \o s[i]
    <3>1. i \in 1 .. Len(s) /\ i # 1
      BY <1>1
    <3> QED BY <2>1, <3>1
  <2> QED BY <2>3, <2>4 DEF Flattens
<1>13. Len(s) \in 1 .. Len(s)
  BY <1>1
<1>14. f[Len(s)] = h[Len(s)]
  BY <1>8, <1>12, <1>13, FlattenRuns
<1>15. FlattensTo(f, s)
  BY <1>5, <1>8, <1>11, <1>14 DEF FlattensTo
<1> QED BY <1>15

\* The list of all but the first n.
From(s, n) == [j \in 1 .. Len(s) - n |-> s[n + j]]

LEMMA FromType ==
  ASSUME NEW s \in Seq(Chars), NEW n \in 0 .. Len(s)
  PROVE  /\ From(s, n) \in Seq(Chars) /\ Len(From(s, n)) = Len(s) - n
         /\ \A j \in 1 .. Len(s) - n : From(s, n)[j] = s[n + j]
<1>1. PICK m \in Nat : m = Len(s) - n
  OBVIOUS
<1>2. ASSUME NEW j \in 1 .. m  PROVE s[n + j] \in Chars
  <2>1. n + j \in 1 .. Len(s)
    BY <1>1
  <2> QED BY <2>1
<1> QED BY <1>1, <1>2 DEF From

LEMMA FlattenNone ==
  FlattenSeq(<<>>) = <<>>
  BY DEF FlattenSeq

LEMMA FlattenOne ==
  ASSUME NEW s \in Seq(Chars), Len(s) = 1
  PROVE  FlattenSeq(s) = s[1]
<1>1. s # <<>>
  OBVIOUS
<1>2. PICK f : FlattensTo(f, s)
  BY <1>1, FlattenRun
<1> QED BY <1>2 DEF FlattensTo, Flattens

\* The first text, then the others.
LEMMA FlattenFirst ==
  ASSUME NEW s \in Seq(Chars), s # <<>>
  PROVE  FlattenSeq(s) = s[1] \o FlattenSeq(From(s, 1)) /\ FlattenSeq(From(s, 1)) \in Chars
<1> DEFINE u == From(s, 1)
<1>1. PICK n \in Nat : Len(s) = n + 1
  <2>1. Len(s) \in Nat /\ Len(s) # 0
    OBVIOUS
  <2>2. Len(s) - 1 \in Nat /\ Len(s) = (Len(s) - 1) + 1
    BY <2>1
  <2> QED BY <2>2
<1>2. /\ u \in Seq(Chars) /\ Len(u) = n
      /\ \A j \in 1 .. n : u[j] = s[1 + j]
  <2>1. 1 \in 0 .. Len(s) /\ Len(s) - 1 = n
    BY <1>1
  <2> QED BY <2>1, FromType
<1>3. s[1] \in Chars
  BY <1>1
<1> HIDE DEF u
<1>4. CASE n = 0
  <2>1. u = <<>>
    BY <1>2, <1>4
  <2>2. FlattenSeq(u) = <<>> /\ FlattenSeq(s) = s[1] /\ <<>> \in Chars
    BY <1>1, <1>4, <2>1, FlattenNone, FlattenOne DEF Chars
  <2> QED BY <1>3, <2>2, Joined DEF u
<1>5. CASE n # 0
  <2>1. u # <<>>
    BY <1>2, <1>5
  <2>2. PICK f : FlattensTo(f, s)
    BY FlattenRun
  <2>3. PICK g : FlattensTo(g, u)
    BY <1>2, <2>1, FlattenRun
  <2> DEFINE P(i) == i + 1 <= n => f[i + 2] = s[1] \o g[i + 1]
             T == {i \in Nat : P(i)}
  <2>4. 0 \in T
    <3>1. 2 \in 2 .. Len(s) /\ 1 \in 1 .. n /\ 2 - 1 = 1 /\ 1 + 1 = 2
      BY <1>1, <1>5
    <3>2. f[1] = s[1] /\ f[2] = f[1] \o s[2]
      BY <2>2, <3>1 DEF FlattensTo, Flattens
    <3>3. g[1] = s[2]
      BY <1>2, <2>3, <3>1 DEF FlattensTo, Flattens
    <3>4. 0 + 2 = 2 /\ 0 + 1 = 1
      OBVIOUS
    <3> QED BY <3>2, <3>3, <3>4
  <2>5. ASSUME NEW i \in Nat, i \in T  PROVE i + 1 \in T
    <3>0. SUFFICES P(i + 1)
      <4> HIDE DEF P
      <4> QED OBVIOUS
    <3> SUFFICES ASSUME i + 1 + 1 <= n  PROVE f[i + 1 + 2] = s[1] \o g[i + 1 + 1]
      OBVIOUS
    <3>1. PICK k \in Nat : k = i + 2
      OBVIOUS
    <3>2. /\ k \in 2 .. n /\ k + 1 \in 2 .. Len(s) /\ (k + 1) - 1 = k /\ k - 1 = i + 1
          /\ i + 1 + 2 = k + 1 /\ i + 1 + 1 = k /\ i + 1 <= n /\ k - 1 \in 1 .. n
          /\ k \in 1 .. n /\ k + 1 = 1 + k /\ k + 1 \in 1 .. Len(s)
      BY <1>1, <3>1
    <3>3. f[k] = s[1] \o g[k - 1]
      BY <2>5, <3>1, <3>2
    <3>4. f[k + 1] = f[k] \o s[k + 1]
      BY <2>2, <3>2 DEF FlattensTo, Flattens
    <3>5. g[k] = g[k - 1] \o u[k]
      BY <1>2, <2>3, <3>2 DEF FlattensTo, Flattens
    <3>6. u[k] = s[k + 1]
      BY <1>2, <3>2
    <3>7. g[k - 1] \in Chars /\ s[k + 1] \in Chars
      BY <1>2, <2>3, <3>2 DEF FlattensTo
    <3>8. (s[1] \o g[k - 1]) \o s[k + 1] = s[1] \o (g[k - 1] \o s[k + 1])
      <4>1. Grouped(s[1], g[k - 1], s[k + 1])
        BY <1>3, <3>7, Regroup
      <4> QED BY <4>1 DEF Grouped
    <3> QED BY <3>2, <3>3, <3>4, <3>5, <3>6, <3>8
  <2> HIDE DEF T
  <2>6. Nat \subseteq T
    BY <2>4, <2>5, AllNumbers
  <2>7. PICK m \in Nat : n = m + 1
    <3>1. n - 1 \in Nat /\ n = (n - 1) + 1
      BY <1>5
    <3> QED BY <3>1
  <2>8. f[m + 2] = s[1] \o g[m + 1]
    <3>1. P(m)
      <4> HIDE DEF P
      <4> QED BY <2>6 DEF T
    <3>2. m + 1 <= n
      BY <2>7
    <3> QED BY <3>1, <3>2
  <2>9. m + 2 = Len(s) /\ m + 1 = Len(u) /\ Len(u) \in 1 .. Len(u)
    BY <1>1, <1>2, <2>7
  <2> QED BY <2>2, <2>3, <2>8, <2>9 DEF FlattensTo, u
<1> QED BY <1>4, <1>5

\* Text by text from the front.
LEMMA FlattenFrom ==
  ASSUME NEW s \in Seq(Chars)
  PROVE  /\ FlattenSeq(s) \in Chars /\ From(s, 0) = s
         /\ FlattenSeq(From(s, Len(s))) = <<>>
         /\ \A n \in 0 .. Len(s) : FlattenSeq(From(s, n)) \in Chars
         /\ \A n \in 0 .. Len(s) - 1 :
              FlattenSeq(From(s, n)) = s[n + 1] \o FlattenSeq(From(s, n + 1))
<1>1. ASSUME NEW v \in Seq(Chars)  PROVE FlattenSeq(v) \in Chars
  <2>1. CASE v = <<>>
    <3>1. <<>> \in Chars
      BY EmptySeq DEF Chars
    <3>2. FlattenSeq(v) = <<>>
      BY <2>1, FlattenNone
    <3> QED BY <3>1, <3>2
  <2>2. CASE v # <<>>
    <3>1. v[1] \in Chars
      <4>1. Len(v) \in Nat /\ Len(v) # 0
        BY <2>2
      <4>2. 1 \in 1 .. Len(v)
        BY <4>1
      <4> QED BY <4>2, ElementOfSeq
    <3>2. FlattenSeq(v) = v[1] \o FlattenSeq(From(v, 1)) /\ FlattenSeq(From(v, 1)) \in Chars
      BY <2>2, FlattenFirst
    <3>3. v[1] \o FlattenSeq(From(v, 1)) \in Chars
      BY <3>1, <3>2, Joined
    <3> QED BY <3>2, <3>3
  <2>3. v = <<>> \/ v # <<>>
    OBVIOUS
  <2> QED BY <2>1, <2>2, <2>3
<1>2. From(s, 0) = s
  <2>1. 0 \in 0 .. Len(s) /\ Len(s) - 0 = Len(s)
    OBVIOUS
  <2>2. /\ From(s, 0) \in Seq(Chars) /\ Len(From(s, 0)) = Len(s)
        /\ \A j \in 1 .. Len(s) : From(s, 0)[j] = s[0 + j]
    BY <2>1, FromType
  <2>3. \A j \in 1 .. Len(s) : From(s, 0)[j] = s[j]
    <3>1. \A j \in 1 .. Len(s) : 0 + j = j
      OBVIOUS
    <3> QED BY <2>2, <3>1
  <2> QED BY <2>2, <2>3, SeqEqual
<1>3. From(s, Len(s)) = <<>>
  <2>1. Len(s) \in 0 .. Len(s) /\ Len(s) - Len(s) = 0
    OBVIOUS
  <2>2. From(s, Len(s)) \in Seq(Chars) /\ Len(From(s, Len(s))) = 0
    BY <2>1, FromType
  <2> QED BY <2>2
<1>4. ASSUME NEW n \in 0 .. Len(s)  PROVE FlattenSeq(From(s, n)) \in Chars
  BY <1>1, FromType
<1>5. ASSUME NEW n \in 0 .. Len(s) - 1
      PROVE  FlattenSeq(From(s, n)) = s[n + 1] \o FlattenSeq(From(s, n + 1))
  <2> DEFINE v == From(s, n)
             w == From(v, 1)
             x == From(s, n + 1)
  <2>1. n \in 0 .. Len(s) /\ n + 1 \in 0 .. Len(s)
    OBVIOUS
  <2>2. PICK m \in Nat : Len(s) - n = m + 1 /\ Len(s) - (n + 1) = m
    <3>1. Len(s) - (n + 1) \in Nat /\ Len(s) - n = (Len(s) - (n + 1)) + 1
      OBVIOUS
    <3> QED BY <3>1
  <2>3. /\ v \in Seq(Chars) /\ Len(v) = m + 1
        /\ \A j \in 1 .. m + 1 : v[j] = s[n + j]
    BY <2>1, <2>2, FromType
  <2>4. /\ x \in Seq(Chars) /\ Len(x) = m
        /\ \A j \in 1 .. m : x[j] = s[n + 1 + j]
    BY <2>1, <2>2, FromType
  <2> HIDE DEF v, x
  <2>5. /\ w \in Seq(Chars) /\ Len(w) = m
        /\ \A j \in 1 .. m : w[j] = v[1 + j]
    <3>1. 1 \in 0 .. Len(v) /\ Len(v) - 1 = m
      BY <2>3
    <3> QED BY <2>3, <3>1, FromType
  <2> HIDE DEF w
  <2>6. ASSUME NEW j \in 1 .. m  PROVE w[j] = x[j]
    <3>1. 1 + j \in 1 .. m + 1 /\ n + (1 + j) = n + 1 + j
      BY <2>1
    <3> QED BY <2>3, <2>4, <2>5, <3>1
  <2>7. w = x
    BY <2>4, <2>5, <2>6, SeqEqual
  <2>8. v # <<>> /\ 1 \in 1 .. m + 1
    BY <2>3
  <2>9. v[1] = s[n + 1]
    BY <2>3, <2>8
  <2>10. FlattenSeq(v) = v[1] \o FlattenSeq(w)
    BY <2>3, <2>8, FlattenFirst DEF w
  <2> QED BY <2>7, <2>9, <2>10 DEF v, x
<1>6. FlattenSeq(From(s, Len(s))) = <<>>
  BY <1>3, FlattenNone
<1> QED BY <1>1, <1>2, <1>4, <1>5, <1>6

-----------------------------------------------------------------------------
(* Marks: a plain character, an escaped one, or the letter by its number.  *)

MarkNames == {"x", "advance", "nudge", "comma", "blank", "open", "close", "newline", "quote", "backslash", "letter"}

LEMMA MarkDomain ==
  DOMAIN MarkText = MarkNames /\ TextMarks \subseteq MarkNames /\ ListMarks \subseteq MarkNames
  /\ ActionMarks \subseteq MarkNames
<1>1. DOMAIN MarkText = MarkNames
  BY DEF MarkText, MarkNames
<1> QED BY <1>1, MarksAssumption

PlainMark(m)  == MarkText[m] = <<MarkChar[m]>> /\ MarkChar[m] \in Plain
EscapeMark(m) == \E d \in Char : MarkText[m] = <<"\\", d>> /\ d # "u" /\ Unescaped(d) = MarkChar[m]
LetterMark(m) == m = "letter" /\ MarkText[m] = <<"\\", "u", "h", "h", "h", "h">> /\ MarkChar[m] = "U"

LEMMA MarkShape ==
  ASSUME NEW m \in MarkNames
  PROVE  PlainMark(m) \/ EscapeMark(m) \/ LetterMark(m)
<1>1. m \in {"x", "advance", "nudge", "comma", "blank", "open", "close"} => PlainMark(m)
  <2>1. MarkText["x"] = <<"x">> /\ MarkChar["x"] = "x" /\ "x" \in Plain
    BY DEF MarkText, MarkChar, Plain
  <2>2. MarkText["advance"] = <<"v">> /\ MarkChar["advance"] = "v" /\ "v" \in Plain
    BY DEF MarkText, MarkChar, Plain
  <2>3. MarkText["nudge"] = <<"g">> /\ MarkChar["nudge"] = "g" /\ "g" \in Plain
    BY DEF MarkText, MarkChar, Plain
  <2>4. MarkText["comma"] = <<",">> /\ MarkChar["comma"] = "," /\ "," \in Plain
    BY DEF MarkText, MarkChar, Plain
  <2>5. MarkText["blank"] = <<" ">> /\ MarkChar["blank"] = " " /\ " " \in Plain
    BY DEF MarkText, MarkChar, Plain
  <2>6. MarkText["open"] = <<"[">> /\ MarkChar["open"] = "[" /\ "[" \in Plain
    BY DEF MarkText, MarkChar, Plain
  <2>7. MarkText["close"] = <<"}">> /\ MarkChar["close"] = "}" /\ "}" \in Plain
    BY DEF MarkText, MarkChar, Plain
  <2> QED BY <2>1, <2>2, <2>3, <2>4, <2>5, <2>6, <2>7 DEF PlainMark
<1>2. m = "newline" => EscapeMark(m)
  <2>1. MarkText["newline"] = <<"\\", "n">> /\ MarkChar["newline"] = "NL"
    BY DEF MarkText, MarkChar
  <2>2. "n" \in Char /\ "n" # "u" /\ Unescaped("n") = "NL"
    BY DEF Unescaped, Char, Plain
  <2> QED BY <2>1, <2>2 DEF EscapeMark
<1>3. m = "quote" => EscapeMark(m)
  <2>1. MarkText["quote"] = <<"\\", "\"">> /\ MarkChar["quote"] = "\""
    BY DEF MarkText, MarkChar
  <2>2. "\"" \in Char /\ "\"" # "u" /\ Unescaped("\"") = "\""
    BY DEF Unescaped, Char, Plain
  <2> QED BY <2>1, <2>2 DEF EscapeMark
<1>4. m = "backslash" => EscapeMark(m)
  <2>1. MarkText["backslash"] = <<"\\", "\\">> /\ MarkChar["backslash"] = "\\"
    BY DEF MarkText, MarkChar
  <2>2. "\\" \in Char /\ "\\" # "u" /\ Unescaped("\\") = "\\"
    BY DEF Unescaped, Char, Plain
  <2> QED BY <2>1, <2>2 DEF EscapeMark
<1>5. m = "letter" => LetterMark(m)
  <2>1. MarkText["letter"] = <<"\\", "u", "h", "h", "h", "h">> /\ MarkChar["letter"] = "U"
    BY DEF MarkText, MarkChar
  <2> QED BY <2>1 DEF LetterMark
<1> QED BY <1>1, <1>2, <1>3, <1>4, <1>5 DEF MarkNames

LEMMA MarkChars ==
  ASSUME NEW m \in MarkNames
  PROVE  MarkText[m] \in Chars /\ MarkText[m] # <<>>
<1>1. CASE PlainMark(m)
  <2>1. PICK c \in Char : MarkText[m] = <<c>>
    BY <1>1 DEF PlainMark, Char
  <2> QED BY <2>1 DEF Chars
<1>2. CASE EscapeMark(m)
  <2>1. PICK d \in Char : MarkText[m] = <<"\\", d>>
    BY <1>2 DEF EscapeMark
  <2>2. "\\" \in Char
    BY DEF Char
  <2> QED BY <2>1, <2>2 DEF Chars
<1>3. CASE LetterMark(m)
  <2>1. "\\" \in Char /\ "u" \in Char /\ "h" \in Char
    BY DEF Char, Plain
  <2> QED BY <1>3, <2>1 DEF LetterMark, Chars
<1> QED BY <1>1, <1>2, <1>3, MarkShape

\* The texts of a string's marks.
Texts(marks) == [i \in DOMAIN marks |-> MarkText[marks[i]]]

LEMMA TextsType ==
  ASSUME NEW marks \in Seq(MarkNames)
  PROVE  /\ Texts(marks) \in Seq(Chars) /\ Len(Texts(marks)) = Len(marks)
         /\ \A i \in 1 .. Len(marks) : Texts(marks)[i] = MarkText[marks[i]]
<1>1. PICK n \in Nat : n = Len(marks) /\ DOMAIN marks = 1 .. n
  OBVIOUS
<1>2. ASSUME NEW i \in 1 .. n  PROVE MarkText[marks[i]] \in Chars
  BY <1>1, MarkChars
<1> QED BY <1>1, <1>2 DEF Texts

LEMMA MarksFrom ==
  ASSUME NEW marks \in Seq(MarkNames), NEW k \in 0 .. Len(marks), NEW t
  PROVE  MarksAfter(marks, k, t) = FlattenSeq(From(Texts(marks), k)) \o (<<"\"">> \o t)
<1>1. ASSUME NEW j \in 1 .. Len(marks) - k  PROVE Texts(marks)[k + j] = MarkText[marks[k + j]]
  <2>1. k + j \in 1 .. Len(marks)
    OBVIOUS
  <2> QED BY <2>1, TextsType
<1>2. [j \in 1 .. Len(marks) - k |-> MarkText[marks[k + j]]] = From(Texts(marks), k)
  BY <1>1, TextsType DEF From
<1> QED BY <1>2 DEF MarksAfter

LEMMA MarksEnd ==
  ASSUME NEW marks \in Seq(MarkNames), NEW t \in Chars
  PROVE  MarksAfter(marks, Len(marks), t) = <<"\"">> \o t
<1>1. FlattenSeq(From(Texts(marks), Len(marks))) = <<>>
  BY TextsType, FlattenFrom
<1>2. MarksAfter(marks, Len(marks), t) = <<>> \o (<<"\"">> \o t)
  <2>1. Len(marks) \in 0 .. Len(marks)
    OBVIOUS
  <2> QED BY <1>1, <2>1, MarksFrom
<1>3. <<"\"">> \o t \in Chars /\ <<>> \in Chars
  BY Signs, NoChars, InFront
<1> QED BY <1>2, <1>3, Joined

LEMMA MarksType ==
  ASSUME NEW marks \in Seq(MarkNames), NEW k \in 0 .. Len(marks), NEW t \in Chars
  PROVE  MarksAfter(marks, k, t) \in Chars
<1>1. FlattenSeq(From(Texts(marks), k)) \in Chars
  BY TextsType, FlattenFrom
<1>2. <<"\"">> \o t \in Chars
  BY Signs, InFront
<1>3. FlattenSeq(From(Texts(marks), k)) \o (<<"\"">> \o t) \in Chars
  BY <1>1, <1>2, Joined
<1> QED BY <1>3, MarksFrom

LEMMA MarksNext ==
  ASSUME NEW marks \in Seq(MarkNames), NEW k \in 0 .. Len(marks) - 1, NEW t \in Chars
  PROVE  /\ MarksAfter(marks, k, t) = MarkText[marks[k + 1]] \o MarksAfter(marks, k + 1, t)
         /\ marks[k + 1] \in MarkNames
<1>1. k \in 0 .. Len(marks) /\ k + 1 \in 0 .. Len(marks) /\ k + 1 \in 1 .. Len(marks)
  OBVIOUS
<1>2. FlattenSeq(From(Texts(marks), k)) = Texts(marks)[k + 1] \o FlattenSeq(From(Texts(marks), k + 1))
  BY TextsType, FlattenFrom
<1>3. FlattenSeq(From(Texts(marks), k + 1)) \in Chars
  BY <1>1, TextsType, FlattenFrom
<1>4. marks[k + 1] \in MarkNames
  BY <1>1, ElementOfSeq
<1>5. Texts(marks)[k + 1] = MarkText[marks[k + 1]] /\ Texts(marks)[k + 1] \in Chars
  BY <1>1, <1>4, TextsType, MarkChars
<1>6. <<"\"">> \o t \in Chars
  BY Signs, InFront
<1>7. /\ MarksAfter(marks, k, t) = FlattenSeq(From(Texts(marks), k)) \o (<<"\"">> \o t)
      /\ MarksAfter(marks, k + 1, t) = FlattenSeq(From(Texts(marks), k + 1)) \o (<<"\"">> \o t)
  BY <1>1, MarksFrom
<1>8. PICK a \in Chars, b \in Chars, c \in Chars :
        /\ a = Texts(marks)[k + 1] /\ b = FlattenSeq(From(Texts(marks), k + 1))
        /\ c = <<"\"">> \o t
  BY <1>3, <1>5, <1>6
<1>9. Grouped(a, b, c)
  BY Regroup
<1> QED BY <1>2, <1>4, <1>5, <1>7, <1>8, <1>9 DEF Grouped

\* A string is its quote, and the marks after it.
LEMMA QuotedIs ==
  ASSUME NEW marks \in Seq(MarkNames), NEW t \in Chars
  PROVE  Quoted(marks) \in Chars /\ Quoted(marks) \o t = <<"\"">> \o MarksAfter(marks, 0, t)
<1> DEFINE f == FlattenSeq(Texts(marks))
<1>1. f \in Chars /\ From(Texts(marks), 0) = Texts(marks)
  BY TextsType, FlattenFrom
<1>2. MarksAfter(marks, 0, t) = f \o (<<"\"">> \o t)
  <2>1. 0 \in 0 .. Len(marks)
    OBVIOUS
  <2> QED BY <1>1, <2>1, MarksFrom
<1>3. Quoted(marks) = (<<"\"">> \o f) \o <<"\"">>
  BY DEF Quoted, Texts
<1>4. "\"" \in Char /\ <<"\"">> \in Chars
  BY Signs, OneChar
<1> HIDE DEF f
<1>5. <<"\"">> \o f \in Chars /\ (<<"\"">> \o f) \o <<"\"">> \in Chars
  BY <1>1, <1>4, Joined
<1>6. ((<<"\"">> \o f) \o <<"\"">>) \o t = (<<"\"">> \o f) \o (<<"\"">> \o t)
  <2>1. Grouped(<<"\"">> \o f, <<"\"">>, t)
    BY <1>4, <1>5, Regroup
  <2> QED BY <2>1 DEF Grouped
<1>7. <<"\"">> \o t \in Chars
  BY <1>4, Joined
<1>8. (<<"\"">> \o f) \o (<<"\"">> \o t) = <<"\"">> \o (f \o (<<"\"">> \o t))
  <2>1. Grouped(<<"\"">>, f, <<"\"">> \o t)
    BY <1>1, <1>4, <1>7, Regroup
  <2> QED BY <2>1 DEF Grouped
<1> QED BY <1>2, <1>3, <1>5, <1>6, <1>8

-----------------------------------------------------------------------------
(* Values.                                                                 *)

Keys == {"s", "a", "o"}

LEMMA ValuesAre ==
  /\ Values["s"] = [kind : {"string"}, marks : BoundedSeq(TextMarks, MaxMarks)] \cup {Bare("number"), Bare("null")}
  /\ Values["a"] = [kind : {"string"}, marks : {<<m>> : m \in ActionMarks}] \cup {Bare("number"), Bare("null")}
  /\ Values["o"] = [kind : {"string", "list", "object"}, marks : {<<m>> : m \in ListMarks}] \cup {Bare("number")}
  BY DEF Values

LEMMA Bounded ==
  ASSUME NEW S, NEW n \in Nat, NEW s \in BoundedSeq(S, n)
  PROVE  s \in Seq(S)
  BY DEF BoundedSeq, SeqOf

LEMMA ValueOfText ==
  ASSUME NEW v \in Values["s"]
  PROVE  v.kind \in {"string", "number", "null"} /\ v.marks \in Seq(MarkNames)
<1>1. CASE v \in [kind : {"string"}, marks : BoundedSeq(TextMarks, MaxMarks)]
  <2>1. v.kind = "string" /\ v.marks \in BoundedSeq(TextMarks, MaxMarks)
    BY <1>1
  <2>2. v.marks \in Seq(TextMarks)
    BY <2>1, Bounded, ReplyAssumption
  <2>3. v.marks \in Seq(MarkNames)
    BY <2>2, MarkDomain
  <2> QED BY <2>1, <2>3
<1>2. CASE v \in {Bare("number"), Bare("null")}
  <2>1. v.kind \in {"number", "null"} /\ v = [kind |-> v.kind, marks |-> <<>>] /\ v.marks = <<>>
    BY <1>2 DEF Bare
  <2> QED BY <2>1, EmptySeq
<1> QED BY <1>1, <1>2, ValuesAre

LEMMA ValueOfAction ==
  ASSUME NEW v \in Values["a"]
  PROVE  /\ v.kind \in {"string", "number", "null"} /\ v.marks \in Seq(MarkNames)
         /\ v = [kind |-> v.kind, marks |-> v.marks]
         /\ v.kind = "string" => \E m \in MarkNames : v.marks = <<m>>
         /\ v.kind # "string" => v.marks = <<>>
<1>1. CASE v \in [kind : {"string"}, marks : {<<m>> : m \in ActionMarks}]
  <2>1. v.kind = "string" /\ v.marks \in {<<m>> : m \in ActionMarks} /\ v = [kind |-> v.kind, marks |-> v.marks]
    BY <1>1
  <2>2. PICK m \in ActionMarks : v.marks = <<m>>
    BY <2>1
  <2>3. m \in MarkNames
    BY MarkDomain
  <2> QED BY <2>1, <2>2, <2>3
<1>2. CASE v \in {Bare("number"), Bare("null")}
  <2>1. v.kind \in {"number", "null"} /\ v = [kind |-> v.kind, marks |-> <<>>] /\ v.marks = <<>>
    BY <1>2 DEF Bare
  <2> QED BY <2>1, EmptySeq
<1> QED BY <1>1, <1>2, ValuesAre

LEMMA ValueOfOther ==
  ASSUME NEW v \in Values["o"]
  PROVE  /\ v.kind \in {"string", "list", "object", "number"} /\ v.marks \in Seq(MarkNames)
         /\ v.kind # "number" => \E m \in ListMarks : v.marks = <<m>>
<1>1. CASE v \in [kind : {"string", "list", "object"}, marks : {<<m>> : m \in ListMarks}]
  <2>1. v.kind \in {"string", "list", "object"} /\ v.marks \in {<<m>> : m \in ListMarks}
    BY <1>1
  <2>2. PICK m \in ListMarks : v.marks = <<m>>
    BY <2>1
  <2>3. m \in MarkNames
    BY MarkDomain
  <2> QED BY <2>1, <2>2, <2>3
<1>2. CASE v \in {Bare("number")}
  <2>1. v.kind = "number" /\ v.marks = <<>>
    BY <1>2 DEF Bare
  <2> QED BY <2>1, EmptySeq
<1> QED BY <1>1, <1>2, ValuesAre

\* What a value looks like, before text t.
LEMMA TextOfString ==
  ASSUME NEW v, v.kind = "string", v.marks \in Seq(MarkNames), NEW t \in Chars
  PROVE  ValueText(v) \in Chars /\ ValueText(v) \o t = <<"\"">> \o MarksAfter(v.marks, 0, t)
<1>1. ValueText(v) = Quoted(v.marks)
  BY DEF ValueText
<1> QED BY <1>1, QuotedIs

LEMMA TextOfBare ==
  ASSUME NEW v, v.kind \in {"number", "null"}
  PROVE  /\ ValueText(v) = IF v.kind = "number" THEN <<"1">> ELSE <<"0">>
         /\ ValueText(v) \in Chars
<1>1. ValueText(v) = IF v.kind = "number" THEN <<"1">> ELSE <<"0">>
  BY DEF ValueText
<1> QED BY <1>1, Signs, OneChar

LEMMA XName == <<"x">> \in Seq(MarkNames)
  BY DEF MarkNames

LEMMA TextOfList ==
  ASSUME NEW v, v.kind = "list", v.marks \in Seq(MarkNames), NEW t \in Chars
  PROVE  /\ ValueText(v) \in Chars
         /\ ValueText(v) \o t = <<"[">> \o (Quoted(v.marks) \o (<<",">> \o (Quoted(<<"x">>) \o (<<"]">> \o t))))
<1>1. ValueText(v) = (((<<"[">> \o Quoted(v.marks)) \o <<",">>) \o Quoted(<<"x">>)) \o <<"]">>
  BY DEF ValueText
<1>2. PICK a \in Chars, q \in Chars, c \in Chars, x \in Chars, b \in Chars :
        a = <<"[">> /\ q = Quoted(v.marks) /\ c = <<",">> /\ x = Quoted(<<"x">>) /\ b = <<"]">>
  <2>1. Quoted(v.marks) \in Chars /\ Quoted(<<"x">>) \in Chars
    BY QuotedIs, XName
  <2>2. <<"[">> \in Chars /\ <<",">> \in Chars /\ <<"]">> \in Chars
    BY Signs, OneChar
  <2> QED BY <2>1, <2>2
<1>3. GroupedSix(a, q, c, x, b, t)
  BY RegroupSix
<1>4. (((a \o q) \o c) \o x) \o b \in Chars
  BY JoinFive
<1> QED BY <1>1, <1>2, <1>3, <1>4 DEF GroupedSix

LEMMA TextOfObject ==
  ASSUME NEW v, v.kind = "object", v.marks \in Seq(MarkNames), NEW t \in Chars
  PROVE  /\ ValueText(v) \in Chars
         /\ ValueText(v) \o t = <<"{">> \o (Quoted(<<"x">>) \o (<<":">> \o (<<"[">> \o (Quoted(v.marks)
                                  \o (<<"]">> \o (<<"}">> \o t))))))
<1>1. ValueText(v) = (((<<"{">> \o Quoted(<<"x">>)) \o <<":", "[">>) \o Quoted(v.marks)) \o <<"]", "}">>
  BY DEF ValueText
<1>2. PICK a \in Chars, x \in Chars, c \in Chars, q \in Chars, b \in Chars :
        a = <<"{">> /\ x = Quoted(<<"x">>) /\ c = <<":", "[">> /\ q = Quoted(v.marks) /\ b = <<"]", "}">>
  <2>1. Quoted(v.marks) \in Chars /\ Quoted(<<"x">>) \in Chars
    BY QuotedIs, XName
  <2>2. <<"{">> \in Chars
    BY Signs, OneChar
  <2>3. <<":", "[">> \in Chars /\ <<"]", "}">> \in Chars
    BY Signs, Pair, NoChars
  <2> QED BY <2>1, <2>2, <2>3
<1>3. GroupedSix(a, x, c, q, b, t)
  BY RegroupSix
<1>4. (((a \o x) \o c) \o q) \o b \in Chars
  BY JoinFive
<1>5. PICK bt \in Chars : bt = b \o t
  BY JoinType
<1>6. bt = <<"]">> \o (<<"}">> \o t)
  <2>1. Paired("]", "}", t)
    BY Signs, Pair
  <2> QED BY <1>2, <1>5, <2>1 DEF Paired
<1>7. PICK qbt \in Chars : qbt = q \o bt
  BY JoinType
<1>8. c \o qbt = <<":">> \o (<<"[">> \o qbt)
  <2>1. Paired(":", "[", qbt)
    BY Signs, Pair
  <2> QED BY <1>2, <2>1 DEF Paired
<1> QED BY <1>1, <1>2, <1>3, <1>4, <1>5, <1>6, <1>7, <1>8 DEF GroupedSix

LEMMA ValueChars ==
  ASSUME NEW key \in Keys, NEW v \in Values[key]
  PROVE  ValueText(v) \in Chars /\ v.marks \in Seq(MarkNames)
<1>1. v.marks \in Seq(MarkNames) /\ v.kind \in {"string", "number", "null", "list", "object"}
  BY ValueOfText, ValueOfAction, ValueOfOther DEF Keys
<1>2. v.kind = "string" => ValueText(v) \in Chars
  BY <1>1, NoChars, TextOfString
<1>3. v.kind = "list" => ValueText(v) \in Chars
  BY <1>1, NoChars, TextOfList
<1>4. v.kind = "object" => ValueText(v) \in Chars
  BY <1>1, NoChars, TextOfObject
<1>5. v.kind \in {"number", "null"} => ValueText(v) \in Chars
  BY TextOfBare
<1> QED BY <1>1, <1>2, <1>3, <1>4, <1>5

-----------------------------------------------------------------------------
(* Fields.                                                                 *)

Gaps == {<<>>, <<" ">>}

LEMMA GapChars ==
  ASSUME NEW gap \in Gaps
  PROVE  gap \in Chars /\ \A j \in 1 .. Len(gap) : gap[j] \in {" "}
<1>1. CASE gap = <<>>
  BY <1>1, NoChars
<1>2. CASE gap = <<" ">>
  <2>1. gap \in Chars
    BY <1>2, Signs, OneChar
  <2>2. Len(gap) = 1 /\ gap[1] = " "
    BY <1>2
  <2>3. \A j \in 1 .. 1 : j = 1
    OBVIOUS
  <2> QED BY <2>1, <2>2, <2>3
<1> QED BY <1>1, <1>2 DEF Gaps

LEMMA Names ==
  ASSUME NEW key \in Keys
  PROVE  Name[key] \in Chars
<1>1. Name["s"] = <<"s">> /\ Name["a"] = <<"a">> /\ Name["o"] = <<"\\", "\"">>
  BY DEF Name
<1>2. <<"s">> \in Chars /\ <<"a">> \in Chars /\ <<"\\", "\"">> \in Chars
  BY Signs, OneChar, Pair, NoChars
<1> QED BY <1>1, <1>2 DEF Keys

\* What is known of field i.
IsField(i) ==
  /\ fields[i].key \in Keys /\ fields[i].value \in Values[fields[i].key]
  /\ fields[i].key = "a" => use \in {"conduct", "judge"}
  /\ fields[i].value.marks \in Seq(MarkNames) /\ ValueText(fields[i].value) \in Chars
  /\ \A j \in 1 .. Len(fields) : fields[i].key = fields[j].key => i = j

LEMMA FieldFacts ==
  ASSUME FieldsType
  PROVE  /\ Len(fields) \in Nat /\ DOMAIN fields = 1 .. Len(fields)
         /\ \A i \in 1 .. Len(fields) : IsField(i)
<1>1. Len(fields) \in Nat /\ DOMAIN fields = 1 .. Len(fields)
  BY DEF FieldsType
<1>2. ASSUME NEW i \in 1 .. Len(fields)  PROVE IsField(i)
  <2>1. PICK V : fields \in Seq([key : {"s", "a", "o"}, value : V])
    BY DEF FieldsType
  <2>2. fields[i].key \in Keys
    <3> DEFINE S == [key : {"s", "a", "o"}, value : V]
    <3>1. fields[i] \in S
      <4> HIDE DEF S
      <4>1. fields \in Seq(S)
        BY <2>1 DEF S
      <4> QED BY <4>1, ElementOfSeq
    <3> QED BY <3>1 DEF Keys
  <2>3. /\ fields[i].value \in Values[fields[i].key]
        /\ fields[i].key = "a" => use \in {"conduct", "judge"}
        /\ \A j \in 1 .. Len(fields) : fields[i].key = fields[j].key => i = j
    BY <1>1 DEF FieldsType
  <2> QED BY <2>2, <2>3, ValueChars DEF IsField
<1> QED BY <1>1, <1>2

Comma(i) == IF i = Len(fields) THEN <<>> ELSE <<",">>

LEMMA CommaChars == \A i : Comma(i) \in Chars
  BY Signs, NoChars, OneChar DEF Comma

LEMMA FieldTextIs ==
  ASSUME FieldsType, NEW gap \in Gaps, NEW i \in 1 .. Len(fields), NEW t \in Chars
  PROVE  /\ FieldText(gap, i) \in Chars
         /\ FieldText(gap, i) \o t =
              <<"\"">> \o (Name[fields[i].key] \o (<<"\"">> \o (<<":">> \o (gap
                \o (ValueText(fields[i].value) \o (Comma(i) \o (gap \o t)))))))
<1> DEFINE q == <<"\"">>  n == Name[fields[i].key]  qc == <<"\"", ":">>
           v == ValueText(fields[i].value)  m == Comma(i)
<1>1. FieldText(gap, i) = (((((q \o n) \o qc) \o gap) \o v) \o m) \o gap
  BY DEF FieldText, Comma
<1>2. IsField(i)
  BY FieldFacts
<1>3. q \in Chars /\ n \in Chars /\ qc \in Chars /\ v \in Chars /\ m \in Chars /\ gap \in Chars
  BY <1>2, Signs, OneChar, Pair, NoChars, Names, GapChars, CommaChars DEF IsField
<1>4. q = <<"\"">> /\ qc = <<"\"", ":">>
  OBVIOUS
<1> HIDE DEF q, n, qc, v, m
<1>5. PICK x \in Chars : x = (((q \o n) \o qc) \o gap) \o v
  BY <1>3, JoinFive
<1>6. x \o m \in Chars /\ (x \o m) \o gap \in Chars
  BY <1>3, <1>5, JoinType
<1>7. PICK gt \in Chars : gt = gap \o t
  BY <1>3, JoinType
<1>8. PICK mgt \in Chars : mgt = m \o gt
  BY <1>3, JoinType
<1>9. PICK vt \in Chars : vt = v \o mgt
  BY <1>3, JoinType
<1>10. PICK gvt \in Chars : gvt = gap \o vt
  BY <1>3, JoinType
<1>11. GroupedFour(x, m, gap, t) /\ GroupedSix(q, n, qc, gap, v, mgt)
  BY <1>3, RegroupFour, RegroupSix
<1>12. Paired("\"", ":", gvt)
  BY Signs, Pair
<1>13. ((x \o m) \o gap) \o t = x \o mgt
  BY <1>7, <1>8, <1>11 DEF GroupedFour
<1>14. x \o mgt = q \o (n \o (qc \o gvt))
  BY <1>5, <1>9, <1>10, <1>11 DEF GroupedSix
<1>15. qc \o gvt = <<"\"">> \o (<<":">> \o gvt)
  BY <1>4, <1>12 DEF Paired
<1> QED BY <1>1, <1>4, <1>5, <1>6, <1>7, <1>8, <1>9, <1>10, <1>13, <1>14, <1>15 DEF n, v, m

FieldTexts(gap) == [i \in DOMAIN fields |-> FieldText(gap, i)]

LEMMA FieldTextsType ==
  ASSUME FieldsType, NEW gap \in Gaps
  PROVE  /\ FieldTexts(gap) \in Seq(Chars) /\ Len(FieldTexts(gap)) = Len(fields)
         /\ \A i \in 1 .. Len(fields) : FieldTexts(gap)[i] = FieldText(gap, i)
<1>1. PICK n \in Nat : n = Len(fields) /\ DOMAIN fields = 1 .. n
  BY FieldFacts
<1>2. ASSUME NEW i \in 1 .. n  PROVE FieldText(gap, i) \in Chars
  BY <1>1, FieldTextIs, NoChars
<1> QED BY <1>1, <1>2 DEF FieldTexts

LEMMA FieldsFrom ==
  ASSUME FieldsType, NEW gap \in Gaps, NEW i \in 0 .. Len(fields)
  PROVE  /\ FieldsAfter(gap, i) = FlattenSeq(From(FieldTexts(gap), i)) \o (<<"}">> \o gap)
         /\ FlattenSeq(From(FieldTexts(gap), i)) \in Chars /\ <<"}">> \o gap \in Chars
<1>0. Len(fields) \in Nat
  BY FieldFacts
<1>1. ASSUME NEW j \in 1 .. Len(fields) - i  PROVE FieldTexts(gap)[i + j] = FieldText(gap, i + j)
  <2>1. i + j \in 1 .. Len(fields)
    BY <1>0
  <2> QED BY <2>1, FieldTextsType
<1>2. [j \in 1 .. Len(fields) - i |-> FieldText(gap, i + j)] = From(FieldTexts(gap), i)
  BY <1>1, FieldTextsType DEF From
<1>3. FieldsAfter(gap, i) = FlattenSeq(From(FieldTexts(gap), i)) \o (<<"}">> \o gap)
  BY <1>2 DEF FieldsAfter
<1>4. FlattenSeq(From(FieldTexts(gap), i)) \in Chars
  BY FieldTextsType, FlattenFrom
<1>5. <<"}">> \o gap \in Chars
  BY Signs, GapChars, InFront
<1> QED BY <1>3, <1>4, <1>5

LEMMA FieldsEnd ==
  ASSUME FieldsType, NEW gap \in Gaps
  PROVE  FieldsAfter(gap, Len(fields)) = <<"}">> \o gap /\ <<"}">> \o gap \in Chars
<1>1. FlattenSeq(From(FieldTexts(gap), Len(fields))) = <<>>
  BY FieldTextsType, FlattenFrom
<1>2. Len(fields) \in 0 .. Len(fields)
  BY FieldFacts
<1>3. PICK t \in Chars : t = <<"}">> \o gap /\ FieldsAfter(gap, Len(fields)) = <<>> \o t
  BY <1>1, <1>2, FieldsFrom
<1> QED BY <1>3, NoChars, Joined

LEMMA TextTypes ==
  ASSUME FieldsType, NEW gap \in Gaps
  PROVE  /\ \A i \in 0 .. Len(fields) : FieldsAfter(gap, i) \in Chars
         /\ \A i \in 1 .. Len(fields) :
              gap \o FieldsAfter(gap, i) \in Chars /\ ValueAfter(gap, i) \in Chars /\ KeyAfter(gap, i) \in Chars
<1>1. ASSUME NEW i \in 0 .. Len(fields)  PROVE FieldsAfter(gap, i) \in Chars
  BY FieldsFrom, JoinType
<1>2. ASSUME NEW i \in 1 .. Len(fields)
      PROVE  gap \o FieldsAfter(gap, i) \in Chars /\ ValueAfter(gap, i) \in Chars /\ KeyAfter(gap, i) \in Chars
  <2>1. i \in 0 .. Len(fields) /\ gap \in Chars /\ ValueText(fields[i].value) \in Chars
    <3>1. PICK n \in Nat : n = Len(fields) /\ IsField(i)
      BY FieldFacts
    <3>2. i \in 0 .. Len(fields)
      BY <3>1
    <3> QED BY <3>1, <3>2, GapChars DEF IsField
  <2>2. PICK gf \in Chars : gf = gap \o FieldsAfter(gap, i)
    BY <1>1, <2>1, JoinType
  <2>3. PICK va \in Chars : va = ValueAfter(gap, i)
    <3>1. Comma(i) \o gf \in Chars
      BY CommaChars, JoinType
    <3> QED BY <2>2, <3>1 DEF ValueAfter, Comma
  <2>4. PICK vt \in Chars : vt = ValueText(fields[i].value) \o va
    BY <2>1, JoinType
  <2>5. PICK gvt \in Chars : gvt = gap \o vt
    BY <2>1, JoinType
  <2>6. <<":">> \o gvt \in Chars
    BY Signs, InFront
  <2>7. KeyAfter(gap, i) = <<":">> \o gvt
    BY <2>3, <2>4, <2>5 DEF KeyAfter
  <2> QED BY <2>2, <2>3, <2>6, <2>7
<1> QED BY <1>1, <1>2

\* The next field begins with its key.
LEMMA FieldsNext ==
  ASSUME FieldsType, NEW gap \in Gaps, NEW i \in 0 .. Len(fields) - 1
  PROVE  FieldsAfter(gap, i) =
           <<"\"">> \o (Name[fields[i + 1].key] \o (<<"\"">> \o KeyAfter(gap, i + 1)))
<1>0. Len(fields) \in Nat
  BY FieldFacts
<1>1. i \in 0 .. Len(fields) /\ i + 1 \in 0 .. Len(fields) /\ i + 1 \in 1 .. Len(fields)
  BY <1>0
<1>2. PICK a \in Chars, b \in Chars, c \in Chars :
        /\ a = FieldText(gap, i + 1) /\ b = FlattenSeq(From(FieldTexts(gap), i + 1))
        /\ c = <<"}">> \o gap
  <2>1. FieldText(gap, i + 1) \in Chars
    BY <1>1, FieldTextIs, NoChars
  <2> QED BY <1>1, <2>1, FieldsFrom
<1>3. FlattenSeq(From(FieldTexts(gap), i)) = a \o b
  <2>1. i \in 0 .. Len(FieldTexts(gap)) - 1
    BY FieldTextsType
  <2>2. FlattenSeq(From(FieldTexts(gap), i)) = FieldTexts(gap)[i + 1] \o b
    BY <1>2, <2>1, FieldTextsType, FlattenFrom
  <2> QED BY <1>1, <1>2, <2>2, FieldTextsType
<1>4. FieldsAfter(gap, i) = (a \o b) \o c /\ FieldsAfter(gap, i + 1) = b \o c
  BY <1>1, <1>2, <1>3, FieldsFrom
<1>5. Grouped(a, b, c)
  BY Regroup
<1>6. FieldsAfter(gap, i) = FieldText(gap, i + 1) \o FieldsAfter(gap, i + 1)
  BY <1>2, <1>4, <1>5 DEF Grouped
<1>7. FieldText(gap, i + 1) \o FieldsAfter(gap, i + 1) =
        <<"\"">> \o (Name[fields[i + 1].key] \o (<<"\"">> \o (<<":">> \o (gap
          \o (ValueText(fields[i + 1].value) \o (Comma(i + 1) \o (gap \o FieldsAfter(gap, i + 1))))))))
  <2>1. FieldsAfter(gap, i + 1) \in Chars
    BY <1>1, TextTypes
  <2> QED BY <1>1, <2>1, FieldTextIs
<1> QED BY <1>6, <1>7 DEF KeyAfter, ValueAfter, Comma

\* After a value comes a comma, or the closing brace.
LEMMA ValueEnd ==
  ASSUME FieldsType, NEW gap \in Gaps, NEW i \in 1 .. Len(fields)
  PROVE  /\ i < Len(fields) => ValueAfter(gap, i) = <<",">> \o (gap \o FieldsAfter(gap, i))
         /\ i = Len(fields) => ValueAfter(gap, i) = gap \o (<<"}">> \o gap)
<1>1. i < Len(fields) => ValueAfter(gap, i) = <<",">> \o (gap \o FieldsAfter(gap, i))
  <2>1. i < Len(fields) => i # Len(fields)
    <3>1. PICK n \in Nat : n = Len(fields)
      BY FieldFacts
    <3> QED BY <3>1
  <2> QED BY <2>1 DEF ValueAfter
<1>2. ASSUME i = Len(fields)  PROVE ValueAfter(gap, i) = gap \o (<<"}">> \o gap)
  <2>1. PICK t \in Chars : t = gap \o FieldsAfter(gap, i)
    BY TextTypes
  <2>2. <<>> \o t = t
    BY NoChars, Joined
  <2> QED BY <1>2, <2>1, <2>2, FieldsEnd DEF ValueAfter
<1> QED BY <1>1, <1>2

LEMMA ReplyTextIs ==
  ASSUME FieldsType, NEW gap \in Gaps
  PROVE  ReplyText(gap) = gap \o (<<"{">> \o FieldsAfter(gap, 0)) /\ ReplyText(gap) \in Chars
<1> DEFINE f == FlattenSeq(FieldTexts(gap))
<1>1. ReplyText(gap) = (((gap \o <<"{">>) \o f) \o <<"}">>) \o gap
  BY DEF ReplyText, FieldTexts
<1>2. f \in Chars /\ gap \in Chars /\ <<"{">> \in Chars /\ <<"}">> \in Chars
  BY FieldTextsType, FlattenFrom, GapChars, Signs, OneChar
<1>3. FieldsAfter(gap, 0) = f \o (<<"}">> \o gap)
  <2>1. 0 \in 0 .. Len(fields)
    BY FieldFacts
  <2>2. From(FieldTexts(gap), 0) = FieldTexts(gap)
    BY FieldTextsType, FlattenFrom
  <2> QED BY <2>1, <2>2, FieldsFrom
<1> HIDE DEF f
<1>4. GroupedFive(gap, <<"{">>, f, <<"}">>, gap)
  BY <1>2, RegroupFive
<1>5. (((gap \o <<"{">>) \o f) \o <<"}">>) \o gap \in Chars
  BY <1>2, JoinFive
<1> QED BY <1>1, <1>3, <1>4, <1>5 DEF GroupedFive

-----------------------------------------------------------------------------
(* One character, at each place the parser may stand.                      *)

At(p, state, key, escaped, left, depth, scalar) ==
  /\ p \in ParserType
  /\ p.state = state /\ p.key = key /\ p.escaped = escaped
  /\ p.left = left /\ p.depth = depth /\ p.scalar = scalar

LEMMA Numbers ==
  /\ 0 \in 0 .. 4 /\ 4 \in 0 .. 4 /\ 0 \in Int /\ 1 \in Int /\ 2 \in Int /\ -1 \in Int /\ 1 + 1 = 2
  /\ TRUE \in BOOLEAN /\ FALSE \in BOOLEAN
  OBVIOUS

LEMMA EnterIs ==
  ASSUME NEW p \in ParserType,
         NEW state \in {"object", "key", "after key", "before value", "skip", "scalar", "string", "finished"}
  PROVE  At(Enter(p, state), state, p.key, p.escaped, p.left, p.depth, p.scalar)
  BY DEF ParserType, Enter, At

LEMMA DepthIs ==
  ASSUME NEW p \in ParserType, NEW depth \in Int
  PROVE  At([p EXCEPT !.depth = depth], p.state, p.key, p.escaped, p.left, depth, p.scalar)
  BY DEF ParserType, At

LEMMA EscapedIs ==
  ASSUME NEW p \in ParserType, NEW escaped \in BOOLEAN
  PROVE  At([p EXCEPT !.escaped = escaped], p.state, p.key, escaped, p.left, p.depth, p.scalar)
  BY DEF ParserType, At

LEMMA DepthEscapedIs ==
  ASSUME NEW p \in ParserType, NEW depth \in Int, NEW escaped \in BOOLEAN
  PROVE  At([p EXCEPT !.depth = depth, !.escaped = escaped], p.state, p.key, escaped, p.left, depth, p.scalar)
  BY DEF ParserType, At

LEMMA StringIs ==
  ASSUME NEW p \in ParserType, NEW left \in 0 .. 4, NEW escaped \in BOOLEAN
  PROVE  At([Enter(p, "string") EXCEPT !.escaped = escaped, !.left = left],
            "string", p.key, escaped, left, p.depth, p.scalar)
  BY DEF ParserType, Enter, At

LEMMA OutIs ==
  ASSUME NEW p \in ParserType, NEW depth \in Int
  PROVE  At([Enter(p, "object") EXCEPT !.depth = depth], "object", p.key, p.escaped, p.left, depth, p.scalar)
  BY DEF ParserType, Enter, At

LEMMA SkipIs ==
  ASSUME NEW p \in ParserType, NEW depth \in Int
  PROVE  At([Enter(p, "skip") EXCEPT !.depth = depth], "skip", p.key, p.escaped, p.left, depth, p.scalar)
  BY DEF ParserType, Enter, At

\* Whitespace, then the opening brace.
LEMMA StepBeforeObject ==
  ASSUME FieldsType, NEW gap \in Gaps, NEW p \in ParserType, NEW r \in Chars, r # <<>>,
         p.state = "pre", BetweenFieldsAt(p, r, gap, 0)
  PROVE  /\ BeforeObject(p, Head(r)) \in ParserType
         /\ BetweenFieldsAt(BeforeObject(p, Head(r)), Tail(r), gap, 0)
<1>1. PICK t \in Chars : t = FieldsAfter(gap, 0)
  <2>1. 0 \in 0 .. Len(fields)
    BY FieldFacts
  <2> QED BY <2>1, TextTypes
<1>2. Within(r, {" "}, <<"{">> \o t) /\ Level(p)
  BY <1>1 DEF BetweenFieldsAt
<1>3. \/ Head(r) = "{" /\ Tail(r) = t
      \/ Head(r) \in {" "} /\ Within(Tail(r), {" "}, <<"{">> \o t)
  <2>1. "{" \in Char /\ "{" \notin {" "}
    BY Signs
  <2> QED BY <1>2, <2>1, WithinThen
<1>4. CASE Head(r) = "{" /\ Tail(r) = t
  <2>1. BeforeObject(p, Head(r)) = Enter(p, "object")
    BY <1>4 DEF BeforeObject
  <2>2. At(Enter(p, "object"), "object", p.key, p.escaped, p.left, p.depth, p.scalar)
    BY EnterIs
  <2>3. Within(t, {" ", ","}, t)
    BY WithinHere
  <2> QED BY <1>1, <1>2, <1>4, <2>1, <2>2, <2>3 DEF At, BetweenFieldsAt, Level
<1>5. CASE Head(r) \in {" "} /\ Within(Tail(r), {" "}, <<"{">> \o t)
  <2>1. BeforeObject(p, Head(r)) = p
    BY <1>5 DEF BeforeObject
  <2> QED BY <1>1, <1>2, <1>5, <2>1 DEF BetweenFieldsAt
<1> QED BY <1>3, <1>4, <1>5

\* Between two fields, or before the closing brace.
LEMMA StepBetween ==
  ASSUME FieldsType, NEW gap \in Gaps, NEW i \in 0 .. Len(fields), NEW p \in ParserType,
         NEW r \in Chars, r # <<>>, p.state = "object", BetweenFieldsAt(p, r, gap, i)
  PROVE  /\ BetweenFields(p, Head(r)) \in ParserType
         /\ \/ BetweenFieldsAt(BetweenFields(p, Head(r)), Tail(r), gap, i)
            \/ i + 1 \in 1 .. Len(fields) /\ InKeyAt(BetweenFields(p, Head(r)), Tail(r), gap, i + 1)
<1>0. PICK n \in Nat : n = Len(fields)
  BY FieldFacts
<1>1. PICK f \in Chars : f = FieldsAfter(gap, i)
  BY TextTypes
<1>2. Within(r, {" ", ","}, f) /\ Level(p)
  BY <1>1 DEF BetweenFieldsAt
<1>3. ASSUME Head(r) \in {" ", ","}, Within(Tail(r), {" ", ","}, f)
      PROVE  /\ BetweenFields(p, Head(r)) \in ParserType
             /\ BetweenFieldsAt(BetweenFields(p, Head(r)), Tail(r), gap, i)
  <2>1. BetweenFields(p, Head(r)) = p
    BY <1>3 DEF BetweenFields
  <2> QED BY <1>1, <1>2, <1>3, <2>1 DEF BetweenFieldsAt
<1>4. CASE i = n
  <2>1. f = <<"}">> \o gap /\ gap \in Chars
    BY <1>0, <1>1, <1>4, FieldsEnd, GapChars
  <2>2. \/ Head(r) = "}" /\ Tail(r) = gap
        \/ Head(r) \in {" ", ","} /\ Within(Tail(r), {" ", ","}, f)
    <3>1. "}" \in Char /\ "}" \notin {" ", ","}
      BY Signs
    <3> QED BY <1>2, <2>1, <3>1, WithinThen
  <2>3. CASE Head(r) = "}" /\ Tail(r) = gap
    <3>1. BetweenFields(p, Head(r)) = Enter(p, "finished")
      BY <2>3 DEF BetweenFields
    <3>2. At(Enter(p, "finished"), "finished", p.key, p.escaped, p.left, p.depth, p.scalar)
      BY EnterIs
    <3>3. Within(gap, {" "}, <<>>)
      <4>1. Within(<<>>, {" "}, <<>>)
        BY NoChars, WithinHere
      <4>2. Within(gap \o <<>>, {" "}, <<>>)
        BY <4>1, NoChars, GapChars, WithinMore
      <4>3. gap \o <<>> = gap
        BY GapChars, NoChars, Joined
      <4> QED BY <4>2, <4>3
    <3> QED BY <1>0, <1>2, <1>4, <2>3, <3>1, <3>2, <3>3 DEF At, BetweenFieldsAt, Level
  <2> QED BY <1>3, <2>2, <2>3
<1>5. CASE i # n
  <2>1. i \in 0 .. Len(fields) - 1 /\ i + 1 \in 1 .. Len(fields)
    BY <1>0, <1>5
  <2>2. PICK t \in Chars : t = Name[fields[i + 1].key] \o (<<"\"">> \o KeyAfter(gap, i + 1))
    <3>1. KeyAfter(gap, i + 1) \in Chars /\ IsField(i + 1)
      BY <2>1, TextTypes, FieldFacts
    <3>2. <<"\"">> \o KeyAfter(gap, i + 1) \in Chars /\ Name[fields[i + 1].key] \in Chars
      BY <3>1, Signs, InFront, Names DEF IsField
    <3> QED BY <3>2, JoinType
  <2>3. f = <<"\"">> \o t
    BY <1>1, <2>1, <2>2, FieldsNext
  <2>4. \/ Head(r) = "\"" /\ Tail(r) = t
        \/ Head(r) \in {" ", ","} /\ Within(Tail(r), {" ", ","}, f)
    <3>1. "\"" \in Char /\ "\"" \notin {" ", ","}
      BY Signs
    <3> QED BY <1>2, <2>3, <3>1, WithinThen
  <2>5. CASE Head(r) = "\"" /\ Tail(r) = t
    <3> DEFINE q == [Enter(p, "key") EXCEPT !.key = <<>>, !.escaped = FALSE]
    <3>1. BetweenFields(p, Head(r)) = q
      BY <2>5 DEF BetweenFields
    <3>2. At(q, "key", <<>>, FALSE, p.left, p.depth, p.scalar)
      BY EmptySeq DEF ParserType, Enter, At
    <3> HIDE DEF q
    <3>3. InKeyAt(q, Tail(r), gap, i + 1)
      BY <1>2, <2>2, <2>5, <3>2 DEF At, InKeyAt, Level
    <3> QED BY <2>1, <3>1, <3>2, <3>3 DEF At
  <2> QED BY <1>3, <2>4, <2>5
<1> QED BY <1>4, <1>5

\* Only whitespace follows the closing brace.
LEMMA StepFinished ==
  ASSUME NEW gap \in Gaps, NEW i \in 0 .. Len(fields), NEW p \in ParserType,
         NEW r \in Chars, r # <<>>, p.state = "finished", BetweenFieldsAt(p, r, gap, i)
  PROVE  BetweenFieldsAt(p, Tail(r), gap, i)
<1>1. Within(r, {" "}, <<>>)
  BY DEF BetweenFieldsAt
<1>2. Within(Tail(r), {" "}, <<>>)
  BY <1>1, NoChars, WithinStep
<1> QED BY <1>2 DEF BetweenFieldsAt

\* In a key, its escape included.
LEMMA StepInKey ==
  ASSUME FieldsType, NEW gap \in Gaps, NEW i \in 1 .. Len(fields), NEW p \in ParserType,
         NEW r \in Chars, InKeyAt(p, r, gap, i)
  PROVE  /\ InKey(p, Head(r)) \in ParserType
         /\ \/ InKeyAt(InKey(p, Head(r)), Tail(r), gap, i)
            \/ BeforeValueAt(InKey(p, Head(r)), Tail(r), gap, i)
<1>1. PICK u \in Chars : u = KeyAfter(gap, i)
  BY TextTypes
<1>2. PICK t \in Chars : t = <<"\"">> \o u /\ Head(t) = "\"" /\ Tail(t) = u
  BY Signs, InFront
<1>3. PICK name \in Keys : name = fields[i].key
  BY FieldFacts DEF IsField
<1>4. /\ Name["s"] = <<"s">> /\ Name["a"] = <<"a">> /\ Name["o"] = <<"\\", "\"">>
      /\ KeyName["s"] = <<"s">> /\ KeyName["a"] = <<"a">> /\ KeyName["o"] = <<"\"">>
  BY DEF Name, KeyName
<1>5. /\ p.state = "key" /\ p.left = 0 /\ p.depth = 0 /\ p.escaped \in BOOLEAN
      /\ \/ p.key = <<>> /\ ~p.escaped /\ r = Name[name] \o t
         \/ p.key = <<>> /\ p.escaped /\ name = "o" /\ r = <<"\"">> \o t
         \/ p.key = KeyName[name] /\ ~p.escaped /\ r = t
  BY <1>1, <1>2, <1>3 DEF InKeyAt, ParserType
<1>6. ASSUME p.key = <<>>, ~p.escaped, NEW c \in {"s", "a"}, r = <<c>> \o t, name = c
      PROVE  InKey(p, Head(r)) \in ParserType /\ InKeyAt(InKey(p, Head(r)), Tail(r), gap, i)
  <2>1. c \in Char
    BY Signs
  <2>2. Head(r) = c /\ Tail(r) = t
    BY <1>6, <2>1, InFront
  <2> DEFINE q == [p EXCEPT !.key = Append(@, c)]
  <2>3. InKey(p, Head(r)) = q
    BY <1>6, <2>2 DEF InKey
  <2>4. Append(p.key, c) = <<c>> /\ <<c>> \in Seq(Char)
    BY <1>6, <2>1, OneChar
  <2>5. At(q, "key", <<c>>, p.escaped, p.left, p.depth, p.scalar)
    BY <1>5, <2>4 DEF ParserType, At
  <2> HIDE DEF q
  <2>6. KeyName[name] = <<c>>
    BY <1>4, <1>6
  <2> QED BY <1>1, <1>2, <1>3, <1>5, <1>6, <2>2, <2>3, <2>5, <2>6 DEF InKeyAt, At
<1>7. ASSUME p.key = <<>>, ~p.escaped, name = "o", r = <<"\\", "\"">> \o t
      PROVE  InKey(p, Head(r)) \in ParserType /\ InKeyAt(InKey(p, Head(r)), Tail(r), gap, i)
  <2>1. PICK w \in Chars : w = <<"\"">> \o t
    BY Signs, InFront
  <2>2. r = <<"\\">> \o w
    <3>1. Paired("\\", "\"", t)
      BY Signs, Pair
    <3> QED BY <1>7, <2>1, <3>1 DEF Paired
  <2>3. Head(r) = "\\" /\ Tail(r) = w
    BY <2>2, Signs, InFront
  <2> DEFINE q == [p EXCEPT !.escaped = TRUE]
  <2>4. InKey(p, Head(r)) = q
    BY <1>7, <2>3 DEF InKey
  <2>5. At(q, "key", <<>>, TRUE, p.left, p.depth, p.scalar)
    BY <1>5, <1>7 DEF ParserType, At
  <2> HIDE DEF q
  <2> QED BY <1>1, <1>2, <1>3, <1>5, <1>7, <2>1, <2>3, <2>4, <2>5 DEF InKeyAt, At
<1>8. ASSUME p.key = <<>>, p.escaped, name = "o", r = <<"\"">> \o t
      PROVE  InKey(p, Head(r)) \in ParserType /\ InKeyAt(InKey(p, Head(r)), Tail(r), gap, i)
  <2>1. Head(r) = "\"" /\ Tail(r) = t
    BY <1>8, Signs, InFront
  <2> DEFINE q == [p EXCEPT !.key = Append(@, "\""), !.escaped = FALSE]
  <2>2. InKey(p, Head(r)) = q
    BY <1>8, <2>1 DEF InKey
  <2>3. Append(p.key, "\"") = <<"\"">> /\ <<"\"">> \in Seq(Char)
    BY <1>8, Signs, OneChar
  <2>4. At(q, "key", <<"\"">>, FALSE, p.left, p.depth, p.scalar)
    BY <1>5, <2>3 DEF ParserType, At
  <2> HIDE DEF q
  <2>5. KeyName[name] = <<"\"">>
    BY <1>4, <1>8
  <2> QED BY <1>1, <1>2, <1>3, <1>5, <1>8, <2>1, <2>2, <2>4, <2>5 DEF InKeyAt, At
<1>9. ASSUME p.key = KeyName[name], ~p.escaped, r = t
      PROVE  InKey(p, Head(r)) \in ParserType /\ BeforeValueAt(InKey(p, Head(r)), Tail(r), gap, i)
  <2>1. InKey(p, Head(r)) = Enter(p, "after key")
    BY <1>2, <1>9 DEF InKey
  <2>2. At(Enter(p, "after key"), "after key", p.key, p.escaped, p.left, p.depth, p.scalar)
    BY EnterIs
  <2> QED BY <1>1, <1>2, <1>3, <1>5, <1>9, <2>1, <2>2 DEF BeforeValueAt, At, Level
<1>10. Name[name] \in {<<"s">>, <<"a">>, <<"\\", "\"">>}
  BY <1>4 DEF Keys
<1>11. CASE p.key = <<>> /\ ~p.escaped /\ r = Name[name] \o t
  <2>1. name = "s" => r = <<"s">> \o t
    BY <1>4, <1>11
  <2>2. name = "a" => r = <<"a">> \o t
    BY <1>4, <1>11
  <2>3. name = "o" => r = <<"\\", "\"">> \o t
    BY <1>4, <1>11
  <2> QED BY <1>6, <1>7, <1>11, <2>1, <2>2, <2>3 DEF Keys
<1> QED BY <1>5, <1>8, <1>9, <1>11

\* The colon.
LEMMA StepAfterKey ==
  ASSUME FieldsType, NEW gap \in Gaps, NEW i \in 1 .. Len(fields), NEW p \in ParserType,
         NEW r \in Chars, p.state = "after key", BeforeValueAt(p, r, gap, i)
  PROVE  /\ AfterKey(p, Head(r)) \in ParserType
         /\ BeforeValueAt(AfterKey(p, Head(r)), Tail(r), gap, i)
<1>1. PICK vt \in Chars : vt = ValueText(fields[i].value) \o ValueAfter(gap, i)
  <2>1. IsField(i) /\ ValueAfter(gap, i) \in Chars
    BY FieldFacts, TextTypes
  <2> QED BY <2>1, JoinType DEF IsField
<1>2. PICK gvt \in Chars : gvt = gap \o vt
  BY GapChars, JoinType
<1>3. Level(p) /\ p.key = KeyName[fields[i].key] /\ r = <<":">> \o gvt
  BY <1>1, <1>2 DEF BeforeValueAt, KeyAfter
<1>4. Head(r) = ":" /\ Tail(r) = gvt
  BY <1>3, Signs, InFront
<1>5. AfterKey(p, Head(r)) = Enter(p, "before value")
  BY <1>4 DEF AfterKey
<1>6. At(Enter(p, "before value"), "before value", p.key, p.escaped, p.left, p.depth, p.scalar)
  BY EnterIs
<1>7. Within(gvt, {" "}, vt)
  <2>1. Within(vt, {" "}, vt)
    BY WithinHere
  <2> QED BY <1>2, <2>1, GapChars, WithinMore
<1> QED BY <1>1, <1>3, <1>4, <1>5, <1>6, <1>7 DEF BeforeValueAt, At, Level

-----------------------------------------------------------------------------
(* What the caller is told, field by field.                                *)

LEMMA ParsedIs ==
  ASSUME FieldsType, NEW i \in 1 .. Len(fields)
  PROVE  Parsed(fields[i].key) = fields[i].value
<1> DEFINE at == {j \in DOMAIN fields : fields[j].key = fields[i].key}
<1>1. i \in at
  BY FieldFacts
<1>2. ASSUME NEW j \in at  PROVE j = i
  BY FieldFacts DEF IsField
<1> HIDE DEF at
<1>3. (CHOOSE j \in at : TRUE) = i /\ at # {}
  BY <1>1, <1>2
<1>4. Parsed(fields[i].key) = IF at = {} THEN Bare("null") ELSE fields[CHOOSE j \in at : TRUE].value
  BY DEF Parsed, at
<1> QED BY <1>3, <1>4

ToldBefore(i) ==
  /\ fields[i].key # "s" => TextBy(i) = TextBy(i - 1)
  /\ fields[i].key = "s" => TextBy(i - 1) = <<>> /\ TextBy(i) = Text
  /\ fields[i].key # "a" => ScalarBy(i) = ScalarBy(i - 1)
  /\ fields[i].key = "a" => ScalarBy(i - 1) = "none" /\ ScalarBy(i) = Understood(Parsed("a"))

LEMMA ToldStep ==
  ASSUME FieldsType, NEW i \in 1 .. Len(fields)
  PROVE  ToldBefore(i)
<1>0. PICK n \in Nat : n = Len(fields)
  BY FieldFacts
<1>1. \A j \in 1 .. i - 1 : j \in 1 .. i /\ j \in 1 .. n /\ j # i
  BY <1>0
<1>2. \A j \in 1 .. i : j = i \/ j \in 1 .. i - 1
  BY <1>0
<1>3. i \in 1 .. i
  BY <1>0
<1>4. \A j \in 1 .. n : fields[j].key = fields[i].key => j = i
  BY <1>0, FieldFacts DEF IsField
<1>5. fields[i].key # "s" => ((\E j \in 1 .. i : fields[j].key = "s") <=> \E j \in 1 .. i - 1 : fields[j].key = "s")
  BY <1>1, <1>2
<1>6. fields[i].key # "a" => ((\E j \in 1 .. i : fields[j].key = "a") <=> \E j \in 1 .. i - 1 : fields[j].key = "a")
  BY <1>1, <1>2
<1>7. fields[i].key = "s" => (\E j \in 1 .. i : fields[j].key = "s") /\ ~ \E j \in 1 .. i - 1 : fields[j].key = "s"
  BY <1>1, <1>3, <1>4
<1>8. fields[i].key = "a" => (\E j \in 1 .. i : fields[j].key = "a") /\ ~ \E j \in 1 .. i - 1 : fields[j].key = "a"
  BY <1>1, <1>3, <1>4
<1> QED BY <1>5, <1>6, <1>7, <1>8 DEF ToldBefore, TextBy, ScalarBy

LEMMA TextIs ==
  ASSUME FieldsType, NEW i \in 1 .. Len(fields), fields[i].key = "s"
  PROVE  Text = IF fields[i].value.kind = "string" THEN Decoded(fields[i].value.marks) ELSE <<>>
<1>1. Parsed("s") = fields[i].value
  BY ParsedIs
<1> QED BY <1>1 DEF Text, IsText

-----------------------------------------------------------------------------
(* Strings without brackets.                                               *)

LEMMA OneMark ==
  ASSUME NEW m
  PROVE  m \in ToSet(<<m>>)
<1>1. DOMAIN <<m>> = 1 .. 1 /\ <<m>>[1] = m /\ 1 \in 1 .. 1
  OBVIOUS
<1> QED BY <1>1 DEF ToSet

LEMMA FlatChars ==
  ASSUME NEW w \in Seq(Flat)
  PROVE  w \in Chars /\ \A j \in 1 .. Len(w) : w[j] \in Flat
<1>1. Flat \subseteq Char
  BY DEF Flat
<1>2. w \in Seq(Char)
  BY <1>1, SeqMonotonic
<1> QED BY <1>2, ElementOfSeq DEF Chars

LEMMA FlatSigns ==
  /\ "\"" \in Flat /\ "\\" \in Flat /\ "," \in Flat /\ " " \in Flat /\ ":" \in Flat /\ "x" \in Flat
  /\ "v" \in Flat /\ "g" \in Flat /\ "n" \in Flat /\ "u" \in Flat /\ "h" \in Flat
  BY DEF Flat, Char, Plain

LEMMA MarkFlat ==
  ASSUME NEW m \in MarkNames, m \notin {"open", "close"}
  PROVE  MarkText[m] \in Seq(Flat)
<1>1. MarkText["x"] = <<"x">> /\ MarkText["advance"] = <<"v">> /\ MarkText["nudge"] = <<"g">>
  BY DEF MarkText
<1>2. MarkText["comma"] = <<",">> /\ MarkText["blank"] = <<" ">>
  BY DEF MarkText
<1>3. MarkText["newline"] = <<"\\", "n">> /\ MarkText["quote"] = <<"\\", "\"">> /\ MarkText["backslash"] = <<"\\", "\\">>
  BY DEF MarkText
<1>4. MarkText["letter"] = <<"\\", "u", "h", "h", "h", "h">>
  BY DEF MarkText
<1>5. \A c \in Flat, d \in Flat : <<c>> \in Seq(Flat) /\ <<c, d>> \in Seq(Flat)
  OBVIOUS
<1>6. \A c \in Flat, d \in Flat, e \in Flat : <<c, d, e, e, e, e>> \in Seq(Flat)
  OBVIOUS
<1>7. MarkText["letter"] \in Seq(Flat)
  BY <1>4, <1>6, FlatSigns
<1>8. MarkText["newline"] \in Seq(Flat) /\ MarkText["quote"] \in Seq(Flat) /\ MarkText["backslash"] \in Seq(Flat)
  BY <1>3, <1>5, FlatSigns
<1>9. /\ MarkText["x"] \in Seq(Flat) /\ MarkText["advance"] \in Seq(Flat) /\ MarkText["nudge"] \in Seq(Flat)
      /\ MarkText["comma"] \in Seq(Flat) /\ MarkText["blank"] \in Seq(Flat)
  BY <1>1, <1>2, <1>5, FlatSigns
<1> QED BY <1>7, <1>8, <1>9 DEF MarkNames

LEMMA QuotedOne ==
  ASSUME NEW m \in MarkNames
  PROVE  Quoted(<<m>>) = (<<"\"">> \o MarkText[m]) \o <<"\"">> /\ <<m>> \in Seq(MarkNames)
<1> DEFINE marks == <<m>>
<1>1. marks \in Seq(MarkNames) /\ Len(marks) = 1 /\ marks[1] = m
  OBVIOUS
<1> HIDE DEF marks
<1>2. Len(Texts(marks)) = 1 /\ Texts(marks) \in Seq(Chars) /\ Texts(marks)[1] = MarkText[m]
  <2>1. 1 \in 1 .. Len(marks)
    BY <1>1
  <2> QED BY <1>1, <2>1, TextsType
<1>3. FlattenSeq(Texts(marks)) = MarkText[m]
  BY <1>2, FlattenOne
<1>4. Quoted(marks) = (<<"\"">> \o FlattenSeq(Texts(marks))) \o <<"\"">>
  BY DEF Quoted, Texts
<1> QED BY <1>1, <1>3, <1>4 DEF marks

LEMMA QuotedFlat ==
  ASSUME NEW m \in MarkNames, m \notin {"open", "close"}
  PROVE  Quoted(<<m>>) \in Seq(Flat)
<1>1. PICK q \in Seq(Flat), w \in Seq(Flat) : q = <<"\"">> /\ w = MarkText[m]
  <2>1. \A c \in Flat : <<c>> \in Seq(Flat)
    OBVIOUS
  <2> QED BY <2>1, MarkFlat, FlatSigns
<1>2. q \o w \in Seq(Flat)
  BY ConcatProperties
<1>3. (q \o w) \o q \in Seq(Flat)
  BY <1>2, ConcatProperties
<1> QED BY <1>1, <1>3, QuotedOne

LEMMA FlatInFront ==
  ASSUME NEW w \in Seq(Flat), NEW r \in Chars, NEW t \in Chars, Within(r, Flat, t)
  PROVE  Within(w \o r, Flat, t) /\ w \o r \in Chars
  BY FlatChars, WithinMore, JoinType

-----------------------------------------------------------------------------
(* At the beginning of a value.                                            *)

\* The value of field i is to be passed over.
Skipped(i) ==
  /\ fields[i].key # "a" /\ (fields[i].key = "s" => fields[i].value.kind # "string")
  /\ Unbracketed(fields[i].value)

\* A list has a bracket, then characters that are none up to the closing one.
LEMMA ListText ==
  ASSUME NEW v \in Values["o"], v.kind = "list", Unbracketed(v), NEW t \in Chars
  PROVE  \E u \in Chars : ValueText(v) \o t = <<"[">> \o u /\ Within(u, Flat, <<"]">> \o t)
<1>1. PICK m \in ListMarks : v.marks = <<m>>
  BY ValueOfOther
<1>2. m \in MarkNames /\ m \notin {"open", "close"} /\ v.marks \in Seq(MarkNames)
  BY <1>1, OneMark, ValueOfOther, MarkDomain DEF Unbracketed
<1>3. PICK q \in Seq(Flat), x \in Seq(Flat), c \in Seq(Flat) :
        q = Quoted(v.marks) /\ x = Quoted(<<"x">>) /\ c = <<",">>
  <2>1. Quoted(v.marks) \in Seq(Flat)
    BY <1>1, <1>2, QuotedFlat
  <2>2. "x" \in MarkNames /\ "x" \notin {"open", "close"}
    BY DEF MarkNames
  <2>3. Quoted(<<"x">>) \in Seq(Flat)
    BY <2>2, QuotedFlat
  <2>4. \A d \in Flat : <<d>> \in Seq(Flat)
    OBVIOUS
  <2> QED BY <2>1, <2>3, <2>4, FlatSigns
<1>4. PICK b \in Chars : b = <<"]">> \o t
  BY Signs, InFront
<1>5. Within(b, Flat, b)
  BY WithinHere
<1>6. PICK u1 \in Chars : u1 = x \o b /\ Within(u1, Flat, b)
  BY <1>5, FlatInFront
<1>7. PICK u2 \in Chars : u2 = c \o u1 /\ Within(u2, Flat, b)
  BY <1>6, FlatInFront
<1>8. PICK u3 \in Chars : u3 = q \o u2 /\ Within(u3, Flat, b)
  BY <1>7, FlatInFront
<1>9. ValueText(v) \o t = <<"[">> \o u3
  BY <1>2, <1>3, <1>4, <1>6, <1>7, <1>8, TextOfList, ZenonT(60)
<1> QED BY <1>4, <1>8, <1>9

\* An object has, within, a list.
ListWithin(v, t) == <<"[">> \o (Quoted(v.marks) \o (<<"]">> \o (<<"}">> \o t)))

LEMMA ObjectText ==
  ASSUME NEW v \in Values["o"], v.kind = "object", Unbracketed(v), NEW t \in Chars
  PROVE  /\ \E u \in Chars : ValueText(v) \o t = <<"{">> \o u /\ Within(u, Flat, ListWithin(v, t))
         /\ \E u \in Chars : ListWithin(v, t) = <<"[">> \o u /\ Within(u, Flat, <<"]">> \o (<<"}">> \o t))
         /\ <<"]">> \o (<<"}">> \o t) \in Chars /\ <<"}">> \o t \in Chars
<1>1. PICK m \in ListMarks : v.marks = <<m>>
  BY ValueOfOther
<1>2. m \in MarkNames /\ m \notin {"open", "close"} /\ v.marks \in Seq(MarkNames)
  BY <1>1, OneMark, ValueOfOther, MarkDomain DEF Unbracketed
<1>3. PICK q \in Seq(Flat), x \in Seq(Flat), c \in Seq(Flat) :
        q = Quoted(v.marks) /\ x = Quoted(<<"x">>) /\ c = <<":">>
  <2>1. Quoted(v.marks) \in Seq(Flat)
    BY <1>1, <1>2, QuotedFlat
  <2>2. "x" \in MarkNames /\ "x" \notin {"open", "close"}
    BY DEF MarkNames
  <2>3. Quoted(<<"x">>) \in Seq(Flat)
    BY <2>2, QuotedFlat
  <2>4. \A d \in Flat : <<d>> \in Seq(Flat)
    OBVIOUS
  <2> QED BY <2>1, <2>3, <2>4, FlatSigns
<1>4. PICK e \in Chars : e = <<"}">> \o t
  BY Signs, InFront
<1>5. PICK b \in Chars : b = <<"]">> \o e
  BY Signs, InFront
<1>6. Within(b, Flat, b)
  BY WithinHere
<1>7. PICK u1 \in Chars : u1 = q \o b /\ Within(u1, Flat, b)
  BY <1>6, FlatInFront
<1>8. PICK l \in Chars : l = <<"[">> \o u1
  BY Signs, InFront
<1>9. Within(l, Flat, l)
  BY WithinHere
<1>10. PICK u2 \in Chars : u2 = c \o l /\ Within(u2, Flat, l)
  BY <1>9, FlatInFront
<1>11. PICK u3 \in Chars : u3 = x \o u2 /\ Within(u3, Flat, l)
  BY <1>10, FlatInFront
<1>12. l = ListWithin(v, t)
  BY <1>3, <1>4, <1>5, <1>7, <1>8 DEF ListWithin
<1>13. ValueText(v) \o t = <<"{">> \o u3
  <2>1. ValueText(v) \o t = <<"{">> \o (Quoted(<<"x">>) \o (<<":">> \o (<<"[">> \o (Quoted(v.marks)
                                  \o (<<"]">> \o (<<"}">> \o t))))))
    BY <1>2, TextOfObject
  <2>2. Quoted(v.marks) \o (<<"]">> \o (<<"}">> \o t)) = u1
    BY <1>3, <1>4, <1>5, <1>7
  <2>3. Quoted(<<"x">>) \o (<<":">> \o (<<"[">> \o u1)) = u3
    BY <1>3, <1>8, <1>10, <1>11
  <2> QED BY <2>1, <2>2, <2>3
<1> QED BY <1>4, <1>5, <1>7, <1>8, <1>11, <1>12, <1>13

LEMMA BareText ==
  ASSUME NEW v, v.kind \in {"number", "null"}, NEW t \in Chars
  PROVE  \E c \in {"1", "0"} : ValueText(v) = <<c>> /\ ValueText(v) \o t = <<c>> \o t
<1>1. v.kind = "number" => ValueText(v) = <<"1">>
  BY TextOfBare
<1>2. v.kind = "null" => ValueText(v) = <<"0">>
  BY TextOfBare
<1> QED BY <1>1, <1>2

\* The first character of a value, and what follows it.
Begins(v, t, c, u) ==
  /\ ValueText(v) \o t = <<c>> \o u /\ c \in Char /\ c # " " /\ u \in Chars
  /\ v.kind = "string" => c = "\"" /\ u = MarksAfter(v.marks, 0, t)
  /\ v.kind \in {"number", "null"} => c \in {"1", "0"} /\ u = t
  /\ v.kind = "list" => c = "[" /\ Within(u, Flat, <<"]">> \o t)
  /\ v.kind = "object" => c = "{" /\ Within(u, Flat, ListWithin(v, t))

LEMMA ValueBegins ==
  ASSUME NEW key \in Keys, NEW v \in Values[key], Unbracketed(v), NEW t \in Chars
  PROVE  \E c, u : Begins(v, t, c, u)
<1>1. /\ v.marks \in Seq(MarkNames) /\ v.kind \in {"string", "number", "null", "list", "object"}
      /\ v.kind \in {"list", "object"} => v \in Values["o"]
  BY ValueOfText, ValueOfAction, ValueOfOther DEF Keys
<1>2. CASE v.kind = "string"
  <2>1. ValueText(v) \o t = <<"\"">> \o MarksAfter(v.marks, 0, t)
    BY <1>1, <1>2, TextOfString
  <2>2. MarksAfter(v.marks, 0, t) \in Chars
    <3>1. 0 \in 0 .. Len(v.marks)
      BY <1>1
    <3> QED BY <1>1, <3>1, MarksType
  <2>3. Begins(v, t, "\"", MarksAfter(v.marks, 0, t))
    BY <1>2, <2>1, <2>2, Signs DEF Begins
  <2> QED BY <2>3
<1>3. CASE v.kind \in {"number", "null"}
  <2>1. PICK c \in {"1", "0"} : ValueText(v) \o t = <<c>> \o t
    BY <1>3, BareText
  <2>2. Begins(v, t, c, t)
    BY <1>3, <2>1, Signs DEF Begins
  <2> QED BY <2>2
<1>4. CASE v.kind = "list"
  <2>1. PICK u \in Chars : ValueText(v) \o t = <<"[">> \o u /\ Within(u, Flat, <<"]">> \o t)
    BY <1>1, <1>4, ListText
  <2>2. Begins(v, t, "[", u)
    BY <1>4, <2>1, Signs DEF Begins
  <2> QED BY <2>2
<1>5. CASE v.kind = "object"
  <2>1. PICK u \in Chars : ValueText(v) \o t = <<"{">> \o u /\ Within(u, Flat, ListWithin(v, t))
    BY <1>1, <1>5, ObjectText
  <2>2. Begins(v, t, "{", u)
    BY <1>5, <2>1, Signs DEF Begins
  <2> QED BY <2>2
<1> QED BY <1>1, <1>2, <1>3, <1>4, <1>5

\* A value that is passed over, from its first character.
LEMMA StartSkip ==
  ASSUME FieldsType, NEW gap \in Gaps, NEW i \in 1 .. Len(fields), Skipped(i), NEW c, NEW u,
         Begins(fields[i].value, ValueAfter(gap, i), c, u),
         NEW p \in ParserType, p.state = "skip", ~p.escaped, p.left = 0, p.depth = 0
  PROVE  Skip(p, c) \in ParserType /\ InSkipAt(Skip(p, c), u, gap, i)
<1> DEFINE v == fields[i].value  t == ValueAfter(gap, i)
<1>1. /\ v.marks \in Seq(MarkNames) /\ v.kind \in {"string", "number", "null", "list", "object"}
      /\ t \in Chars /\ fields[i].key \in Keys
  <2>1. IsField(i)
    BY FieldFacts
  <2>2. v.kind \in {"string", "number", "null", "list", "object"}
    BY <2>1, ValueOfText, ValueOfAction, ValueOfOther DEF IsField, Keys
  <2> QED BY <2>1, <2>2, TextTypes DEF IsField
<1>2. CASE v.kind = "string"
  <2> DEFINE q == [p EXCEPT !.depth = -1, !.escaped = FALSE]
  <2>0. c = "\""
    BY <1>2 DEF Begins
  <2>1. Skip(p, c) = q
    <3>1. Skip(p, "\"") = q
      BY DEF Skip
    <3> QED BY <2>0, <3>1
  <2>2. At(q, p.state, p.key, FALSE, p.left, -1, p.scalar)
    BY Numbers, DepthEscapedIs, Zenon
  <2>3. Within(u, Plain, MarksAfter(v.marks, 0, t)) /\ 0 \in 0 .. Len(v.marks)
    <3>1. u = MarksAfter(v.marks, 0, t) /\ u \in Chars
      BY <1>2 DEF Begins
    <3>2. 0 \in 0 .. Len(v.marks)
      BY <1>1
    <3> QED BY <3>1, <3>2, WithinHere
  <2> HIDE DEF q
  <2> QED BY <1>2, <2>1, <2>2, <2>3 DEF InSkipAt, At, Skipped
<1>3. CASE v.kind \in {"number", "null"}
  <2>1. Skip(p, c) = p
    BY <1>3 DEF Skip, Begins
  <2>2. u = t
    BY <1>3 DEF Begins
  <2> QED BY <1>3, <2>1, <2>2 DEF InSkipAt, Skipped
<1>4. CASE v.kind = "list"
  <2> DEFINE q == [p EXCEPT !.depth = 1]
  <2>0. c = "["
    BY <1>4 DEF Begins
  <2>1. Skip(p, c) = q
    <3>1. Skip(p, "[") = q
      BY DEF Skip
    <3> QED BY <2>0, <3>1
  <2>2. At(q, p.state, p.key, p.escaped, p.left, 1, p.scalar)
    BY Numbers, DepthIs, Zenon
  <2>3. Within(u, Flat, <<"]">> \o t)
    BY <1>4 DEF Begins
  <2> HIDE DEF q
  <2> QED BY <1>4, <2>1, <2>2, <2>3 DEF InSkipAt, At, Skipped
<1>5. CASE v.kind = "object"
  <2> DEFINE q == [p EXCEPT !.depth = 1]
  <2>0. c = "{"
    BY <1>5 DEF Begins
  <2>1. Skip(p, c) = q
    <3>1. Skip(p, "{") = q
      BY DEF Skip
    <3> QED BY <2>0, <3>1
  <2>2. At(q, p.state, p.key, p.escaped, p.left, 1, p.scalar)
    BY Numbers, DepthIs, Zenon
  <2>3. Within(u, Flat, ListWithin(v, t))
    BY <1>5 DEF Begins
  <2> HIDE DEF q
  <2> QED BY <1>5, <2>1, <2>2, <2>3 DEF InSkipAt, At, Skipped, ListWithin
<1> QED BY <1>1, <1>2, <1>3, <1>4, <1>5

LEMMA KeyNames ==
  /\ KeyName["s"] \in Streamed /\ KeyName["s"] \notin Scalars
  /\ KeyName["a"] \notin Streamed /\ (use \in {"conduct", "judge"} => KeyName["a"] \in Scalars)
  /\ KeyName["o"] \notin Streamed /\ KeyName["o"] \notin Scalars
<1>1. KeyName["s"] = <<"s">> /\ KeyName["a"] = <<"a">> /\ KeyName["o"] = <<"\"">>
  BY DEF KeyName
<1>2. <<"s">> # <<"a">> /\ <<"s">> # <<"\"">> /\ <<"a">> # <<"\"">>
  OBVIOUS
<1> QED BY <1>1, <1>2 DEF Streamed, Scalars

\* A scalar as it is written, cut after its first character.
CutAfterOne(w, c, t, u) ==
  1 \in 1 .. Len(w) /\ SubSeq(w, 1, 1) = <<c>> /\ u = SubSeq(w, 2, Len(w)) \o t

LEMMA ScalarBegins ==
  ASSUME NEW v \in Values["a"], NEW t \in Chars, NEW c \in Char, NEW u \in Chars, ValueText(v) \o t = <<c>> \o u
  PROVE  CutAfterOne(ValueText(v), c, t, u)
<1>1. PICK w \in Chars : w = ValueText(v)
  BY ValueChars DEF Keys
<1>2. w # <<>>
  <2>1. CASE v.kind = "string"
    <3>1. PICK m \in MarkNames : v.marks = <<m>>
      BY <2>1, ValueOfAction
    <3>2. w \o <<>> = <<"\"">> \o MarksAfter(v.marks, 0, <<>>) /\ MarksAfter(v.marks, 0, <<>>) \in Chars
      <4>1. 0 \in 0 .. Len(v.marks) /\ v.marks \in Seq(MarkNames)
        BY ValueOfAction
      <4> QED BY <1>1, <2>1, <4>1, NoChars, TextOfString, MarksType
    <3>3. w \o <<>> # <<>>
      <4>1. PICK z \in Chars : w \o <<>> = <<"\"">> \o z
        BY <3>2
      <4>2. <<"\"">> \o z # <<>>
        BY Signs, InFront
      <4> QED BY <4>1, <4>2
    <3>4. w \o <<>> = w
      BY NoChars, Joined
    <3> QED BY <3>3, <3>4
  <2>2. CASE v.kind \in {"number", "null"}
    <3>1. PICK d \in {"1", "0"} : w = <<d>>
      BY <1>1, <2>2, NoChars, BareText
    <3> QED BY <3>1
  <2> QED BY <2>1, <2>2, ValueOfAction
<1>3. Len(w) \in Nat /\ Len(w) # 0 /\ 1 \in 1 .. Len(w)
  BY <1>2 DEF Chars
<1>4. Head(w) = c /\ Tail(w) \o t = u
  <2>1. Head(w \o t) = Head(w) /\ Tail(w \o t) = Tail(w) \o t
    BY <1>2, Joined
  <2>2. Head(<<c>> \o u) = c /\ Tail(<<c>> \o u) = u
    BY InFront
  <2> QED BY <1>1, <2>1, <2>2
<1>5. Tail(w) = SubSeq(w, 2, Len(w))
  BY <1>2, TailIsSubSeq DEF Chars
<1>6. SubSeq(w, 1, 1) = <<c>>
  <2>1. w[1] = c
    BY <1>2, <1>3, <1>4 DEF Chars
  <2>2. PICK x : x = SubSeq(w, 1, 1)
    OBVIOUS
  <2>3. \A i \in 1 .. 1 : w[i] \in Char
    BY <1>3 DEF Chars
  <2>4. x \in Seq(Char) /\ Len(x) = 1 /\ x[1] = c
    BY <1>3, <2>1, <2>2, <2>3, SubSeqProperties
  <2>5. x = <<c>>
    BY <2>4
  <2> QED BY <2>2, <2>5
<1> QED BY <1>1, <1>3, <1>4, <1>5, <1>6 DEF CutAfterOne

LEMMA NoMarksYet ==
  ASSUME NEW marks \in Seq(MarkNames)
  PROVE  <<>> = SubSeq(Decoded(marks), 1, 0) /\ 0 \in 0 .. Len(marks)
<1>1. 0 < 1 /\ 0 \in Int /\ 1 \in Int
  OBVIOUS
<1>2. SubSeq(Decoded(marks), 1, 0) = <<>>
  BY <1>1, SubSeqEmpty
<1> QED BY <1>2

\* Blanks, then the first character of a value.
LEMMA StepBeforeValue ==
  ASSUME FieldsType, NEW gap \in Gaps, NEW i \in 1 .. Len(fields), Unbracketed(fields[i].value),
         NEW p \in ParserType, NEW r \in Chars, r # <<>>, p.state = "before value", BeforeValueAt(p, r, gap, i)
  PROVE  /\ BeforeValue(p, Head(r)) \in ParserType
         /\ \/ BeforeValueAt(BeforeValue(p, Head(r)), Tail(r), gap, i)
            \/ InScalarAt(BeforeValue(p, Head(r)), Tail(r), gap, i)
            \/ InSkipAt(BeforeValue(p, Head(r)), Tail(r), gap, i)
            \/ InStringAt(BeforeValue(p, Head(r)), Tail(r), gap, i, <<>>)
<1> DEFINE v == fields[i].value
<1>1. PICK t \in Chars : t = ValueAfter(gap, i)
  BY TextTypes
<1>2. PICK name \in Keys : /\ name = fields[i].key /\ v \in Values[name] /\ v.marks \in Seq(MarkNames)
                           /\ name = "a" => use \in {"conduct", "judge"}
  BY FieldFacts DEF IsField
<1>3. PICK c, u : Begins(v, t, c, u)
  <2>1. Unbracketed(v)
    OBVIOUS
  <2> QED BY <1>2, <2>1, ValueBegins
<1>4. c \in Char /\ u \in Chars /\ c # " " /\ ValueText(v) \o t = <<c>> \o u
  BY <1>3 DEF Begins
<1>5. Within(r, {" "}, <<c>> \o u) /\ Level(p) /\ p.key = KeyName[name]
  BY <1>1, <1>2, <1>4 DEF BeforeValueAt
<1>6. \/ Head(r) = c /\ Tail(r) = u
      \/ Head(r) \in {" "} /\ Within(Tail(r), {" "}, <<c>> \o u)
  <2>1. c \notin {" "}
    BY <1>4
  <2> QED BY <1>4, <1>5, <2>1, WithinThen
<1>7. CASE Head(r) \in {" "} /\ Within(Tail(r), {" "}, <<c>> \o u)
  <2>1. BeforeValue(p, Head(r)) = p
    BY <1>7 DEF BeforeValue
  <2> QED BY <1>1, <1>2, <1>4, <1>5, <1>7, <2>1 DEF BeforeValueAt
<1>8. ASSUME Head(r) = c, Tail(r) = u, name = "s", v.kind = "string"
      PROVE  /\ BeforeValue(p, Head(r)) \in ParserType
             /\ InStringAt(BeforeValue(p, Head(r)), Tail(r), gap, i, <<>>)
  <2> DEFINE q == [Enter(p, "string") EXCEPT !.escaped = FALSE, !.left = 0]
  <2>1. c = "\"" /\ u = MarksAfter(v.marks, 0, t)
    BY <1>3, <1>8 DEF Begins
  <2>2. BeforeValue(p, Head(r)) = q
    <3>1. p.key \in Streamed /\ p.key \notin Scalars
      BY <1>5, <1>8, KeyNames
    <3>2. BeforeValue(p, "\"") = q
      BY <3>1 DEF BeforeValue
    <3> QED BY <1>8, <2>1, <3>2
  <2>3. At(q, "string", p.key, FALSE, 0, p.depth, p.scalar)
    BY Numbers, StringIs, Zenon
  <2> HIDE DEF q
  <2>4. <<>> = SubSeq(Decoded(v.marks), 1, 0) /\ 0 \in 0 .. Len(v.marks)
    BY <1>2, NoMarksYet
  <2>5. q.depth = 0 /\ q.state = "string" /\ ~q.escaped /\ q.left = 0
    BY <1>5, <2>3 DEF At, Level
  <2> QED BY <1>1, <1>2, <1>8, <2>1, <2>2, <2>3, <2>4, <2>5 DEF InStringAt, At
<1>9. ASSUME Head(r) = c, Tail(r) = u, name = "a"
      PROVE  /\ BeforeValue(p, Head(r)) \in ParserType
             /\ InScalarAt(BeforeValue(p, Head(r)), Tail(r), gap, i)
  <2> DEFINE q == [Enter(p, "scalar") EXCEPT !.scalar = <<c>>]
  <2>1. BeforeValue(p, Head(r)) = q
    <3>1. p.key \notin Streamed /\ p.key \in Scalars
      BY <1>2, <1>5, <1>9, KeyNames
    <3>2. BeforeValue(p, c) = q
      BY <1>4, <3>1 DEF BeforeValue
    <3> QED BY <1>9, <3>2
  <2>2. At(q, "scalar", p.key, p.escaped, p.left, p.depth, <<c>>)
    <3>1. <<c>> \in Seq(Char)
      BY <1>4, OneChar
    <3> QED BY <3>1 DEF ParserType, Enter, At
  <2> HIDE DEF q
  <2>3. CutAfterOne(ValueText(v), c, t, u)
    BY <1>2, <1>4, <1>9, ScalarBegins
  <2>4. Level(q) /\ q.state = "scalar" /\ q.scalar = <<c>> /\ q \in ParserType
    BY <1>5, <2>2 DEF At, Level
  <2>5. \E k \in 1 .. Len(ValueText(v)) :
          q.scalar = SubSeq(ValueText(v), 1, k) /\ u = SubSeq(ValueText(v), k + 1, Len(ValueText(v))) \o t
    BY <2>3, <2>4, Numbers, Zenon DEF CutAfterOne
  <2> QED BY <1>1, <1>2, <1>9, <2>1, <2>4, <2>5 DEF InScalarAt
<1>10. ASSUME Head(r) = c, Tail(r) = u, name # "a", name = "s" => v.kind # "string"
       PROVE  /\ BeforeValue(p, Head(r)) \in ParserType
              /\ InSkipAt(BeforeValue(p, Head(r)), Tail(r), gap, i)
  <2> DEFINE q == [Enter(p, "skip") EXCEPT !.depth = 0]
  <2>1. BeforeValue(p, Head(r)) = Skip(q, c)
    <3>1. p.key \notin Scalars
      BY <1>5, <1>10, KeyNames DEF Keys
    <3>2. p.key \in Streamed => c # "\""
      <4>1. CASE name = "s"
        <5>1. v.kind \in {"number", "null"}
          BY <1>2, <1>10, <4>1, ValueOfText
        <5> QED BY <1>3, <5>1 DEF Begins
      <4>2. CASE name # "s"
        BY <1>5, <1>10, <4>2, KeyNames DEF Keys
      <4> QED BY <4>1, <4>2
    <3>3. BeforeValue(p, c) = Skip(q, c)
      BY <1>4, <3>1, <3>2 DEF BeforeValue
    <3> QED BY <1>10, <3>3
  <2>2. At(q, "skip", p.key, p.escaped, p.left, 0, p.scalar)
    BY Numbers, SkipIs, Zenon
  <2> HIDE DEF q
  <2>3. q \in ParserType /\ q.state = "skip" /\ ~q.escaped /\ q.left = 0 /\ q.depth = 0
    BY <1>5, <2>2 DEF At, Level
  <2>4. Skipped(i)
    BY <1>2, <1>10 DEF Skipped
  <2>5. Skip(q, c) \in ParserType /\ InSkipAt(Skip(q, c), u, gap, i)
    BY <1>1, <1>3, <2>3, <2>4, StartSkip
  <2> QED BY <1>10, <2>1, <2>5
<1> QED BY <1>6, <1>7, <1>8, <1>9, <1>10

-----------------------------------------------------------------------------
(* At the end of a value.                                                  *)

\* All of a value has been read, and perhaps some of the blanks after it.
Gone(r, gap, i) == r = ValueAfter(gap, i) \/ (i = Len(fields) /\ Within(r, {" "}, FieldsAfter(gap, i)))

GoneStep(r, gap, i) ==
  /\ r # <<>>
  /\ \/ Head(r) = "," /\ Within(Tail(r), {" ", ","}, FieldsAfter(gap, i))
     \/ Head(r) = "}" /\ i = Len(fields) /\ Within(Tail(r), {" "}, <<>>)
     \/ Head(r) = " " /\ i = Len(fields) /\ Within(Tail(r), {" "}, FieldsAfter(gap, i))

LEMMA WithinGap ==
  ASSUME NEW gap \in Gaps
  PROVE  Within(gap, {" "}, <<>>)
<1>1. Within(<<>>, {" "}, <<>>)
  BY NoChars, WithinHere
<1>2. Within(gap \o <<>>, {" "}, <<>>)
  BY <1>1, NoChars, GapChars, WithinMore
<1> QED BY <1>2, GapChars, NoChars, Joined

LEMMA AfterGone ==
  ASSUME FieldsType, NEW gap \in Gaps, NEW i \in 1 .. Len(fields), NEW r \in Chars, Gone(r, gap, i)
  PROVE  GoneStep(r, gap, i)
<1>0. PICK n \in Nat : n = Len(fields) /\ i \in 0 .. n
  <2>1. PICK n \in Nat : n = Len(fields)
    BY FieldFacts
  <2> QED BY <2>1
<1>1. PICK f \in Chars : f = FieldsAfter(gap, i)
  BY <1>0, TextTypes
<1>2. gap \in Chars /\ \A j \in 1 .. Len(gap) : gap[j] \in {" "}
  BY GapChars
<1>3. ASSUME i # n
      PROVE  r # <<>> /\ Head(r) = "," /\ Within(Tail(r), {" ", ","}, f)
  <2>1. i < Len(fields)
    BY <1>0, <1>3
  <2>2. PICK u \in Chars : u = gap \o f
    BY <1>2, JoinType
  <2>3. r = <<",">> \o u
    BY <1>0, <1>1, <1>3, <2>1, <2>2, ValueEnd DEF Gone
  <2>4. r # <<>> /\ Head(r) = "," /\ Tail(r) = u
    BY <2>3, Signs, InFront
  <2>5. Within(u, {" "}, f)
    BY <1>2, <2>2, WithinHere, WithinMore
  <2>6. Within(u, {" ", ","}, f)
    BY <2>5, WithinWiden
  <2> QED BY <2>4, <2>6
<1>4. ASSUME i = n
      PROVE  /\ r # <<>>
             /\ \/ Head(r) = "}" /\ Tail(r) = gap
                \/ Head(r) = " " /\ Within(Tail(r), {" "}, f)
  <2>1. f = <<"}">> \o gap
    BY <1>0, <1>1, <1>4, FieldsEnd
  <2>2. Within(r, {" "}, f)
    <3>1. r = gap \o f \/ Within(r, {" "}, f)
      BY <1>0, <1>1, <1>4, <2>1, ValueEnd DEF Gone
    <3>2. Within(f, {" "}, f)
      BY WithinHere
    <3>3. Within(gap \o f, {" "}, f)
      BY <1>2, <3>2, WithinMore
    <3> QED BY <3>1, <3>3
  <2>3. "}" \in Char /\ "}" \notin {" "}
    BY Signs
  <2>4. Within(r, {" "}, <<"}">> \o gap)
    BY <2>1, <2>2
  <2>5. /\ r # <<>>
        /\ \/ Head(r) = "}" /\ Tail(r) = gap
           \/ Head(r) \in {" "} /\ Within(Tail(r), {" "}, <<"}">> \o gap)
    BY <1>2, <2>3, <2>4, WithinThen
  <2> QED BY <2>1, <2>5
<1>5. Within(gap, {" "}, <<>>)
  BY WithinGap
<1> QED BY <1>0, <1>1, <1>3, <1>4, <1>5 DEF GoneStep

\* After a value the parser may be between fields at once.
LEMMA GoneBetween ==
  ASSUME FieldsType, NEW gap \in Gaps, NEW i \in 1 .. Len(fields)
  PROVE  Within(ValueAfter(gap, i), {" ", ","}, FieldsAfter(gap, i))
<1>0. i \in 0 .. Len(fields)
  <2>1. PICK n \in Nat : n = Len(fields)
    BY FieldFacts
  <2> QED BY <2>1
<1>1. PICK f \in Chars : f = FieldsAfter(gap, i)
  BY <1>0, TextTypes
<1>2. gap \in Chars /\ \A j \in 1 .. Len(gap) : gap[j] \in {" ", ","}
  BY GapChars
<1>3. PICK u \in Chars : u = gap \o f
  BY <1>2, JoinType
<1>4. Within(u, {" ", ","}, f)
  BY <1>2, <1>3, WithinHere, WithinMore
<1>5. PICK m \in Chars : m = Comma(i) /\ \A j \in 1 .. Len(m) : m[j] \in {" ", ","}
  <2>1. PICK m \in Chars : m = Comma(i)
    BY CommaChars
  <2>2. m = <<>> \/ m = <<",">>
    BY <2>1 DEF Comma
  <2>3. ASSUME m = <<>>  PROVE \A j \in 1 .. Len(m) : m[j] \in {" ", ","}
    <3>1. Len(m) = 0
      BY <2>3
    <3>2. \A j \in 1 .. 0 : FALSE
      OBVIOUS
    <3> QED BY <3>1, <3>2
  <2>4. ASSUME m = <<",">>  PROVE \A j \in 1 .. Len(m) : m[j] \in {" ", ","}
    <3>1. Len(m) = 1 /\ m[1] = ","
      BY <2>4
    <3>2. \A j \in 1 .. 1 : j = 1
      OBVIOUS
    <3> QED BY <3>1, <3>2
  <2> QED BY <2>1, <2>2, <2>3, <2>4
<1>6. Within(m \o u, {" ", ","}, f)
  BY <1>4, <1>5, WithinMore
<1> QED BY <1>1, <1>3, <1>5, <1>6 DEF ValueAfter, Comma

-----------------------------------------------------------------------------
(* At the beginning of a mark.                                             *)

\* Text r is mark m, then z.
OneSign(r, z, m) ==
  PlainMark(m) /\ Head(r) = MarkChar[m] /\ Tail(r) = z
Escape(r, z, m) ==
  /\ Head(r) = "\\" /\ Head(MarkText[m]) = "\\" /\ Tail(r) = Tail(MarkText[m]) \o z
  /\ Tail(r) \in Chars /\ Tail(r) # <<>> /\ Within(Tail(Tail(r)), Plain, z)
  /\ \/ Head(Tail(r)) # "u" /\ Unescaped(Head(Tail(r))) = MarkChar[m] /\ Tail(Tail(r)) = z
     \/ Head(Tail(r)) = "u" /\ m = "letter" /\ MarkChar[m] = "U" /\ Tail(Tail(r)) = [j \in 1 .. 4 |-> "h"] \o z

LEMMA Hs ==
  ASSUME NEW n \in 1 .. 4
  PROVE  /\ [j \in 1 .. n |-> "h"] \in Chars /\ [j \in 1 .. n |-> "h"] # <<>>
         /\ Head([j \in 1 .. n |-> "h"]) = "h"
         /\ \A i \in 1 .. Len([j \in 1 .. n |-> "h"]) : [j \in 1 .. n |-> "h"][i] \in Plain
         /\ n > 1 => Tail([j \in 1 .. n |-> "h"]) = [j \in 1 .. n - 1 |-> "h"]
         /\ n = 1 => Tail([j \in 1 .. n |-> "h"]) = <<>>
<1> DEFINE hs == [j \in 1 .. n |-> "h"]
<1>1. "h" \in Plain /\ "h" \in Char
  BY DEF Plain, Char
<1>2. hs \in Chars /\ Len(hs) = n /\ \A j \in 1 .. n : hs[j] = "h"
  BY <1>1 DEF Chars
<1>3. hs # <<>> /\ Head(hs) = "h"
  BY <1>2
<1>4. Tail(hs) \in Seq(Char) /\ Len(Tail(hs)) = n - 1 /\ \A j \in 1 .. n - 1 : Tail(hs)[j] = "h"
  <2>1. /\ Tail(hs) \in Seq(Char) /\ Len(Tail(hs)) = n - 1
        /\ \A j \in 1 .. n - 1 : Tail(hs)[j] = hs[j + 1]
    BY <1>2, <1>3, HeadTailProperties DEF Chars
  <2>2. \A j \in 1 .. n - 1 : j + 1 \in 1 .. n
    OBVIOUS
  <2> QED BY <1>2, <2>1, <2>2
<1>5. n > 1 => Tail(hs) = [j \in 1 .. n - 1 |-> "h"]
  BY <1>4
<1>6. n = 1 => Tail(hs) = <<>>
  BY <1>4
<1> QED BY <1>1, <1>2, <1>3, <1>5, <1>6

\* The letter by its number.
LEMMA LetterText ==
  <<"\\", "u", "h", "h", "h", "h">> = <<"\\">> \o (<<"u">> \o [j \in 1 .. 4 |-> "h"])
<1>1. PICK hs \in Chars : hs = [j \in 1 .. 4 |-> "h"] /\ Len(hs) = 4 /\ \A j \in 1 .. 4 : hs[j] = "h"
  <2>1. "h" \in Char
    BY Signs
  <2>2. [j \in 1 .. 4 |-> "h"] \in Chars
    BY <2>1 DEF Chars
  <2> QED BY <2>2
<1>2. PICK b \in Chars, a \in Chars : b = <<"u">> /\ a = <<"\\">> /\ Len(b) = 1 /\ Len(a) = 1 /\ b[1] = "u" /\ a[1] = "\\"
  <2>1. <<"u">> \in Chars /\ <<"\\">> \in Chars
    BY Signs, OneChar
  <2> QED BY <2>1
<1>3. PICK w \in Chars : w = b \o hs
  BY JoinType
<1>4. Len(w) = 5 /\ w[1] = "u" /\ w[2] = "h" /\ w[3] = "h" /\ w[4] = "h" /\ w[5] = "h"
  BY <1>1, <1>2, <1>3, Joined
<1>5. PICK x \in Chars : x = a \o w
  BY JoinType
<1>6. Len(x) = 6 /\ x[1] = "\\" /\ x[2] = "u" /\ x[3] = "h" /\ x[4] = "h" /\ x[5] = "h" /\ x[6] = "h"
  <2>1. Len(x) = 6 /\ \A i \in 1 .. 6 : x[i] = IF i <= 1 THEN a[i] ELSE w[i - 1]
    <3>1. /\ Len(x) = Len(a) + Len(w)
          /\ \A i \in 1 .. Len(a) + Len(w) : x[i] = IF i <= Len(a) THEN a[i] ELSE w[i - Len(a)]
      BY <1>5, Joined
    <3>2. Len(a) = 1 /\ Len(a) + Len(w) = 6
      BY <1>2, <1>4
    <3> QED BY <3>1, <3>2
  <2> QED BY <1>2, <1>4, <2>1
<1>7. PICK y \in Chars : y = <<"\\", "u", "h", "h", "h", "h">>
  <2>1. MarkText["letter"] \in Chars
    BY MarkChars DEF MarkNames
  <2>2. MarkText["letter"] = <<"\\", "u", "h", "h", "h", "h">>
    BY DEF MarkText
  <2> QED BY <2>1, <2>2
<1>8. Len(y) = 6 /\ y[1] = "\\" /\ y[2] = "u" /\ y[3] = "h" /\ y[4] = "h" /\ y[5] = "h" /\ y[6] = "h"
  BY <1>7
<1>9. \A i \in 1 .. 6 : i = 1 \/ i = 2 \/ i = 3 \/ i = 4 \/ i = 5 \/ i = 6
  OBVIOUS
<1>10. Len(x) = Len(y) /\ \A i \in 1 .. Len(x) : x[i] = y[i]
  BY <1>6, <1>8, <1>9
<1>11. x = y
  BY <1>10, SeqEqual DEF Chars
<1> QED BY <1>1, <1>2, <1>3, <1>5, <1>7, <1>11

LEMMA MarkBegins ==
  ASSUME NEW m \in MarkNames, NEW z \in Chars, NEW r \in Chars, r = MarkText[m] \o z
  PROVE  OneSign(r, z, m) \/ Escape(r, z, m)
<1>0. /\ MarkText[m] \in Chars /\ MarkText[m] # <<>>
      /\ Head(r) = Head(MarkText[m]) /\ Tail(r) = Tail(MarkText[m]) \o z
  BY MarkChars, Joined
<1>1. CASE PlainMark(m)
  <2>1. PICK c \in Char : c = MarkChar[m]
    BY <1>1 DEF PlainMark, Char
  <2>2. r = <<c>> \o z
    BY <1>1, <2>1 DEF PlainMark
  <2> QED BY <1>1, <2>1, <2>2, InFront DEF OneSign
<1>2. CASE EscapeMark(m)
  <2>1. PICK d \in Char : MarkText[m] = <<"\\", d>> /\ d # "u" /\ Unescaped(d) = MarkChar[m]
    BY <1>2 DEF EscapeMark
  <2>2. PICK w \in Chars : w = <<d>> \o z /\ w # <<>> /\ Head(w) = d /\ Tail(w) = z
    BY InFront
  <2>3. r = <<"\\">> \o w
    <3>1. Paired("\\", d, z)
      BY Signs, Pair
    <3> QED BY <2>1, <2>2, <3>1 DEF Paired
  <2>4. Head(r) = "\\" /\ Tail(r) = w
    <3>1. "\\" \in Char
      BY Signs
    <3> QED BY <2>3, <3>1, InFront
  <2>5. Within(z, Plain, z)
    BY WithinHere
  <2>6. Within(Tail(Tail(r)), Plain, z)
    BY <2>2, <2>4, <2>5
  <2>7. Head(MarkText[m]) = "\\"
    BY <1>0, <2>4
  <2>8. Head(Tail(r)) = d /\ Tail(Tail(r)) = z /\ Tail(r) \in Chars /\ Tail(r) # <<>>
    BY <2>2, <2>4
  <2> QED BY <1>0, <2>1, <2>4, <2>6, <2>7, <2>8 DEF Escape
<1>3. CASE LetterMark(m)
  <2>0. PICK hs \in Chars : hs = [j \in 1 .. 4 |-> "h"] /\ \A j \in 1 .. Len(hs) : hs[j] \in Plain
    <3>1. 4 \in 1 .. 4
      OBVIOUS
    <3> QED BY <3>1, Hs
  <2>1. MarkText[m] = <<"\\">> \o (<<"u">> \o hs)
    BY <1>3, <2>0, LetterText DEF LetterMark
  <2>2. PICK y \in Chars : y = hs \o z
    BY JoinType
  <2>3. PICK w \in Chars : w = <<"u">> \o y /\ w # <<>> /\ Head(w) = "u" /\ Tail(w) = y
    BY Signs, InFront
  <2>4. r = <<"\\">> \o w
    <3>1. PICK a \in Chars, b \in Chars, bh \in Chars : a = <<"\\">> /\ b = <<"u">> /\ bh = b \o hs
      BY Signs, OneChar, InFront
    <3>2. Grouped(a, bh, z) /\ Grouped(b, hs, z)
      BY Regroup
    <3> QED BY <2>1, <2>2, <2>3, <3>1, <3>2 DEF Grouped
  <2>5. Head(r) = "\\" /\ Tail(r) = w
    <3>1. "\\" \in Char
      BY Signs
    <3> QED BY <2>4, <3>1, InFront
  <2>6. Within(y, Plain, z)
    BY <2>0, <2>2, WithinHere, WithinMore
  <2>7. Head(Tail(r)) = "u" /\ Tail(Tail(r)) = hs \o z /\ Tail(r) \in Chars /\ Tail(r) # <<>>
        /\ Within(Tail(Tail(r)), Plain, z)
    BY <2>2, <2>3, <2>5, <2>6
  <2>8. m = "letter" /\ MarkChar[m] = "U" /\ Head(MarkText[m]) = "\\"
    BY <1>0, <1>3, <2>5 DEF LetterMark
  <2> QED BY <1>0, <2>0, <2>5, <2>7, <2>8 DEF Escape
<1> QED BY <1>1, <1>2, <1>3, MarkShape

-----------------------------------------------------------------------------
(* A value that is passed over.                                            *)

LEMMA Levels ==
  1 - 1 = 0 /\ 2 - 1 = 1 /\ 1 + 1 = 2 /\ 1 > 0 /\ 2 > 0 /\ 1 # 0 /\ 2 # 0 /\ 1 # -1 /\ 2 # -1 /\ -1 # 0 /\ 2 # 1
  /\ ~ (-1 > 0) /\ ~ (0 > 0)
  OBVIOUS

LEMMA Positive ==
  \A d \in Int : d > 0 => d # 0 /\ d # -1 /\ d + 1 \in Int /\ d - 1 \in Int
  OBVIOUS

LEMMA PositiveDepth ==
  ASSUME NEW p \in ParserType, p.depth > 0
  PROVE  p.depth # 0 /\ p.depth # -1 /\ p.depth + 1 \in Int /\ p.depth - 1 \in Int
<1>1. p.depth \in Int
  BY DEF ParserType
<1> QED BY <1>1, Positive, Zenon

LEMMA SkipFlat ==
  ASSUME NEW p \in ParserType, p.depth > 0, NEW c \in Flat
  PROVE  Skip(p, c) = p
<1>1. c \notin {"{", "[", "}", "]"}
  BY DEF Flat
<1>2. p.depth # 0 /\ p.depth # -1
  BY PositiveDepth
<1> QED BY <1>1, <1>2 DEF Skip

LEMMA SkipOpens ==
  ASSUME NEW p \in ParserType, p.depth > 0
  PROVE  At(Skip(p, "["), p.state, p.key, p.escaped, p.left, p.depth + 1, p.scalar)
<1>1. p.depth # 0 /\ p.depth # -1 /\ p.depth + 1 \in Int
  BY PositiveDepth
<1>2. Skip(p, "[") = [p EXCEPT !.depth = p.depth + 1]
  BY <1>1 DEF Skip
<1> QED BY <1>1, <1>2, DepthIs

LEMMA SkipCloses ==
  ASSUME NEW p \in ParserType, p.depth > 0, NEW c \in {"}", "]"}
  PROVE  At(Skip(p, c), IF p.depth = 1 THEN "object" ELSE p.state, p.key, p.escaped, p.left, p.depth - 1, p.scalar)
<1>1. p.depth # 0 /\ p.depth # -1 /\ p.depth - 1 \in Int
  BY PositiveDepth
<1> DEFINE q == [p EXCEPT !.depth = p.depth - 1, !.state = IF p.depth = 1 THEN "object" ELSE @]
<1>2. Skip(p, c) = q
  BY <1>1 DEF Skip
<1>3. At(q, IF p.depth = 1 THEN "object" ELSE p.state, p.key, p.escaped, p.left, p.depth - 1, p.scalar)
  BY <1>1 DEF ParserType, At
<1> QED BY <1>2, <1>3

SkipStep(p, r, gap, i) ==
  /\ Skip(p, Head(r)) \in ParserType
  /\ InSkipAt(Skip(p, Head(r)), Tail(r), gap, i) \/ BetweenFieldsAt(Skip(p, Head(r)), Tail(r), gap, i)

\* A number ends at the next comma or brace.
LEMMA SkipNumber ==
  ASSUME FieldsType, NEW gap \in Gaps, NEW i \in 1 .. Len(fields), NEW p \in ParserType,
         NEW r \in Chars, p.state = "skip", InSkipAt(p, r, gap, i), p.depth = 0
  PROVE  r # <<>> /\ SkipStep(p, r, gap, i)
<1>1. /\ p.left = 0 /\ ~p.escaped /\ fields[i].value.kind \in {"number", "null"}
      /\ Gone(r, gap, i)
  BY Levels DEF InSkipAt, Gone
<1>2. GoneStep(r, gap, i)
  BY <1>1, AfterGone
<1>3. CASE Head(r) = "," /\ Within(Tail(r), {" ", ","}, FieldsAfter(gap, i))
  <2>1. Skip(p, Head(r)) = Enter(p, "object")
    <3>1. Skip(p, ",") = Enter(p, "object")
      BY DEF Skip
    <3> QED BY <1>3, <3>1
  <2>2. At(Enter(p, "object"), "object", p.key, p.escaped, p.left, p.depth, p.scalar)
    BY EnterIs
  <2> QED BY <1>1, <1>2, <1>3, <2>1, <2>2 DEF At, BetweenFieldsAt, Level, SkipStep, GoneStep
<1>4. CASE Head(r) = "}" /\ i = Len(fields) /\ Within(Tail(r), {" "}, <<>>)
  <2>1. Skip(p, Head(r)) = Enter(p, "finished")
    <3>1. Skip(p, "}") = Enter(p, "finished")
      BY DEF Skip
    <3> QED BY <1>4, <3>1
  <2>2. At(Enter(p, "finished"), "finished", p.key, p.escaped, p.left, p.depth, p.scalar)
    BY EnterIs
  <2> QED BY <1>1, <1>2, <1>4, <2>1, <2>2 DEF At, BetweenFieldsAt, Level, SkipStep, GoneStep
<1>5. CASE Head(r) = " " /\ i = Len(fields) /\ Within(Tail(r), {" "}, FieldsAfter(gap, i))
  <2>1. Skip(p, Head(r)) = p
    <3>1. Skip(p, " ") = p
      BY DEF Skip
    <3> QED BY <1>5, <3>1
  <2> QED BY <1>1, <1>2, <1>5, <2>1 DEF InSkipAt, SkipStep, GoneStep
<1> QED BY <1>2, <1>3, <1>4, <1>5 DEF GoneStep

\* A list or an object ends at its bracket.
LEMMA SkipNested ==
  ASSUME FieldsType, NEW gap \in Gaps, NEW i \in 1 .. Len(fields), NEW p \in ParserType,
         NEW r \in Chars, p.state = "skip", InSkipAt(p, r, gap, i), p.depth # 0, p.depth # -1
  PROVE  r # <<>> /\ SkipStep(p, r, gap, i)
<1> DEFINE v == fields[i].value
<1>0. PICK t \in Chars : t = ValueAfter(gap, i) /\ Within(t, {" ", ","}, FieldsAfter(gap, i))
  BY TextTypes, GoneBetween
<1>1. PICK e \in Chars : e = <<"}">> \o t /\ e # <<>> /\ Head(e) = "}" /\ Tail(e) = t
  BY Signs, InFront
<1>2. PICK l \in Chars : l = <<"]">> \o e
  BY Signs, InFront
<1>3. IsField(i)
  BY FieldFacts
<1>4. /\ p.left = 0 /\ ~p.escaped /\ p.depth > 0 /\ Skipped(i)
      /\ \/ p.depth = 1 /\ v.kind = "list" /\ Within(r, Flat, <<"]">> \o t)
         \/ p.depth = 1 /\ v.kind = "object" /\ r = e
         \/ p.depth = 1 /\ v.kind = "object" /\ Within(r, Flat, ListWithin(v, t))
         \/ p.depth = 2 /\ v.kind = "object" /\ Within(r, Flat, l)
  BY <1>0, <1>1, <1>2, Levels DEF InSkipAt, ListWithin, Skipped
<1>5. ASSUME NEW c \in {"}", "]"}, p.depth = 1, Head(r) = c, Tail(r) = t
      PROVE  SkipStep(p, r, gap, i)
  <2>1. At(Skip(p, c), IF p.depth = 1 THEN "object" ELSE p.state, p.key, p.escaped, p.left, p.depth - 1, p.scalar)
    BY <1>4, SkipCloses
  <2>2. At(Skip(p, c), "object", p.key, p.escaped, p.left, 0, p.scalar)
    BY <1>5, <2>1, Levels
  <2> QED BY <1>0, <1>4, <1>5, <2>2 DEF At, BetweenFieldsAt, Level, SkipStep
<1>6. CASE p.depth = 1 /\ v.kind = "list" /\ Within(r, Flat, <<"]">> \o t)
  <2>1. "]" \in Char /\ "]" \notin Flat
    BY Signs DEF Flat
  <2>2. /\ r # <<>>
        /\ \/ Head(r) = "]" /\ Tail(r) = t
           \/ Head(r) \in Flat /\ Within(Tail(r), Flat, <<"]">> \o t)
    BY <1>6, <2>1, WithinThen
  <2>3. CASE Head(r) \in Flat /\ Within(Tail(r), Flat, <<"]">> \o t)
    <3>1. Skip(p, Head(r)) = p
      BY <1>4, <2>3, SkipFlat
    <3> QED BY <1>0, <1>4, <1>6, <2>2, <2>3, <3>1 DEF InSkipAt, SkipStep, Skipped
  <2> QED BY <1>5, <1>6, <2>2, <2>3
<1>7. CASE p.depth = 1 /\ v.kind = "object" /\ r = e
  BY <1>1, <1>5, <1>7
<1>8. CASE p.depth = 1 /\ v.kind = "object" /\ Within(r, Flat, ListWithin(v, t))
  <2>1. "[" \in Char /\ "[" \notin Flat
    BY Signs DEF Flat
  <2>2. v \in Values["o"]
    BY <1>3, <1>8, ValueOfText, ValueOfAction DEF IsField, Keys
  <2>3. PICK u \in Chars : ListWithin(v, t) = <<"[">> \o u /\ Within(u, Flat, l)
    <3>1. Unbracketed(v)
      BY DEF InSkipAt
    <3> QED BY <1>1, <1>2, <1>8, <2>2, <3>1, ObjectText
  <2>4. /\ r # <<>>
        /\ \/ Head(r) = "[" /\ Tail(r) = u
           \/ Head(r) \in Flat /\ Within(Tail(r), Flat, ListWithin(v, t))
    BY <1>8, <2>1, <2>3, WithinThen
  <2>5. CASE Head(r) \in Flat /\ Within(Tail(r), Flat, ListWithin(v, t))
    <3>1. Skip(p, Head(r)) = p
      BY <1>4, <2>5, SkipFlat
    <3> QED BY <1>0, <1>4, <1>8, <2>4, <2>5, <3>1 DEF InSkipAt, SkipStep, Skipped, ListWithin
  <2>6. CASE Head(r) = "[" /\ Tail(r) = u
    <3>1. At(Skip(p, "["), p.state, p.key, p.escaped, p.left, p.depth + 1, p.scalar)
      BY <1>4, SkipOpens
    <3>2. At(Skip(p, "["), "skip", p.key, FALSE, 0, 2, p.scalar)
      BY <1>4, <1>8, <3>1, Levels, ZenonT(60) DEF At, ParserType
    <3> QED BY <1>0, <1>1, <1>2, <1>4, <1>8, <2>3, <2>4, <2>6, <3>2 DEF At, InSkipAt, SkipStep, Skipped
  <2> QED BY <2>4, <2>5, <2>6
<1>9. CASE p.depth = 2 /\ v.kind = "object" /\ Within(r, Flat, l)
  <2>1. "]" \in Char /\ "]" \notin Flat
    BY Signs DEF Flat
  <2>2. /\ r # <<>>
        /\ \/ Head(r) = "]" /\ Tail(r) = e
           \/ Head(r) \in Flat /\ Within(Tail(r), Flat, <<"]">> \o e)
    BY <1>2, <1>9, <2>1, WithinThen
  <2>3. CASE Head(r) \in Flat /\ Within(Tail(r), Flat, <<"]">> \o e)
    <3>1. Skip(p, Head(r)) = p
      BY <1>4, <2>3, SkipFlat
    <3> QED BY <1>0, <1>1, <1>4, <1>9, <2>2, <2>3, <3>1 DEF InSkipAt, SkipStep, Skipped
  <2>4. CASE Head(r) = "]" /\ Tail(r) = e
    <3>1. At(Skip(p, "]"), IF p.depth = 1 THEN "object" ELSE p.state, p.key, p.escaped, p.left, p.depth - 1, p.scalar)
      BY <1>4, SkipCloses
    <3>2. At(Skip(p, "]"), "skip", p.key, FALSE, 0, 1, p.scalar)
      BY <1>4, <1>9, <3>1, Levels DEF At, ParserType
    <3> QED BY <1>0, <1>1, <1>4, <1>9, <2>2, <2>4, <3>2 DEF At, InSkipAt, SkipStep, Skipped
  <2> QED BY <2>2, <2>3, <2>4
<1> QED BY <1>4, <1>6, <1>7, <1>8, <1>9

LEMMA PlainSigns == "\\" \notin Plain /\ "\"" \notin Plain
  BY DEF Plain

\* In a string: its escapes take a character more, its quote ends it.
LEMMA InSkippedString ==
  ASSUME NEW p \in ParserType, p.depth = -1
  PROVE  /\ \A c : p.escaped => Skip(p, c) = [p EXCEPT !.escaped = FALSE]
         /\ ~p.escaped => Skip(p, "\\") = [p EXCEPT !.escaped = TRUE]
         /\ ~p.escaped => Skip(p, "\"") = [Enter(p, "object") EXCEPT !.depth = 0]
         /\ \A c \in Plain : ~p.escaped => Skip(p, c) = p
<1>1. p.depth # 0 /\ ~(p.depth > 0) /\ p.escaped \in BOOLEAN
  <2>1. ~(-1 > 0) /\ -1 # 0
    OBVIOUS
  <2> QED BY <2>1 DEF ParserType
<1>2. ASSUME NEW c, p.escaped  PROVE Skip(p, c) = [p EXCEPT !.escaped = FALSE]
  BY <1>1, <1>2 DEF Skip
<1>3. ASSUME ~p.escaped  PROVE Skip(p, "\\") = [p EXCEPT !.escaped = TRUE]
  BY <1>1, <1>3 DEF Skip
<1>4. ASSUME ~p.escaped  PROVE Skip(p, "\"") = [Enter(p, "object") EXCEPT !.depth = 0]
  BY <1>1, <1>4 DEF Skip
<1>5. ASSUME NEW c \in Plain, ~p.escaped  PROVE Skip(p, c) = p
  BY <1>1, <1>5, PlainSigns DEF Skip
<1> QED BY <1>2, <1>3, <1>4, <1>5

LEMMA EndIs ==
  ASSUME NEW p \in ParserType, NEW depth \in Int
  PROVE  At([Enter(p, "object") EXCEPT !.depth = depth], "object", p.key, p.escaped, p.left, depth, p.scalar)
  BY DEF ParserType, Enter, At

\* What is left of a string has its quote at least.
LEMMA MarksSome ==
  ASSUME NEW marks \in Seq(MarkNames), NEW k \in 0 .. Len(marks), NEW t \in Chars
  PROVE  MarksAfter(marks, k, t) # <<>>
<1>1. PICK w \in Chars, u \in Chars : w = FlattenSeq(From(Texts(marks), k)) /\ u = <<"\"">> \o t
  BY TextsType, FlattenFrom, Signs, InFront
<1>2. MarksAfter(marks, k, t) = w \o u
  BY <1>1, MarksFrom
<1>3. Len(u) = Len(t) + 1 /\ Len(w \o u) = Len(w) + Len(u) /\ Len(w) \in Nat /\ Len(t) \in Nat
  <2>1. Len(u) = Len(t) + 1
    BY <1>1, Signs, InFront
  <2>2. Len(w \o u) = Len(w) + Len(u)
    BY Joined
  <2>3. Len(w) \in Nat /\ Len(t) \in Nat
    BY DEF Chars
  <2> QED BY <2>1, <2>2, <2>3
<1>4. Len(w \o u) # 0
  BY <1>3
<1>5. w \o u # <<>>
  BY <1>4
<1> QED BY <1>2, <1>5

LEMMA SkipString ==
  ASSUME FieldsType, NEW gap \in Gaps, NEW i \in 1 .. Len(fields), NEW p \in ParserType,
         NEW r \in Chars, p.state = "skip", InSkipAt(p, r, gap, i), p.depth = -1
  PROVE  r # <<>> /\ SkipStep(p, r, gap, i)
<1> DEFINE marks == fields[i].value.marks
<1>0. PICK t \in Chars : t = ValueAfter(gap, i) /\ Within(t, {" ", ","}, FieldsAfter(gap, i))
  BY TextTypes, GoneBetween
<1>1. IsField(i) /\ marks \in Seq(MarkNames) /\ Len(marks) \in Nat
  BY FieldFacts DEF IsField
<1>2. /\ p.left = 0 /\ p.escaped \in BOOLEAN /\ Skipped(i) /\ fields[i].value.kind = "string"
      /\ \E k \in 0 .. Len(marks) :
           IF p.escaped THEN r # <<>> /\ Within(Tail(r), Plain, MarksAfter(marks, k, t))
           ELSE Within(r, Plain, MarksAfter(marks, k, t))
  <2>1. p.depth # 0 /\ p.depth # 1 /\ p.depth # 2
    BY Levels
  <2> QED BY <1>0, <2>1 DEF InSkipAt, Skipped, ParserType
<1>3. PICK k \in 0 .. Len(marks) :
        IF p.escaped THEN r # <<>> /\ Within(Tail(r), Plain, MarksAfter(marks, k, t))
        ELSE Within(r, Plain, MarksAfter(marks, k, t))
  BY <1>2
<1>4. PICK w \in Chars : w = MarksAfter(marks, k, t)
  BY <1>1, MarksType
<1>5. \* the parser is still in the string, not in an escape
      ASSUME NEW q \in ParserType, At(q, "skip", p.key, FALSE, 0, -1, p.scalar), Skip(p, Head(r)) = q,
             NEW n \in 0 .. Len(marks), Within(Tail(r), Plain, MarksAfter(marks, n, t))
      PROVE  SkipStep(p, r, gap, i)
  BY <1>0, <1>2, <1>5 DEF At, InSkipAt, SkipStep, Skipped
<1>6. At(p, "skip", p.key, p.escaped, 0, -1, p.scalar)
  BY <1>2 DEF At
<1>7. CASE p.escaped
  <2>1. Skip(p, Head(r)) = [p EXCEPT !.escaped = FALSE]
    BY <1>7, InSkippedString
  <2>2. At([p EXCEPT !.escaped = FALSE], "skip", p.key, FALSE, 0, -1, p.scalar)
    <3>1. At([p EXCEPT !.escaped = FALSE], p.state, p.key, FALSE, p.left, p.depth, p.scalar)
      BY Numbers, EscapedIs
    <3> QED BY <1>2, <3>1
  <2>3. [p EXCEPT !.escaped = FALSE] \in ParserType
    BY <2>2 DEF At
  <2> QED BY <1>3, <1>5, <1>7, <2>1, <2>2, <2>3
<1>8. CASE ~p.escaped /\ r # w
  <2>1. Within(r, Plain, w)
    BY <1>3, <1>4, <1>8
  <2>2. r # <<>>
    <3>1. w # <<>>
      BY <1>1, <1>4, MarksSome
    <3>2. Len(w) \in Nat /\ Len(w) # 0 /\ Len(r) \in Nat
      BY <3>1 DEF Chars
    <3>3. Len(r) - Len(w) >= 0
      BY <2>1 DEF Within
    <3>4. Len(r) # 0
      BY <3>2, <3>3
    <3> QED BY <3>4
  <2>3. Head(r) \in Plain /\ Within(Tail(r), Plain, w)
    BY <1>8, <2>1, <2>2, WithinStep
  <2>4. Skip(p, Head(r)) = p
    BY <1>8, <2>3, InSkippedString
  <2>5. At(p, "skip", p.key, FALSE, 0, -1, p.scalar)
    BY <1>2, <1>6, <1>8
  <2> QED BY <1>4, <1>5, <2>2, <2>3, <2>4, <2>5
<1>9. CASE ~p.escaped /\ r = w /\ k = Len(marks)
  <2>1. r = <<"\"">> \o t
    BY <1>1, <1>4, <1>9, MarksEnd
  <2>2. r # <<>> /\ Head(r) = "\"" /\ Tail(r) = t
    <3>1. "\"" \in Char
      BY Signs
    <3> QED BY <2>1, <3>1, InFront
  <2> DEFINE q == [Enter(p, "object") EXCEPT !.depth = 0]
  <2>3. Skip(p, Head(r)) = q
    <3>1. Skip(p, "\"") = q
      BY <1>9, InSkippedString
    <3> QED BY <2>2, <3>1
  <2>4. At(q, "object", p.key, p.escaped, p.left, 0, p.scalar)
    BY Numbers, EndIs, Zenon
  <2> HIDE DEF q
  <2> QED BY <1>0, <1>2, <1>9, <2>2, <2>3, <2>4 DEF At, BetweenFieldsAt, Level, SkipStep
<1>10. CASE ~p.escaped /\ r = w /\ k # Len(marks)
  <2>1. k \in 0 .. Len(marks) - 1 /\ k + 1 \in 0 .. Len(marks)
    BY <1>1, <1>10
  <2>2. PICK m \in MarkNames : m = marks[k + 1]
    BY <1>1, <2>1, MarksNext
  <2>3. PICK z \in Chars : z = MarksAfter(marks, k + 1, t)
    BY <1>1, <2>1, MarksType
  <2>4. r = MarkText[m] \o z
    BY <1>1, <1>4, <1>10, <2>1, <2>2, <2>3, MarksNext
  <2>5. r # <<>>
    BY <2>4, MarkChars, Joined
  <2>6. OneSign(r, z, m) \/ Escape(r, z, m)
    BY <2>4, MarkBegins
  <2>7. CASE OneSign(r, z, m)
    <3>1. Head(r) \in Plain /\ Within(Tail(r), Plain, z)
      BY <2>7, WithinHere DEF OneSign, PlainMark
    <3>2. Skip(p, Head(r)) = p
      BY <1>10, <3>1, InSkippedString
    <3>3. At(p, "skip", p.key, FALSE, 0, -1, p.scalar)
      BY <1>2, <1>6, <1>10
    <3> QED BY <1>5, <2>1, <2>3, <2>5, <3>1, <3>2, <3>3
  <2>8. CASE Escape(r, z, m)
    <3> DEFINE q == [p EXCEPT !.escaped = TRUE]
    <3>1. Skip(p, Head(r)) = q
      <4>1. Skip(p, "\\") = q
        BY <1>10, InSkippedString
      <4> QED BY <2>8, <4>1 DEF Escape
    <3>2. At(q, p.state, p.key, TRUE, p.left, p.depth, p.scalar)
      BY Numbers, EscapedIs
    <3>3. Tail(r) # <<>> /\ Within(Tail(Tail(r)), Plain, z)
      BY <2>8 DEF Escape
    <3> HIDE DEF q
    <3>4. q \in ParserType /\ q.state = "skip" /\ q.left = 0 /\ q.depth = -1 /\ q.escaped
      BY <1>2, <3>2 DEF At
    <3>5. \E n \in 0 .. Len(marks) :
            IF q.escaped THEN Tail(r) # <<>> /\ Within(Tail(Tail(r)), Plain, MarksAfter(marks, n, t))
            ELSE Within(Tail(r), Plain, MarksAfter(marks, n, t))
      BY <2>1, <2>3, <3>3, <3>4
    <3> QED BY <1>0, <1>2, <2>5, <3>1, <3>4, <3>5 DEF InSkipAt, SkipStep, Skipped
  <2> QED BY <2>6, <2>7, <2>8
<1> QED BY <1>2, <1>7, <1>8, <1>9, <1>10, <1>3

LEMMA StepInSkip ==
  ASSUME FieldsType, NEW gap \in Gaps, NEW i \in 1 .. Len(fields), NEW p \in ParserType,
         NEW r \in Chars, p.state = "skip", InSkipAt(p, r, gap, i)
  PROVE  r # <<>> /\ SkipStep(p, r, gap, i)
  BY SkipNumber, SkipNested, SkipString

-----------------------------------------------------------------------------
(* In the streamed string.                                                 *)

Told(marks, told, k) == told = SubSeq(Decoded(marks), 1, k)

\* One more of its characters is told.
LEMMA ToldMore ==
  ASSUME NEW marks \in Seq(MarkNames), NEW k \in 0 .. Len(marks) - 1, NEW told, Told(marks, told, k)
  PROVE  Told(marks, Append(told, MarkChar[marks[k + 1]]), k + 1)
<1> DEFINE S == {MarkChar[m] : m \in MarkNames}
<1>1. PICK d \in Seq(S) : d = Decoded(marks) /\ Len(d) = Len(marks) /\ \A i \in 1 .. Len(marks) : d[i] = MarkChar[marks[i]]
  <2> DEFINE e == [i \in 1 .. Len(marks) |-> MarkChar[marks[i]]]
  <2>1. \A i \in 1 .. Len(marks) : MarkChar[marks[i]] \in S
    OBVIOUS
  <2>2. Decoded(marks) = e
    BY DEF Decoded
  <2> HIDE DEF S
  <2>3. e \in Seq(S) /\ Len(e) = Len(marks) /\ \A i \in 1 .. Len(marks) : e[i] = MarkChar[marks[i]]
    BY <2>1
  <2> QED BY <2>2, <2>3
<1> HIDE DEF S
<1>2. k + 1 \in 1 .. Len(marks) /\ 1 \in 1 .. Len(marks) /\ k + 1 - 1 = k /\ Len(marks) \in Nat
  OBVIOUS
<1>3. SubSeq(d, 1, k + 1) = SubSeq(d, 1, k) \o <<d[k + 1]>>
  <2>1. 1 \in 1 .. Len(d) /\ k + 1 \in 1 .. Len(d)
    BY <1>1, <1>2
  <2>2. SubSeq(d, 1, k + 1) = SubSeq(d, 1, k + 1 - 1) \o <<d[k + 1]>>
    BY <2>1, SubSeqRecursiveSecond
  <2> QED BY <1>2, <2>2
<1>4. told \in Seq(S)
  <2>1. \A i \in 1 .. k : d[i] \in S
    BY <1>1
  <2>2. SubSeq(d, 1, k) \in Seq(S)
    BY <2>1, SubSeqProperties
  <2> QED BY <1>1, <2>2 DEF Told
<1>5. d[k + 1] \in S /\ d[k + 1] = MarkChar[marks[k + 1]]
  BY <1>1, <1>2
<1>6. Append(told, d[k + 1]) = told \o <<d[k + 1]>>
  BY <1>4, <1>5, AppendIsConcat
<1> QED BY <1>1, <1>3, <1>5, <1>6 DEF Told

\* With all of them, the text is told.
LEMMA ToldAll ==
  ASSUME NEW marks \in Seq(MarkNames), NEW told, Told(marks, told, Len(marks))
  PROVE  told = Decoded(marks)
<1> DEFINE S == {MarkChar[m] : m \in MarkNames}
           d == [i \in 1 .. Len(marks) |-> MarkChar[marks[i]]]
<1>1. d \in Seq(S) /\ Len(d) = Len(marks)
  <2>1. \A i \in 1 .. Len(marks) : MarkChar[marks[i]] \in S
    OBVIOUS
  <2> HIDE DEF S
  <2> QED BY <2>1
<1>2. Decoded(marks) = d
  BY DEF Decoded
<1> HIDE DEF d, S
<1>3. SubSeq(d, 1, Len(d)) = d
  BY <1>1, SubSeqFull
<1> QED BY <1>1, <1>2, <1>3 DEF Told

\* Nothing is told, or one character.
StringStep(p, r, gap, i, told) ==
  LET q == InString(p, Head(r))
  IN \/ q \in ParserType /\ (InStringAt(q, Tail(r), gap, i, told) \/ (BetweenFieldsAt(q, Tail(r), gap, i) /\ told = Text))
     \/ \E q0 \in ParserType : \E c :
          q = Yield(q0, "chunk", c) /\ InStringAt(q0, Tail(r), gap, i, Append(told, c))

\* What InString does to each kind of character.
LEMMA InStringIs ==
  ASSUME NEW p \in ParserType
  PROVE  /\ \A c : p.left > 0 =>
              InString(p, c) = [(IF p.left = 1 THEN Yield(p, "chunk", "U") ELSE p) EXCEPT !.left = p.left - 1]
         /\ p.left = 0 /\ p.escaped => InString(p, "u") = [[p EXCEPT !.left = 4] EXCEPT !.escaped = FALSE]
         /\ \A c : p.left = 0 /\ p.escaped /\ c # "u" =>
              InString(p, c) = [Yield(p, "chunk", Unescaped(c)) EXCEPT !.escaped = FALSE]
         /\ p.left = 0 /\ ~p.escaped => InString(p, "\\") = [p EXCEPT !.escaped = TRUE]
         /\ p.left = 0 /\ ~p.escaped => InString(p, "\"") = Enter(p, "object")
         /\ \A c \in Plain : p.left = 0 /\ ~p.escaped => InString(p, c) = Yield(p, "chunk", c)
<1>1. p.left \in 0 .. 4 /\ p.escaped \in BOOLEAN
  BY DEF ParserType
<1>2. p.left > 0 => p.left # 0
  BY <1>1
<1>3. ASSUME p.left > 0, NEW c
      PROVE  InString(p, c) = [(IF p.left = 1 THEN Yield(p, "chunk", "U") ELSE p) EXCEPT !.left = p.left - 1]
  <2> DEFINE b == IF p.left = 1 THEN Yield(p, "chunk", "U") ELSE p
  <2>1. InString(p, c) = [b EXCEPT !.left = @ - 1]
    BY <1>2, <1>3 DEF InString
  <2>2. b.left = p.left
    BY DEF Yield, ParserType
  <2> QED BY <2>1, <2>2
<1>4. p.left = 0 => ~(p.left > 0)
  BY <1>1
<1>5. p.left = 0 /\ p.escaped => InString(p, "u") = [[p EXCEPT !.left = 4] EXCEPT !.escaped = FALSE]
  BY <1>4 DEF InString
<1>6. ASSUME p.left = 0, p.escaped, NEW c, c # "u"
      PROVE  InString(p, c) = [Yield(p, "chunk", Unescaped(c)) EXCEPT !.escaped = FALSE]
  BY <1>4, <1>6 DEF InString
<1>7. p.left = 0 /\ ~p.escaped => InString(p, "\\") = [p EXCEPT !.escaped = TRUE]
  BY <1>4 DEF InString
<1>8. p.left = 0 /\ ~p.escaped => InString(p, "\"") = Enter(p, "object")
  BY <1>4 DEF InString
<1>9. ASSUME NEW c \in Plain, p.left = 0, ~p.escaped  PROVE InString(p, c) = Yield(p, "chunk", c)
  BY <1>4, <1>9, PlainSigns DEF InString
<1> QED BY <1>3, <1>5, <1>6, <1>7, <1>8, <1>9

YieldLeft(p, data, left) ==
  [Yield(p, "chunk", data) EXCEPT !.left = left] = Yield([p EXCEPT !.left = left], "chunk", data)
YieldEscaped(p, data, escaped) ==
  [Yield(p, "chunk", data) EXCEPT !.escaped = escaped] = Yield([p EXCEPT !.escaped = escaped], "chunk", data)

LEMMA YieldThen ==
  ASSUME NEW p \in ParserType, NEW data, NEW left, NEW escaped
  PROVE  YieldLeft(p, data, left) /\ YieldEscaped(p, data, escaped)
  BY DEF Yield, ParserType, YieldLeft, YieldEscaped

LEMMA LeftIs ==
  ASSUME NEW p \in ParserType, NEW left \in 0 .. 4
  PROVE  At([p EXCEPT !.left = left], p.state, p.key, p.escaped, left, p.depth, p.scalar)
  BY DEF ParserType, At

LEMMA LeftEscapedIs ==
  ASSUME NEW p \in ParserType, NEW left \in 0 .. 4, NEW escaped \in BOOLEAN
  PROVE  At([[p EXCEPT !.left = left] EXCEPT !.escaped = escaped], p.state, p.key, escaped, left, p.depth, p.scalar)
  BY DEF ParserType, At

LEMMA LeftFacts ==
  /\ 0 \in 0 .. 4 /\ 4 \in 0 .. 4 /\ 4 \in 1 .. 4 /\ 0 \notin 1 .. 4 /\ 1 - 1 = 0
  /\ \A n \in 1 .. 4 : n > 0 /\ n - 1 \in 0 .. 4 /\ n \in 0 .. 4
  /\ \A n \in 1 .. 4 : n # 1 => n - 1 \in 1 .. 4 /\ n > 1
  /\ TRUE \in BOOLEAN /\ FALSE \in BOOLEAN
  OBVIOUS

\* The string of field i, its first k marks read.
InStringOf(p, i, k) ==
  /\ p \in ParserType /\ p.state = "string" /\ p.depth = 0 /\ fields[i].key = "s" /\ fields[i].value.kind = "string"
  /\ k \in 0 .. Len(fields[i].value.marks)

\* A mark is done: its character is told.
LEMMA MarkDone ==
  ASSUME FieldsType, NEW gap \in Gaps, NEW i \in 1 .. Len(fields), NEW k, NEW q0, InStringOf(q0, i, k),
         k # Len(fields[i].value.marks), ~q0.escaped, q0.left = 0,
         NEW told, Told(fields[i].value.marks, told, k), NEW c, c = MarkChar[fields[i].value.marks[k + 1]]
  PROVE  InStringAt(q0, MarksAfter(fields[i].value.marks, k + 1, ValueAfter(gap, i)), gap, i, Append(told, c))
<1> DEFINE marks == fields[i].value.marks
<1>1. marks \in Seq(MarkNames) /\ Len(marks) \in Nat
  BY FieldFacts DEF IsField
<1>2. k \in 0 .. Len(marks) - 1 /\ k + 1 \in 0 .. Len(marks)
  BY <1>1 DEF InStringOf
<1>3. Told(marks, Append(told, c), k + 1)
  BY <1>1, <1>2, ToldMore
<1> QED BY <1>2, <1>3 DEF InStringAt, InStringOf, Told

\* At the beginning of a mark, or at the quote.
LEMMA StringPlain ==
  ASSUME FieldsType, NEW gap \in Gaps, NEW i \in 1 .. Len(fields), NEW k, NEW p, InStringOf(p, i, k),
         ~p.escaped, p.left = 0, NEW told, Told(fields[i].value.marks, told, k),
         NEW r, r = MarksAfter(fields[i].value.marks, k, ValueAfter(gap, i))
  PROVE  r # <<>> /\ StringStep(p, r, gap, i, told)
<1> DEFINE marks == fields[i].value.marks
<1>0. PICK t \in Chars : t = ValueAfter(gap, i) /\ Within(t, {" ", ","}, FieldsAfter(gap, i))
  BY TextTypes, GoneBetween
<1>1. marks \in Seq(MarkNames) /\ Len(marks) \in Nat /\ k \in 0 .. Len(marks) /\ p \in ParserType
  BY FieldFacts DEF IsField, InStringOf
<1>2. r \in Chars /\ r # <<>>
  BY <1>0, <1>1, MarksType, MarksSome
<1>3. CASE k = Len(marks)
  <2>1. r = <<"\"">> \o t
    BY <1>0, <1>1, <1>3, MarksEnd
  <2>2. Head(r) = "\"" /\ Tail(r) = t
    <3>1. "\"" \in Char
      BY Signs
    <3> QED BY <2>1, <3>1, InFront
  <2>3. InString(p, Head(r)) = Enter(p, "object")
    <3>1. InString(p, "\"") = Enter(p, "object")
      BY <1>1, InStringIs
    <3> QED BY <2>2, <3>1
  <2>4. At(Enter(p, "object"), "object", p.key, p.escaped, p.left, p.depth, p.scalar)
    BY <1>1, EnterIs
  <2>5. told = Text
    <3>1. told = Decoded(marks)
      BY <1>1, <1>3, ToldAll
    <3> QED BY <3>1, TextIs DEF InStringOf
  <2>6. Enter(p, "object") \in ParserType /\ BetweenFieldsAt(Enter(p, "object"), Tail(r), gap, i)
    BY <1>0, <2>2, <2>4 DEF At, BetweenFieldsAt, Level, InStringOf
  <2> QED BY <1>2, <2>3, <2>5, <2>6 DEF StringStep
<1>4. CASE k # Len(marks)
  <2>1. k \in 0 .. Len(marks) - 1 /\ k + 1 \in 0 .. Len(marks) /\ k < Len(marks)
    BY <1>1, <1>4
  <2>2. PICK m \in MarkNames : m = marks[k + 1]
    BY <1>1, <2>1, MarksNext
  <2>3. PICK z \in Chars : z = MarksAfter(marks, k + 1, t)
    BY <1>1, <2>1, MarksType
  <2>4. r = MarkText[m] \o z
    BY <1>0, <1>1, <2>1, <2>2, <2>3, MarksNext
  <2>5. OneSign(r, z, m) \/ Escape(r, z, m)
    BY <1>2, <2>4, MarkBegins
  <2>6. CASE OneSign(r, z, m)
    <3>1. PICK c \in Plain : c = Head(r) /\ c = MarkChar[m] /\ Tail(r) = z
      BY <2>6 DEF OneSign, PlainMark
    <3>2. InString(p, c) = Yield(p, "chunk", c)
      BY <1>1, InStringIs
    <3>3. InStringAt(p, z, gap, i, Append(told, c))
      BY <1>0, <1>4, <2>2, <2>3, <3>1, MarkDone
    <3> QED BY <1>1, <1>2, <3>1, <3>2, <3>3 DEF StringStep
  <2>7. CASE Escape(r, z, m)
    <3> DEFINE q == [p EXCEPT !.escaped = TRUE]
    <3>1. InString(p, Head(r)) = q
      <4>1. InString(p, "\\") = q
        BY <1>1, InStringIs
      <4> QED BY <2>7, <4>1 DEF Escape
    <3>2. At(q, p.state, p.key, TRUE, p.left, p.depth, p.scalar)
      BY <1>1, Numbers, EscapedIs
    <3>3. Head(MarkText[m]) = "\\" /\ Tail(r) = Tail(MarkText[m]) \o z
      BY <2>7 DEF Escape
    <3> HIDE DEF q
    <3>4. InStringAt(q, Tail(r), gap, i, told)
      BY <1>0, <1>1, <2>1, <2>2, <2>3, <3>2, <3>3 DEF InStringAt, At, InStringOf, Told
    <3> QED BY <1>2, <3>1, <3>2, <3>4 DEF StringStep, At
  <2> QED BY <2>5, <2>6, <2>7
<1> QED BY <1>3, <1>4

\* After the backslash of a mark.
Begun(r, marks, k, t) ==
  Head(MarkText[marks[k + 1]]) = "\\" /\ r = Tail(MarkText[marks[k + 1]]) \o MarksAfter(marks, k + 1, t)

LEMMA StringEscaped ==
  ASSUME FieldsType, NEW gap \in Gaps, NEW i \in 1 .. Len(fields), NEW k, NEW p, InStringOf(p, i, k),
         k < Len(fields[i].value.marks),
         p.escaped, p.left = 0, NEW told, Told(fields[i].value.marks, told, k),
         NEW r, Begun(r, fields[i].value.marks, k, ValueAfter(gap, i))
  PROVE  r # <<>> /\ StringStep(p, r, gap, i, told)
<1> DEFINE marks == fields[i].value.marks
<1>0. PICK t \in Chars : t = ValueAfter(gap, i)
  BY TextTypes
<1>1. marks \in Seq(MarkNames) /\ Len(marks) \in Nat /\ k \in 0 .. Len(marks) /\ p \in ParserType
  BY FieldFacts DEF IsField, InStringOf
<1>2. k \in 0 .. Len(marks) - 1 /\ k + 1 \in 0 .. Len(marks) /\ k # Len(marks)
  BY <1>1
<1>3. PICK m \in MarkNames : m = marks[k + 1]
  BY <1>1, <1>2, MarksNext, NoChars
<1>4. PICK z \in Chars : z = MarksAfter(marks, k + 1, t)
  BY <1>1, <1>2, MarksType
<1>5. PICK r0 \in Chars : r0 = MarkText[m] \o z /\ Tail(r0) = r /\ Head(r0) = "\\"
  <2>1. MarkText[m] \in Chars /\ MarkText[m] # <<>>
    BY MarkChars
  <2>2. Head(MarkText[m]) = "\\" /\ r = Tail(MarkText[m]) \o z
    BY <1>0, <1>3, <1>4 DEF Begun
  <2>3. PICK w \in Chars : w = MarkText[m]
    BY <2>1
  <2>4. w \o z \in Chars /\ Head(w \o z) = Head(w) /\ Tail(w \o z) = Tail(w) \o z
    BY <2>1, <2>3, Joined
  <2> QED BY <2>2, <2>3, <2>4
<1>6. Escape(r0, z, m)
  <2>1. OneSign(r0, z, m) \/ Escape(r0, z, m)
    BY <1>5, MarkBegins
  <2>2. ~OneSign(r0, z, m)
    BY <1>5, PlainSigns DEF OneSign, PlainMark
  <2> QED BY <2>1, <2>2
<1>7. r \in Chars /\ r # <<>>
  BY <1>5, <1>6 DEF Escape
<1>8. CASE Head(r) # "u" /\ Unescaped(Head(r)) = MarkChar[m] /\ Tail(r) = z
  <2> DEFINE q0 == [p EXCEPT !.escaped = FALSE]
  <2>1. InString(p, Head(r)) = [Yield(p, "chunk", MarkChar[m]) EXCEPT !.escaped = FALSE]
    <3>1. PICK c : c = Head(r)
      OBVIOUS
    <3>2. c # "u" /\ Unescaped(c) = MarkChar[m]
      BY <1>8, <3>1
    <3>3. InString(p, c) = [Yield(p, "chunk", Unescaped(c)) EXCEPT !.escaped = FALSE]
      BY <1>1, <3>2, InStringIs
    <3> QED BY <3>1, <3>2, <3>3
  <2>2. InString(p, Head(r)) = Yield(q0, "chunk", MarkChar[m])
    <3>1. [Yield(p, "chunk", MarkChar[m]) EXCEPT !.escaped = FALSE] = Yield(q0, "chunk", MarkChar[m])
      <4>1. YieldEscaped(p, MarkChar[m], FALSE)
        BY <1>1, YieldThen
      <4> QED BY <4>1 DEF YieldEscaped
    <3> QED BY <2>1, <3>1
  <2>3. At(q0, p.state, p.key, FALSE, p.left, p.depth, p.scalar)
    BY <1>1, Numbers, EscapedIs
  <2> HIDE DEF q0
  <2>4. InStringOf(q0, i, k) /\ ~q0.escaped /\ q0.left = 0
    BY <2>3 DEF At, InStringOf
  <2>5. InStringAt(q0, z, gap, i, Append(told, MarkChar[m]))
    BY <1>0, <1>2, <1>3, <1>4, <2>4, MarkDone
  <2> QED BY <1>7, <1>8, <2>2, <2>4, <2>5 DEF StringStep, InStringOf
<1>9. CASE Head(r) = "u" /\ m = "letter" /\ Tail(r) = [j \in 1 .. 4 |-> "h"] \o z
  <2> DEFINE q == [[p EXCEPT !.left = 4] EXCEPT !.escaped = FALSE]
  <2>1. InString(p, Head(r)) = q
    <3>1. InString(p, "u") = q
      BY <1>1, InStringIs
    <3> QED BY <1>9, <3>1
  <2>2. At(q, p.state, p.key, FALSE, 4, p.depth, p.scalar)
    BY <1>1, LeftFacts, LeftEscapedIs, Zenon
  <2> HIDE DEF q
  <2>3. q \in ParserType /\ q.state = "string" /\ q.depth = 0 /\ ~q.escaped /\ q.left = 4
    BY <2>2 DEF At, InStringOf
  <2>4. Tail(r) = [j \in 1 .. q.left |-> "h"] \o z /\ q.left \in 1 .. 4
    BY <1>9, <2>3, LeftFacts
  <2>5. InStringAt(q, Tail(r), gap, i, told)
    BY <1>0, <1>1, <1>3, <1>4, <1>9, <2>3, <2>4 DEF InStringAt, InStringOf, Told
  <2> QED BY <1>7, <2>1, <2>3, <2>5 DEF StringStep
<1> QED BY <1>5, <1>6, <1>8, <1>9 DEF Escape

\* In the number of a letter.
LEMMA StringNumber ==
  ASSUME FieldsType, NEW gap \in Gaps, NEW i \in 1 .. Len(fields), NEW k, NEW p, InStringOf(p, i, k),
         k < Len(fields[i].value.marks),
         ~p.escaped, p.left \in 1 .. 4, NEW told, Told(fields[i].value.marks, told, k),
         NEW r, fields[i].value.marks[k + 1] = "letter",
         r = [j \in 1 .. p.left |-> "h"] \o MarksAfter(fields[i].value.marks, k + 1, ValueAfter(gap, i))
  PROVE  r # <<>> /\ StringStep(p, r, gap, i, told)
<1> DEFINE marks == fields[i].value.marks
<1>0. PICK t \in Chars : t = ValueAfter(gap, i)
  BY TextTypes
<1>1. marks \in Seq(MarkNames) /\ Len(marks) \in Nat /\ k \in 0 .. Len(marks) /\ p \in ParserType
  BY FieldFacts DEF IsField, InStringOf
<1>2. k + 1 \in 0 .. Len(marks) /\ k # Len(marks)
  BY <1>1
<1>3. PICK z \in Chars : z = MarksAfter(marks, k + 1, t)
  BY <1>1, <1>2, MarksType
<1>4. PICK n \in 1 .. 4 : n = p.left
  OBVIOUS
<1>5. PICK hs \in Chars : /\ hs = [j \in 1 .. n |-> "h"] /\ hs # <<>> /\ Head(hs) = "h"
                          /\ n > 1 => Tail(hs) = [j \in 1 .. n - 1 |-> "h"]
                          /\ n = 1 => Tail(hs) = <<>>
  BY Hs
<1>6. r = hs \o z /\ r # <<>> /\ Tail(r) = Tail(hs) \o z
  BY <1>0, <1>3, <1>4, <1>5, Joined
<1>11. PICK l \in 0 .. 4 : l = n - 1
  BY LeftFacts
<1> DEFINE q0 == [p EXCEPT !.left = l]
<1>7. At(q0, p.state, p.key, p.escaped, l, p.depth, p.scalar)
  BY <1>1, LeftFacts, LeftIs
<1>8. InString(p, Head(r)) = [(IF p.left = 1 THEN Yield(p, "chunk", "U") ELSE p) EXCEPT !.left = l]
  BY <1>1, <1>4, <1>11, LeftFacts, InStringIs
<1>9. CASE n # 1
  <2>1. InString(p, Head(r)) = q0
    BY <1>4, <1>8, <1>9
  <2> HIDE DEF q0
  <2>2. q0 \in ParserType /\ q0.state = "string" /\ q0.depth = 0 /\ ~q0.escaped /\ q0.left = l
    BY <1>7 DEF At, InStringOf
  <2>3. Tail(r) = [j \in 1 .. q0.left |-> "h"] \o z /\ q0.left \in 1 .. 4
    <3>1. n > 1 /\ l \in 1 .. 4
      BY <1>9, <1>11, LeftFacts
    <3>2. Tail(hs) = [j \in 1 .. l |-> "h"]
      BY <1>5, <1>11, <3>1
    <3> QED BY <1>6, <2>2, <3>1, <3>2
  <2>4. InStringAt(q0, Tail(r), gap, i, told)
    BY <1>0, <1>1, <1>3, <2>2, <2>3 DEF InStringAt, InStringOf, Told
  <2> QED BY <1>6, <2>1, <2>2, <2>4 DEF StringStep
<1>10. CASE n = 1
  <2>1. InString(p, Head(r)) = [Yield(p, "chunk", "U") EXCEPT !.left = l]
    BY <1>4, <1>8, <1>10
  <2>2. InString(p, Head(r)) = Yield(q0, "chunk", "U")
    <3>1. [Yield(p, "chunk", "U") EXCEPT !.left = l] = Yield(q0, "chunk", "U")
      <4>1. YieldLeft(p, "U", l)
        BY <1>1, YieldThen
      <4> QED BY <4>1 DEF YieldLeft
    <3> QED BY <2>1, <3>1
  <2> HIDE DEF q0
  <2>3. InStringOf(q0, i, k) /\ ~q0.escaped /\ q0.left = l /\ l = 0
    BY <1>7, <1>11, <1>10, LeftFacts DEF At, InStringOf
  <2>4. MarkChar[marks[k + 1]] = "U"
    BY DEF MarkChar
  <2>5. InStringAt(q0, z, gap, i, Append(told, "U"))
    BY <1>0, <1>2, <1>3, <2>3, <2>4, MarkDone
  <2>6. Tail(r) = z
    <3>1. Tail(hs) = <<>>
      BY <1>5, <1>10
    <3>2. <<>> \o z = z
      BY NoChars, Joined
    <3> QED BY <1>6, <3>1, <3>2
  <2> QED BY <1>6, <2>2, <2>3, <2>5, <2>6 DEF StringStep, InStringOf
<1> QED BY <1>9, <1>10

LEMMA StepInString ==
  ASSUME FieldsType, NEW gap \in Gaps, NEW i \in 1 .. Len(fields), NEW p \in ParserType,
         NEW r \in Chars, NEW told, InStringAt(p, r, gap, i, told)
  PROVE  r # <<>> /\ StringStep(p, r, gap, i, told)
<1> DEFINE marks == fields[i].value.marks
           t == ValueAfter(gap, i)
<1>1. PICK k \in 0 .. Len(marks) :
          /\ told = SubSeq(Decoded(marks), 1, k)
          /\ \/ ~p.escaped /\ p.left = 0 /\ r = MarksAfter(marks, k, t)
             \/ /\ k < Len(marks) /\ p.escaped /\ p.left = 0
                /\ Head(MarkText[marks[k + 1]]) = "\\"
                /\ r = Tail(MarkText[marks[k + 1]]) \o MarksAfter(marks, k + 1, t)
             \/ /\ k < Len(marks) /\ ~p.escaped /\ p.left \in 1 .. 4 /\ marks[k + 1] = "letter"
                /\ r = [j \in 1 .. p.left |-> "h"] \o MarksAfter(marks, k + 1, t)
  BY DEF InStringAt
<1>2. InStringOf(p, i, k) /\ Told(marks, told, k)
  BY <1>1 DEF InStringAt, InStringOf, Told
<1> HIDE DEF t
<1>3. CASE ~p.escaped /\ p.left = 0 /\ r = MarksAfter(marks, k, t)
  BY <1>2, <1>3, StringPlain DEF t
<1>4. CASE /\ k < Len(marks) /\ p.escaped /\ p.left = 0
           /\ Head(MarkText[marks[k + 1]]) = "\\"
           /\ r = Tail(MarkText[marks[k + 1]]) \o MarksAfter(marks, k + 1, t)
  <2>1. Begun(r, marks, k, ValueAfter(gap, i))
    BY <1>4 DEF Begun, t
  <2> QED BY <1>2, <1>4, <2>1, StringEscaped
<1>5. CASE /\ k < Len(marks) /\ ~p.escaped /\ p.left \in 1 .. 4 /\ marks[k + 1] = "letter"
           /\ r = [j \in 1 .. p.left |-> "h"] \o MarksAfter(marks, k + 1, t)
  BY <1>2, <1>5, StringNumber DEF t
<1> QED BY <1>1, <1>3, <1>4, <1>5

-----------------------------------------------------------------------------
(* The text of a scalar, and its value.                                    *)

\* The character that tells a mark from the others.
Sign(w) == IF Len(w) = 1 THEN w[1] ELSE w[2]
MarkOf(c) ==
  CASE c = "x" -> "x" [] c = "v" -> "advance" [] c = "g" -> "nudge" [] c = "," -> "comma" [] c = " " -> "blank"
    [] c = "[" -> "open" [] c = "}" -> "close" [] c = "n" -> "newline" [] c = "\"" -> "quote"
    [] c = "\\" -> "backslash" [] c = "u" -> "letter"

LEMMA MarkIs ==
  ASSUME NEW m \in MarkNames
  PROVE  MarkOf(Sign(MarkText[m])) = m
<1>0. \A c, d : Sign(<<c>>) = c /\ Sign(<<c, d>>) = d /\ Sign(<<"\\", c, d, d, d, d>>) = c
  BY DEF Sign
<1>1. MarkOf(Sign(MarkText["x"])) = "x"
  <2>1. MarkText["x"] = <<"x">>
    BY DEF MarkText
  <2>2. MarkOf("x") = "x"
    BY DEF MarkOf
  <2> QED BY <1>0, <2>1, <2>2
<1>2. MarkOf(Sign(MarkText["advance"])) = "advance"
  <2>1. MarkText["advance"] = <<"v">>
    BY DEF MarkText
  <2>2. MarkOf("v") = "advance"
    BY DEF MarkOf
  <2> QED BY <1>0, <2>1, <2>2
<1>3. MarkOf(Sign(MarkText["nudge"])) = "nudge"
  <2>1. MarkText["nudge"] = <<"g">>
    BY DEF MarkText
  <2>2. MarkOf("g") = "nudge"
    BY DEF MarkOf
  <2> QED BY <1>0, <2>1, <2>2
<1>4. MarkOf(Sign(MarkText["comma"])) = "comma"
  <2>1. MarkText["comma"] = <<",">>
    BY DEF MarkText
  <2>2. MarkOf(",") = "comma"
    BY DEF MarkOf
  <2> QED BY <1>0, <2>1, <2>2
<1>5. MarkOf(Sign(MarkText["blank"])) = "blank"
  <2>1. MarkText["blank"] = <<" ">>
    BY DEF MarkText
  <2>2. MarkOf(" ") = "blank"
    BY DEF MarkOf
  <2> QED BY <1>0, <2>1, <2>2
<1>6. MarkOf(Sign(MarkText["open"])) = "open"
  <2>1. MarkText["open"] = <<"[">>
    BY DEF MarkText
  <2>2. MarkOf("[") = "open"
    BY DEF MarkOf
  <2> QED BY <1>0, <2>1, <2>2
<1>7. MarkOf(Sign(MarkText["close"])) = "close"
  <2>1. MarkText["close"] = <<"}">>
    BY DEF MarkText
  <2>2. MarkOf("}") = "close"
    BY DEF MarkOf
  <2> QED BY <1>0, <2>1, <2>2
<1>8. MarkOf(Sign(MarkText["newline"])) = "newline"
  <2>1. MarkText["newline"] = <<"\\", "n">>
    BY DEF MarkText
  <2>2. MarkOf("n") = "newline"
    BY DEF MarkOf
  <2> QED BY <1>0, <2>1, <2>2
<1>9. MarkOf(Sign(MarkText["quote"])) = "quote"
  <2>1. MarkText["quote"] = <<"\\", "\"">>
    BY DEF MarkText
  <2>2. MarkOf("\"") = "quote"
    BY DEF MarkOf
  <2>3. Sign(<<"\\", "\"">>) = "\""
    BY <1>0, Zenon
  <2> QED BY <2>1, <2>2, <2>3, Zenon
<1>10. MarkOf(Sign(MarkText["backslash"])) = "backslash"
  <2>1. MarkText["backslash"] = <<"\\", "\\">>
    BY DEF MarkText
  <2>2. MarkOf("\\") = "backslash"
    BY DEF MarkOf
  <2> QED BY <1>0, <2>1, <2>2
<1>11. MarkOf(Sign(MarkText["letter"])) = "letter"
  <2>1. MarkText["letter"] = <<"\\", "u", "h", "h", "h", "h">>
    BY DEF MarkText
  <2>2. MarkOf("u") = "letter"
    BY DEF MarkOf
  <2> QED BY <1>0, <2>1, <2>2
<1> QED BY <1>1, <1>2, <1>3, <1>4, <1>5, <1>6, <1>7, <1>8, <1>9, <1>10, <1>11 DEF MarkNames

LEMMA MarksDiffer ==
  ASSUME NEW m \in MarkNames, NEW n \in MarkNames, MarkText[m] = MarkText[n]
  PROVE  m = n
  BY MarkIs

\* A string of one mark, sign by sign.
QuotedShape(w, u) ==
  /\ Len(w) = Len(u) + 2 /\ w[1] = "\"" /\ w[Len(u) + 2] = "\""
  /\ \A j \in 2 .. Len(u) + 1 : w[j] = u[j - 1]

LEMMA QuotedParts ==
  ASSUME NEW m \in MarkNames
  PROVE  /\ Quoted(<<m>>) \in Chars /\ QuotedShape(Quoted(<<m>>), MarkText[m])
         /\ Len(MarkText[m]) \in Nat /\ Len(MarkText[m]) >= 1
<1>1. PICK u \in Chars : u = MarkText[m] /\ u # <<>>
  BY MarkChars
<1>2. PICK q \in Chars : q = <<"\"">> /\ Len(q) = 1 /\ q[1] = "\""
  <2>1. <<"\"">> \in Chars
    BY Signs, OneChar
  <2> QED BY <2>1
<1>10. Len(q) = 1
  BY <1>2
<1>3. PICK n \in Nat : n = Len(u) /\ n >= 1
  BY <1>1 DEF Chars
<1>4. PICK x \in Chars : x = q \o u
  BY JoinType
<1>5. /\ Len(x) = Len(q) + Len(u)
      /\ \A j \in 1 .. Len(q) + Len(u) : x[j] = IF j <= Len(q) THEN q[j] ELSE u[j - Len(q)]
  BY <1>4, Joined
<1>6. PICK w \in Chars : w = x \o q
  BY JoinType
<1>7. /\ Len(w) = Len(x) + Len(q)
      /\ \A j \in 1 .. Len(x) + Len(q) : w[j] = IF j <= Len(x) THEN x[j] ELSE q[j - Len(x)]
  BY <1>6, Joined
<1>8. Len(w) = n + 2 /\ w[1] = "\"" /\ w[n + 2] = "\"" /\ \A j \in 2 .. n + 1 : w[j] = u[j - 1]
  <2>1. Len(x) = n + 1 /\ Len(w) = n + 2
    BY <1>10, <1>3, <1>5, <1>7
  <2>2. \A j \in 1 .. n + 1 : x[j] = IF j <= 1 THEN q[j] ELSE u[j - 1]
    BY <1>10, <1>3, <1>5
  <2>3. \A j \in 1 .. n + 2 : w[j] = IF j <= n + 1 THEN x[j] ELSE q[j - (n + 1)]
    BY <1>10, <1>7, <2>1
  <2>4. x[1] = "\"" /\ \A j \in 2 .. n + 1 : x[j] = u[j - 1]
    <3>1. 1 \in 1 .. n + 1 /\ \A j \in 2 .. n + 1 : j \in 1 .. n + 1 /\ ~(j <= 1)
      BY <1>3
    <3>2. x[1] = q[1] /\ \A j \in 2 .. n + 1 : x[j] = u[j - 1]
      BY <2>2, <3>1
    <3>3. q[1] = "\""
      BY <1>2
    <3> QED BY <3>2, <3>3
  <2>5. w[n + 2] = q[1]
    <3>1. n + 2 \in 1 .. n + 2 /\ ~(n + 2 <= n + 1) /\ n + 2 - (n + 1) = 1
      OBVIOUS
    <3> QED BY <2>3, <3>1
  <2>6. \A j \in 1 .. n + 1 : w[j] = x[j]
    <3>1. \A j \in 1 .. n + 1 : j \in 1 .. n + 2 /\ j <= n + 1
      OBVIOUS
    <3> QED BY <2>3, <3>1
  <2>7. 1 \in 1 .. n + 1 /\ \A j \in 2 .. n + 1 : j \in 1 .. n + 1
    BY <1>3
  <2> QED BY <1>2, <2>1, <2>4, <2>5, <2>6, <2>7
<1>9. Quoted(<<m>>) = w
  BY <1>1, <1>2, <1>4, <1>6, QuotedOne
<1> QED BY <1>1, <1>3, <1>8, <1>9 DEF QuotedShape

\* What is known of the text of a scalar.
ScalarText(v) ==
  /\ ValueText(v) \in Chars
  /\ v.kind = "number" => ValueText(v) = <<"1">>
  /\ v.kind = "null" => ValueText(v) = <<"0">>
  /\ v.kind = "string" => \E m \in MarkNames : v.marks = <<m>> /\ ValueText(v) = Quoted(<<m>>)

LEMMA ScalarTextIs ==
  ASSUME NEW v \in Values["a"]
  PROVE  ScalarText(v)
<1>1. v.kind = "string" => \E m \in MarkNames : v.marks = <<m>> /\ ValueText(v) = Quoted(<<m>>)
  BY ValueOfAction DEF ValueText
<1>2. ValueText(v) \in Chars
  BY ValueChars DEF Keys
<1>3. v.kind = "number" => ValueText(v) = <<"1">>
  BY TextOfBare
<1>4. v.kind = "null" => ValueText(v) = <<"0">>
  BY TextOfBare
<1> QED BY <1>1, <1>2, <1>3, <1>4 DEF ScalarText

LEMMA QuotedDiffer ==
  ASSUME NEW m \in MarkNames, NEW n \in MarkNames, Quoted(<<m>>) = Quoted(<<n>>)
  PROVE  m = n
<1>1. PICK a \in Chars, b \in Chars, w \in Chars : a = MarkText[m] /\ b = MarkText[n] /\ w = Quoted(<<m>>)
  BY MarkChars, QuotedParts
<1>2. QuotedShape(w, a) /\ QuotedShape(w, b)
  BY <1>1, QuotedParts
<1>3. PICK k \in Nat : k = Len(a)
  BY DEF Chars
<1>4. Len(b) = k /\ Len(b) \in Nat
  <2>1. Len(b) \in Nat
    BY DEF Chars
  <2>2. k + 2 = Len(b) + 2
    BY <1>2, <1>3 DEF QuotedShape
  <2> QED BY <2>1, <2>2
<1>5. ASSUME NEW j \in 1 .. k  PROVE a[j] = b[j]
  <2>1. PICK x \in Nat : x = j + 1 /\ x \in 2 .. k + 1 /\ x - 1 = j
    OBVIOUS
  <2>2. w[x] = a[x - 1] /\ w[x] = b[x - 1]
    BY <1>2, <1>3, <1>4, <2>1 DEF QuotedShape
  <2> QED BY <2>1, <2>2
<1>6. a = b
  BY <1>3, <1>4, <1>5, SeqEqual DEF Chars
<1> QED BY <1>1, <1>6, MarksDiffer

\* Two scalars are not written alike.
LEMMA ScalarsDiffer ==
  ASSUME NEW v \in Values["a"], NEW x \in Values["a"], ValueText(v) = ValueText(x)
  PROVE  v = x
<1>1. ScalarText(v) /\ ScalarText(x)
  BY ScalarTextIs
<1>2. /\ v.kind \in {"string", "number", "null"} /\ v = [kind |-> v.kind, marks |-> v.marks]
      /\ v.kind # "string" => v.marks = <<>>
  BY ValueOfAction
<1>3. /\ x.kind \in {"string", "number", "null"} /\ x = [kind |-> x.kind, marks |-> x.marks]
      /\ x.kind # "string" => x.marks = <<>>
  BY ValueOfAction
<1>4. \A m \in MarkNames : \A c : Quoted(<<m>>) # <<c>>
  <2> SUFFICES ASSUME NEW m \in MarkNames, NEW c, Quoted(<<m>>) = <<c>>  PROVE FALSE
    OBVIOUS
  <2>1. PICK n \in Nat : n = Len(MarkText[m]) /\ n >= 1 /\ Len(Quoted(<<m>>)) = n + 2
    BY QuotedParts DEF QuotedShape
  <2>2. Len(<<c>>) = 1
    OBVIOUS
  <2> QED BY <2>1, <2>2
<1>5. <<"1">> # <<"0">>
  OBVIOUS
<1>6. CASE v.kind = "string"
  <2>1. PICK m \in MarkNames : v.marks = <<m>> /\ ValueText(v) = Quoted(<<m>>)
    BY <1>1, <1>6 DEF ScalarText
  <2>2. x.kind = "string"
    BY <1>1, <1>3, <1>4, <2>1 DEF ScalarText
  <2>3. PICK n \in MarkNames : x.marks = <<n>> /\ ValueText(x) = Quoted(<<n>>)
    BY <1>1, <2>2 DEF ScalarText
  <2>4. m = n
    BY <2>1, <2>3, QuotedDiffer
  <2> QED BY <1>2, <1>3, <1>6, <2>1, <2>2, <2>3, <2>4
<1>7. CASE v.kind # "string"
  <2>1. PICK c \in {"1", "0"} : ValueText(v) = <<c>> /\ (v.kind = "number" <=> c = "1")
    BY <1>1, <1>2, <1>7 DEF ScalarText
  <2>2. x.kind # "string"
    BY <1>1, <1>4, <2>1 DEF ScalarText
  <2>3. PICK d \in {"1", "0"} : ValueText(x) = <<d>> /\ (x.kind = "number" <=> d = "1")
    BY <1>1, <1>3, <2>2 DEF ScalarText
  <2>4. c = d
    <3>1. <<c>> = <<d>>
      BY <2>1, <2>3
    <3> QED BY <3>1
  <2>5. v.kind = x.kind /\ v.marks = x.marks
    BY <1>2, <1>3, <1>7, <2>1, <2>2, <2>3, <2>4
  <2> QED BY <1>2, <1>3, <2>5
<1> QED BY <1>6, <1>7

\* The marks that end a scalar early.
Illegible == {"comma", "close", "blank"}
Solid == Char \ {",", "}", " "}

LEMMA MarkSolid ==
  ASSUME NEW m \in MarkNames, m \notin Illegible
  PROVE  MarkText[m] \in Seq(Solid)
<1>1. MarkText["x"] = <<"x">> /\ MarkText["advance"] = <<"v">> /\ MarkText["nudge"] = <<"g">> /\ MarkText["open"] = <<"[">>
  BY DEF MarkText
<1>2. MarkText["newline"] = <<"\\", "n">> /\ MarkText["quote"] = <<"\\", "\"">> /\ MarkText["backslash"] = <<"\\", "\\">>
  BY DEF MarkText
<1>3. MarkText["letter"] = <<"\\", "u", "h", "h", "h", "h">>
  BY DEF MarkText
<1>4. \A c \in Solid, d \in Solid : <<c>> \in Seq(Solid) /\ <<c, d>> \in Seq(Solid)
  OBVIOUS
<1>5. \A c \in Solid, d \in Solid, e \in Solid : <<c, d, e, e, e, e>> \in Seq(Solid)
  OBVIOUS
<1>6. /\ "\"" \in Solid /\ "\\" \in Solid /\ "[" \in Solid /\ "x" \in Solid /\ "v" \in Solid /\ "g" \in Solid
      /\ "n" \in Solid /\ "u" \in Solid /\ "h" \in Solid
  BY DEF Solid, Char, Plain
<1>7. MarkText["letter"] \in Seq(Solid)
  BY <1>3, <1>5, <1>6
<1>8. MarkText["newline"] \in Seq(Solid) /\ MarkText["quote"] \in Seq(Solid) /\ MarkText["backslash"] \in Seq(Solid)
  BY <1>2, <1>4, <1>6
<1>9. MarkText["x"] \in Seq(Solid) /\ MarkText["advance"] \in Seq(Solid) /\ MarkText["nudge"] \in Seq(Solid)
      /\ MarkText["open"] \in Seq(Solid)
  BY <1>1, <1>4, <1>6
<1> QED BY <1>7, <1>8, <1>9 DEF MarkNames, Illegible

BadCut(w, k) == k >= 1 /\ k < Len(w) /\ w[k + 1] \notin Solid

\* Where a string is cut in two, only after its first quote and before such a mark.
LEMMA CutShort ==
  ASSUME NEW v \in Values["a"], NEW k \in Nat, BadCut(ValueText(v), k)
  PROVE  /\ k = 1 /\ ValueText(v)[1] = "\"" /\ v.kind = "string"
         /\ \E m \in Illegible : v.marks = <<m>>
<1>1. ScalarText(v)
  BY ScalarTextIs
<1>2. PICK w \in Chars : w = ValueText(v)
  BY <1>1 DEF ScalarText
<1>0. k >= 1 /\ k < Len(w) /\ w[k + 1] \notin Solid
  BY <1>2 DEF BadCut
<1>3. v.kind = "string"
  <2>1. \A c : Len(<<c>>) = 1
    OBVIOUS
  <2>2. Len(w) # 1
    BY <1>0
  <2> QED BY <1>1, <1>2, <2>1, <2>2, ValueOfAction DEF ScalarText
<1>4. PICK m \in MarkNames : v.marks = <<m>> /\ w = Quoted(<<m>>)
  BY <1>1, <1>2, <1>3 DEF ScalarText
<1>5. PICK u \in Chars, n \in Nat : u = MarkText[m] /\ n = Len(u) /\ n >= 1 /\ QuotedShape(w, u)
  BY <1>4, MarkChars, QuotedParts
<1>6. /\ Len(w) = n + 2 /\ w[1] = "\"" /\ w[n + 2] = "\""
      /\ \A j \in 2 .. n + 1 : w[j] = u[j - 1]
  BY <1>5 DEF QuotedShape
<1>7. k + 1 \in 2 .. n + 2 /\ w[k + 1] \notin Solid
  <2>1. k < n + 2 /\ k >= 1
    BY <1>0, <1>6
  <2> QED BY <1>0, <2>1
<1>8. "\"" \in Solid
  BY DEF Solid, Char
<1>9. k + 1 # n + 2
  BY <1>6, <1>7, <1>8
<1>10. k \in 1 .. n /\ w[k + 1] = u[k]
  <2>1. PICK j \in Nat : j = k + 1
    OBVIOUS
  <2>2. j \in 2 .. n + 1 /\ j - 1 = k /\ k \in 1 .. n
    BY <1>7, <1>9, <2>1
  <2> QED BY <1>6, <2>1, <2>2
<1>11. m \in Illegible
  <2>1. SUFFICES ASSUME m \notin Illegible  PROVE FALSE
    OBVIOUS
  <2>2. u \in Seq(Solid)
    BY <1>5, <2>1, MarkSolid
  <2>3. u[k] \in Solid
    BY <1>5, <1>10, <2>2, ElementOfSeq
  <2> QED BY <1>7, <1>10, <2>3
<1>12. Len(MarkText[m]) = 1
  <2>1. MarkText["comma"] = <<",">> /\ MarkText["close"] = <<"}">> /\ MarkText["blank"] = <<" ">>
    BY DEF MarkText
  <2>2. \A c : Len(<<c>>) = 1
    OBVIOUS
  <2> QED BY <1>11, <2>1, <2>2 DEF Illegible
<1>13. k = 1
  <2>1. n = 1
    BY <1>5, <1>12
  <2> QED BY <1>10, <2>1
<1> QED BY <1>2, <1>3, <1>4, <1>6, <1>11, <1>13

\* Of a text, the part read and the part to come.
Cut2(w, k, told, r, t) == k \in 1 .. Len(w) /\ told = SubSeq(w, 1, k) /\ r = SubSeq(w, k + 1, Len(w)) \o t

LEMMA CutAll ==
  ASSUME NEW w \in Chars, NEW t \in Chars, NEW told, NEW r, Cut2(w, Len(w), told, r, t)
  PROVE  told = w /\ r = t
<1>1. SubSeq(w, 1, Len(w)) = w
  BY SubSeqFull DEF Chars
<1>2. SubSeq(w, Len(w) + 1, Len(w)) = <<>>
  <2>1. Len(w) \in Int /\ Len(w) + 1 \in Int /\ Len(w) < Len(w) + 1
    BY DEF Chars
  <2> QED BY <2>1, SubSeqEmpty
<1>3. <<>> \o t = t
  BY NoChars, Joined
<1> QED BY <1>1, <1>2, <1>3 DEF Cut2

LEMMA CutNext ==
  ASSUME NEW w \in Chars, NEW t \in Chars, NEW k, NEW told, NEW r, Cut2(w, k, told, r, t), k # Len(w)
  PROVE  /\ Cut2(w, k + 1, Append(told, Head(r)), Tail(r), t)
         /\ r \in Chars /\ r # <<>> /\ Head(r) = w[k + 1] /\ Head(r) \in Char /\ Append(told, Head(r)) \in Chars
<1>1. PICK n \in Nat : n = Len(w)
  BY DEF Chars
<1>2. k \in 1 .. n /\ k + 1 \in 1 .. n /\ n \in k + 1 .. n /\ 1 \in 1 .. n /\ k + 1 \in 1 .. n /\ k + 1 - 1 = k
  BY <1>1 DEF Cut2
<1>3. w \in Seq(Char) /\ w[k + 1] \in Char
  BY <1>1, <1>2 DEF Chars
<1>4. SubSeq(w, k + 1, n) = <<w[k + 1]>> \o SubSeq(w, k + 1 + 1, n)
  BY <1>1, <1>2, <1>3, SubSeqRecursiveFirst
<1>5. SubSeq(w, 1, k + 1) = SubSeq(w, 1, k + 1 - 1) \o <<w[k + 1]>>
  BY <1>1, <1>2, <1>3, SubSeqRecursiveSecond
<1>6. SubSeq(w, k + 1 + 1, n) \in Chars
  <2>1. \A j \in k + 1 + 1 .. n : w[j] \in Char
    BY <1>1, <1>2, <1>3
  <2> QED BY <1>2, <2>1, SubSeqProperties DEF Chars
<1>7. SubSeq(w, 1, k) \in Chars
  <2>1. \A j \in 1 .. k : w[j] \in Char
    BY <1>1, <1>2, <1>3
  <2> QED BY <1>2, <2>1, SubSeqProperties DEF Chars
<1>8. PICK c \in Char, x \in Chars, a \in Chars :
        c = w[k + 1] /\ x = SubSeq(w, k + 1 + 1, n) /\ a = SubSeq(w, 1, k)
  BY <1>3, <1>6, <1>7
<1>9. PICK y \in Chars : y = x \o t
  BY JoinType
<1>10. r = <<c>> \o y
  <2>1. Grouped(<<c>>, x, t)
    BY OneChar, Regroup
  <2>2. r = (<<c>> \o x) \o t
    BY <1>1, <1>4, <1>8 DEF Cut2
  <2> QED BY <1>9, <2>1, <2>2 DEF Grouped
<1>11. r \in Chars /\ r # <<>> /\ Head(r) = c /\ Tail(r) = y
  BY <1>10, InFront
<1>12. told = a /\ Append(a, c) = a \o <<c>> /\ Append(a, c) \in Chars
  <2>1. Append(a, c) = a \o <<c>> /\ Append(a, c) \in Seq(Char)
    BY AppendIsConcat, AppendProperties DEF Chars
  <2> QED BY <1>8, <2>1 DEF Cut2, Chars
<1>13. SubSeq(w, 1, k + 1) = a \o <<c>>
  BY <1>2, <1>5, <1>8
<1> QED BY <1>1, <1>2, <1>8, <1>9, <1>11, <1>12, <1>13 DEF Cut2

Ends == {",", "}", " "}

\* The scalar goes on, is understood, or cannot be read.
ScalarStep(p, r, gap, i) ==
  LET q == InScalar(p, Head(r))
      v == fields[i].value
  IN \/ q \in ParserType /\ InScalarAt(q, Tail(r), gap, i)
     \/ \E q0 \in ParserType : q = Yield(q0, "scalar", v) /\ BetweenFieldsAt(q0, Tail(r), gap, i)
     \/ q = Yield(p, "error", <<>>) /\ v.kind = "string" /\ \E m \in Illegible : v.marks = <<m>>

LEMMA InScalarIs ==
  ASSUME NEW p, NEW c
  PROVE  /\ c \notin Ends => InScalar(p, c) = [p EXCEPT !.scalar = Append(p.scalar, c)]
         /\ c \in Ends /\ ReadAs(p.scalar) = {} => InScalar(p, c) = Yield(p, "error", <<>>)
         /\ \A v : c \in Ends /\ ReadAs(p.scalar) = {v} =>
              InScalar(p, c) = Yield(Enter(p, IF c = "}" THEN "finished" ELSE "object"), "scalar", v)
<1>2. c \notin Ends => InScalar(p, c) = [p EXCEPT !.scalar = Append(p.scalar, c)]
  BY DEF InScalar, Ends
<1>3. c \in Ends => InScalar(p, c) =
        IF ReadAs(p.scalar) = {} THEN Yield(p, "error", <<>>)
        ELSE Yield(Enter(p, IF c = "}" THEN "finished" ELSE "object"), "scalar", CHOOSE v \in ReadAs(p.scalar) : TRUE)
  BY DEF InScalar, Ends
<1>4. \A v : ReadAs(p.scalar) = {v} => ReadAs(p.scalar) # {} /\ (CHOOSE x \in ReadAs(p.scalar) : TRUE) = v
  OBVIOUS
<1> QED BY <1>2, <1>3, <1>4

\* All of it has been read: the next character ends it.
LEMMA ScalarEnds ==
  ASSUME FieldsType, NEW gap \in Gaps, NEW i \in 1 .. Len(fields), NEW p \in ParserType, NEW r \in Chars,
         Level(p), fields[i].key = "a", p.scalar = ValueText(fields[i].value), r = ValueAfter(gap, i)
  PROVE  r # <<>> /\ ScalarStep(p, r, gap, i)
<1> DEFINE v == fields[i].value
<1>1. v \in Values["a"]
  BY FieldFacts DEF IsField
<1>2. ReadAs(p.scalar) = {v}
  <2>1. v \in ReadAs(p.scalar)
    BY <1>1 DEF ReadAs
  <2>2. \A x \in ReadAs(p.scalar) : x = v
    BY <1>1, ScalarsDiffer DEF ReadAs
  <2> QED BY <2>1, <2>2
<1>3. GoneStep(r, gap, i)
  BY AfterGone DEF Gone
<1>4. ASSUME NEW state \in {"finished", "object"}, Head(r) \in Ends,
             state = IF Head(r) = "}" THEN "finished" ELSE "object",
             state = "object" => Within(Tail(r), {" ", ","}, FieldsAfter(gap, i)),
             state = "finished" => i = Len(fields) /\ Within(Tail(r), {" "}, <<>>)
      PROVE  ScalarStep(p, r, gap, i)
  <2>1. InScalar(p, Head(r)) = Yield(Enter(p, state), "scalar", v)
    BY <1>2, <1>4, InScalarIs, ZenonT(60)
  <2>2. At(Enter(p, state), state, p.key, p.escaped, p.left, p.depth, p.scalar)
    BY EnterIs
  <2>3. BetweenFieldsAt(Enter(p, state), Tail(r), gap, i)
    BY <1>4, <2>2 DEF At, BetweenFieldsAt, Level
  <2> QED BY <2>1, <2>2, <2>3 DEF ScalarStep, At
<1>5. CASE Head(r) = "," /\ Within(Tail(r), {" ", ","}, FieldsAfter(gap, i))
  <2>1. Head(r) \in Ends /\ Head(r) # "}"
    BY <1>5 DEF Ends
  <2> QED BY <1>3, <1>4, <1>5, <2>1 DEF GoneStep
<1>6. CASE Head(r) = "}" /\ i = Len(fields) /\ Within(Tail(r), {" "}, <<>>)
  <2>1. Head(r) \in Ends
    BY <1>6 DEF Ends
  <2> QED BY <1>3, <1>4, <1>6, <2>1 DEF GoneStep
<1>7. CASE Head(r) = " " /\ i = Len(fields) /\ Within(Tail(r), {" "}, FieldsAfter(gap, i))
  <2>1. Head(r) \in Ends /\ Head(r) # "}"
    BY <1>7 DEF Ends
  <2>2. Within(Tail(r), {" ", ","}, FieldsAfter(gap, i))
    BY <1>7, WithinWiden
  <2> QED BY <1>3, <1>4, <2>1, <2>2 DEF GoneStep
<1> QED BY <1>3, <1>5, <1>6, <1>7 DEF GoneStep

LEMMA ScalarIs ==
  ASSUME NEW p \in ParserType, NEW s \in Chars
  PROVE  At([p EXCEPT !.scalar = s], p.state, p.key, p.escaped, p.left, p.depth, s)
  BY DEF ParserType, At, Chars

LEMMA CutOne ==
  ASSUME NEW w \in Chars, 1 \in 1 .. Len(w)
  PROVE  Len(SubSeq(w, 1, 1)) = 1 /\ SubSeq(w, 1, 1)[1] = w[1]
<1>1. \A j \in 1 .. 1 : w[j] \in Char
  BY DEF Chars
<1>2. /\ Len(SubSeq(w, 1, 1)) = IF 1 <= 1 THEN 1 - 1 + 1 ELSE 0
      /\ \A j \in 1 .. 1 - 1 + 1 : SubSeq(w, 1, 1)[j] = w[1 + j - 1]
  BY <1>1, SubSeqProperties
<1> QED BY <1>2

\* A quote alone is no scalar.
AQuote(s) == Len(s) = 1 /\ s[1] = "\""

LEMMA NoQuote ==
  ASSUME NEW s, AQuote(s)
  PROVE  ReadAs(s) = {}
<1> SUFFICES ASSUME NEW v \in Values["a"], ValueText(v) = s  PROVE FALSE
  BY DEF ReadAs
<1>1. ScalarText(v) /\ v.kind \in {"string", "number", "null"}
  BY ScalarTextIs, ValueOfAction
<1>0. Len(s) = 1 /\ s[1] = "\""
  BY DEF AQuote
<1>2. v.kind = "string"
  <2>1. <<"1">>[1] = "1" /\ <<"0">>[1] = "0"
    OBVIOUS
  <2>2. "1" # "\"" /\ "0" # "\""
    OBVIOUS
  <2> QED BY <1>0, <1>1, <2>1, <2>2 DEF ScalarText
<1>3. PICK m \in MarkNames : ValueText(v) = Quoted(<<m>>)
  BY <1>1, <1>2 DEF ScalarText
<1>4. PICK n \in Nat : n = Len(MarkText[m]) /\ n >= 1 /\ Len(Quoted(<<m>>)) = n + 2
  BY QuotedParts DEF QuotedShape
<1>5. Len(s) = n + 2
  BY <1>3, <1>4
<1>6. Len(s) = 1
  BY <1>0
<1> QED BY <1>4, <1>5, <1>6

LEMMA StepInScalar ==
  ASSUME FieldsType, NEW gap \in Gaps, NEW i \in 1 .. Len(fields), NEW p \in ParserType,
         NEW r \in Chars, InScalarAt(p, r, gap, i)
  PROVE  r # <<>> /\ ScalarStep(p, r, gap, i)
<1> DEFINE v == fields[i].value
<1>0. PICK t \in Chars : t = ValueAfter(gap, i)
  BY TextTypes
<1>1. v \in Values["a"] /\ fields[i].key = "a" /\ Level(p) /\ p.state = "scalar"
  BY FieldFacts DEF IsField, InScalarAt
<1>2. PICK w \in Chars : w = ValueText(v)
  BY FieldFacts DEF IsField
<1>3. PICK k \in 1 .. Len(w) : Cut2(w, k, p.scalar, r, t)
  BY <1>0, <1>2 DEF InScalarAt, Cut2
<1>4. CASE k = Len(w)
  <2>1. p.scalar = w /\ r = t
    BY <1>3, <1>4, CutAll
  <2> QED BY <1>0, <1>1, <1>2, <2>1, ScalarEnds
<1>5. CASE k # Len(w)
  <2>1. /\ Cut2(w, k + 1, Append(p.scalar, Head(r)), Tail(r), t)
        /\ r # <<>> /\ Head(r) = w[k + 1] /\ Head(r) \in Char /\ Append(p.scalar, Head(r)) \in Chars
    BY <1>3, <1>5, CutNext
  <2>2. CASE Head(r) \notin Ends
    <3> DEFINE q == [p EXCEPT !.scalar = Append(p.scalar, Head(r))]
    <3>1. InScalar(p, Head(r)) = q
      BY <2>2, InScalarIs
    <3>2. PICK s \in Chars : s = Append(p.scalar, Head(r))
      BY <2>1
    <3>3. At(q, p.state, p.key, p.escaped, p.left, p.depth, s)
      BY <3>2, ScalarIs
    <3> HIDE DEF q
    <3>4. q \in ParserType /\ Level(q) /\ q.state = "scalar" /\ q.scalar = s
      BY <1>1, <3>3 DEF At, Level
    <3>5. InScalarAt(q, Tail(r), gap, i)
      BY <1>0, <1>1, <1>2, <2>1, <3>2, <3>4 DEF InScalarAt, Cut2
    <3> QED BY <2>1, <3>1, <3>4, <3>5 DEF ScalarStep
  <2>3. CASE Head(r) \in Ends
    <3>1. k \in Nat /\ BadCut(w, k)
      <4>1. PICK n \in Nat : n = Len(w)
        BY DEF Chars
      <4>2. k \in Nat /\ k >= 1 /\ k < n
        BY <1>5, <4>1
      <4>3. w[k + 1] \notin Solid
        BY <2>1, <2>3 DEF Solid, Ends
      <4> QED BY <4>1, <4>2, <4>3 DEF BadCut
    <3>2. k = 1 /\ w[1] = "\"" /\ v.kind = "string" /\ \E m \in Illegible : v.marks = <<m>>
      BY <1>1, <1>2, <3>1, CutShort
    <3>3. Len(p.scalar) = 1
      BY <1>3, <3>2, CutOne DEF Cut2
    <3>4. p.scalar[1] = "\""
      BY <1>3, <3>2, CutOne DEF Cut2
    <3>5. ReadAs(p.scalar) = {}
      BY <3>3, <3>4, NoQuote DEF AQuote
    <3>6. InScalar(p, Head(r)) = Yield(p, "error", <<>>)
      BY <2>3, <3>5, InScalarIs
    <3> QED BY <2>1, <3>2, <3>6 DEF ScalarStep
  <2> QED BY <2>2, <2>3
<1> QED BY <1>4, <1>5

-----------------------------------------------------------------------------
(* Led astray by a bracket in the last value.                              *)

LEMMA NamelessSigns ==
  /\ Nameless \subseteq Char
  /\ "\"" \in Nameless /\ "\\" \in Nameless /\ "," \in Nameless /\ " " \in Nameless /\ ":" \in Nameless
  /\ "[" \in Nameless /\ "]" \in Nameless /\ "{" \in Nameless /\ "}" \in Nameless
  /\ "x" \in Nameless /\ "v" \in Nameless /\ "g" \in Nameless /\ "n" \in Nameless /\ "u" \in Nameless /\ "h" \in Nameless
  BY DEF Nameless, Char, Plain

LEMMA NamelessText ==
  ASSUME NEW r \in Seq(Nameless)
  PROVE  /\ r \in Chars
         /\ r # <<>> => Head(r) \in Nameless /\ Tail(r) \in Seq(Nameless)
         /\ \A t \in Seq(Nameless) : r \o t \in Seq(Nameless)
         /\ \A c \in Nameless : Append(r, c) \in Seq(Nameless) /\ <<c>> \o r \in Seq(Nameless)
<1>1. r \in Seq(Char)
  BY NamelessSigns, SeqMonotonic
<1>2. r # <<>> => Head(r) \in Nameless /\ Tail(r) \in Seq(Nameless)
  OBVIOUS
<1>3. \A t \in Seq(Nameless) : r \o t \in Seq(Nameless)
  BY ConcatProperties
<1>4. ASSUME NEW c \in Nameless  PROVE Append(r, c) \in Seq(Nameless) /\ <<c>> \o r \in Seq(Nameless)
  <2>1. Append(r, c) \in Seq(Nameless) /\ <<c>> \in Seq(Nameless)
    OBVIOUS
  <2> QED BY <2>1, ConcatProperties
<1> QED BY <1>1, <1>2, <1>3, <1>4 DEF Chars

LEMMA MarkNameless ==
  ASSUME NEW m \in MarkNames
  PROVE  MarkText[m] \in Seq(Nameless)
<1>1. MarkText["x"] = <<"x">> /\ MarkText["advance"] = <<"v">> /\ MarkText["nudge"] = <<"g">>
  BY DEF MarkText
<1>2. MarkText["comma"] = <<",">> /\ MarkText["blank"] = <<" ">> /\ MarkText["open"] = <<"[">> /\ MarkText["close"] = <<"}">>
  BY DEF MarkText
<1>3. MarkText["newline"] = <<"\\", "n">> /\ MarkText["quote"] = <<"\\", "\"">> /\ MarkText["backslash"] = <<"\\", "\\">>
  BY DEF MarkText
<1>4. MarkText["letter"] = <<"\\", "u", "h", "h", "h", "h">>
  BY DEF MarkText
<1>5. \A c \in Nameless, d \in Nameless : <<c>> \in Seq(Nameless) /\ <<c, d>> \in Seq(Nameless)
  OBVIOUS
<1>6. \A c \in Nameless, d \in Nameless, e \in Nameless : <<c, d, e, e, e, e>> \in Seq(Nameless)
  OBVIOUS
<1>7. MarkText["letter"] \in Seq(Nameless)
  BY <1>4, <1>6, NamelessSigns
<1>8. MarkText["newline"] \in Seq(Nameless) /\ MarkText["quote"] \in Seq(Nameless) /\ MarkText["backslash"] \in Seq(Nameless)
  BY <1>3, <1>5, NamelessSigns
<1>9. /\ MarkText["x"] \in Seq(Nameless) /\ MarkText["advance"] \in Seq(Nameless) /\ MarkText["nudge"] \in Seq(Nameless)
      /\ MarkText["comma"] \in Seq(Nameless) /\ MarkText["blank"] \in Seq(Nameless)
      /\ MarkText["open"] \in Seq(Nameless) /\ MarkText["close"] \in Seq(Nameless)
  BY <1>1, <1>2, <1>5, NamelessSigns
<1> QED BY <1>7, <1>8, <1>9 DEF MarkNames

LEMMA QuotedNameless ==
  ASSUME NEW m \in MarkNames
  PROVE  Quoted(<<m>>) \in Seq(Nameless)
<1>1. PICK q \in Seq(Nameless), w \in Seq(Nameless) : q = <<"\"">> /\ w = MarkText[m]
  <2>1. \A c \in Nameless : <<c>> \in Seq(Nameless)
    OBVIOUS
  <2> QED BY <2>1, MarkNameless, NamelessSigns
<1>2. (q \o w) \o q \in Seq(Nameless)
  <2>1. q \o w \in Seq(Nameless)
    BY NamelessText
  <2> QED BY <2>1, NamelessText
<1> QED BY <1>1, <1>2, QuotedOne

\* The value, and what follows it.
LEMMA BracketedText ==
  ASSUME NEW v \in Values["o"], v.kind \in {"list", "object"}, NEW t \in Seq(Nameless)
  PROVE  \E c \in {"[", "{"} : \E u \in Seq(Nameless) : ValueText(v) \o t = <<c>> \o u
<1>1. PICK q \in Seq(Nameless), x \in Seq(Nameless) : q = Quoted(v.marks) /\ x = Quoted(<<"x">>)
  <2>1. PICK m \in ListMarks : v.marks = <<m>>
    BY ValueOfOther
  <2>2. m \in MarkNames /\ "x" \in MarkNames
    BY MarkDomain DEF MarkNames
  <2> QED BY <2>1, <2>2, QuotedNameless
<1>2. v.marks \in Seq(MarkNames) /\ t \in Chars
  BY ValueOfOther, NamelessText
<1>3. CASE v.kind = "list"
  <2>1. PICK u1 \in Seq(Nameless) : u1 = <<"]">> \o t
    BY NamelessSigns, NamelessText
  <2>2. PICK u2 \in Seq(Nameless) : u2 = x \o u1
    BY NamelessText
  <2>3. PICK u3 \in Seq(Nameless) : u3 = <<",">> \o u2
    BY NamelessSigns, NamelessText
  <2>4. PICK u4 \in Seq(Nameless) : u4 = q \o u3
    BY NamelessText
  <2>5. ValueText(v) \o t = <<"[">> \o (Quoted(v.marks) \o (<<",">> \o (Quoted(<<"x">>) \o (<<"]">> \o t))))
    BY <1>2, <1>3, TextOfList
  <2>6. ValueText(v) \o t = <<"[">> \o u4
    BY <1>1, <2>1, <2>2, <2>3, <2>4, <2>5
  <2> QED BY <2>6
<1>4. CASE v.kind = "object"
  <2>1. PICK u1 \in Seq(Nameless) : u1 = <<"}">> \o t
    BY NamelessSigns, NamelessText
  <2>2. PICK u2 \in Seq(Nameless) : u2 = <<"]">> \o u1
    BY NamelessSigns, NamelessText
  <2>3. PICK u3 \in Seq(Nameless) : u3 = q \o u2
    BY NamelessText
  <2>4. PICK u4 \in Seq(Nameless) : u4 = <<"[">> \o u3
    BY NamelessSigns, NamelessText
  <2>5. PICK u5 \in Seq(Nameless) : u5 = <<":">> \o u4
    BY NamelessSigns, NamelessText
  <2>6. PICK u6 \in Seq(Nameless) : u6 = x \o u5
    BY NamelessText
  <2>7. ValueText(v) \o t = <<"{">> \o (Quoted(<<"x">>) \o (<<":">> \o (<<"[">> \o (Quoted(v.marks)
                                  \o (<<"]">> \o (<<"}">> \o t))))))
    BY <1>2, <1>4, TextOfObject
  <2>8. ValueText(v) \o t = <<"{">> \o u6
    BY <1>1, <2>1, <2>2, <2>3, <2>4, <2>5, <2>6, <2>7
  <2> QED BY <2>8
<1> QED BY <1>3, <1>4

LEMMA LastAfter ==
  ASSUME FieldsType, NEW gap \in Gaps, NEW i \in 1 .. Len(fields), i = Len(fields)
  PROVE  ValueAfter(gap, i) \in Seq(Nameless)
<1>1. gap \in Seq(Nameless)
  <2>1. <<>> \in Seq(Nameless) /\ \A c \in Nameless : <<c>> \in Seq(Nameless)
    OBVIOUS
  <2>2. <<" ">> \in Seq(Nameless)
    BY <2>1, NamelessSigns
  <2> QED BY <2>1, <2>2 DEF Gaps
<1>2. PICK t \in Seq(Nameless) : t = <<"}">> \o gap
  BY <1>1, NamelessSigns, NamelessText
<1>3. gap \o t \in Seq(Nameless)
  BY <1>1, <1>2, NamelessText
<1> QED BY <1>2, <1>3, ValueEnd

\* A parser that will tell nothing more.
Roams(p) ==
  /\ p \in ParserType
  /\ p.state \in {"object", "key", "after key", "before value", "skip", "finished"}
  /\ p.depth >= -1 /\ p.key \in Seq(Nameless)

LEMMA RoamsOn ==
  ASSUME NEW p, Roams(p), NEW q \in ParserType, q.key = p.key, q.depth >= -1,
         q.state \in {"object", "key", "after key", "before value", "skip", "finished"}
  PROVE  Roams(q)
  BY DEF Roams

LEMMA HeadOfOne == \A c : Head(<<c>>) = c /\ <<c>> # <<>>
  OBVIOUS

LEMMA Depths ==
  /\ -1 >= -1 /\ 0 >= -1 /\ 1 >= -1 /\ -1 # 0
  /\ \A d \in Int : d >= -1 => d = 0 \/ d = -1 \/ d > 0
  /\ \A d \in Int : d > 0 => d + 1 >= -1 /\ d - 1 >= -1
  OBVIOUS

\* In a value that it passes over: outside of strings and brackets, ...
LEMMA RoamsOutside ==
  ASSUME NEW p, Roams(p), p.state = "skip", p.depth = 0, NEW c \in Nameless
  PROVE  Roams(Skip(p, c))
<1>1. p \in ParserType
  BY DEF Roams
<1>2. CASE c = "\""
  <2> DEFINE q == [p EXCEPT !.depth = -1, !.escaped = FALSE]
  <2>1. Skip(p, "\"") = q
    BY DEF Skip
  <2>2. At(q, p.state, p.key, FALSE, p.left, -1, p.scalar)
    BY <1>1, Numbers, DepthEscapedIs, Zenon
  <2> HIDE DEF q
  <2>3. q \in ParserType /\ q.key = p.key /\ q.state = "skip" /\ q.depth >= -1
    BY <2>2, Depths, Zenon DEF At
  <2>4. Roams(q)
    BY <2>3, RoamsOn
  <2> QED BY <1>2, <2>1, <2>4
<1>3. CASE c \in {"{", "["}
  <2> DEFINE q == [p EXCEPT !.depth = 1]
  <2>1. Skip(p, "{") = q /\ Skip(p, "[") = q
    <3>1. Skip(p, "{") = q
      BY DEF Skip
    <3>2. Skip(p, "[") = q
      BY DEF Skip
    <3> QED BY <3>1, <3>2
  <2>2. At(q, p.state, p.key, p.escaped, p.left, 1, p.scalar)
    BY <1>1, Numbers, DepthIs, Zenon
  <2> HIDE DEF q
  <2>3. q \in ParserType /\ q.key = p.key /\ q.state = "skip" /\ q.depth >= -1
    BY <2>2, Depths, Zenon DEF At
  <2>4. Roams(q)
    BY <2>3, RoamsOn
  <2> QED BY <1>3, <2>1, <2>4
<1>4. ASSUME NEW state \in {"object", "finished"}  PROVE Roams(Enter(p, state))
  <2>1. At(Enter(p, state), state, p.key, p.escaped, p.left, p.depth, p.scalar)
    BY <1>1, EnterIs
  <2>2. PICK q : q = Enter(p, state)
    OBVIOUS
  <2>3. q \in ParserType /\ q.key = p.key /\ q.state = state /\ q.depth >= -1
    BY <2>1, <2>2 DEF At
  <2> QED BY <2>2, <2>3, RoamsOn
<1>5. Skip(p, ",") = Enter(p, "object") /\ Skip(p, "}") = Enter(p, "finished")
  BY DEF Skip
<1>6. CASE c \notin {"\"", "{", "[", ",", "}"}
  <2>1. c # "\"" /\ c \notin {"{", "["} /\ c # "," /\ c # "}"
    BY <1>6
  <2>2. Skip(p, c) = p
    BY <2>1, Levels, Zenon DEF Skip
  <2> QED BY <2>2
<1> QED BY <1>2, <1>3, <1>4, <1>5, <1>6

\* ... within a string, ...
LEMMA RoamsString ==
  ASSUME NEW p, Roams(p), p.state = "skip", p.depth = -1, NEW c \in Nameless
  PROVE  Roams(Skip(p, c))
<1>1. p \in ParserType /\ p.escaped \in BOOLEAN /\ p.depth # 0 /\ ~(p.depth > 0)
  BY Levels, Zenon DEF Roams, ParserType
<1>2. ASSUME NEW escaped \in BOOLEAN  PROVE Roams([p EXCEPT !.escaped = escaped])
  <2>1. At([p EXCEPT !.escaped = escaped], p.state, p.key, escaped, p.left, p.depth, p.scalar)
    BY <1>1, EscapedIs
  <2>2. PICK q : q = [p EXCEPT !.escaped = escaped]
    OBVIOUS
  <2>3. q \in ParserType /\ q.key = p.key /\ q.state = "skip" /\ q.depth >= -1
    BY <2>1, <2>2 DEF At
  <2> QED BY <2>2, <2>3, RoamsOn
<1>3. CASE p.escaped
  <2>1. Skip(p, c) = [p EXCEPT !.escaped = FALSE]
    BY <1>1, <1>3 DEF Skip
  <2> QED BY <1>2, <2>1
<1>4. CASE ~p.escaped /\ c = "\\"
  <2>1. Skip(p, "\\") = [p EXCEPT !.escaped = TRUE]
    BY <1>1, <1>4 DEF Skip
  <2> QED BY <1>2, <1>4, <2>1
<1>5. CASE ~p.escaped /\ c = "\""
  <2> DEFINE q == [Enter(p, "object") EXCEPT !.depth = 0]
  <2>1. Skip(p, "\"") = q
    BY <1>1, <1>5, InSkippedString
  <2>2. At(q, "object", p.key, p.escaped, p.left, 0, p.scalar)
    BY <1>1, Numbers, OutIs
  <2> HIDE DEF q
  <2>3. q \in ParserType /\ q.key = p.key /\ q.state = "object" /\ q.depth >= -1
    BY <2>2, Depths, Zenon DEF At
  <2>4. Roams(q)
    BY <2>3, RoamsOn
  <2> QED BY <1>5, <2>1, <2>4
<1>6. CASE ~p.escaped /\ c \notin {"\\", "\""}
  <2>1. c \in Plain
    BY <1>6, Zenon DEF Nameless, Char
  <2>2. Skip(p, c) = p
    BY <1>1, <1>6, <2>1, InSkippedString
  <2> QED BY <2>2
<1> QED BY <1>3, <1>4, <1>5, <1>6

\* ... within brackets.
LEMMA RoamsWithin ==
  ASSUME NEW p, Roams(p), p.state = "skip", p.depth > 0, NEW c \in Nameless
  PROVE  Roams(Skip(p, c))
<1>1. p \in ParserType /\ p.depth # 0 /\ p.depth # -1
  BY PositiveDepth DEF Roams
<1>0. p.depth + 1 >= -1 /\ p.depth - 1 >= -1
  BY <1>1, Depths DEF ParserType
<1>2. Roams(Skip(p, "["))
  <2>1. PICK q : q = Skip(p, "[")
    OBVIOUS
  <2>2. At(q, p.state, p.key, p.escaped, p.left, p.depth + 1, p.scalar)
    BY <1>1, <2>1, SkipOpens
  <2>3. q \in ParserType /\ q.key = p.key /\ q.state = "skip" /\ q.depth >= -1
    BY <1>0, <2>2, Zenon DEF At
  <2> QED BY <2>1, <2>3, RoamsOn
<1>3. Skip(p, "{") = Skip(p, "[")
  BY <1>1 DEF Skip
<1>4. ASSUME NEW d \in {"}", "]"}  PROVE Roams(Skip(p, d))
  <2>1. PICK q : q = Skip(p, d)
    OBVIOUS
  <2>2. At(q, IF p.depth = 1 THEN "object" ELSE p.state, p.key, p.escaped, p.left, p.depth - 1, p.scalar)
    BY <1>1, <2>1, SkipCloses
  <2>3. q \in ParserType /\ q.key = p.key /\ q.state \in {"object", "skip"} /\ q.depth >= -1
    BY <1>0, <2>2, Zenon DEF At
  <2> QED BY <2>1, <2>3, RoamsOn
<1>5. CASE c \notin {"[", "{", "}", "]"}
  <2>1. c \in Flat
    BY <1>5 DEF Flat, Nameless
  <2>2. Skip(p, c) = p
    BY <1>1, <2>1, SkipFlat
  <2> QED BY <2>2
<1> QED BY <1>2, <1>3, <1>4, <1>5

LEMMA RoamsSkip ==
  ASSUME NEW p, Roams(p), p.state = "skip", NEW c \in Nameless
  PROVE  Roams(Skip(p, c))
<1>1. p.depth = 0 \/ p.depth = -1 \/ p.depth > 0
  <2>1. p.depth \in Int /\ p.depth >= -1
    BY DEF Roams, ParserType
  <2> QED BY <2>1, Depths
<1> QED BY <1>1, RoamsOutside, RoamsString, RoamsWithin

LEMMA RoamsKey ==
  ASSUME NEW p, Roams(p), p.state = "key", NEW c \in Nameless
  PROVE  Roams(InKey(p, c))
<1>1. p \in ParserType /\ p.depth >= -1 /\ p.key \in Seq(Nameless) /\ p.escaped \in BOOLEAN
  BY DEF Roams, ParserType
<1>2. PICK key \in Seq(Nameless) : key = Append(p.key, c) /\ key \in Seq(Char)
  <2>1. Append(p.key, c) \in Seq(Nameless)
    BY <1>1, NamelessText
  <2>2. Append(p.key, c) \in Seq(Char)
    BY <2>1, NamelessText DEF Chars
  <2> QED BY <2>1, <2>2
<1>3. ASSUME NEW escaped \in BOOLEAN, NEW q, q = [p EXCEPT !.key = key, !.escaped = escaped]  PROVE Roams(q)
  <2>1. At(q, "key", key, escaped, p.left, p.depth, p.scalar)
    BY <1>1, <1>2, <1>3 DEF At, ParserType
  <2> QED BY <1>1, <1>2, <2>1 DEF At, Roams
<1>4. CASE p.escaped
  <2>1. InKey(p, c) = [p EXCEPT !.key = key, !.escaped = FALSE]
    BY <1>2, <1>4 DEF InKey
  <2> QED BY <1>3, <2>1
<1>5. CASE ~p.escaped /\ c = "\\"
  <2>1. InKey(p, c) = [p EXCEPT !.escaped = TRUE]
    BY <1>5 DEF InKey
  <2>2. At([p EXCEPT !.escaped = TRUE], p.state, p.key, TRUE, p.left, p.depth, p.scalar)
    BY <1>1, Numbers, EscapedIs
  <2>3. PICK q : q = [p EXCEPT !.escaped = TRUE]
    OBVIOUS
  <2>4. q \in ParserType /\ q.key = p.key /\ q.state = "key" /\ q.depth >= -1
    BY <1>1, <2>2, <2>3 DEF At
  <2> QED BY <2>1, <2>3, <2>4, RoamsOn
<1>6. CASE ~p.escaped /\ c = "\""
  <2>1. InKey(p, c) = Enter(p, "after key")
    BY <1>6 DEF InKey
  <2>2. At(Enter(p, "after key"), "after key", p.key, p.escaped, p.left, p.depth, p.scalar)
    BY <1>1, EnterIs
  <2>3. PICK q : q = Enter(p, "after key")
    OBVIOUS
  <2>4. q \in ParserType /\ q.key = p.key /\ q.state = "after key" /\ q.depth >= -1
    BY <1>1, <2>2, <2>3 DEF At
  <2> QED BY <2>1, <2>3, <2>4, RoamsOn
<1>7. CASE ~p.escaped /\ c \notin {"\\", "\""}
  <2>1. InKey(p, c) = [p EXCEPT !.key = key]
    BY <1>2, <1>7 DEF InKey
  <2>2. [p EXCEPT !.key = key] = [p EXCEPT !.key = key, !.escaped = FALSE]
    BY <1>1, <1>7 DEF ParserType
  <2> QED BY <1>3, <2>1, <2>2
<1> QED BY <1>1, <1>4, <1>5, <1>6, <1>7

LEMMA RoamsValue ==
  ASSUME NEW p, Roams(p), p.state = "before value", NEW c \in Nameless
  PROVE  Roams(BeforeValue(p, c))
<1>1. p \in ParserType /\ p.key \in Seq(Nameless)
  BY DEF Roams
<1>2. p.key \notin Streamed /\ p.key \notin Scalars
  <2>1. \A k \in Seq(Nameless) : k # <<"s">> /\ k # <<"a">>
    <3>1. ASSUME NEW k \in Seq(Nameless), NEW d \in {"s", "a"}, k = <<d>>  PROVE FALSE
      <4>1. Head(k) = d /\ k # <<>>
        BY <3>1, HeadOfOne
      <4>2. Head(k) \in Nameless
        BY <4>1, NamelessText
      <4> QED BY <4>1, <4>2 DEF Nameless
    <3> QED BY <3>1
  <2> QED BY <1>1, <2>1 DEF Streamed, Scalars
<1>3. CASE c = " "
  <2>1. BeforeValue(p, c) = p
    BY <1>3 DEF BeforeValue
  <2> QED BY <2>1
<1>4. CASE c # " "
  <2> DEFINE q == [Enter(p, "skip") EXCEPT !.depth = 0]
  <2>1. BeforeValue(p, c) = Skip(q, c)
    BY <1>2, <1>4 DEF BeforeValue
  <2>2. At(q, "skip", p.key, p.escaped, p.left, 0, p.scalar)
    BY <1>1, Numbers, SkipIs
  <2> HIDE DEF q
  <2>3. q \in ParserType /\ q.key = p.key /\ q.state = "skip" /\ q.depth >= -1
    BY <2>2, Depths, Zenon DEF At
  <2>4. Roams(q)
    BY <2>3, RoamsOn
  <2> QED BY <2>1, <2>3, <2>4, RoamsSkip
<1> QED BY <1>3, <1>4

LEMMA RoamsBetween ==
  ASSUME NEW p, Roams(p), p.state \in {"object", "after key"}, NEW c \in Nameless
  PROVE  (IF p.state = "object" THEN Roams(BetweenFields(p, c)) ELSE Roams(AfterKey(p, c)))
<1>1. p \in ParserType /\ p.depth >= -1
  BY DEF Roams
<1>2. \A state \in {"finished", "before value"} : Roams(Enter(p, state))
  <2>1. ASSUME NEW state \in {"finished", "before value"}  PROVE Roams(Enter(p, state))
    <3>1. At(Enter(p, state), state, p.key, p.escaped, p.left, p.depth, p.scalar)
      BY <1>1, EnterIs
    <3>2. PICK q : q = Enter(p, state)
      OBVIOUS
    <3>3. q \in ParserType /\ q.key = p.key /\ q.state = state /\ q.depth >= -1
      BY <1>1, <3>1, <3>2 DEF At
    <3> QED BY <3>2, <3>3, RoamsOn
  <2> QED BY <2>1
<1>3. CASE p.state = "after key"
  <2>1. AfterKey(p, c) = Enter(p, "before value") \/ AfterKey(p, c) = p
    BY DEF AfterKey
  <2> QED BY <1>2, <1>3, <2>1
<1>4. CASE p.state = "object"
  <2>1. CASE c = "\""
    <3> DEFINE q == [Enter(p, "key") EXCEPT !.key = <<>>, !.escaped = FALSE]
    <3>1. BetweenFields(p, c) = q
      BY <2>1 DEF BetweenFields
    <3>2. At(q, "key", <<>>, FALSE, p.left, p.depth, p.scalar)
      BY <1>1, EmptySeq DEF ParserType, Enter, At
    <3>3. <<>> \in Seq(Nameless)
      BY EmptySeq
    <3> HIDE DEF q
    <3>4. Roams(q)
      BY <1>1, <3>2, <3>3 DEF At, Roams
    <3> QED BY <1>4, <3>1, <3>4
  <2>2. CASE c # "\""
    <3>1. BetweenFields(p, c) = Enter(p, "finished") \/ BetweenFields(p, c) = p
      BY <2>2 DEF BetweenFields
    <3> QED BY <1>2, <1>4, <3>1
  <2> QED BY <2>1, <2>2
<1> QED BY <1>3, <1>4

-----------------------------------------------------------------------------
(* One character, wherever the parser stands.                              *)

LEMMA StandBetween ==
  ASSUME NEW gap \in Gaps, NEW i \in 0 .. Len(fields), NEW p, NEW r, BetweenFieldsAt(p, r, gap, i)
  PROVE  Standing(p, r, TextBy(i), ScalarBy(i))
  BY DEF Standing, Gaps

LEMMA StandInField ==
  ASSUME NEW gap \in Gaps, NEW i \in 1 .. Len(fields), NEW p, NEW r,
         InKeyAt(p, r, gap, i) \/ BeforeValueAt(p, r, gap, i) \/ InScalarAt(p, r, gap, i) \/ InSkipAt(p, r, gap, i)
  PROVE  Standing(p, r, TextBy(i - 1), ScalarBy(i - 1))
  BY DEF Standing, Gaps

LEMMA StandInString ==
  ASSUME NEW gap \in Gaps, NEW i \in 1 .. Len(fields), NEW p, NEW r, NEW told, InStringAt(p, r, gap, i, told)
  PROVE  Standing(p, r, told, ScalarBy(i - 1))
  BY DEF Standing, Gaps

LEMMA StandAstray ==
  ASSUME NEW p, NEW r, AstrayAt(p, r)
  PROVE  Standing(p, r, TextBy(Len(fields)), ScalarBy(Len(fields)))
  BY DEF Standing

\* Parse, from a parser with nothing to tell.
ParseFrom(p, ch) ==
  CASE p.state = "pre"          -> BeforeObject(p, ch)
    [] p.state = "object"       -> BetweenFields(p, ch)
    [] p.state = "key"          -> InKey(p, ch)
    [] p.state = "after key"    -> AfterKey(p, ch)
    [] p.state = "before value" -> BeforeValue(p, ch)
    [] p.state = "skip"         -> Skip(p, ch)
    [] p.state = "scalar"       -> InScalar(p, ch)
    [] p.state = "string"       -> InString(p, ch)
    [] p.state = "finished"     -> p

LEMMA ParseIs == \A ch : Parse(ch) = ParseFrom([parser EXCEPT !.out = Nothing], ch)
  BY DEF Parse, ParseFrom

LEMMA ParseFromIs ==
  ASSUME NEW p, NEW ch
  PROVE  /\ p.state = "pre" => ParseFrom(p, ch) = BeforeObject(p, ch)
         /\ p.state = "object" => ParseFrom(p, ch) = BetweenFields(p, ch)
         /\ p.state = "key" => ParseFrom(p, ch) = InKey(p, ch)
         /\ p.state = "after key" => ParseFrom(p, ch) = AfterKey(p, ch)
         /\ p.state = "before value" => ParseFrom(p, ch) = BeforeValue(p, ch)
         /\ p.state = "skip" => ParseFrom(p, ch) = Skip(p, ch)
         /\ p.state = "scalar" => ParseFrom(p, ch) = InScalar(p, ch)
         /\ p.state = "string" => ParseFrom(p, ch) = InString(p, ch)
         /\ p.state = "finished" => ParseFrom(p, ch) = p
  BY DEF ParseFrom

\* Nothing is told, or the next character of the text, or the scalar; or the
\* scalar cannot be read.
StepFrom(p, r, told, known) ==
  LET q == ParseFrom(p, Head(r))
  IN \/ q \in ParserType /\ Standing(q, Tail(r), told, known)
     \/ \E q0 \in ParserType : \E c : q = Yield(q0, "chunk", c) /\ Standing(q0, Tail(r), Append(told, c), known)
     \/ \E q0 \in ParserType :
          /\ q = Yield(q0, "scalar", Parsed("a")) /\ known = "none"
          /\ Standing(q0, Tail(r), told, Understood(Parsed("a")))
     \/ q = Yield(p, "error", <<>>) /\ ~LegibleScalar

LEMMA StepFromBetween ==
  ASSUME FieldsType, NEW gap \in Gaps, NEW i \in 0 .. Len(fields), NEW p \in ParserType,
         NEW r \in Chars, r # <<>>, BetweenFieldsAt(p, r, gap, i)
  PROVE  StepFrom(p, r, TextBy(i), ScalarBy(i))
<1> DEFINE q == ParseFrom(p, Head(r))
<1>1. CASE p.state = "pre"
  <2>1. i = 0
    BY <1>1 DEF BetweenFieldsAt
  <2>2. q \in ParserType /\ BetweenFieldsAt(q, Tail(r), gap, i)
    BY <1>1, <2>1, ParseFromIs, StepBeforeObject, ZenonT(60)
  <2> QED BY <2>2, StandBetween DEF StepFrom
<1>2. CASE p.state = "object"
  <2>1. /\ q \in ParserType
        /\ \/ BetweenFieldsAt(q, Tail(r), gap, i)
           \/ i + 1 \in 1 .. Len(fields) /\ InKeyAt(q, Tail(r), gap, i + 1)
    BY <1>2, ParseFromIs, StepBetween, ZenonT(60)
  <2>2. CASE BetweenFieldsAt(q, Tail(r), gap, i)
    BY <2>1, <2>2, StandBetween DEF StepFrom
  <2>3. CASE i + 1 \in 1 .. Len(fields) /\ InKeyAt(q, Tail(r), gap, i + 1)
    <3>1. Standing(q, Tail(r), TextBy(i + 1 - 1), ScalarBy(i + 1 - 1))
      BY <2>3, StandInField
    <3>2. i + 1 - 1 = i
      OBVIOUS
    <3> QED BY <2>1, <3>1, <3>2 DEF StepFrom
  <2> QED BY <2>1, <2>2, <2>3
<1>3. CASE p.state = "finished"
  <2>1. q = p
    BY <1>3, ParseFromIs
  <2>2. BetweenFieldsAt(p, Tail(r), gap, i)
    BY <1>3, StepFinished
  <2>3. Standing(q, Tail(r), TextBy(i), ScalarBy(i))
    BY <2>1, <2>2, StandBetween
  <2>4. q \in ParserType
    BY <2>1
  <2> QED BY <2>3, <2>4 DEF StepFrom
<1> QED BY <1>1, <1>2, <1>3 DEF BetweenFieldsAt

\* Led astray, nothing more is told.
LEMMA StepAstray ==
  ASSUME FieldsType, NEW p \in ParserType, NEW r \in Chars, r # <<>>, AstrayAt(p, r)
  PROVE  StepFrom(p, r, TextBy(Len(fields)), ScalarBy(Len(fields)))
<1> DEFINE c == Head(r)  q == ParseFrom(p, c)
<1>1. Roams(p) /\ r \in Seq(Nameless) /\ \E i \in DOMAIN fields : ~Unbracketed(fields[i].value)
  BY DEF AstrayAt, Roams
<1>2. c \in Nameless /\ Tail(r) \in Seq(Nameless)
  BY <1>1, NamelessText
<1> HIDE DEF c
<1>3. Roams(q)
  <2>1. CASE p.state = "object"
    BY <1>1, <1>2, <2>1, ParseFromIs, RoamsBetween
  <2>2. CASE p.state = "key"
    BY <1>1, <1>2, <2>2, ParseFromIs, RoamsKey
  <2>3. CASE p.state = "after key"
    <3>1. p.state # "object"
      BY <2>3
    <3> QED BY <1>1, <1>2, <2>3, <3>1, ParseFromIs, RoamsBetween
  <2>4. CASE p.state = "before value"
    BY <1>1, <1>2, <2>4, ParseFromIs, RoamsValue
  <2>5. CASE p.state = "skip"
    BY <1>1, <1>2, <2>5, ParseFromIs, RoamsSkip
  <2>6. CASE p.state = "finished"
    <3>1. q = p
      BY <2>6, ParseFromIs
    <3> QED BY <1>1, <3>1
  <2> QED BY <1>1, <2>1, <2>2, <2>3, <2>4, <2>5, <2>6 DEF Roams
<1> HIDE DEF q
<1>4. AstrayAt(q, Tail(r)) /\ q \in ParserType
  BY <1>1, <1>2, <1>3 DEF Roams, AstrayAt
<1> QED BY <1>4, StandAstray DEF StepFrom, q, c

\* The value that leads it astray begins.
LEMMA StepToAstray ==
  ASSUME FieldsType, BracketsLast, NEW gap \in Gaps, NEW i \in 1 .. Len(fields), ~Unbracketed(fields[i].value),
         NEW p \in ParserType, NEW r \in Chars, r # <<>>, p.state = "before value", BeforeValueAt(p, r, gap, i)
  PROVE  StepFrom(p, r, TextBy(i - 1), ScalarBy(i - 1))
<1> DEFINE v == fields[i].value  q == ParseFrom(p, Head(r))
<1>0. q = BeforeValue(p, Head(r))
  BY ParseFromIs
<1>1. v.kind \in {"list", "object"}
  BY DEF Unbracketed
<1>2. IsField(i) /\ i \in DOMAIN fields
  BY FieldFacts
<1>3. fields[i].key = "o" /\ v \in Values["o"]
  BY <1>1, <1>2, ValueOfText, ValueOfAction DEF IsField, Keys
<1>4. i = Len(fields)
  BY <1>2 DEF BracketsLast
<1>5. PICK t \in Seq(Nameless) : t = ValueAfter(gap, i)
  BY <1>4, LastAfter
<1>6. PICK c \in {"[", "{"}, u \in Seq(Nameless) : ValueText(v) \o t = <<c>> \o u
  BY <1>1, <1>3, BracketedText
<1>7. c \in Char /\ u \in Chars
  BY Signs, NamelessText
<1>8. Within(r, {" "}, <<c>> \o u) /\ Level(p) /\ p.key = KeyName["o"]
  BY <1>3, <1>5, <1>6 DEF BeforeValueAt
<1>9. \/ Head(r) = c /\ Tail(r) = u
      \/ Head(r) \in {" "} /\ Within(Tail(r), {" "}, <<c>> \o u)
  <2>1. c \notin {" "}
    OBVIOUS
  <2> QED BY <1>7, <1>8, <2>1, WithinThen
<1>10. CASE Head(r) \in {" "} /\ Within(Tail(r), {" "}, <<c>> \o u)
  <2>1. BeforeValue(p, Head(r)) = p
    BY <1>10 DEF BeforeValue
  <2>2. BeforeValueAt(p, Tail(r), gap, i)
    BY <1>3, <1>5, <1>6, <1>8, <1>10 DEF BeforeValueAt
  <2>3. Standing(q, Tail(r), TextBy(i - 1), ScalarBy(i - 1))
    BY <1>0, <2>1, <2>2, StandInField
  <2> QED BY <1>0, <2>1, <2>3 DEF StepFrom
<1>11. CASE Head(r) = c /\ Tail(r) = u
  <2>1. Roams(p)
    <3>1. KeyName["o"] = <<"\"">>
      BY DEF KeyName
    <3>2. <<>> \in Seq(Nameless) /\ Append(<<>>, "\"") = <<"\"">>
      BY EmptySeq, Signs, OneChar
    <3>3. KeyName["o"] \in Seq(Nameless)
      BY <3>1, <3>2, NamelessText, NamelessSigns
    <3>4. p.depth >= -1
      <4>1. p.depth = 0
        BY <1>8 DEF Level
      <4> QED BY <4>1, Depths
    <3> QED BY <1>8, <3>3, <3>4 DEF Roams
  <2>2. Roams(q)
    <3>1. c \in Nameless
      BY NamelessSigns
    <3> QED BY <1>0, <1>11, <2>1, <3>1, RoamsValue
  <2>3. q.state \in {"object", "key", "after key", "before value", "skip", "finished"}
    BY <2>2 DEF Roams
  <2> HIDE DEF q
  <2>4. AstrayAt(q, Tail(r)) /\ q \in ParserType
    BY <1>2, <1>11, <2>2 DEF Roams, AstrayAt
  <2>5. Standing(q, Tail(r), TextBy(i), ScalarBy(i))
    BY <1>4, <2>4, StandAstray
  <2>6. TextBy(i) = TextBy(i - 1) /\ ScalarBy(i) = ScalarBy(i - 1)
    BY <1>3, ToldStep DEF ToldBefore
  <2> QED BY <2>4, <2>5, <2>6 DEF StepFrom, q
<1> QED BY <1>9, <1>10, <1>11

LEMMA StepFromKey ==
  ASSUME FieldsType, BracketsLast, NEW gap \in Gaps, NEW i \in 1 .. Len(fields), NEW p \in ParserType,
         NEW r \in Chars, r # <<>>, InKeyAt(p, r, gap, i) \/ BeforeValueAt(p, r, gap, i)
  PROVE  StepFrom(p, r, TextBy(i - 1), ScalarBy(i - 1))
<1> DEFINE q == ParseFrom(p, Head(r))
<1>1. CASE InKeyAt(p, r, gap, i)
  <2>1. p.state = "key"
    BY <1>1 DEF InKeyAt
  <2>2. q \in ParserType /\ (InKeyAt(q, Tail(r), gap, i) \/ BeforeValueAt(q, Tail(r), gap, i))
    BY <1>1, <2>1, ParseFromIs, StepInKey, ZenonT(60)
  <2> QED BY <2>2, StandInField DEF StepFrom
<1>2. CASE BeforeValueAt(p, r, gap, i) /\ p.state = "after key"
  <2>1. q \in ParserType /\ BeforeValueAt(q, Tail(r), gap, i)
    BY <1>2, ParseFromIs, StepAfterKey, ZenonT(60)
  <2> QED BY <2>1, StandInField DEF StepFrom
<1>3. CASE BeforeValueAt(p, r, gap, i) /\ p.state = "before value" /\ Unbracketed(fields[i].value)
  <2>0. q = BeforeValue(p, Head(r))
    BY <1>3, ParseFromIs
  <2> HIDE DEF q
  <2>1. /\ q \in ParserType
        /\ \/ BeforeValueAt(q, Tail(r), gap, i) \/ InScalarAt(q, Tail(r), gap, i) \/ InSkipAt(q, Tail(r), gap, i)
           \/ InStringAt(q, Tail(r), gap, i, <<>>)
    BY <1>3, <2>0, StepBeforeValue
  <2> USE DEF q
  <2>2. CASE InStringAt(q, Tail(r), gap, i, <<>>)
    <3>1. TextBy(i - 1) = <<>>
      BY <2>2, ToldStep DEF InStringAt, ToldBefore
    <3> QED BY <2>1, <2>2, <3>1, StandInString DEF StepFrom
  <2>3. CASE BeforeValueAt(q, Tail(r), gap, i) \/ InScalarAt(q, Tail(r), gap, i) \/ InSkipAt(q, Tail(r), gap, i)
    BY <2>1, <2>3, StandInField DEF StepFrom
  <2> QED BY <2>1, <2>2, <2>3
<1>4. CASE BeforeValueAt(p, r, gap, i) /\ p.state = "before value" /\ ~Unbracketed(fields[i].value)
  BY <1>4, StepToAstray
<1> QED BY <1>1, <1>2, <1>3, <1>4 DEF BeforeValueAt

LEMMA StepFromSkip ==
  ASSUME FieldsType, NEW gap \in Gaps, NEW i \in 1 .. Len(fields), NEW p \in ParserType,
         NEW r \in Chars, InSkipAt(p, r, gap, i)
  PROVE  StepFrom(p, r, TextBy(i - 1), ScalarBy(i - 1))
<1> DEFINE q == ParseFrom(p, Head(r))
<1>1. p.state = "skip" /\ Skipped(i)
  BY DEF InSkipAt, Skipped
<1>2. q \in ParserType /\ (InSkipAt(q, Tail(r), gap, i) \/ BetweenFieldsAt(q, Tail(r), gap, i))
  BY <1>1, ParseFromIs, StepInSkip, ZenonT(60) DEF SkipStep
<1>3. CASE InSkipAt(q, Tail(r), gap, i)
  BY <1>2, <1>3, StandInField DEF StepFrom
<1>4. CASE BetweenFieldsAt(q, Tail(r), gap, i)
  <2>1. ToldBefore(i)
    BY ToldStep
  <2>2. ScalarBy(i) = ScalarBy(i - 1)
    BY <1>1, <2>1 DEF ToldBefore, Skipped
  <2>3. TextBy(i) = TextBy(i - 1)
    BY <1>1, <2>1, TextIs DEF ToldBefore, Skipped
  <2>4. i \in 0 .. Len(fields)
    <3>1. PICK n \in Nat : n = Len(fields)
      BY FieldFacts
    <3> QED BY <3>1
  <2>5. Standing(q, Tail(r), TextBy(i), ScalarBy(i))
    BY <1>4, <2>4, StandBetween
  <2> QED BY <1>2, <2>2, <2>3, <2>5 DEF StepFrom
<1> QED BY <1>2, <1>3, <1>4

LEMMA StepFromString ==
  ASSUME FieldsType, NEW gap \in Gaps, NEW i \in 1 .. Len(fields), NEW p \in ParserType,
         NEW r \in Chars, NEW told, InStringAt(p, r, gap, i, told)
  PROVE  StepFrom(p, r, told, ScalarBy(i - 1))
<1> DEFINE q == ParseFrom(p, Head(r))
<1>1. p.state = "string" /\ fields[i].key = "s"
  BY DEF InStringAt
<1>2. q = InString(p, Head(r)) /\ StringStep(p, r, gap, i, told)
  BY <1>1, ParseFromIs, StepInString
<1>3. CASE q \in ParserType /\ InStringAt(q, Tail(r), gap, i, told)
  BY <1>3, StandInString DEF StepFrom
<1>4. CASE q \in ParserType /\ BetweenFieldsAt(q, Tail(r), gap, i) /\ told = Text
  <2>1. ScalarBy(i) = ScalarBy(i - 1) /\ TextBy(i) = Text
    BY <1>1, ToldStep DEF ToldBefore
  <2>2. i \in 0 .. Len(fields)
    <3>1. PICK n \in Nat : n = Len(fields)
      BY FieldFacts
    <3> QED BY <3>1
  <2>3. Standing(q, Tail(r), TextBy(i), ScalarBy(i))
    BY <1>4, <2>2, StandBetween
  <2> QED BY <1>4, <2>1, <2>3 DEF StepFrom
<1>5. ASSUME NEW q0 \in ParserType, NEW c, q = Yield(q0, "chunk", c), InStringAt(q0, Tail(r), gap, i, Append(told, c))
      PROVE  StepFrom(p, r, told, ScalarBy(i - 1))
  <2>1. Standing(q0, Tail(r), Append(told, c), ScalarBy(i - 1))
    BY <1>5, StandInString
  <2> QED BY <1>5, <2>1 DEF StepFrom
<1> QED BY <1>2, <1>3, <1>4, <1>5 DEF StringStep

LEMMA StepFromScalar ==
  ASSUME FieldsType, NEW gap \in Gaps, NEW i \in 1 .. Len(fields), NEW p \in ParserType,
         NEW r \in Chars, InScalarAt(p, r, gap, i)
  PROVE  StepFrom(p, r, TextBy(i - 1), ScalarBy(i - 1))
<1> DEFINE q == ParseFrom(p, Head(r))  v == fields[i].value
<1>1. p.state = "scalar" /\ fields[i].key = "a"
  BY DEF InScalarAt
<1>2. q = InScalar(p, Head(r)) /\ ScalarStep(p, r, gap, i) /\ Parsed("a") = v
  BY <1>1, ParseFromIs, StepInScalar, ParsedIs
<1>3. CASE q \in ParserType /\ InScalarAt(q, Tail(r), gap, i)
  BY <1>3, StandInField DEF StepFrom
<1>4. ASSUME NEW q0 \in ParserType, q = Yield(q0, "scalar", v), BetweenFieldsAt(q0, Tail(r), gap, i)
      PROVE  StepFrom(p, r, TextBy(i - 1), ScalarBy(i - 1))
  <2>1. /\ TextBy(i) = TextBy(i - 1) /\ ScalarBy(i - 1) = "none" /\ ScalarBy(i) = Understood(Parsed("a"))
    BY <1>1, ToldStep DEF ToldBefore
  <2>2. i \in 0 .. Len(fields)
    <3>1. PICK n \in Nat : n = Len(fields)
      BY FieldFacts
    <3> QED BY <3>1
  <2>3. Standing(q0, Tail(r), TextBy(i), ScalarBy(i))
    BY <1>4, <2>2, StandBetween
  <2> QED BY <1>2, <1>4, <2>1, <2>3 DEF StepFrom
<1>5. CASE q = Yield(p, "error", <<>>) /\ v.kind = "string" /\ \E m \in Illegible : v.marks = <<m>>
  <2>1. PICK m \in Illegible : v.marks = <<m>>
    BY <1>5
  <2>2. m \in ToSet(<<m>>)
    BY OneMark
  <2>3. ~LegibleScalar
    BY <1>2, <1>5, <2>1, <2>2 DEF LegibleScalar, IsText, Illegible
  <2> QED BY <1>5, <2>3 DEF StepFrom
<1> QED BY <1>2, <1>3, <1>4, <1>5 DEF ScalarStep

LEMMA StepOfParser ==
  ASSUME FieldsType, BracketsLast, NEW p \in ParserType, NEW r \in Chars, r # <<>>,
         NEW told, NEW known, Standing(p, r, told, known)
  PROVE  StepFrom(p, r, told, known)
<1>0. CASE told = TextBy(Len(fields)) /\ known = ScalarBy(Len(fields)) /\ AstrayAt(p, r)
  BY <1>0, StepAstray
<1> SUFFICES ASSUME ~(told = TextBy(Len(fields)) /\ known = ScalarBy(Len(fields)) /\ AstrayAt(p, r))
             PROVE  StepFrom(p, r, told, known)
  BY <1>0
<1>1. PICK gap \in Gaps :
        \/ \E i \in 0 .. Len(fields) :
             told = TextBy(i) /\ known = ScalarBy(i) /\ BetweenFieldsAt(p, r, gap, i)
        \/ \E i \in 1 .. Len(fields) :
             /\ known = ScalarBy(i - 1)
             /\ \/ /\ told = TextBy(i - 1)
                   /\ \/ InKeyAt(p, r, gap, i) \/ BeforeValueAt(p, r, gap, i)
                      \/ InScalarAt(p, r, gap, i) \/ InSkipAt(p, r, gap, i)
                \/ InStringAt(p, r, gap, i, told)
  BY DEF Standing, Gaps
<1>2. CASE \E i \in 0 .. Len(fields) :
             told = TextBy(i) /\ known = ScalarBy(i) /\ BetweenFieldsAt(p, r, gap, i)
  BY <1>2, StepFromBetween
<1>3. CASE \E i \in 1 .. Len(fields) :
             /\ known = ScalarBy(i - 1)
             /\ \/ /\ told = TextBy(i - 1)
                   /\ \/ InKeyAt(p, r, gap, i) \/ BeforeValueAt(p, r, gap, i)
                      \/ InScalarAt(p, r, gap, i) \/ InSkipAt(p, r, gap, i)
                \/ InStringAt(p, r, gap, i, told)
  <2>1. PICK i \in 1 .. Len(fields) :
             /\ known = ScalarBy(i - 1)
             /\ \/ /\ told = TextBy(i - 1)
                   /\ \/ InKeyAt(p, r, gap, i) \/ BeforeValueAt(p, r, gap, i)
                      \/ InScalarAt(p, r, gap, i) \/ InSkipAt(p, r, gap, i)
                \/ InStringAt(p, r, gap, i, told)
    BY <1>3
  <2> QED BY <2>1, StepFromKey, StepFromScalar, StepFromSkip, StepFromString
<1> QED BY <1>1, <1>2, <1>3

-----------------------------------------------------------------------------
(* What a parser tells is not part of where it stands.                     *)

Quiet(p) == [p EXCEPT !.out = Nothing]

AlikeIn(p, q) ==
  /\ q.state = p.state /\ q.key = p.key /\ q.escaped = p.escaped /\ q.left = p.left
  /\ q.depth = p.depth /\ q.scalar = p.scalar

LEMMA QuietAlike ==
  ASSUME NEW p, Quiet(p) \in ParserType
  PROVE  AlikeIn(p, Quiet(p)) /\ AlikeIn(Quiet(p), p)
  BY DEF Quiet, AlikeIn, ParserType

LEMMA QuietSelf ==
  ASSUME NEW p \in ParserType
  PROVE  Quiet(p) = p /\ p.out.name = "nothing"
<1>1. p.out = Nothing
  BY DEF ParserType
<1>2. [p EXCEPT !.out = p.out] = p
  BY DEF ParserType
<1> QED BY <1>1, <1>2 DEF Quiet, Nothing

LEMMA YieldAlike ==
  ASSUME NEW p \in ParserType, NEW name, NEW data
  PROVE  AlikeIn(p, Yield(p, name, data)) /\ Yield(p, name, data).out = [name |-> name, data |-> data]
  BY DEF Yield, ParserType, AlikeIn

LEMMA YieldQuiet ==
  ASSUME NEW p \in ParserType, NEW name, NEW data
  PROVE  Quiet(Yield(p, name, data)) = p
<1> DEFINE y == Yield(p, name, data)  c == [name |-> name, data |-> data]
<1>1. y = [p EXCEPT !.out = c]
  BY DEF Yield
<1> HIDE DEF c, y
<1>2. [y EXCEPT !.out = Nothing] = [p EXCEPT !.out = Nothing]
  BY <1>1 DEF ParserType
<1>3. [y EXCEPT !.out = Nothing] = p
  BY <1>2, QuietSelf DEF Quiet
<1>4. Quiet(y) = p
  BY <1>3 DEF Quiet
<1> QED BY <1>4 DEF y

LEMMA AlikeBetween ==
  ASSUME NEW p, NEW q, AlikeIn(p, q), NEW r, NEW gap, NEW i, BetweenFieldsAt(p, r, gap, i)
  PROVE  BetweenFieldsAt(q, r, gap, i)
  BY DEF AlikeIn, BetweenFieldsAt, Level

LEMMA AlikeKey ==
  ASSUME NEW p, NEW q, AlikeIn(p, q), NEW r, NEW gap, NEW i
  PROVE  /\ InKeyAt(p, r, gap, i) => InKeyAt(q, r, gap, i)
         /\ BeforeValueAt(p, r, gap, i) => BeforeValueAt(q, r, gap, i)
<1>1. InKeyAt(p, r, gap, i) => InKeyAt(q, r, gap, i)
  BY DEF AlikeIn, InKeyAt
<1>2. BeforeValueAt(p, r, gap, i) => BeforeValueAt(q, r, gap, i)
  BY DEF AlikeIn, BeforeValueAt, Level
<1> QED BY <1>1, <1>2

LEMMA AlikeScalar ==
  ASSUME NEW p, NEW q, AlikeIn(p, q), NEW r, NEW gap, NEW i, InScalarAt(p, r, gap, i)
  PROVE  InScalarAt(q, r, gap, i)
  BY DEF AlikeIn, InScalarAt, Level

LEMMA AlikeSkip ==
  ASSUME NEW p, NEW q, AlikeIn(p, q), NEW r, NEW gap, NEW i, InSkipAt(p, r, gap, i)
  PROVE  InSkipAt(q, r, gap, i)
  BY DEF AlikeIn, InSkipAt

LEMMA AlikeString ==
  ASSUME NEW p, NEW q, AlikeIn(p, q), NEW r, NEW gap, NEW i, NEW told, InStringAt(p, r, gap, i, told)
  PROVE  InStringAt(q, r, gap, i, told)
  BY DEF AlikeIn, InStringAt

LEMMA AlikeAstray ==
  ASSUME NEW p, NEW q, AlikeIn(p, q), NEW r, AstrayAt(p, r)
  PROVE  AstrayAt(q, r)
  BY DEF AlikeIn, AstrayAt

LEMMA AlikeStands ==
  ASSUME NEW p, NEW q, AlikeIn(p, q), NEW r, NEW told, NEW known, Standing(p, r, told, known)
  PROVE  Standing(q, r, told, known)
  BY AlikeBetween, AlikeKey, AlikeScalar, AlikeSkip, AlikeString, AlikeAstray DEF Standing

-----------------------------------------------------------------------------
(* Nor is the reply touched as it is read.                                 *)

LEMMA SameField ==
  ASSUME UNCHANGED <<use, fields>>
  PROVE  /\ \A gap, i : FieldText(gap, i)' = FieldText(gap, i)
         /\ \A key : Parsed(key)' = Parsed(key)
         /\ \A v : Understood(v)' = Understood(v)
<1>1. \A gap, i : FieldText(gap, i)' = FieldText(gap, i)
  BY DEF FieldText
<1>2. \A key : Parsed(key)' = Parsed(key)
  BY DEF Parsed
<1>3. \A v : Understood(v)' = Understood(v)
  BY DEF Understood
<1> QED BY <1>1, <1>2, <1>3

LEMMA SameText ==
  ASSUME UNCHANGED <<use, fields>>
  PROVE  IsText("s")' = IsText("s") /\ IsText("a")' = IsText("a") /\ Text' = Text /\ LegibleScalar' = LegibleScalar
<1>1. IsText("s")' = IsText("s") /\ IsText("a")' = IsText("a")
  BY SameField DEF IsText
<1>2. Text' = Text
  BY <1>1, SameField DEF Text
<1>3. LegibleScalar' = LegibleScalar
  BY <1>1, SameField DEF LegibleScalar
<1> QED BY <1>1, <1>2, <1>3

LEMMA SameAfter ==
  ASSUME UNCHANGED <<use, fields>>
  PROVE  /\ \A gap, i : FieldsAfter(gap, i)' = FieldsAfter(gap, i)
         /\ \A gap, i : ValueAfter(gap, i)' = ValueAfter(gap, i)
         /\ \A gap, i : KeyAfter(gap, i)' = KeyAfter(gap, i)
         /\ \A i : TextBy(i)' = TextBy(i) /\ ScalarBy(i)' = ScalarBy(i)
<1>1. \A gap, i : FieldsAfter(gap, i)' = FieldsAfter(gap, i)
  BY SameField DEF FieldsAfter
<1>2. \A gap, i : ValueAfter(gap, i)' = ValueAfter(gap, i)
  BY <1>1 DEF ValueAfter
<1>3. \A gap, i : KeyAfter(gap, i)' = KeyAfter(gap, i)
  BY <1>2 DEF KeyAfter
<1>4. \A i : TextBy(i)' = TextBy(i)
  BY SameText DEF TextBy
<1>5. \A i : ScalarBy(i)' = ScalarBy(i)
  BY SameField DEF ScalarBy
<1> QED BY <1>1, <1>2, <1>3, <1>4, <1>5

LEMMA SameSkip ==
  ASSUME UNCHANGED <<use, fields>>, NEW p, NEW r, NEW gap, NEW i, InSkipAt(p, r, gap, i)
  PROVE  InSkipAt(p, r, gap, i)'
<1>1. ValueAfter(gap, i)' = ValueAfter(gap, i) /\ FieldsAfter(gap, i)' = FieldsAfter(gap, i) /\ fields' = fields
  BY SameAfter
<1>2. PICK t, u, f : t = ValueAfter(gap, i) /\ u = FieldsAfter(gap, i) /\ f = fields
  OBVIOUS
<1>3. t = ValueAfter(gap, i)' /\ u = FieldsAfter(gap, i)' /\ f = fields'
  BY <1>1, <1>2
<1> QED BY <1>2, <1>3, Zenon DEF InSkipAt

LEMMA SameString ==
  ASSUME UNCHANGED <<use, fields>>, NEW p, NEW r, NEW gap, NEW i, NEW told, InStringAt(p, r, gap, i, told)
  PROVE  InStringAt(p, r, gap, i, told)'
<1>1. ValueAfter(gap, i)' = ValueAfter(gap, i) /\ fields' = fields
  BY SameAfter
<1>2. PICK t, f : t = ValueAfter(gap, i) /\ f = fields
  OBVIOUS
<1>3. t = ValueAfter(gap, i)' /\ f = fields'
  BY <1>1, <1>2
<1> QED BY <1>2, <1>3, Zenon DEF InStringAt

LEMMA SameStand ==
  ASSUME UNCHANGED <<use, fields>>, NEW p, NEW r, NEW told, NEW known, Standing(p, r, told, known)
  PROVE  Standing(p, r, told, known)'
<1>1. \A gap, i : BetweenFieldsAt(p, r, gap, i) => BetweenFieldsAt(p, r, gap, i)'
  BY SameAfter DEF BetweenFieldsAt
<1>2. \A gap, i : InKeyAt(p, r, gap, i) => InKeyAt(p, r, gap, i)'
  BY SameAfter DEF InKeyAt
<1>3. \A gap, i : BeforeValueAt(p, r, gap, i) => BeforeValueAt(p, r, gap, i)'
  BY SameAfter DEF BeforeValueAt
<1>4. \A gap, i : InScalarAt(p, r, gap, i) => InScalarAt(p, r, gap, i)'
  BY SameAfter DEF InScalarAt
<1>5. \A gap, i : InSkipAt(p, r, gap, i) => InSkipAt(p, r, gap, i)'
  BY SameSkip
<1>6. \A gap, i : InStringAt(p, r, gap, i, told) => InStringAt(p, r, gap, i, told)'
  BY SameString
<1>7. AstrayAt(p, r) => AstrayAt(p, r)'
  BY DEF AstrayAt
<1>8. TextBy(Len(fields))' = TextBy(Len(fields)) /\ ScalarBy(Len(fields))' = ScalarBy(Len(fields))
  BY SameAfter
<1> QED BY <1>1, <1>2, <1>3, <1>4, <1>5, <1>6, <1>7, <1>8, SameAfter DEF Standing

-----------------------------------------------------------------------------
(* What stands between here and the end of a reply is not blank.           *)

Inked(r) == \E j \in 1 .. Len(r) : r[j] # " "

LEMMA Lengths ==
  ASSUME NEW t \in Chars
  PROVE  /\ Len(t) \in Nat /\ t # <<>> => Head(t) = t[1]
         /\ t # <<>> => \A j \in 1 .. Len(Tail(t)) : j + 1 \in 1 .. Len(t) /\ Tail(t)[j] = t[j + 1]
<1>1. Len(t) \in Nat /\ (t # <<>> => Head(t) = t[1] /\ Len(Tail(t)) = Len(t) - 1)
  BY DEF Chars
<1>2. ASSUME t # <<>>, NEW j \in 1 .. Len(t) - 1  PROVE j + 1 \in 1 .. Len(t) /\ Tail(t)[j] = t[j + 1]
  BY <1>2 DEF Chars
<1> QED BY <1>1, <1>2

LEMMA InkBehind ==
  ASSUME NEW s \in Chars, NEW t \in Chars, Inked(t)
  PROVE  Inked(s \o t)
<1>1. PICK j \in 1 .. Len(t) : t[j] # " "
  BY DEF Inked
<1>2. PICK m, n \in Nat : m = Len(s) /\ n = Len(t)
  BY DEF Chars
<1>3. m + j \in 1 .. m + n /\ ~(m + j <= m) /\ m + j - m = j
  BY <1>2
<1>4. (s \o t)[m + j] = t[j] /\ Len(s \o t) = m + n
  BY <1>2, <1>3, Joined
<1> QED BY <1>1, <1>3, <1>4 DEF Inked

LEMMA FirstOf ==
  ASSUME NEW b \in Chars, b # <<>>
  PROVE  1 \in 1 .. Len(b) /\ b[1] = Head(b)
  BY DEF Chars

LEMMA InkFirst ==
  ASSUME NEW b \in Chars, b # <<>>, Head(b) # " "
  PROVE  Inked(b)
<1>1. 1 \in 1 .. Len(b) /\ b[1] = Head(b)
  BY FirstOf
<1> QED BY <1>1 DEF Inked

LEMMA FurtherOn ==
  \A n \in Nat : \A k \in 0 .. n : \A j \in 1 .. n - k : k + j \in 1 .. n
  OBVIOUS

LEMMA InkFront ==
  ASSUME NEW c \in Char, c # " ", NEW t \in Chars
  PROVE  Inked(<<c>> \o t)
<1>1. PICK b \in Chars : b = <<c>> \o t /\ Head(b) = c /\ Len(b) = Len(t) + 1 /\ b # <<>>
  BY InFront
<1>2. Inked(b)
  BY <1>1, InkFirst
<1> QED BY <1>1, <1>2

LEMMA InkWithin ==
  ASSUME NEW S, NEW r \in Chars, NEW t \in Chars, Within(r, S, t), Inked(t)
  PROVE  Inked(r)
<1>1. PICK k \in 0 .. Len(r) : Split(r, S, t, k)
  BY WithinSplit
<1>2. PICK n \in Nat : n = Len(r)
  BY DEF Chars
<1>3. PICK j \in 1 .. Len(t) : t[j] # " "
  BY DEF Inked
<1>4. Len(t) = n - k /\ t = SubSeq(r, k + 1, n)
  BY <1>1, <1>2 DEF Split
<1>5. k + j \in 1 .. n /\ j \in 1 .. n - k
  <2>1. j \in 1 .. n - k /\ k \in 0 .. n
    BY <1>2, <1>4
  <2> QED BY <2>1, FurtherOn
<1>6. t[j] = r[k + j]
  BY <1>2, <1>4, <1>5 DEF Chars
<1> QED BY <1>2, <1>3, <1>5, <1>6 DEF Inked

LEMMA InkTail ==
  ASSUME NEW r \in Chars, r # <<>>, Inked(Tail(r))
  PROVE  Inked(r)
<1>1. PICK j \in 1 .. Len(Tail(r)) : Tail(r)[j] # " "
  BY DEF Inked
<1>2. Tail(r)[j] = r[j + 1] /\ j + 1 \in 1 .. Len(r)
  BY Lengths
<1> QED BY <1>1, <1>2 DEF Inked

LEMMA InkAfter ==
  ASSUME FieldsType, NEW gap \in Gaps
  PROVE  /\ \A i \in 0 .. Len(fields) : Inked(FieldsAfter(gap, i))
         /\ \A i \in 1 .. Len(fields) : Inked(ValueAfter(gap, i)) /\ Inked(KeyAfter(gap, i))
<1>1. ASSUME NEW i \in 0 .. Len(fields)  PROVE Inked(FieldsAfter(gap, i))
  <2>1. Inked(<<"}">> \o gap)
    BY Signs, GapChars, InkFront
  <2>2. PICK s, t \in Chars : s = FlattenSeq(From(FieldTexts(gap), i)) /\ t = <<"}">> \o gap /\ FieldsAfter(gap, i) = s \o t
    BY FieldsFrom
  <2>3. Inked(s \o t)
    BY <2>1, <2>2, InkBehind
  <2> QED BY <2>2, <2>3
<1>2. ASSUME NEW i \in 1 .. Len(fields)  PROVE Inked(ValueAfter(gap, i)) /\ Inked(KeyAfter(gap, i))
  <2>0. i \in 0 .. Len(fields)
    BY FieldFacts
  <2>1. PICK f \in Chars : f = FieldsAfter(gap, i) /\ Inked(f)
    BY <1>1, <2>0, TextTypes
  <2>2. PICK u \in Chars : u = gap \o f /\ Inked(u)
    BY <2>1, GapChars, JoinType, InkBehind
  <2>3. PICK v \in Chars : v = Comma(i) \o u /\ Inked(v)
    BY <2>2, CommaChars, JoinType, InkBehind
  <2>4. ValueAfter(gap, i) = v
    BY <2>1, <2>2, <2>3 DEF ValueAfter, Comma
  <2>5. PICK w \in Chars : w = ValueText(fields[i].value) \o v
    BY FieldFacts, JoinType DEF IsField
  <2>6. PICK x \in Chars : x = gap \o w
    BY GapChars, JoinType
  <2>7. KeyAfter(gap, i) = <<":">> \o x
    BY <2>4, <2>5, <2>6 DEF KeyAfter
  <2>8. Inked(<<":">> \o x)
    BY Signs, InkFront
  <2> QED BY <2>3, <2>4, <2>7, <2>8
<1> QED BY <1>1, <1>2

LEMMA InkMarks ==
  ASSUME NEW marks \in Seq(MarkNames), NEW k \in 0 .. Len(marks), NEW t \in Chars
  PROVE  Inked(MarksAfter(marks, k, t)) /\ MarksAfter(marks, k, t) \in Chars
<1>1. PICK a, b \in Chars : a = FlattenSeq(From(Texts(marks), k)) /\ b = <<"\"">> \o t
  <2>1. FlattenSeq(From(Texts(marks), k)) \in Chars
    BY TextsType, FlattenFrom
  <2>2. <<"\"">> \o t \in Chars
    BY Signs, InFront
  <2> QED BY <2>1, <2>2
<1>2. Inked(b)
  BY <1>1, Signs, InkFront
<1>3. Inked(a \o b)
  BY <1>2, InkBehind
<1>4. MarksAfter(marks, k, t) = a \o b
  BY <1>1, MarksFrom
<1> QED BY <1>3, <1>4, MarksType

LEMMA InkSign ==
  ASSUME NEW c \in Char, c # " ", NEW t \in Chars
  PROVE  \E b \in Chars : b = <<c>> \o t /\ Inked(b)
  BY InFront, InkFront

LEMMA InkSigns ==
  ASSUME NEW t \in Chars
  PROVE  /\ \E b \in Chars : b = <<"}">> \o t /\ Inked(b)
         /\ \E b \in Chars : b = <<"]">> \o t /\ Inked(b)
         /\ \E b \in Chars : b = <<"[">> \o t /\ Inked(b)
         /\ \E b \in Chars : b = <<"{">> \o t /\ Inked(b)
         /\ \E b \in Chars : b = <<"\"">> \o t /\ Inked(b)
  BY Signs, InkSign

LEMMA InkBetween ==
  ASSUME FieldsType, NEW gap \in Gaps, NEW i \in 0 .. Len(fields), NEW p, NEW r \in Chars,
         BetweenFieldsAt(p, r, gap, i), p.state # "finished"
  PROVE  Inked(r)
<1>1. PICK f \in Chars : f = FieldsAfter(gap, i) /\ Inked(f)
  BY TextTypes, InkAfter
<1>2. PICK b \in Chars : b = <<"{">> \o f /\ Inked(b)
  BY <1>1, InkSigns
<1>3. \/ \E S : Within(r, S, f)
      \/ \E S : Within(r, S, b)
  BY <1>1, <1>2 DEF BetweenFieldsAt
<1> QED BY <1>1, <1>2, <1>3, InkWithin

LEMMA InkKey ==
  ASSUME FieldsType, NEW gap \in Gaps, NEW i \in 1 .. Len(fields), NEW p, NEW r \in Chars,
         InKeyAt(p, r, gap, i)
  PROVE  Inked(r)
<1>1. PICK f \in Chars : f = KeyAfter(gap, i)
  BY TextTypes
<1>2. PICK t \in Chars : t = <<"\"">> \o f /\ Inked(t)
  BY <1>1, InkSigns
<1>3. PICK w \in Chars : w = Name[fields[i].key]
  BY FieldFacts, Names DEF IsField
<1>4. PICK b \in Chars : b = <<"\"">> \o t /\ Inked(b)
  BY InkSigns
<1>5. r = w \o t \/ r = b \/ r = t
  BY <1>1, <1>2, <1>3, <1>4 DEF InKeyAt
<1> QED BY <1>2, <1>3, <1>4, <1>5, InkBehind

LEMMA InkValue ==
  ASSUME FieldsType, NEW gap \in Gaps, NEW i \in 1 .. Len(fields), NEW p, NEW r \in Chars,
         BeforeValueAt(p, r, gap, i)
  PROVE  Inked(r)
<1>1. PICK f \in Chars : f = KeyAfter(gap, i) /\ Inked(f)
  BY TextTypes, InkAfter
<1>2. PICK t \in Chars : t = ValueAfter(gap, i) /\ Inked(t)
  BY TextTypes, InkAfter
<1>3. PICK w \in Chars : w = ValueText(fields[i].value)
  BY FieldFacts DEF IsField
<1>4. PICK b \in Chars : b = w \o t /\ Inked(b)
  BY <1>2, JoinType, InkBehind
<1>5. r = f \/ Within(r, {" "}, b)
  BY <1>1, <1>2, <1>3, <1>4 DEF BeforeValueAt
<1> QED BY <1>1, <1>4, <1>5, InkWithin

LEMMA InkScalar ==
  ASSUME FieldsType, NEW gap \in Gaps, NEW i \in 1 .. Len(fields), NEW p, NEW r \in Chars,
         InScalarAt(p, r, gap, i)
  PROVE  Inked(r)
<1>1. PICK t \in Chars : t = ValueAfter(gap, i) /\ Inked(t)
  BY TextTypes, InkAfter
<1>2. PICK w \in Chars : w = ValueText(fields[i].value)
  BY FieldFacts DEF IsField
<1>3. PICK k \in 1 .. Len(w) : r = SubSeq(w, k + 1, Len(w)) \o t
  BY <1>1, <1>2 DEF InScalarAt
<1>4. SubSeq(w, k + 1, Len(w)) \in Chars
  BY DEF Chars
<1> QED BY <1>1, <1>3, <1>4, InkBehind

LEMMA InkSkip ==
  ASSUME FieldsType, NEW gap \in Gaps, NEW i \in 1 .. Len(fields), NEW p, NEW r \in Chars,
         InSkipAt(p, r, gap, i)
  PROVE  Inked(r)
<1>1. PICK t \in Chars : t = ValueAfter(gap, i) /\ Inked(t)
  BY TextTypes, InkAfter
<1>2. PICK f \in Chars : f = FieldsAfter(gap, i) /\ Inked(f)
  <2>1. i \in 0 .. Len(fields)
    BY FieldFacts
  <2> QED BY <2>1, TextTypes, InkAfter
<1>3. PICK m \in Seq(MarkNames) : m = fields[i].value.marks
  BY FieldFacts DEF IsField
<1>4. PICK c \in Chars : c = <<"}">> \o t /\ Inked(c)
  BY <1>1, InkSigns
<1>5. PICK d \in Chars : d = <<"]">> \o c /\ Inked(d)
  BY <1>4, InkSigns
<1>6. PICK e \in Chars : e = <<"]">> \o t /\ Inked(e)
  BY <1>1, InkSigns
<1>7. PICK q \in Chars : q = Quoted(m) \o d
  BY <1>5, NoChars, QuotedIs, JoinType
<1>8. PICK b \in Chars : b = <<"[">> \o q /\ Inked(b)
  BY <1>7, InkSigns
<1>9. \/ r = t \/ Within(r, {" "}, f)
      \/ \E k \in 0 .. Len(m) : Within(r, Plain, MarksAfter(m, k, t))
      \/ \E k \in 0 .. Len(m) : r # <<>> /\ Within(Tail(r), Plain, MarksAfter(m, k, t))
      \/ Within(r, Flat, e) \/ r = c \/ Within(r, Flat, b) \/ Within(r, Flat, d)
  BY <1>1, <1>2, <1>3, <1>4, <1>5, <1>6, <1>7, <1>8, Zenon DEF InSkipAt
<1>10. CASE \E k \in 0 .. Len(m) : Within(r, Plain, MarksAfter(m, k, t))
  BY <1>10, InkMarks, InkWithin
<1>11. CASE \E k \in 0 .. Len(m) : r # <<>> /\ Within(Tail(r), Plain, MarksAfter(m, k, t))
  <2>1. Tail(r) \in Chars
    BY <1>11 DEF Chars
  <2>2. Inked(Tail(r))
    BY <1>11, <2>1, InkMarks, InkWithin
  <2> QED BY <1>11, <2>2, InkTail
<1> QED BY <1>1, <1>2, <1>4, <1>5, <1>6, <1>8, <1>9, <1>10, <1>11, InkWithin

LEMMA InkString ==
  ASSUME FieldsType, NEW gap \in Gaps, NEW i \in 1 .. Len(fields), NEW p, NEW r \in Chars, NEW told,
         InStringAt(p, r, gap, i, told)
  PROVE  Inked(r)
<1>1. PICK t \in Chars : t = ValueAfter(gap, i)
  BY TextTypes
<1>2. PICK m \in Seq(MarkNames) : m = fields[i].value.marks
  BY FieldFacts DEF IsField
<1>3. PICK k \in 0 .. Len(m) :
          \/ r = MarksAfter(m, k, t)
          \/ k < Len(m) /\ r = Tail(MarkText[m[k + 1]]) \o MarksAfter(m, k + 1, t)
          \/ /\ k < Len(m) /\ p.left \in 1 .. 4
             /\ r = [j \in 1 .. p.left |-> "h"] \o MarksAfter(m, k + 1, t)
  BY <1>1, <1>2, Zenon DEF InStringAt
<1>4. CASE r = MarksAfter(m, k, t)
  BY <1>4, InkMarks
<1>5. ASSUME k < Len(m), NEW s \in Chars, r = s \o MarksAfter(m, k + 1, t)
      PROVE  Inked(r)
  <2>1. k + 1 \in 0 .. Len(m)
    BY <1>5
  <2> QED BY <1>5, <2>1, InkMarks, InkBehind
<1>6. k < Len(m) => Tail(MarkText[m[k + 1]]) \in Chars
  <2>1. ASSUME k < Len(m)  PROVE m[k + 1] \in MarkNames
    BY <2>1
  <2> QED BY <2>1, MarkChars DEF Chars
<1>7. p.left \in 1 .. 4 => [j \in 1 .. p.left |-> "h"] \in Chars
  BY Hs
<1> QED BY <1>3, <1>4, <1>5, <1>6, <1>7

LEMMA DomainOf ==
  ASSUME NEW r \in Chars
  PROVE  DOMAIN r = 1 .. Len(r)
  BY DEF Chars

LEMMA Blank ==
  ASSUME NEW r, ToSet(r) \subseteq {" "}, r \in Chars
  PROVE  ~Inked(r)
<1>1. \A j \in DOMAIN r : r[j] = " "
  BY DEF ToSet
<1>2. DOMAIN r = 1 .. Len(r)
  BY DomainOf
<1> QED BY <1>1, <1>2 DEF Inked

LEMMA EndOfReply ==
  ASSUME FieldsType, NEW p, NEW r \in Chars, NEW told, NEW known, Standing(p, r, told, known), ~Inked(r)
  PROVE  told = TextBy(Len(fields)) /\ known = ScalarBy(Len(fields))
<1> SUFFICES ASSUME ~(told = TextBy(Len(fields)) /\ known = ScalarBy(Len(fields)))
             PROVE  FALSE
  OBVIOUS
<1>1. PICK gap \in Gaps, i \in 0 .. Len(fields) :
        told = TextBy(i) /\ known = ScalarBy(i) /\ BetweenFieldsAt(p, r, gap, i)
  BY InkKey, InkValue, InkScalar, InkSkip, InkString DEF Standing, Gaps
<1>2. p.state = "finished"
  BY <1>1, InkBetween
<1>3. i = Len(fields)
  BY <1>1, <1>2 DEF BetweenFieldsAt
<1> QED BY <1>1, <1>2, <1>3

-----------------------------------------------------------------------------
(* What has been told is a beginning of the text, at the end all of it.    *)

Letters == {MarkChar[m] : m \in MarkNames}

LEMMA DecodedIs ==
  ASSUME NEW marks \in Seq(MarkNames)
  PROVE  Decoded(marks) \in Seq(Letters) /\ Len(Decoded(marks)) = Len(marks)
<1> DEFINE d == [i \in 1 .. Len(marks) |-> MarkChar[marks[i]]]
<1>1. \A i \in 1 .. Len(marks) : MarkChar[marks[i]] \in Letters
  BY DEF Letters
<1>2. d \in Seq(Letters) /\ Len(d) = Len(marks)
  BY <1>1
<1>3. Decoded(marks) = d
  BY DEF Decoded
<1> QED BY <1>2, <1>3

\* What json.loads finds is a value of the field, or null.
LEMMA ParsedType ==
  ASSUME FieldsType, NEW key \in Keys
  PROVE  \/ \E i \in 1 .. Len(fields) : fields[i].key = key /\ Parsed(key) = fields[i].value
         \/ Parsed(key) = Bare("null") /\ \A i \in 1 .. Len(fields) : fields[i].key # key
<1>1. DOMAIN fields = 1 .. Len(fields)
  BY FieldFacts
<1>2. CASE \E i \in 1 .. Len(fields) : fields[i].key = key
  BY <1>2, ParsedIs
<1>3. CASE \A i \in 1 .. Len(fields) : fields[i].key # key
  <2>1. {i \in DOMAIN fields : fields[i].key = key} = {}
    BY <1>1, <1>3
  <2>2. Parsed(key) = Bare("null")
    BY <2>1 DEF Parsed
  <2> QED BY <1>3, <2>2
<1> QED BY <1>2, <1>3

LEMMA TextType ==
  ASSUME FieldsType
  PROVE  Text \in Seq(Letters)
<1>1. Parsed("s").marks \in Seq(MarkNames)
  <2>1. ASSUME NEW i \in 1 .. Len(fields), Parsed("s") = fields[i].value  PROVE Parsed("s").marks \in Seq(MarkNames)
    BY <2>1, FieldFacts DEF IsField
  <2>2. ASSUME Parsed("s") = Bare("null")  PROVE Parsed("s").marks \in Seq(MarkNames)
    <3>1. Parsed("s").marks = <<>>
      BY <2>2 DEF Bare
    <3> QED BY <3>1, EmptySeq
  <2> QED BY <2>1, <2>2, ParsedType DEF Keys
<1>2. <<>> \in Seq(Letters)
  BY EmptySeq
<1> QED BY <1>1, <1>2, DecodedIs DEF Text

LEMMA Beginnings ==
  ASSUME NEW S, NEW t \in Seq(S), NEW k \in 0 .. Len(t)
  PROVE  SubSeq(t, 1, k) \in Seq(S) /\ IsPrefix(SubSeq(t, 1, k), t)
<1>1. SubSeq(t, 1, k) \in Seq(S) /\ Len(SubSeq(t, 1, k)) = k
  OBVIOUS
<1>2. SubSeq(SubSeq(t, 1, k), 1, k) = SubSeq(t, 1, k)
  BY <1>1, SubSeqFull
<1> QED BY <1>1, <1>2 DEF IsPrefix

LEMMA WholePrefix ==
  ASSUME NEW S, NEW t \in Seq(S)
  PROVE  IsPrefix(t, t) /\ IsPrefix(<<>>, t)
<1>1. IsPrefix(t, t)
  BY DEF IsPrefix
<1>2. SubSeq(t, 1, 0) = <<>> /\ SubSeq(<<>>, 1, 0) = <<>> /\ Len(<<>>) = 0 /\ Len(t) >= 0
  BY SubSeqEmpty
<1> QED BY <1>1, <1>2 DEF IsPrefix

LEMMA ToldIsText ==
  ASSUME FieldsType, NEW p, NEW r, NEW told, NEW known, Standing(p, r, told, known)
  PROVE  told \in Seq(Letters) /\ IsPrefix(told, Text)
<1>1. \A i : TextBy(i) = <<>> \/ TextBy(i) = Text
  BY DEF TextBy
<1>2. <<>> \in Seq(Letters) /\ Text \in Seq(Letters)
  BY EmptySeq, TextType
<1>3. IsPrefix(<<>>, Text) /\ IsPrefix(Text, Text)
  BY <1>2, WholePrefix
<1>4. CASE \E i : told = TextBy(i)
  BY <1>1, <1>2, <1>3, <1>4
<1>5. ASSUME NEW gap \in Gaps, NEW i \in 1 .. Len(fields), InStringAt(p, r, gap, i, told)
      PROVE  told \in Seq(Letters) /\ IsPrefix(told, Text)
  <2>1. PICK m \in Seq(MarkNames) : m = fields[i].value.marks
    BY FieldFacts DEF IsField
  <2>2. PICK k \in 0 .. Len(m) : told = SubSeq(Decoded(m), 1, k)
    BY <1>5, <2>1 DEF InStringAt
  <2>3. Text = Decoded(m)
    BY <1>5, <2>1, TextIs DEF InStringAt
  <2> QED BY <2>2, <2>3, DecodedIs, Beginnings
<1> QED BY <1>4, <1>5 DEF Standing, Gaps

LEMMA ToldInTheEnd ==
  ASSUME FieldsType
  PROVE  /\ TextBy(Len(fields)) = Text
         /\ \/ Parsed("a") = Bare("null") /\ ScalarBy(Len(fields)) = "none"
            \/ ScalarBy(Len(fields)) = Understood(Parsed("a"))
<1>1. TextBy(Len(fields)) = Text
  <2>1. CASE \E i \in 1 .. Len(fields) : fields[i].key = "s"
    BY <2>1 DEF TextBy
  <2>2. CASE \A i \in 1 .. Len(fields) : fields[i].key # "s"
    <3>1. Parsed("s").kind = "null"
      BY <2>2, ParsedType DEF Keys, Bare
    <3>2. Text = <<>>
      BY <3>1 DEF Text, IsText
    <3> QED BY <2>2, <3>2 DEF TextBy
  <2> QED BY <2>1, <2>2
<1>2. \/ Parsed("a") = Bare("null") /\ ScalarBy(Len(fields)) = "none"
      \/ ScalarBy(Len(fields)) = Understood(Parsed("a"))
  BY ParsedType DEF ScalarBy, Keys
<1> QED BY <1>1, <1>2

LEMMA UnderstoodType ==
  ASSUME FieldsType
  PROVE  /\ Coerced(Parsed("a")) \in {"advance", "nudge", "probe"}
         /\ use = "conduct" => Understood(Parsed("a")) = Coerced(Parsed("a"))
         /\ use # "conduct" => Understood(Parsed("a")) = Parsed("a").kind
         /\ Parsed("a").kind \in {"string", "number", "null"}
<1>1. Coerced(Parsed("a")) \in {"advance", "nudge", "probe"}
  BY DEF Coerced
<1>2. Parsed("a").kind \in {"string", "number", "null"}
  <2>1. ASSUME NEW i \in 1 .. Len(fields), fields[i].key = "a", Parsed("a") = fields[i].value
        PROVE  Parsed("a").kind \in {"string", "number", "null"}
    <3>1. Parsed("a") \in Values["a"]
      BY <2>1, FieldFacts DEF IsField
    <3> QED BY <3>1, ValueOfAction
  <2>2. ASSUME Parsed("a") = Bare("null")  PROVE Parsed("a").kind = "null"
    BY <2>2 DEF Bare
  <2> QED BY <2>1, <2>2, ParsedType DEF Keys
<1> QED BY <1>1, <1>2 DEF Understood

-----------------------------------------------------------------------------
(* The invariant holds at first.                                           *)

\* What a key list of Init is.
LEMMA KeyLists ==
  ASSUME NEW S \in SUBSET Keys, NEW keys \in SetToAllKPermutations(S)
  PROVE  \E n \in Nat : keys \in [1 .. n -> S] /\ \A i, j \in 1 .. n : i # j => keys[i] # keys[j]
<1>1. PICK s \in SUBSET S : keys \in SetToSeqs(s)
  BY DEF SetToAllKPermutations
<1>2. keys \in [1 .. Cardinality(s) -> s] /\ \A i, j \in 1 .. Cardinality(s) : i # j => keys[i] # keys[j]
  BY <1>1 DEF SetToSeqs
<1>3. IsFiniteSet(Keys)
  <2>1. IsFiniteSet({} \cup {"s"})
    BY FS_EmptySet, FS_AddElement
  <2>2. IsFiniteSet(({} \cup {"s"}) \cup {"a"})
    BY <2>1, FS_AddElement
  <2>3. IsFiniteSet((({} \cup {"s"}) \cup {"a"}) \cup {"o"})
    BY <2>2, FS_AddElement
  <2>4. Keys = (({} \cup {"s"}) \cup {"a"}) \cup {"o"}
    BY DEF Keys
  <2> QED BY <2>3, <2>4
<1>4. Cardinality(s) \in Nat
  BY <1>3, FS_Subset, FS_CardinalityType
<1>5. PICK n \in Nat : n = Cardinality(s)
  BY <1>4
<1>6. keys \in [1 .. n -> S] /\ \A i, j \in 1 .. n : i # j => keys[i] # keys[j]
  BY <1>2, <1>5
<1> QED BY <1>6

LEMMA FieldsAtFirst ==
  ASSUME Init
  PROVE  FieldsType
<1> DEFINE S == {"s", "o"} \cup (IF use \in {"conduct", "judge"} THEN {"a"} ELSE {})
           V == UNION {Values.s, Values.a, Values.o}
<1>1. PICK keys \in SetToAllKPermutations(S), value \in [s : Values.s, a : Values.a, o : Values.o] :
        fields = [i \in DOMAIN keys |-> [key |-> keys[i], value |-> value[keys[i]]]]
  BY DEF Init
<1>2. S \in SUBSET Keys /\ \A key \in S : key = "a" => use \in {"conduct", "judge"}
  BY DEF Keys
<1>3. PICK n \in Nat : keys \in [1 .. n -> S] /\ \A i, j \in 1 .. n : i # j => keys[i] # keys[j]
  <2> HIDE DEF S
  <2> QED BY <1>1, <1>2, KeyLists
<1>4. \A key \in Keys : value[key] \in Values[key] /\ value[key] \in V
  <2>1. /\ value["s"] \in Values["s"] /\ value["a"] \in Values["a"] /\ value["o"] \in Values["o"]
    BY <1>1
  <2>2. Values["s"] \subseteq V /\ Values["a"] \subseteq V /\ Values["o"] \subseteq V
    OBVIOUS
  <2> HIDE DEF V
  <2> QED BY <2>1, <2>2 DEF Keys
<1> HIDE DEF S
<1>5. \A i \in 1 .. n : keys[i] \in S /\ keys[i] \in Keys
  BY <1>2, <1>3
<1>6. fields = [i \in 1 .. n |-> [key |-> keys[i], value |-> value[keys[i]]]]
  BY <1>1, <1>3
<1>7. \A i \in 1 .. n : fields[i].key = keys[i] /\ fields[i].value = value[keys[i]]
  BY <1>6
<1>8. fields \in Seq([key : {"s", "a", "o"}, value : V])
  <2> HIDE DEF V
  <2> DEFINE R == [key : {"s", "a", "o"}, value : V]
  <2>1. \A i \in 1 .. n : [key |-> keys[i], value |-> value[keys[i]]] \in R
    BY <1>4, <1>5 DEF Keys
  <2> HIDE DEF R
  <2>2. fields \in [1 .. n -> R]
    BY <1>6, <2>1
  <2>3. fields \in Seq(R)
    BY <2>2
  <2> QED BY <2>3 DEF R
<1>9. DOMAIN fields = 1 .. n
  BY <1>6
<1>10. ASSUME NEW i \in 1 .. n
       PROVE  /\ fields[i].value \in Values[fields[i].key]
              /\ fields[i].key = "a" => use \in {"conduct", "judge"}
              /\ \A j \in 1 .. n : fields[i].key = fields[j].key => i = j
  BY <1>2, <1>3, <1>4, <1>5, <1>7
<1> QED BY <1>8, <1>9, <1>10 DEF FieldsType

LEMMA StandsAtFirst ==
  ASSUME FieldsType, NEW gap \in Gaps
  PROVE  StartParser \in ParserType /\ Standing(StartParser, ReplyText(gap), <<>>, "none")
<1>1. PICK f \in Chars : f = FieldsAfter(gap, 0)
  <2>1. 0 \in 0 .. Len(fields)
    BY FieldFacts
  <2> QED BY <2>1, TextTypes
<1>2. PICK b \in Chars : b = <<"{">> \o f
  BY Signs, InFront
<1>3. PICK r \in Chars : r = ReplyText(gap) /\ r = gap \o b
  BY <1>1, <1>2, ReplyTextIs
<1>4. Within(r, {" "}, b)
  BY <1>3, GapChars, WithinHere, WithinMore
<1>5. StartParser \in ParserType /\ Level(StartParser) /\ StartParser.state = "pre"
  <2>1. <<>> \in Seq(Char)
    BY EmptySeq
  <2> QED BY <2>1 DEF StartParser, ParserType, Level
<1>6. BetweenFieldsAt(StartParser, r, gap, 0)
  BY <1>1, <1>2, <1>4, <1>5 DEF BetweenFieldsAt
<1>7. TextBy(0) = <<>> /\ ScalarBy(0) = "none" /\ 0 \in 0 .. Len(fields)
  <2>1. 1 .. 0 = {}
    OBVIOUS
  <2> QED BY <2>1, FieldFacts DEF TextBy, ScalarBy
<1>8. Standing(StartParser, r, TextBy(0), ScalarBy(0))
  BY <1>6, <1>7, StandBetween
<1> QED BY <1>3, <1>5, <1>7, <1>8

LEMMA ReplyInvAtFirst ==
  Init => ReplyInv
<1> SUFFICES ASSUME Init PROVE ReplyInv
  OBVIOUS
<1>1. FieldsType
  BY FieldsAtFirst
<1>2. PICK gap \in Gaps : rest = ReplyText(gap)
  BY DEF Init, Gaps
<1>3. rest \in Seq(Char)
  BY <1>1, <1>2, ReplyTextIs DEF Chars
<1>4. parser \in ParserType /\ Standing(parser, rest, <<>>, "none")
  BY <1>1, <1>2, StandsAtFirst DEF Init
<1>5. [parser EXCEPT !.out = Nothing] \in ParserType
  BY <1>4, QuietSelf DEF Quiet
<1> QED BY <1>1, <1>3, <1>4, <1>5 DEF Init, ReplyInv

-----------------------------------------------------------------------------
(* Every step keeps it.                                                    *)

\* What the caller has been told: the conductor keeps it in full_message.
ToldNow == IF use = "conduct" THEN full ELSE shown

LEMMA SameFields ==
  ASSUME FieldsType, UNCHANGED <<use, fields>>
  PROVE  FieldsType'
  BY DEF FieldsType

LEMMA BracketsLastKept ==
  [Next]_vars => BracketsLast' = BracketsLast
<1>1. [Next]_vars => UNCHANGED fields
  BY DEF Next, vars, Read, Token, Scalar, Refuse, Cut, Store, Advance, Speak, Stumble
<1> QED BY <1>1 DEF BracketsLast

LEMMA StandsNow ==
  ASSUME ReplyInv, BracketsLast, status = "streaming"
  PROVE  /\ FieldsType /\ Quiet(parser) \in ParserType /\ rest \in Chars
         /\ Standing(Quiet(parser), rest, ToldNow, action)
         /\ Standing(parser, rest, ToldNow, action)
<1>1. FieldsType /\ Quiet(parser) \in ParserType /\ rest \in Chars /\ Standing(parser, rest, ToldNow, action)
  BY DEF ReplyInv, Quiet, Chars, ToldNow
<1>2. AlikeIn(parser, Quiet(parser))
  BY <1>1, QuietAlike
<1> QED BY <1>1, <1>2, AlikeStands

\* What the next character does, by what it tells.
LEMMA NextCharacter ==
  ASSUME ReplyInv, status = "streaming", rest # <<>>, BracketsLast, NEW q, q = Parse(Head(rest))
  PROVE  /\ q.out.name = "nothing" =>
              Quiet(q) \in ParserType /\ Standing(q, Tail(rest), ToldNow, action)
         /\ q.out.name = "chunk" =>
              Quiet(q) \in ParserType /\ Standing(q, Tail(rest), Append(ToldNow, q.out.data), action)
         /\ q.out.name = "scalar" =>
              /\ Quiet(q) \in ParserType /\ action = "none" /\ q.out.data = Parsed("a")
              /\ Standing(q, Tail(rest), ToldNow, Understood(Parsed("a")))
         /\ q.out.name = "error" => ~LegibleScalar
<1> DEFINE p == Quiet(parser)
<1>1. p \in ParserType /\ FieldsType /\ rest \in Chars /\ Standing(p, rest, ToldNow, action)
  BY StandsNow
<1>2. q = ParseFrom(p, Head(rest))
  BY ParseIs DEF Quiet
<1>3. StepFrom(p, rest, ToldNow, action)
  <2> HIDE DEF p
  <2> QED BY <1>1, StepOfParser
<1> HIDE DEF p
<1>4. CASE q \in ParserType /\ Standing(q, Tail(rest), ToldNow, action)
  <2>1. Quiet(q) = q /\ q.out.name = "nothing"
    BY <1>4, QuietSelf
  <2> QED BY <1>4, <2>1
<1>5. ASSUME NEW q0 \in ParserType, NEW c, q = Yield(q0, "chunk", c), Standing(q0, Tail(rest), Append(ToldNow, c), action)
      PROVE  /\ q.out.name = "chunk" /\ q.out.data = c /\ Quiet(q) \in ParserType
             /\ Standing(q, Tail(rest), Append(ToldNow, c), action)
  <2>1. Quiet(q) = q0 /\ AlikeIn(q0, q) /\ q.out = [name |-> "chunk", data |-> c]
    BY <1>5, YieldQuiet, YieldAlike
  <2>2. Standing(q, Tail(rest), Append(ToldNow, c), action)
    BY <1>5, <2>1, AlikeStands
  <2> QED BY <2>1, <2>2
<1>6. ASSUME NEW q0 \in ParserType, q = Yield(q0, "scalar", Parsed("a")), action = "none",
             Standing(q0, Tail(rest), ToldNow, Understood(Parsed("a")))
      PROVE  /\ q.out.name = "scalar" /\ q.out.data = Parsed("a") /\ Quiet(q) \in ParserType
             /\ Standing(q, Tail(rest), ToldNow, Understood(Parsed("a")))
  <2>1. Quiet(q) = q0 /\ AlikeIn(q0, q) /\ q.out = [name |-> "scalar", data |-> Parsed("a")]
    BY <1>6, YieldQuiet, YieldAlike
  <2>2. Standing(q, Tail(rest), ToldNow, Understood(Parsed("a")))
    BY <1>6, <2>1, AlikeStands
  <2> QED BY <2>1, <2>2
<1>7. CASE q = Yield(p, "error", <<>>) /\ ~LegibleScalar
  <2>1. q.out = [name |-> "error", data |-> <<>>]
    BY <1>1, <1>7, YieldAlike
  <2>2. q.out.name = "error"
    BY <2>1
  <2> QED BY <1>7, <2>2
<1>8. \/ q \in ParserType /\ Standing(q, Tail(rest), ToldNow, action)
      \/ \E q0 \in ParserType : \E c : q = Yield(q0, "chunk", c) /\ Standing(q0, Tail(rest), Append(ToldNow, c), action)
      \/ \E q0 \in ParserType :
           /\ q = Yield(q0, "scalar", Parsed("a")) /\ action = "none"
           /\ Standing(q0, Tail(rest), ToldNow, Understood(Parsed("a")))
      \/ q = Yield(p, "error", <<>>) /\ ~LegibleScalar
  BY <1>2, <1>3 DEF StepFrom
<1>9. CASE \E q0 \in ParserType : \E c : q = Yield(q0, "chunk", c) /\ Standing(q0, Tail(rest), Append(ToldNow, c), action)
  <2>1. PICK c : /\ q.out.name = "chunk" /\ q.out.data = c /\ Quiet(q) \in ParserType
                 /\ Standing(q, Tail(rest), Append(ToldNow, c), action)
    BY <1>5, <1>9
  <2> QED BY <2>1
<1>10. CASE \E q0 \in ParserType :
           /\ q = Yield(q0, "scalar", Parsed("a")) /\ action = "none"
           /\ Standing(q0, Tail(rest), ToldNow, Understood(Parsed("a")))
  <2>1. /\ q.out.name = "scalar" /\ q.out.data = Parsed("a") /\ Quiet(q) \in ParserType /\ action = "none"
        /\ Standing(q, Tail(rest), ToldNow, Understood(Parsed("a")))
    BY <1>6, <1>10
  <2> QED BY <2>1
<1> QED BY <1>4, <1>7, <1>8, <1>9, <1>10

\* The conductor's buffers, as ReplyInv has them.
Buffers ==
  /\ use = "conduct" =>
       /\ moved <=> action \in {"nudge", "probe"}
       /\ IF moved THEN held = <<>> /\ shown = full ELSE shown = <<>>
       /\ action = "none" => held = full
  /\ use # "conduct" => held = <<>> /\ ~moved

TypesNow ==
  /\ use \in Uses /\ status \in {"streaming", "saved", "advanced", "refused", "cut"}
  /\ action \in {"none", "advance", "nudge", "probe", "string", "number", "null"}
  /\ moved \in BOOLEAN /\ rest \in Seq(Char)

LEMMA ReplyInvIs ==
  ReplyInv <=> /\ TypesNow /\ FieldsType /\ Quiet(parser) \in ParserType
               /\ status = "streaming" => (BracketsLast => Standing(parser, rest, ToldNow, action)) /\ Buffers
  BY DEF ReplyInv, TypesNow, Quiet, ToldNow, Buffers

LEMMA ReplyInvThen ==
  ASSUME TypesNow', FieldsType', (Quiet(parser) \in ParserType)',
         status' = "streaming" => Standing(parser, rest, ToldNow, action)' /\ Buffers'
  PROVE  ReplyInv'
  BY DEF ReplyInv, TypesNow, Quiet, ToldNow, Buffers

\* The parser at its new place.
LEMMA StandsThen ==
  ASSUME UNCHANGED <<use, fields>>, Quiet(parser') \in ParserType, Standing(parser', rest', ToldNow', action')
  PROVE  (Quiet(parser) \in ParserType /\ Standing(parser, rest, ToldNow, action))'
<1>1. PICK p, r, told, known : p = parser' /\ r = rest' /\ told = ToldNow' /\ known = action'
  OBVIOUS
<1>2. Standing(p, r, told, known)'
  BY <1>1, SameStand
<1>3. Quiet(parser)' \in ParserType'
  BY DEF Quiet, ParserType
<1> QED BY <1>1, <1>2, <1>3

LEMMA ReadKeeps ==
  ASSUME ReplyInv, BracketsLast, Read
  PROVE  ReplyInv'
<1>1. /\ status = "streaming" /\ rest # <<>> /\ rest' = Tail(rest) /\ parser' = Parse(Head(rest)) /\ parser'.out.name = "nothing"
      /\ UNCHANGED <<use, fields, action, moved, held, full, shown, status, saved>>
  BY DEF Read
<1>2. TypesNow /\ FieldsType /\ Buffers
  BY <1>1, ReplyInvIs
<1>3. ToldNow' = ToldNow
  BY <1>1 DEF ToldNow
<1>4. Quiet(parser') \in ParserType /\ Standing(parser', rest', ToldNow', action')
  <2>1. PICK q : q = parser'
    OBVIOUS
  <2> QED BY <1>1, <1>3, <2>1, NextCharacter
<1>5. (Quiet(parser) \in ParserType /\ Standing(parser, rest, ToldNow, action))'
  BY <1>1, <1>4, StandsThen
<1>6. TypesNow'
  <2>1. rest' \in Seq(Char)
    BY <1>1, <1>2 DEF TypesNow
  <2> QED BY <1>1, <1>2, <2>1 DEF TypesNow
<1>7. FieldsType' /\ Buffers'
  BY <1>1, <1>2, SameFields DEF Buffers
<1> QED BY <1>5, <1>6, <1>7, ReplyInvThen

LEMMA KnownIs ==
  ASSUME ReplyInv, BracketsLast, status = "streaming"
  PROVE  action = "none" \/ action = Understood(Parsed("a"))
<1>1. Standing(parser, rest, ToldNow, action)
  BY StandsNow
<1>2. \A i : ScalarBy(i) = "none" \/ ScalarBy(i) = Understood(Parsed("a"))
  BY DEF ScalarBy
<1>3. \E i : action = ScalarBy(i)
  BY <1>1 DEF Standing
<1> QED BY <1>2, <1>3

LEMMA TokenKeeps ==
  ASSUME ReplyInv, BracketsLast, Token
  PROVE  ReplyInv'
<1>1. /\ status = "streaming" /\ rest # <<>> /\ rest' = Tail(rest) /\ parser' = Parse(Head(rest)) /\ parser'.out.name = "chunk"
      /\ UNCHANGED <<use, fields, action, moved, status, saved>>
  BY DEF Token
<1>2. TypesNow /\ FieldsType /\ Buffers
  BY <1>1, ReplyInvIs
<1>3. ToldNow' = Append(ToldNow, parser'.out.data)
  BY <1>2 DEF Token, ToldNow, Waits
<1>4. Quiet(parser') \in ParserType /\ Standing(parser', rest', ToldNow', action')
  <2>1. PICK q : q = parser'
    OBVIOUS
  <2> QED BY <1>1, <1>3, <2>1, NextCharacter
<1>5. (Quiet(parser) \in ParserType /\ Standing(parser, rest, ToldNow, action))'
  BY <1>1, <1>4, StandsThen
<1>6. TypesNow'
  <2>1. rest' \in Seq(Char)
    BY <1>1, <1>2 DEF TypesNow
  <2> QED BY <1>1, <1>2, <2>1 DEF TypesNow
<1>7. Buffers'
  <2>1. CASE use # "conduct"
    BY <1>1, <1>2, <2>1 DEF Buffers, Token, Waits
  <2>2. CASE use = "conduct" /\ action = "none"
    BY <1>1, <1>2, <2>2 DEF Buffers, Token, Waits
  <2>3. CASE use = "conduct" /\ action # "none" /\ moved
    <3>1. held = <<>> /\ shown = full /\ action \in {"nudge", "probe"}
      BY <1>2, <2>3 DEF Buffers
    <3>2. held' = held /\ full' = Append(full, parser'.out.data) /\ shown' = Append(shown, parser'.out.data)
      BY <2>3, <3>1 DEF Token, Waits
    <3> QED BY <1>1, <2>3, <3>1, <3>2 DEF Buffers
  <2>4. CASE use = "conduct" /\ action # "none" /\ ~moved
    <3>0. action \in {"advance", "nudge", "probe"}
      BY <1>1, <1>2, <2>4, KnownIs, UnderstoodType
    <3>1. shown = <<>> /\ action = "advance"
      BY <1>2, <2>4, <3>0 DEF Buffers
    <3>2. held' = held /\ shown' = shown
      BY <2>4, <3>1 DEF Token, Waits
    <3> QED BY <1>1, <2>4, <3>1, <3>2 DEF Buffers
  <2> QED BY <2>1, <2>2, <2>3, <2>4
<1>8. FieldsType'
  BY <1>1, <1>2, SameFields
<1> QED BY <1>5, <1>6, <1>7, <1>8, ReplyInvThen

LEMMA ScalarKeeps ==
  ASSUME ReplyInv, BracketsLast, Scalar
  PROVE  ReplyInv'
<1>1. /\ status = "streaming" /\ rest # <<>> /\ rest' = Tail(rest) /\ parser' = Parse(Head(rest)) /\ parser'.out.name = "scalar"
      /\ action' = Understood(parser'.out.data)
      /\ UNCHANGED <<use, fields, full, status, saved>>
  BY DEF Scalar
<1>2. TypesNow /\ FieldsType /\ Buffers
  BY <1>1, ReplyInvIs
<1>3. /\ Quiet(parser') \in ParserType /\ action = "none" /\ parser'.out.data = Parsed("a")
      /\ Standing(parser', rest', ToldNow, Understood(Parsed("a")))
  <2>1. PICK q : q = parser'
    OBVIOUS
  <2> QED BY <1>1, <2>1, NextCharacter
<1>4. action' = Understood(Parsed("a"))
  BY <1>1, <1>3
<1>5. /\ use = "conduct" => action' \in {"advance", "nudge", "probe"}
      /\ use # "conduct" => action' \in {"string", "number", "null"}
  BY <1>2, <1>4, UnderstoodType
<1>6. ToldNow \in Seq(Letters)
  BY <1>1, <1>2, StandsNow, ToldIsText
<1>7. use = "conduct" => <<>> \o full = full
  BY <1>6, ConcatEmptySeq DEF ToldNow
<1>8. Buffers' /\ ToldNow' = ToldNow
  <2>1. CASE use = "conduct" /\ action' # "advance"
    <3>1. held = full /\ ~moved /\ shown = <<>>
      BY <1>2, <1>3, <2>1 DEF Buffers, TypesNow
    <3>2. shown' = full /\ held' = <<>> /\ moved' /\ full' = full /\ use' = use
      BY <1>7, <2>1, <3>1 DEF Scalar, StillHeld
    <3> QED BY <1>5, <2>1, <3>2 DEF Buffers, ToldNow
  <2>2. CASE use = "conduct" /\ action' = "advance"
    <3>1. shown' = shown /\ held' = held /\ moved' = moved /\ full' = full /\ use' = use
      BY <1>2, <2>2 DEF Scalar, StillHeld, TypesNow
    <3> QED BY <1>2, <1>3, <2>2, <3>1 DEF Buffers, ToldNow
  <2>3. CASE use # "conduct"
    <3>1. shown' = shown /\ held' = held /\ moved' = moved /\ full' = full /\ use' = use
      BY <1>2, <2>3 DEF Scalar, StillHeld, TypesNow
    <3> QED BY <1>2, <2>3, <3>1 DEF Buffers, ToldNow
  <2> QED BY <2>1, <2>2, <2>3
<1>9. (Quiet(parser) \in ParserType /\ Standing(parser, rest, ToldNow, action))'
  BY <1>1, <1>3, <1>4, <1>8, StandsThen
<1>10. TypesNow'
  <2>1. rest' \in Seq(Char)
    BY <1>1, <1>2 DEF TypesNow
  <2>2. moved' \in BOOLEAN
    BY <1>2 DEF Scalar, TypesNow
  <2>3. action' \in {"none", "advance", "nudge", "probe", "string", "number", "null"}
    BY <1>5
  <2> QED BY <1>1, <1>2, <2>1, <2>2, <2>3 DEF TypesNow
<1>11. FieldsType'
  BY <1>1, <1>2, SameFields
<1> QED BY <1>8, <1>9, <1>10, <1>11, ReplyInvThen

\* The other steps end the call.
Ending == Refuse \/ Cut \/ Store \/ Advance \/ Speak \/ Stumble

LEMMA EndingIs ==
  ASSUME Ending, ReplyInv
  PROVE  /\ status = "streaming" /\ status' \in {"saved", "advanced", "refused", "cut"}
         /\ UNCHANGED <<use, fields, rest, parser, held, full>>
         /\ action' = action \/ action' = Move
         /\ moved' = moved \/ moved' = TRUE
<1>1. CASE Refuse
  BY <1>1 DEF Refuse
<1>2. CASE Cut
  BY <1>2 DEF Cut
<1>3. CASE Store
  BY <1>3 DEF Store, Ended
<1>4. CASE Advance
  BY <1>4 DEF Advance, Ended
<1>5. CASE Speak
  BY <1>5 DEF Speak, Ended
<1>6. CASE Stumble
  BY <1>6 DEF Stumble, Ended
<1> QED BY <1>1, <1>2, <1>3, <1>4, <1>5, <1>6 DEF Ending

LEMMA EndingKeeps ==
  ASSUME ReplyInv, Ending
  PROVE  ReplyInv'
<1>1. TypesNow /\ FieldsType /\ Quiet(parser) \in ParserType
  BY ReplyInvIs
<1>2. Move \in {"advance", "nudge", "probe", "string", "number", "null"}
  BY <1>1, UnderstoodType DEF Move, TypesNow
<1>3. TypesNow'
  BY <1>1, <1>2, EndingIs DEF TypesNow
<1>4. FieldsType'
  BY <1>1, EndingIs, SameFields
<1>5. (Quiet(parser) \in ParserType)'
  BY <1>1, EndingIs DEF Quiet, ParserType
<1>6. status' # "streaming"
  BY EndingIs
<1> QED BY <1>3, <1>4, <1>5, <1>6, ReplyInvThen

LEMMA ReplyInvKept ==
  ASSUME BracketsLast, ReplyInv, [Next]_vars
  PROVE  ReplyInv'
<1>1. CASE Read \/ Token \/ Scalar
  BY <1>1, ReadKeeps, TokenKeeps, ScalarKeeps
<1>2. CASE Ending
  BY <1>2, EndingKeeps
<1>3. CASE UNCHANGED vars
  <2>1. UNCHANGED <<use, fields, rest, parser, action, moved, held, full, shown, status, saved>>
    BY <1>3 DEF vars
  <2>2. TypesNow /\ FieldsType /\ Quiet(parser) \in ParserType /\ (status = "streaming" => Standing(parser, rest, ToldNow, action) /\ Buffers)
    BY ReplyInvIs
  <2>3. TypesNow' /\ FieldsType'
    BY <2>1, <2>2, SameFields DEF TypesNow
  <2>4. Quiet(parser') \in ParserType
    BY <2>1, <2>2 DEF Quiet
  <2>5. ASSUME status' = "streaming"
        PROVE  Standing(parser, rest, ToldNow, action)' /\ Buffers'
    <3>1. Standing(parser', rest', ToldNow', action')
      BY <2>1, <2>2, <2>5 DEF ToldNow
    <3>2. Buffers'
      BY <2>1, <2>2, <2>5 DEF Buffers
    <3> QED BY <2>1, <2>4, <3>1, <3>2, StandsThen
  <2>6. (Quiet(parser) \in ParserType)'
    BY <2>4 DEF Quiet, ParserType
  <2> QED BY <2>3, <2>5, <2>6, ReplyInvThen
<1> QED BY <1>1, <1>2, <1>3 DEF Next, Ending

-----------------------------------------------------------------------------
(* What the browser sees, what is stored, what is refused.                 *)

\* While a reply arrives.
LEMMA WhileStreaming ==
  ASSUME ReplyInv, BracketsLast, status = "streaming"
  PROVE  OnlyTheTextIsShown /\ AdvanceIsSilent /\ ShownIsSaved /\ NoFalseRefusal
<1>1. FieldsType /\ Standing(parser, rest, ToldNow, action) /\ Buffers
  BY StandsNow, ReplyInvIs
<1>2. IsPrefix(ToldNow, Text) /\ IsPrefix(<<>>, Text)
  BY <1>1, ToldIsText, TextType, WholePrefix
<1>3. shown = ToldNow \/ shown = <<>>
  BY <1>1 DEF Buffers, ToldNow
<1>4. OnlyTheTextIsShown
  BY <1>2, <1>3 DEF OnlyTheTextIsShown
<1>5. AdvanceIsSilent
  BY <1>1 DEF AdvanceIsSilent, Buffers
<1>6. ShownIsSaved /\ NoFalseRefusal
  BY DEF ShownIsSaved, NoFalseRefusal
<1> QED BY <1>4, <1>5, <1>6

\* When its last character has come.
LEMMA AtTheEnd ==
  ASSUME ReplyInv, BracketsLast, Ended
  PROVE  /\ FieldsType /\ Buffers /\ ToldNow = Text /\ Text \in Seq(Letters)
         /\ \/ Parsed("a") = Bare("null") /\ action = "none"
            \/ action = Understood(Parsed("a"))
<1>1. FieldsType /\ Standing(parser, rest, ToldNow, action) /\ Buffers /\ rest \in Chars
  BY StandsNow, ReplyInvIs DEF Ended
<1>2. ~Inked(rest)
  BY <1>1, Blank DEF Ended
<1>3. ToldNow = TextBy(Len(fields)) /\ action = ScalarBy(Len(fields))
  BY <1>1, <1>2, EndOfReply
<1> QED BY <1>1, <1>3, ToldInTheEnd, TextType

LEMMA SameReply ==
  ASSUME UNCHANGED <<use, fields>>
  PROVE  /\ Text' = Text /\ Parsed("a")' = Parsed("a") /\ Parsed("s")' = Parsed("s")
         /\ Accepted' = Accepted /\ LegibleScalar' = LegibleScalar
         /\ Understood(Parsed("a"))' = Understood(Parsed("a"))
<1>1. \A key : Parsed(key)' = Parsed(key)
  BY SameField
<1>2. Accepted' = Accepted
  BY <1>1 DEF Accepted, IsText
<1>3. Understood(Parsed("a"))' = Understood(Parsed("a"))
  BY <1>1 DEF Understood
<1> QED BY <1>1, <1>2, <1>3, SameText

LEMMA AfterRefuse ==
  ASSUME ReplyInv, BracketsLast, Refuse
  PROVE  (OnlyTheTextIsShown /\ AdvanceIsSilent /\ ShownIsSaved /\ NoFalseRefusal)'
<1>1. /\ status = "streaming" /\ rest # <<>> /\ status' = "refused"
      /\ UNCHANGED <<use, fields, rest, parser, action, moved, held, full, shown, saved>>
      /\ Parse(Head(rest)).out.name = "error"
  BY DEF Refuse
<1>2. ~LegibleScalar
  <2>1. PICK q : q = Parse(Head(rest))
    OBVIOUS
  <2> QED BY <1>1, <2>1, NextCharacter
<1>3. OnlyTheTextIsShown /\ AdvanceIsSilent
  BY <1>1, WhileStreaming
<1>4. OnlyTheTextIsShown'
  BY <1>1, <1>3, SameReply DEF OnlyTheTextIsShown
<1>5. AdvanceIsSilent'
  BY <1>1, <1>3 DEF AdvanceIsSilent
<1>6. ShownIsSaved' /\ NoFalseRefusal'
  BY <1>1, <1>2, SameReply DEF ShownIsSaved, NoFalseRefusal
<1> QED BY <1>4, <1>5, <1>6

LEMMA AfterCut ==
  ASSUME ReplyInv, BracketsLast, Cut
  PROVE  (OnlyTheTextIsShown /\ AdvanceIsSilent /\ ShownIsSaved /\ NoFalseRefusal)'
<1>1. /\ status = "streaming" /\ status' = "cut"
      /\ UNCHANGED <<use, fields, rest, parser, action, moved, held, full, shown, saved>>
  BY DEF Cut
<1>2. OnlyTheTextIsShown /\ AdvanceIsSilent
  BY <1>1, WhileStreaming
<1>3. OnlyTheTextIsShown'
  BY <1>1, <1>2, SameReply DEF OnlyTheTextIsShown
<1>4. AdvanceIsSilent'
  BY <1>1, <1>2 DEF AdvanceIsSilent
<1>5. ShownIsSaved' /\ NoFalseRefusal'
  BY <1>1 DEF ShownIsSaved, NoFalseRefusal
<1> QED BY <1>3, <1>4, <1>5

LEMMA AfterStore ==
  ASSUME ReplyInv, BracketsLast, Store
  PROVE  (OnlyTheTextIsShown /\ AdvanceIsSilent /\ ShownIsSaved /\ NoFalseRefusal)'
<1>1. /\ Ended /\ status = "streaming" /\ use # "conduct"
      /\ status' = IF Accepted THEN "saved" ELSE "refused"
      /\ saved' = IF Accepted THEN Decoded(Parsed("s").marks) ELSE saved
      /\ UNCHANGED <<use, fields, rest, parser, action, moved, held, full, shown>>
  BY DEF Store, Ended
<1>2. shown = Text
  BY <1>1, AtTheEnd DEF ToldNow
<1>3. OnlyTheTextIsShown'
  BY <1>1, WhileStreaming, SameReply DEF OnlyTheTextIsShown
<1>4. AdvanceIsSilent'
  BY <1>1 DEF AdvanceIsSilent
<1>5. ShownIsSaved'
  <2>1. CASE Accepted
    <3>1. saved' = Text
      BY <1>1, <2>1 DEF Accepted, Text
    <3>2. use = "judge" => action = Understood(Parsed("a"))
      <4>1. ASSUME use = "judge"  PROVE Parsed("a") # Bare("null")
        <5>1. Parsed("a").kind = "number"
          BY <2>1, <4>1 DEF Accepted
        <5> QED BY <5>1 DEF Bare
      <4> QED BY <1>1, <4>1, AtTheEnd
    <3> QED BY <1>1, <1>2, <3>1, <3>2, SameReply DEF ShownIsSaved
  <2>2. CASE ~Accepted
    BY <1>1, <2>2 DEF ShownIsSaved
  <2> QED BY <2>1, <2>2
<1>6. NoFalseRefusal'
  BY <1>1, SameReply DEF NoFalseRefusal
<1> QED BY <1>3, <1>4, <1>5, <1>6

\* The end of stream_conduct.
LEMMA ConductEnds ==
  ASSUME ReplyInv, BracketsLast, Ended, use = "conduct"
  PROVE  /\ full = Text /\ Move = Coerced(Parsed("a")) /\ Move \in {"advance", "nudge", "probe"}
         /\ moved <=> action \in {"nudge", "probe"}
         /\ moved => Move = action /\ shown = Text
         /\ ~moved => shown = <<>> /\ (Move # "advance" => held = Text)
<1>1. /\ FieldsType /\ Buffers /\ full = Text
      /\ action = "none" \/ action = Understood(Parsed("a"))
  BY AtTheEnd DEF ToldNow
<1>2. Understood(Parsed("a")) = Coerced(Parsed("a")) /\ Coerced(Parsed("a")) \in {"advance", "nudge", "probe"}
  BY <1>1, UnderstoodType
<1>3. Move = Coerced(Parsed("a"))
  BY <1>1, <1>2 DEF Move
<1>4. moved <=> action \in {"nudge", "probe"}
  BY <1>1 DEF Buffers
<1>5. moved => Move = action /\ shown = Text
  BY <1>1, <1>2, <1>4 DEF Buffers, Move
<1>6. ~moved => shown = <<>>
  BY <1>1 DEF Buffers
<1>7. ~moved /\ Move # "advance" => held = Text
  BY <1>1, <1>2, <1>3, <1>4 DEF Buffers
<1> QED BY <1>1, <1>2, <1>3, <1>4, <1>5, <1>6, <1>7

LEMMA AfterAdvance ==
  ASSUME ReplyInv, BracketsLast, Advance
  PROVE  (OnlyTheTextIsShown /\ AdvanceIsSilent /\ ShownIsSaved /\ NoFalseRefusal)'
<1>1. /\ Ended /\ status = "streaming" /\ use = "conduct" /\ Move = "advance"
      /\ action' = "advance" /\ status' = "advanced"
      /\ UNCHANGED <<use, fields, rest, parser, moved, held, full, shown, saved>>
  BY DEF Advance, Ended
<1>2. ~moved /\ shown = <<>> /\ Coerced(Parsed("a")) = "advance"
  BY <1>1, ConductEnds
<1>3. OnlyTheTextIsShown'
  BY <1>1, WhileStreaming, SameReply DEF OnlyTheTextIsShown
<1>4. AdvanceIsSilent'
  BY <1>1, <1>2, SameReply DEF AdvanceIsSilent
<1>5. ShownIsSaved' /\ NoFalseRefusal'
  BY <1>1 DEF ShownIsSaved, NoFalseRefusal
<1> QED BY <1>3, <1>4, <1>5

LEMMA AfterSpeak ==
  ASSUME ReplyInv, BracketsLast, Speak
  PROVE  (OnlyTheTextIsShown /\ AdvanceIsSilent /\ ShownIsSaved /\ NoFalseRefusal)'
<1>1. /\ Ended /\ status = "streaming" /\ use = "conduct" /\ Move # "advance"
      /\ action' = Move /\ moved' = TRUE /\ shown' = Flushed /\ saved' = Message /\ status' = "saved"
      /\ UNCHANGED <<use, fields, rest, parser, held, full>>
  BY DEF Speak, Ended
<1>2. FieldsType /\ Text \in Seq(Letters) /\ full = Text
  BY <1>1, AtTheEnd, ConductEnds
<1>3. shown' = Text
  <2>1. CASE moved
    BY <1>1, <2>1, ConductEnds DEF Flushed
  <2>2. CASE ~moved
    <3>1. shown = <<>> /\ held = Text
      BY <1>1, <2>2, ConductEnds
    <3>2. <<>> \o Text = Text
      BY <1>2, ConcatEmptySeq
    <3> QED BY <1>1, <2>2, <3>1, <3>2 DEF Flushed
  <2> QED BY <2>1, <2>2
<1>4. saved' = IF Strip(Text) = <<>> THEN SafeFollowup ELSE Strip(Text)
  <2>1. IsText("s") => Decoded(Parsed("s").marks) = Text
    BY DEF Text
  <2> QED BY <1>1, <1>2, <2>1 DEF Message
<1>5. OnlyTheTextIsShown'
  BY <1>1, <1>2, <1>3, WholePrefix, SameReply DEF OnlyTheTextIsShown
<1>6. AdvanceIsSilent'
  BY <1>1, ConductEnds DEF AdvanceIsSilent
<1>7. ShownIsSaved'
  <2>1. action' = Understood(Parsed("a"))
    BY <1>1, <1>2, ConductEnds, UnderstoodType
  <2> QED BY <1>1, <1>3, <1>4, <2>1, SameReply DEF ShownIsSaved
<1>8. NoFalseRefusal'
  BY <1>1 DEF NoFalseRefusal
<1> QED BY <1>5, <1>6, <1>7, <1>8

LEMMA AfterStumble ==
  ASSUME ReplyInv, BracketsLast, Stumble
  PROVE  (OnlyTheTextIsShown /\ AdvanceIsSilent /\ ShownIsSaved /\ NoFalseRefusal)'
<1>1. /\ Ended /\ status = "streaming" /\ use = "conduct" /\ Move # "advance" /\ Parsed("s").kind = "number"
      /\ action' = Move /\ status' = "refused"
      /\ UNCHANGED <<use, fields, rest, parser, moved, held, full, shown, saved>>
  BY DEF Stumble, Ended
<1>2. OnlyTheTextIsShown'
  BY <1>1, WhileStreaming, SameReply DEF OnlyTheTextIsShown
<1>3. AdvanceIsSilent'
  BY <1>1, ConductEnds DEF AdvanceIsSilent
<1>4. ShownIsSaved' /\ NoFalseRefusal'
  BY <1>1, SameReply DEF ShownIsSaved, NoFalseRefusal
<1> QED BY <1>2, <1>3, <1>4

\* All of it.
Promises == OnlyTheTextIsShown /\ AdvanceIsSilent /\ ShownIsSaved /\ NoFalseRefusal

LEMMA PromisesKept ==
  ASSUME BracketsLast, ReplyInv, Promises, [Next]_vars
  PROVE  (status = "streaming" \/ Promises)'
<1>1. CASE Read \/ Token \/ Scalar
  BY <1>1 DEF Read, Token, Scalar
<1>2. CASE Ending
  BY <1>2, AfterRefuse, AfterCut, AfterStore, AfterAdvance, AfterSpeak, AfterStumble DEF Ending, Promises
<1>3. CASE UNCHANGED vars
  <2>1. UNCHANGED <<use, fields, rest, parser, action, moved, held, full, shown, status, saved>>
    BY <1>3 DEF vars
  <2>2. OnlyTheTextIsShown' /\ AdvanceIsSilent'
    BY <2>1, SameReply DEF Promises, OnlyTheTextIsShown, AdvanceIsSilent
  <2>3. ShownIsSaved' /\ NoFalseRefusal'
    BY <2>1, SameReply DEF Promises, ShownIsSaved, NoFalseRefusal
  <2> QED BY <2>2, <2>3 DEF Promises
<1> QED BY <1>1, <1>2, <1>3 DEF Next, Ending

-----------------------------------------------------------------------------
(* The theorems.                                                           *)

\* At every moment of the arrival of a reply stream_json_object stands where
\* the characters read so far put it, and has yielded exactly the text and the
\* scalar among them, if a list or an object with a bracket in a string comes
\* last; of that, stream_conduct holds back the words that came before its
\* action.
THEOREM ReplyAlways ==
  Spec /\ BracketsLast => []ReplyInv
<1>1. BracketsLast /\ ReplyInv /\ [Next]_vars => ReplyInv'
  BY ReplyInvKept
<1>2. BracketsLast /\ [Next]_vars => BracketsLast'
  BY BracketsLastKept
<1> QED BY <1>1, <1>2, ReplyInvAtFirst, PTL DEF Spec

LEMMA PromisesAlways ==
  Spec /\ BracketsLast => []Promises
<1>1. Init => status = "streaming"
  BY DEF Init
<1>2. BracketsLast /\ ReplyInv /\ status = "streaming" => Promises
  BY WhileStreaming DEF Promises
<1>3. BracketsLast /\ ReplyInv /\ Promises /\ [Next]_vars => (status = "streaming" \/ Promises)'
  BY PromisesKept
<1>4. BracketsLast /\ [Next]_vars => BracketsLast'
  BY BracketsLastKept
<1> QED BY <1>1, <1>2, <1>3, <1>4, ReplyAlways, PTL DEF Spec

\* The browser is shown a beginning of the streamed field's text, unescaped,
\* and nothing else: what stream_json_object yields, and what the nodes forward
\* of it; for the replies of ReplyAlways, as in the two theorems below.
THEOREM TextOnlyAlways ==
  Spec /\ BracketsLast => []OnlyTheTextIsShown
<1>1. Promises => OnlyTheTextIsShown
  BY DEF Promises
<1> QED BY <1>1, PromisesAlways, PTL

\* What stream_open_thread, stream_conduct and the evaluator's calls store is
\* what they forwarded (a follow-up stripped, an empty one replaced), and the
\* action or the score they act on is the one json.loads finds: for every reply,
\* with the exception that ShownIsSaved names.
THEOREM ShownIsSavedAlways ==
  Spec => []ShownIsSaved
<1>1. Promises => ShownIsSaved
  BY DEF Promises
<1>2. ~BracketsLast => ShownIsSaved
  BY DEF ShownIsSaved
<1>3. ~BracketsLast /\ [Next]_vars => ~BracketsLast'
  BY BracketsLastKept
<1> QED BY <1>1, <1>2, <1>3, PromisesAlways, PTL DEF Spec

\* stream_conduct forwards no word before the move, and neither a word nor a
\* move when it is to advance.
THEOREM AdvanceIsSilentAlways ==
  Spec /\ BracketsLast => []AdvanceIsSilent
<1>1. Promises => AdvanceIsSilent
  BY DEF Promises
<1> QED BY <1>1, PromisesAlways, PTL

\* A reply that fits its schema is refused only for a scalar with a comma, a
\* brace or a blank in it, which stream_json_object cuts short.
THEOREM NoFalseRefusalAlways ==
  Spec /\ BracketsLast => []NoFalseRefusal
<1>1. Promises => NoFalseRefusal
  BY DEF Promises
<1> QED BY <1>1, PromisesAlways, PTL
=============================================================================
