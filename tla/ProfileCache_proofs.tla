------------------------- MODULE ProfileCache_proofs -------------------------
(***************************************************************************)
(* What prep reuses is what it would build: the contents of a profile      *)
(* whose key is current, unless a revert took more than was its            *)
(* document's.  The mappings are replayed, and undone, by recursive        *)
(* functions, so the lemmas about them go by a least counterexample over   *)
(* the length of the list.                                                 *)
(***************************************************************************)
EXTENDS ProfileLibrary_proofs, SetInduction

-----------------------------------------------------------------------------
(* Replay. *)

Parts == [bullets : Seq(Bullet), projects : Seq(Docs)]

LEMMA BareParts == Bare \in Parts
<1>1. CvBullets \in Seq(Extracted)
  BY LibraryAssumption
<1>2. \A i \in DOMAIN CvBullets : CvBullets[i] \in Extracted
  BY <1>1
<1>3. \A i \in DOMAIN CvBullets : BulletOf({}, CvBullets[i]) \in Bullet
  BY <1>2 DEF BulletOf, Bullet, Extracted
<1>4. DOMAIN CvBullets = 1 .. Len(CvBullets) /\ Len(CvBullets) \in Nat
  BY <1>1
<1>5. Bare.bullets \in Seq(Bullet)
  BY <1>3, <1>4 DEF Bare
<1>6. Bare.projects \in Seq(Docs)
  BY DEF Bare
<1>. QED  BY <1>5, <1>6 DEF Bare, Parts

\* What a document makes of a bullet is a bullet.
LEMMA BulletTypes ==
  ASSUME NEW b \in Bullet, NEW d \in Docs, NEW x \in Extracted
  PROVE  /\ Enriched(b, d, x) \in Bullet /\ Stripped(b, d, x) \in Bullet
         /\ BulletOf({d}, x) \in Bullet
BY DEF Enriched, Stripped, BulletOf, Bullet, Extracted

\* One more bullet for a document that appends one.
Extra(rows) == IF Experience \in rows THEN 1 ELSE 0

AppliedProjects(j, d, rows) == IF Project \in rows THEN Append(j, d) ELSE j

\* r is q with the highlight rows applied.
IsEnriched(r, q, d, rows, x) ==
  /\ Len(r) = Len(q) + Extra(rows)
  /\ \A i \in 1 .. Len(q) :
       r[i] = IF Highlight(i) \in rows THEN Enriched(q[i], d, x) ELSE q[i]
  /\ Experience \in rows => r[Len(q) + 1] = BulletOf({d}, x)

\* Bullets and projects change apart from each other.
LEMMA AppliedParts ==
  ASSUME NEW p \in Parts, NEW d \in Docs, NEW rows, NEW x \in Extracted
  PROVE  /\ Applied(p, d, rows, x) \in Parts
         /\ IsEnriched(Applied(p, d, rows, x).bullets, p.bullets, d, rows, x)
         /\ Applied(p, d, rows, x).projects = AppliedProjects(p.projects, d, rows)
<1>. DEFINE q == p.bullets
            e == [i \in DOMAIN q |-> IF Highlight(i) \in rows THEN Enriched(q[i], d, x)
                                     ELSE q[i]]
            own == BulletOf({d}, x)
            b == IF Experience \in rows THEN Append(e, own) ELSE e
            j == AppliedProjects(p.projects, d, rows)
<1>1. p.bullets \in Seq(Bullet) /\ p.projects \in Seq(Docs)
  BY DEF Parts
<1>2. /\ \A i \in DOMAIN q : q[i] \in Bullet
      /\ DOMAIN q = 1 .. Len(q) /\ Len(q) \in Nat
  BY <1>1
<1>3. \A i \in DOMAIN q : Enriched(q[i], d, x) \in Bullet
  BY <1>2, BulletTypes
<1>4. own \in Bullet
  <2>1. own \in [sources : SUBSET Docs, items : SUBSET Items, text : Texts \cup {NoText}]
    BY DEF BulletOf, Extracted
  <2>. QED  BY <2>1 DEF Bullet
<1>5. Applied(p, d, rows, x) = [p EXCEPT !.bullets = b, !.projects = j]
  BY DEF Applied, AppliedProjects
<1>6. /\ e \in Seq(Bullet) /\ Len(e) = Len(q)
      /\ \A i \in 1 .. Len(q) : e[i] = IF Highlight(i) \in rows THEN Enriched(q[i], d, x) ELSE q[i]
  BY <1>2, <1>3
<1>. HIDE DEF e, own
<1>7. b \in Seq(Bullet) /\ IsEnriched(b, q, d, rows, x)
  <2>1. CASE Experience \in rows
    <3>1. /\ b = Append(e, own) /\ Len(b) = Len(q) + 1 /\ b[Len(q) + 1] = own
          /\ b \in Seq(Bullet) /\ \A i \in 1 .. Len(q) : b[i] = e[i]
      BY <1>2, <1>4, <1>6, <2>1
    <3>. HIDE DEF b
    <3>. QED  BY <1>6, <2>1, <3>1 DEF IsEnriched, Extra, own
  <2>2. CASE Experience \notin rows
    BY <1>2, <1>6, <2>2 DEF IsEnriched, Extra
  <2>. QED  BY <2>1, <2>2
<1>8. j \in Seq(Docs)
  BY <1>1 DEF AppliedProjects
<1>. HIDE DEF b, j
<1>9. Applied(p, d, rows, x) = [bullets |-> b, projects |-> j]
  BY <1>5 DEF Parts
<1>. QED  BY <1>7, <1>8, <1>9 DEF Parts, j

LEMMA ReappliedParts ==
  ASSUME NEW p \in Parts, NEW m \in Entry, NEW docs
  PROVE  Reapplied(p, m, docs) \in Parts
<1>1. m.doc \in Docs /\ m.adds \in Extracted
  BY DEF Entry
<1>. QED  BY <1>1, AppliedParts DEF Reapplied

\* The values a replay goes through.
IsRun(f, entries, docs) ==
  /\ f[0] = Bare
  /\ \A n \in 1 .. Len(entries) : f[n] = Reapplied(f[n - 1], entries[n], docs)

LEMMA RunsAgree ==
  ASSUME NEW s \in Seq(Entry), NEW docs, NEW f, NEW g,
         IsRun(f, s, docs), IsRun(g, s, docs)
  PROVE  \A n \in 0 .. Len(s) : f[n] = g[n]
<1>. DEFINE T == {n \in Nat : n <= Len(s) => f[n] = g[n]}
<1>1. 0 \in T
  BY DEF IsRun
<1>2. ASSUME NEW n \in Nat, n \in T  PROVE n + 1 \in T
  <2>. SUFFICES ASSUME n + 1 <= Len(s)  PROVE f[n + 1] = g[n + 1]
    OBVIOUS
  <2>1. n + 1 \in 1 .. Len(s) /\ (n + 1) - 1 = n
    OBVIOUS
  <2>2. f[n] = g[n]
    BY <1>2
  <2>3. f[n + 1] = Reapplied(f[n], s[n + 1], docs) /\ g[n + 1] = Reapplied(g[n], s[n + 1], docs)
    BY <2>1 DEF IsRun
  <2>. QED  BY <2>2, <2>3
<1>. HIDE DEF T
<1>3. Nat \subseteq T
  BY <1>1, <1>2, AllNumbers
<1>. QED  BY <1>3 DEF T

\* Replay is the last value of a run of profiles.
LEMMA ReplayRun ==
  ASSUME NEW s \in Seq(Entry), NEW docs
  PROVE  \E f \in [0 .. Len(s) -> Parts] : IsRun(f, s, docs) /\ Replay(s, docs) = f[Len(s)]
<1>. DEFINE next == [n \in 1 .. Len(s) |-> [p \in Parts |-> Reapplied(p, s[n], docs)]]
            Eq(f) == f = [n \in 0 .. Len(s) |->
                            IF n = 0 THEN Bare ELSE Reapplied(f[n - 1], s[n], docs)]
            g == CHOOSE f : Eq(f)
<1>1. next \in [1 .. Len(s) -> [Parts -> Parts]]
  BY ReappliedParts
<1>2. Len(s) \in Nat
  OBVIOUS
<1>3. PICK f \in [0 .. Len(s) -> Parts] :
        f[0] = Bare /\ \A n \in 1 .. Len(s) : f[n] = next[n][f[n - 1]]
  <2>. HIDE DEF next
  <2>1. HasRun(Parts, Bare, Len(s), next)
    BY <1>1, <1>2, BareParts, RunExists
  <2>. QED  BY <2>1 DEF HasRun
<1>4. \A n \in 0 .. Len(s) :
        f[n] = IF n = 0 THEN Bare ELSE Reapplied(f[n - 1], s[n], docs)
  <2>1. TAKE n \in 0 .. Len(s)
  <2>2. CASE n = 0
    BY <1>3, <2>2
  <2>3. CASE n # 0
    <3>1. n \in 1 .. Len(s) /\ n - 1 \in 0 .. Len(s)
      BY <2>3
    <3>2. f[n] = next[n][f[n - 1]]
      BY <1>3, <3>1
    <3>3. f[n - 1] \in Parts
      BY <3>1
    <3>. QED  BY <2>3, <3>1, <3>2, <3>3
  <2>. QED  BY <2>2, <2>3
<1>5. Eq(f)
  BY <1>4
<1>6. Eq(g)
  BY <1>5
<1>7. Replay(s, docs) = g[Len(s)]
  BY DEF Replay
<1>8. IsRun(f, s, docs)
  BY <1>4 DEF IsRun
<1>9. IsRun(g, s, docs)
  <2>. HIDE DEF g
  <2>. QED  BY <1>6 DEF IsRun
<1>10. f[Len(s)] = g[Len(s)]
  <2>. HIDE DEF g
  <2>. QED  BY <1>2, <1>8, <1>9, RunsAgree
<1>. QED  BY <1>7, <1>8, <1>10

LEMMA ReplayOf ==
  ASSUME NEW s \in Seq(Entry), NEW docs, NEW f, IsRun(f, s, docs)
  PROVE  Replay(s, docs) = f[Len(s)] /\ Replay(s, docs) \in Parts
<1>1. PICK g \in [0 .. Len(s) -> Parts] : IsRun(g, s, docs) /\ Replay(s, docs) = g[Len(s)]
  BY ReplayRun
<1>2. Len(s) \in 0 .. Len(s)
  OBVIOUS
<1>3. f[Len(s)] = g[Len(s)]
  BY <1>1, <1>2, RunsAgree
<1>. QED  BY <1>1, <1>2, <1>3

\* A new entry comes on top of the replay of the others.
LEMMA ReplayAppend ==
  ASSUME NEW s \in Seq(Entry), NEW m \in Entry, NEW docs
  PROVE  Replay(Append(s, m), docs) = Reapplied(Replay(s, docs), m, docs)
<1>. DEFINE a == Append(s, m)
<1>1. a \in Seq(Entry) /\ Len(a) = Len(s) + 1 /\ Len(s) \in Nat
  OBVIOUS
<1>2. PICK f \in [0 .. Len(a) -> Parts] : IsRun(f, a, docs) /\ Replay(a, docs) = f[Len(a)]
  BY <1>1, ReplayRun
<1>3. \A n \in 1 .. Len(s) : a[n] = s[n]
  OBVIOUS
<1>4. a[Len(a)] = m
  OBVIOUS
<1>. HIDE DEF a
<1>5. IsRun(f, s, docs)
  BY <1>1, <1>2, <1>3 DEF IsRun
<1>6. f[Len(s)] = Replay(s, docs)
  BY <1>5, ReplayOf
<1>7. f[Len(a)] = Reapplied(f[Len(s)], m, docs)
  <2>1. Len(a) \in 1 .. Len(a) /\ Len(a) - 1 = Len(s)
    BY <1>1
  <2>. QED  BY <1>2, <1>4, <2>1 DEF IsRun
<1>. QED  BY <1>2, <1>6, <1>7 DEF a

\* Only which of the entries' documents are asked for matters.
LEMMA ReplaySameDocs ==
  ASSUME NEW s \in Seq(Entry), NEW docs, NEW others,
         \A n \in 1 .. Len(s) : s[n].doc \in docs <=> s[n].doc \in others
  PROVE  Replay(s, docs) = Replay(s, others)
<1>1. PICK f \in [0 .. Len(s) -> Parts] : IsRun(f, s, docs) /\ Replay(s, docs) = f[Len(s)]
  BY ReplayRun
<1>2. IsRun(f, s, others)
  BY <1>1 DEF IsRun, Reapplied
<1>. QED  BY <1>1, <1>2, ReplayOf

LEMMA RemovedAt ==
  ASSUME NEW s \in Seq(Entry), NEW k \in 1 .. Len(s)
  PROVE  /\ RemoveAt(s, k) \in Seq(Entry) /\ Len(s) \in Nat \ {0}
         /\ Len(RemoveAt(s, k)) = Len(s) - 1
         /\ \A n \in 1 .. Len(s) - 1 : RemoveAt(s, k)[n] = IF n < k THEN s[n] ELSE s[n + 1]
<1>. DEFINE r == RemoveAt(s, k)
            a == SubSeq(s, 1, k - 1)
            b == SubSeq(s, k + 1, Len(s))
<1>1. Len(s) \in Nat \ {0} /\ k \in 1 .. Len(s)
  OBVIOUS
<1>2. a \in Seq(Entry) /\ Len(a) = k - 1 /\ \A n \in 1 .. k - 1 : a[n] = s[n]
  BY <1>1
<1>3. b \in Seq(Entry) /\ Len(b) = Len(s) - k /\ \A n \in 1 .. Len(s) - k : b[n] = s[k + n]
  BY <1>1
<1>4. r = a \o b
  BY DEF RemoveAt
<1>. HIDE DEF a, b, r
<1>5. r \in Seq(Entry) /\ Len(r) = Len(s) - 1
  <2>1. r \in Seq(Entry)
    BY <1>2, <1>3, <1>4
  <2>2. Len(r) = Len(a) + Len(b)
    BY <1>2, <1>3, <1>4, ConcatProperties
  <2>. QED  BY <1>1, <1>2, <1>3, <2>1, <2>2
<1>6. ASSUME NEW n \in 1 .. Len(s) - 1  PROVE r[n] = IF n < k THEN s[n] ELSE s[n + 1]
  <2>1. r[n] = IF n <= Len(a) THEN a[n] ELSE b[n - Len(a)]
    BY <1>1, <1>2, <1>3, <1>4
  <2>2. CASE n < k
    BY <1>2, <2>1, <2>2
  <2>3. CASE n >= k
    <3>1. n - (k - 1) \in 1 .. Len(s) - k /\ k + (n - (k - 1)) = n + 1
      BY <1>1, <2>3
    <3>. QED  BY <1>2, <1>3, <2>1, <2>3, <3>1
  <2>. QED  BY <2>2, <2>3
<1>. QED  BY <1>1, <1>5, <1>6 DEF r

\* An entry whose document is not asked for can go.
LEMMA ReplayRemove ==
  ASSUME NEW s \in Seq(Entry), NEW docs, NEW k \in 1 .. Len(s), s[k].doc \notin docs
  PROVE  RemoveAt(s, k) \in Seq(Entry) /\ Replay(RemoveAt(s, k), docs) = Replay(s, docs)
<1>. DEFINE r == RemoveAt(s, k)
<1>1. /\ r \in Seq(Entry) /\ Len(s) \in Nat \ {0} /\ Len(r) = Len(s) - 1
      /\ \A n \in 1 .. Len(s) - 1 : r[n] = IF n < k THEN s[n] ELSE s[n + 1]
  BY RemovedAt
<1>2. PICK f \in [0 .. Len(s) -> Parts] : IsRun(f, s, docs) /\ Replay(s, docs) = f[Len(s)]
  BY ReplayRun
<1>3. f[k] = f[k - 1]
  BY <1>2 DEF IsRun, Reapplied
<1>. DEFINE g == [n \in 0 .. Len(s) - 1 |-> IF n < k THEN f[n] ELSE f[n + 1]]
<1>. HIDE DEF r
<1>4. IsRun(g, r, docs)
  <2>1. g[0] = Bare
    BY <1>1, <1>2 DEF IsRun
  <2>2. ASSUME NEW n \in 1 .. Len(r)  PROVE g[n] = Reapplied(g[n - 1], r[n], docs)
    <3>1. n \in 1 .. Len(s) /\ n + 1 \in 1 .. Len(s) /\ (n + 1) - 1 = n
      BY <1>1
    <3>2. f[n] = Reapplied(f[n - 1], s[n], docs) /\ f[n + 1] = Reapplied(f[n], s[n + 1], docs)
      BY <1>2, <3>1 DEF IsRun
    <3>3. g[n] = (IF n < k THEN f[n] ELSE f[n + 1]) /\ r[n] = (IF n < k THEN s[n] ELSE s[n + 1])
      BY <1>1
    <3>4. g[n - 1] = IF n - 1 < k THEN f[n - 1] ELSE f[n]
      BY <1>1
    <3>5. CASE n < k
      BY <3>2, <3>3, <3>4, <3>5
    <3>6. CASE n = k
      BY <1>3, <3>2, <3>3, <3>4, <3>6
    <3>7. CASE n > k
      BY <3>2, <3>3, <3>4, <3>7
    <3>. QED  BY <3>5, <3>6, <3>7
  <2>. QED  BY <2>1, <2>2 DEF IsRun
<1>5. g[Len(r)] = f[Len(s)]
  BY <1>1, <1>3
<1>. QED  BY <1>1, <1>2, <1>4, <1>5, ReplayOf DEF r

-----------------------------------------------------------------------------
(* Dropped. *)

\* The values Dropped goes through.
IsSieve(f, q, gone) ==
  /\ f[0] = <<>>
  /\ \A n \in 1 .. Len(q) : f[n] = IF q[n] \in gone THEN f[n - 1] ELSE Append(f[n - 1], q[n])

LEMMA SievesAgree ==
  ASSUME NEW S, NEW q \in Seq(S), NEW gone, NEW f, NEW g,
         IsSieve(f, q, gone), IsSieve(g, q, gone)
  PROVE  \A n \in 0 .. Len(q) : f[n] = g[n]
<1>. DEFINE T == {n \in Nat : n <= Len(q) => f[n] = g[n]}
<1>1. 0 \in T
  BY DEF IsSieve
<1>2. ASSUME NEW n \in Nat, n \in T  PROVE n + 1 \in T
  <2>. SUFFICES ASSUME n + 1 <= Len(q)  PROVE f[n + 1] = g[n + 1]
    OBVIOUS
  <2>1. n + 1 \in 1 .. Len(q) /\ (n + 1) - 1 = n
    OBVIOUS
  <2>2. f[n] = g[n]
    BY <1>2
  <2>. QED  BY <2>1, <2>2 DEF IsSieve
<1>. HIDE DEF T
<1>3. Nat \subseteq T
  BY <1>1, <1>2, AllNumbers
<1>. QED  BY <1>3 DEF T

\* Dropped is the last value of a run of sequences.
LEMMA DroppedRun ==
  ASSUME NEW S, NEW q \in Seq(S), NEW gone
  PROVE  \E f \in [0 .. Len(q) -> Seq(S)] :
           IsSieve(f, q, gone) /\ Dropped(q, gone) = f[Len(q)]
<1>. DEFINE next == [n \in 1 .. Len(q) |->
                       [t \in Seq(S) |-> IF q[n] \in gone THEN t ELSE Append(t, q[n])]]
            Eq(f) == f = [n \in 0 .. Len(q) |->
                            IF n = 0 THEN <<>>
                            ELSE IF q[n] \in gone THEN f[n - 1] ELSE Append(f[n - 1], q[n])]
            g == CHOOSE f : Eq(f)
<1>1. next \in [1 .. Len(q) -> [Seq(S) -> Seq(S)]]
  OBVIOUS
<1>2. Len(q) \in Nat /\ <<>> \in Seq(S)
  OBVIOUS
<1>3. PICK f \in [0 .. Len(q) -> Seq(S)] :
        f[0] = <<>> /\ \A n \in 1 .. Len(q) : f[n] = next[n][f[n - 1]]
  <2>. HIDE DEF next
  <2>1. HasRun(Seq(S), <<>>, Len(q), next)
    BY <1>1, <1>2, RunExists
  <2>. QED  BY <2>1 DEF HasRun
<1>4. \A n \in 1 .. Len(q) : f[n] = IF q[n] \in gone THEN f[n - 1] ELSE Append(f[n - 1], q[n])
  <2>1. TAKE n \in 1 .. Len(q)
  <2>2. n - 1 \in 0 .. Len(q)
    OBVIOUS
  <2>3. f[n - 1] \in Seq(S)
    BY <2>2
  <2>4. f[n] = next[n][f[n - 1]]
    BY <1>3
  <2>. QED  BY <2>3, <2>4
<1>5. IsSieve(f, q, gone)
  BY <1>3, <1>4 DEF IsSieve
<1>6. Eq(f)
  <2>. DEFINE sieve(h) == [n \in 0 .. Len(q) |->
                             IF n = 0 THEN <<>>
                             ELSE IF q[n] \in gone THEN h[n - 1] ELSE Append(h[n - 1], q[n])]
  <2>1. ASSUME NEW n \in 0 .. Len(q)  PROVE f[n] = sieve(f)[n]
    <3>1. CASE n = 0
      BY <1>3, <3>1
    <3>2. CASE n # 0
      <4>1. n \in 1 .. Len(q)
        BY <3>2
      <4>. QED  BY <1>4, <3>2, <4>1
    <3>. QED  BY <3>1, <3>2
  <2>2. sieve(f) = [n \in 0 .. Len(q) |-> sieve(f)[n]]
    OBVIOUS
  <2>3. f = [n \in 0 .. Len(q) |-> f[n]]
    OBVIOUS
  <2>4. f = sieve(f)
    <3>. HIDE DEF sieve
    <3>. QED  BY <2>1, <2>2, <2>3
  <2>. QED  BY <2>4
<1>7. Eq(g)
  BY <1>6
<1>8. Dropped(q, gone) = g[Len(q)]
  BY DEF Dropped
<1>9. IsSieve(g, q, gone)
  <2>. HIDE DEF g
  <2>1. g[0] = <<>>
    BY <1>7
  <2>2. ASSUME NEW n \in 1 .. Len(q)
        PROVE  g[n] = IF q[n] \in gone THEN g[n - 1] ELSE Append(g[n - 1], q[n])
    <3>1. n \in 0 .. Len(q) /\ n # 0
      OBVIOUS
    <3>. QED  BY <1>7, <3>1
  <2>. QED  BY <2>1, <2>2 DEF IsSieve
<1>10. f[Len(q)] = g[Len(q)]
  <2>. HIDE DEF g
  <2>1. Len(q) \in 0 .. Len(q)
    BY <1>2
  <2>. QED  BY <1>5, <1>9, <2>1, SievesAgree
<1>. QED  BY <1>5, <1>8, <1>10

LEMMA DroppedOf ==
  ASSUME NEW S, NEW q \in Seq(S), NEW gone, NEW f, IsSieve(f, q, gone)
  PROVE  Dropped(q, gone) = f[Len(q)]
<1>1. PICK g \in [0 .. Len(q) -> Seq(S)] : IsSieve(g, q, gone) /\ Dropped(q, gone) = g[Len(q)]
  BY DroppedRun
<1>2. Len(q) \in 0 .. Len(q)
  OBVIOUS
<1>. QED  BY <1>1, <1>2, SievesAgree

LEMMA DroppedAppend ==
  ASSUME NEW S, NEW q \in Seq(S), NEW x \in S, NEW gone
  PROVE  Dropped(Append(q, x), gone) =
           IF x \in gone THEN Dropped(q, gone) ELSE Append(Dropped(q, gone), x)
<1>. DEFINE a == Append(q, x)
<1>1. a \in Seq(S) /\ Len(a) = Len(q) + 1 /\ Len(q) \in Nat /\ a[Len(a)] = x
  OBVIOUS
<1>2. \A n \in 1 .. Len(q) : a[n] = q[n]
  OBVIOUS
<1>. HIDE DEF a
<1>3. PICK f \in [0 .. Len(a) -> Seq(S)] : IsSieve(f, a, gone) /\ Dropped(a, gone) = f[Len(a)]
  BY <1>1, DroppedRun
<1>4. IsSieve(f, q, gone)
  BY <1>1, <1>2, <1>3 DEF IsSieve
<1>5. f[Len(q)] = Dropped(q, gone)
  BY <1>4, DroppedOf
<1>6. f[Len(a)] = IF x \in gone THEN f[Len(q)] ELSE Append(f[Len(q)], x)
  <2>1. Len(a) \in 1 .. Len(a) /\ Len(a) - 1 = Len(q)
    BY <1>1
  <2>. QED  BY <1>1, <1>3, <2>1 DEF IsSieve
<1>. QED  BY <1>3, <1>5, <1>6 DEF a

\* Nothing to drop.
LEMMA DroppedNone ==
  ASSUME NEW S, NEW q \in Seq(S), NEW gone, \A i \in 1 .. Len(q) : q[i] \notin gone
  PROVE  Dropped(q, gone) = q
<1>1. PICK f \in [0 .. Len(q) -> Seq(S)] : IsSieve(f, q, gone) /\ Dropped(q, gone) = f[Len(q)]
  BY DroppedRun
<1>. DEFINE Good(n) == Len(f[n]) = n /\ \A i \in 1 .. n : f[n][i] = q[i]
            T == {n \in Nat : n <= Len(q) => Good(n)}
<1>2. 0 \in T
  BY <1>1 DEF IsSieve
<1>3. ASSUME NEW n \in Nat, n \in T  PROVE n + 1 \in T
  <2>. SUFFICES ASSUME n + 1 <= Len(q)  PROVE Good(n + 1)
    OBVIOUS
  <2>1. n + 1 \in 1 .. Len(q) /\ (n + 1) - 1 = n /\ n \in 0 .. Len(q)
    OBVIOUS
  <2>2. Good(n) /\ f[n] \in Seq(S) /\ q[n + 1] \in S
    BY <1>3, <2>1
  <2>3. f[n + 1] = Append(f[n], q[n + 1])
    BY <1>1, <2>1 DEF IsSieve
  <2>. QED  BY <2>2, <2>3
<1>. HIDE DEF T
<1>4. Nat \subseteq T
  BY <1>2, <1>3, AllNumbers
<1>5. Len(q) \in Nat /\ Len(q) \in 0 .. Len(q)
  OBVIOUS
<1>6. Good(Len(q))
  BY <1>4, <1>5 DEF T
<1>7. f[Len(q)] \in Seq(S)
  BY <1>5
<1>. QED  BY <1>1, <1>6, <1>7

\* The place of the i-th element once one was inserted at k.
Past(k, i) == IF i < k THEN i ELSE i + 1

\* Only what was inserted is dropped.
LEMMA DroppedInserted ==
  ASSUME NEW S, NEW q \in Seq(S), NEW r \in Seq(S), Len(r) = Len(q) + 1, NEW gone,
         NEW k \in 1 .. Len(r), r[k] \in gone,
         \A i \in 1 .. Len(q) : q[i] \notin gone /\ r[Past(k, i)] = q[i]
  PROVE  Dropped(r, gone) = q
<1>1. PICK f \in [0 .. Len(r) -> Seq(S)] : IsSieve(f, r, gone) /\ Dropped(r, gone) = f[Len(r)]
  BY DroppedRun
<1>. DEFINE size(n) == IF n < k THEN n ELSE n - 1
            Good(n) == Len(f[n]) = size(n) /\ \A i \in 1 .. size(n) : f[n][i] = q[i]
            T == {n \in Nat : n <= Len(r) => Good(n)}
<1>2. 0 \in T
  BY <1>1 DEF IsSieve
<1>3. ASSUME NEW n \in Nat, n \in T  PROVE n + 1 \in T
  <2>. SUFFICES ASSUME n + 1 <= Len(r)  PROVE Good(n + 1)
    OBVIOUS
  <2>1. n + 1 \in 1 .. Len(r) /\ (n + 1) - 1 = n /\ n \in 0 .. Len(r) /\ Len(q) \in Nat
    OBVIOUS
  <2>2. Good(n) /\ f[n] \in Seq(S) /\ r[n + 1] \in S
    BY <1>3, <2>1
  <2>3. f[n + 1] = IF r[n + 1] \in gone THEN f[n] ELSE Append(f[n], r[n + 1])
    BY <1>1, <2>1 DEF IsSieve
  <2>4. CASE n + 1 = k
    BY <2>2, <2>3, <2>4
  <2>5. CASE n + 1 # k
    <3>. DEFINE m == size(n) + 1
    <3>1. m \in 1 .. Len(q) /\ Past(k, m) = n + 1 /\ size(n + 1) = m
      BY <2>1, <2>5 DEF Past
    <3>2. r[n + 1] = q[m] /\ r[n + 1] \notin gone
      BY <3>1
    <3>3. f[n + 1] = Append(f[n], q[m])
      BY <2>3, <3>2
    <3>. QED  BY <2>2, <3>1, <3>2, <3>3
  <2>. QED  BY <2>4, <2>5
<1>. HIDE DEF T
<1>4. Nat \subseteq T
  BY <1>2, <1>3, AllNumbers
<1>5. Len(r) \in Nat /\ Len(r) \in 0 .. Len(r) /\ size(Len(r)) = Len(q)
  OBVIOUS
<1>6. Good(Len(r))
  BY <1>4, <1>5, SMTT(30) DEF T
<1>7. f[Len(r)] \in Seq(S)
  BY <1>5
<1>. QED  BY <1>1, <1>5, <1>6, <1>7

-----------------------------------------------------------------------------
(* Reverting one document of a replay.  The replays with and without it are  *)
(* compared entry by entry: what it enriched is seen in its bullets, and the *)
(* bullet it appended is in between.                                         *)

LEMMA HighlightRow ==
  ASSUME NEW rows \in SUBSET RowKinds, NEW i, Highlight(i) \in rows
  PROVE  i \in Targets /\ i \in Nat \ {0}
<1>1. \E j \in Targets : Highlight(i) = Highlight(j)
  BY DEF RowKinds, Highlight, Experience, Project
<1>2. i \in Targets
  BY <1>1 DEF Highlight
<1>. QED  BY <1>2, LibraryAssumption

\* The bullet b is c with what d added, unless c had a description before.
SeenIn(b, c, d, x) ==
  /\ b.sources = c.sources \cup {d}
  /\ b.items = c.items \cup x.items
  /\ b.text = c.text \/ (b.text = x.text /\ x.text # NoText)

LEMMA SeenAtOnce ==
  ASSUME NEW c \in Bullet, NEW d, NEW x \in Extracted
  PROVE  SeenIn(Enriched(c, d, x), c, d, x)
BY DEF SeenIn, Enriched, Bullet, Extracted

\* Another document adds the same to both.
LEMMA SeenLater ==
  ASSUME NEW b \in Bullet, NEW c \in Bullet, NEW d, NEW x \in Extracted, SeenIn(b, c, d, x),
         NEW e, NEW y \in Extracted
  PROVE  SeenIn(Enriched(b, e, y), Enriched(c, e, y), d, x)
BY DEF SeenIn, Enriched, Bullet, Extracted

\* d left no trace in c, and c has nothing of what d says.
Apart(b, c, d, x) ==
  /\ d \notin c.sources
  /\ x.items \cap c.items = {}
  /\ b.text = x.text => c.text = NoText

LEMMA StrippedOff ==
  ASSUME NEW b \in Bullet, NEW c \in Bullet, NEW d \in Docs, NEW x \in Extracted,
         SeenIn(b, c, d, x) \/ b = c, Apart(b, c, d, x)
  PROVE  Stripped(b, d, x) = c
<1>. DEFINE t == Stripped(b, d, x)
<1>1. t \in Bullet /\ t.sources = b.sources \ {d} /\ t.items = b.items \ x.items
        /\ t.text = IF b.text = x.text THEN NoText ELSE b.text
  BY BulletTypes DEF Stripped
<1>. HIDE DEF t
<1>2. t.sources = c.sources
  BY <1>1 DEF SeenIn, Apart
<1>3. t.items = c.items
  BY <1>1 DEF SeenIn, Apart
<1>4. t.text = c.text
  BY <1>1 DEF SeenIn, Apart
<1>5. t = c
  BY <1>1, <1>2, <1>3, <1>4 DEF Bullet
<1>. QED  BY <1>5 DEF t

\* Two sequences are equal when they agree at every position.
LEMMA SameBullets ==
  ASSUME NEW q \in Seq(Bullet), NEW r \in Seq(Bullet), Len(q) = Len(r),
         \A i \in 1 .. Len(q) : q[i] = r[i]
  PROVE  q = r
OBVIOUS

LEMMA SameParts ==
  ASSUME NEW p \in Parts, NEW r \in Parts, p.bullets = r.bullets, p.projects = r.projects
  PROVE  p = r
BY DEF Parts

\* r is q with the highlight rows undone.
IsStripped(r, q, d, rows, x) ==
  /\ r \in Seq(Bullet) /\ Len(r) = Len(q)
  /\ \A i \in 1 .. Len(q) :
       r[i] = IF Highlight(i) \in rows THEN Stripped(q[i], d, x) ELSE q[i]

RevertedProjects(j, d, rows) == IF Project \in rows THEN Dropped(j, {d}) ELSE j

LEMMA DroppedType ==
  ASSUME NEW S, NEW q \in Seq(S), NEW gone
  PROVE  Dropped(q, gone) \in Seq(S)
<1>1. PICK f \in [0 .. Len(q) -> Seq(S)] : IsSieve(f, q, gone) /\ Dropped(q, gone) = f[Len(q)]
  BY DroppedRun
<1>. QED  BY <1>1

LEMMA RevertedParts ==
  ASSUME NEW p \in Parts, NEW d \in Docs, NEW rows, NEW x \in Extracted
  PROVE  \E bare : /\ IsStripped(bare, p.bullets, d, rows, x)
                   /\ Reverted(p, d, rows, x) \in Parts
                   /\ Reverted(p, d, rows, x).bullets =
                        IF Experience \in rows THEN Dropped(bare, AloneOf(d)) ELSE bare
                   /\ Reverted(p, d, rows, x).projects = RevertedProjects(p.projects, d, rows)
<1>. DEFINE q == p.bullets
            t == [i \in DOMAIN q |-> IF Highlight(i) \in rows THEN Stripped(q[i], d, x)
                                     ELSE q[i]]
            b == IF Experience \in rows THEN Dropped(t, AloneOf(d)) ELSE t
            j == RevertedProjects(p.projects, d, rows)
<1>1. q \in Seq(Bullet) /\ p.projects \in Seq(Docs)
  BY DEF Parts
<1>2. /\ \A i \in DOMAIN q : q[i] \in Bullet
      /\ DOMAIN q = 1 .. Len(q) /\ Len(q) \in Nat
  BY <1>1
<1>3. \A i \in DOMAIN q : Stripped(q[i], d, x) \in Bullet
  BY <1>2, BulletTypes
<1>4. IsStripped(t, q, d, rows, x)
  BY <1>2, <1>3 DEF IsStripped
<1>5. Reverted(p, d, rows, x) = [p EXCEPT !.bullets = b, !.projects = j]
  BY DEF Reverted, RevertedProjects
<1>. HIDE DEF t
<1>6. t \in Seq(Bullet)
  BY <1>4 DEF IsStripped
<1>7. b \in Seq(Bullet) /\ j \in Seq(Docs)
  <2>1. Dropped(t, AloneOf(d)) \in Seq(Bullet)
    BY <1>6, DroppedType
  <2>2. Dropped(p.projects, {d}) \in Seq(Docs)
    BY <1>1, DroppedType
  <2>. QED  BY <1>1, <1>6, <2>1, <2>2 DEF RevertedProjects
<1>. HIDE DEF j
<1>8. Reverted(p, d, rows, x) = [bullets |-> b, projects |-> j]
  <2>. HIDE DEF b
  <2>. QED  BY <1>5 DEF Parts
<1>. QED  BY <1>4, <1>7, <1>8 DEF Parts, j

\* p has nothing of d.
Free(p, d) ==
  /\ \A i \in 1 .. Len(p.bullets) : d \notin p.bullets[i].sources
  /\ \A i \in 1 .. Len(p.projects) : p.projects[i] # d

LEMMA FreeProjects ==
  ASSUME NEW p \in Parts, NEW d, NEW rows, Free(p, d)
  PROVE  RevertedProjects(p.projects, d, rows) = p.projects
<1>1. p.projects \in Seq(Docs)
  BY DEF Parts
<1>2. \A i \in 1 .. Len(p.projects) : p.projects[i] \notin {d}
  BY DEF Free
<1>3. Dropped(p.projects, {d}) = p.projects
  BY <1>1, <1>2, DroppedNone
<1>. QED  BY <1>3 DEF RevertedProjects

LEMMA NotAlone ==
  ASSUME NEW b, NEW d, d \notin b.sources
  PROVE  b \notin AloneOf(d)
BY DEF AloneOf

\* Its rows did not fit, or it was not there: a revert finds nothing.
LEMMA RevertNothing ==
  ASSUME NEW q \in Parts, NEW d \in Docs, NEW rows, NEW x \in Extracted, Free(q, d),
         \A i \in 1 .. Len(q.bullets) :
           Highlight(i) \in rows => Apart(q.bullets[i], q.bullets[i], d, x)
  PROVE  Reverted(q, d, rows, x) = q
<1>. DEFINE r == Reverted(q, d, rows, x)
<1>1. PICK bare : /\ IsStripped(bare, q.bullets, d, rows, x)
                  /\ r \in Parts
                  /\ r.bullets = IF Experience \in rows THEN Dropped(bare, AloneOf(d)) ELSE bare
                  /\ r.projects = RevertedProjects(q.projects, d, rows)
  BY RevertedParts, SMTT(30)
<1>. HIDE DEF r
<1>2. q.bullets \in Seq(Bullet) /\ bare \in Seq(Bullet) /\ Len(bare) = Len(q.bullets)
  BY <1>1 DEF Parts, IsStripped
<1>3. ASSUME NEW i \in 1 .. Len(q.bullets)  PROVE bare[i] = q.bullets[i]
  <2>1. q.bullets[i] \in Bullet
    BY <1>2
  <2>2. Highlight(i) \in rows => Stripped(q.bullets[i], d, x) = q.bullets[i]
    BY <2>1, StrippedOff
  <2>. QED  BY <1>1, <2>2 DEF IsStripped
<1>4. bare = q.bullets
  BY <1>2, <1>3, SameBullets
<1>5. Dropped(q.bullets, AloneOf(d)) = q.bullets
  <2>1. \A i \in 1 .. Len(q.bullets) : q.bullets[i] \notin AloneOf(d)
    BY NotAlone DEF Free
  <2>. QED  BY <1>2, <2>1, DroppedNone
<1>6. r.bullets = q.bullets
  BY <1>1, <1>4, <1>5
<1>7. r.projects = q.projects
  BY <1>1, FreeProjects
<1>8. r = q
  BY <1>1, <1>6, <1>7, SameParts
<1>. QED  BY <1>8 DEF r

\* Rows name the bullets up to size.
Within(rows, size) == \A i \in Targets : Highlight(i) \in rows => i <= size

\* The place of the i-th bullet in a profile where d's rows appended one after
\* the first size bullets.
Moved(rows, size, i) == IF Experience \in rows THEN Past(size + 1, i) ELSE i

LEMMA MovedPlace ==
  ASSUME NEW rows, NEW size \in Nat, NEW m \in Nat, size <= m, NEW i \in 1 .. m
  PROVE  /\ Moved(rows, size, i) \in 1 .. m + Extra(rows)
         /\ \/ Moved(rows, size, i) = i
            \/ Moved(rows, size, i) = i + 1 /\ i > size /\ Experience \in rows
<1>1. CASE Experience \in rows
  BY <1>1 DEF Moved, Past, Extra
<1>2. CASE Experience \notin rows
  BY <1>2 DEF Moved, Extra
<1>. QED  BY <1>1, <1>2

LEMMA ExtraType == ASSUME NEW rows PROVE Extra(rows) \in {0, 1}
BY DEF Extra

\* p is q with d's rows applied when q had size bullets.
Over(p, q, d, rows, x, size) ==
  /\ size \in Nat /\ size <= Len(q.bullets) /\ Within(rows, size)
  /\ Len(p.bullets) = Len(q.bullets) + Extra(rows)
  /\ \A i \in 1 .. Len(q.bullets) :
       IF Highlight(i) \in rows
       THEN SeenIn(p.bullets[Moved(rows, size, i)], q.bullets[i], d, x)
       ELSE p.bullets[Moved(rows, size, i)] = q.bullets[i]
  /\ Experience \in rows => p.bullets[size + 1] = BulletOf({d}, x)
  /\ RevertedProjects(p.projects, d, rows) = q.projects

LEMMA OverOwn ==
  ASSUME NEW q \in Parts, NEW d \in Docs, NEW rows \in SUBSET RowKinds, NEW x \in Extracted,
         Free(q, d), Fits(q, rows)
  PROVE  Over(Applied(q, d, rows, x), q, d, rows, x, Len(q.bullets))
<1>. DEFINE p == Applied(q, d, rows, x)
            size == Len(q.bullets)
<1>1. /\ p \in Parts /\ IsEnriched(p.bullets, q.bullets, d, rows, x)
      /\ p.projects = AppliedProjects(q.projects, d, rows)
  BY AppliedParts
<1>. HIDE DEF p
<1>2. q.bullets \in Seq(Bullet) /\ size \in Nat /\ q.projects \in Seq(Docs)
  BY DEF Parts
<1>3. Within(rows, size)
  BY DEF Fits, Within
<1>4. ASSUME NEW i \in 1 .. size
      PROVE  /\ Moved(rows, size, i) = i
             /\ IF Highlight(i) \in rows THEN SeenIn(p.bullets[i], q.bullets[i], d, x)
                ELSE p.bullets[i] = q.bullets[i]
  <2>1. q.bullets[i] \in Bullet
    BY <1>2
  <2>2. Moved(rows, size, i) = i
    BY <1>2 DEF Moved, Past
  <2>. QED  BY <1>1, <2>1, <2>2, SeenAtOnce DEF IsEnriched
<1>5. RevertedProjects(p.projects, d, rows) = q.projects
  <2>1. Dropped(Append(q.projects, d), {d}) = Dropped(q.projects, {d})
    BY <1>2, DroppedAppend
  <2>2. RevertedProjects(q.projects, d, rows) = q.projects
    BY FreeProjects
  <2>. QED  BY <1>1, <2>1, <2>2 DEF RevertedProjects, AppliedProjects
<1>6. Over(p, q, d, rows, x, size)
  BY <1>1, <1>2, <1>3, <1>4, <1>5 DEF Over, IsEnriched
<1>. QED  BY <1>6 DEF p

\* A later document whose rows name no bullet from the appended one on.
LEMMA OverOther ==
  ASSUME NEW p \in Parts, NEW q \in Parts, NEW d \in Docs, NEW rows \in SUBSET RowKinds,
         NEW x \in Extracted, NEW size, Over(p, q, d, rows, x, size),
         NEW e \in Docs, e # d, NEW other \in SUBSET RowKinds, NEW y \in Extracted,
         Experience \in rows => Within(other, size)
  PROVE  /\ Fits(p, other) <=> Fits(q, other)
         /\ Over(Applied(p, e, other, y), Applied(q, e, other, y), d, rows, x, size)
<1>. DEFINE a == Applied(p, e, other, y)
            b == Applied(q, e, other, y)
<1>1. /\ a \in Parts /\ IsEnriched(a.bullets, p.bullets, e, other, y)
      /\ a.projects = AppliedProjects(p.projects, e, other)
      /\ b \in Parts /\ IsEnriched(b.bullets, q.bullets, e, other, y)
      /\ b.projects = AppliedProjects(q.projects, e, other)
  BY AppliedParts
<1>. HIDE DEF a, b
<1>2. /\ p.bullets \in Seq(Bullet) /\ Len(p.bullets) \in Nat
      /\ q.bullets \in Seq(Bullet) /\ Len(q.bullets) \in Nat
      /\ p.projects \in Seq(Docs) /\ q.projects \in Seq(Docs)
      /\ size \in Nat /\ size <= Len(q.bullets)
      /\ Len(p.bullets) = Len(q.bullets) + Extra(rows)
  BY DEF Parts, Over
<1>3. Fits(p, other) <=> Fits(q, other)
  <2>1. Targets \subseteq Nat
    BY LibraryAssumption
  <2>2. CASE Experience \in rows
    BY <1>2, <2>1, <2>2 DEF Within, Fits, Extra
  <2>3. CASE Experience \notin rows
    BY <1>2, <2>3 DEF Fits, Extra
  <2>. QED  BY <2>2, <2>3
<1>4. /\ Extra(rows) \in {0, 1} /\ Extra(other) \in {0, 1}
      /\ Len(b.bullets) = Len(q.bullets) + Extra(other)
      /\ Len(a.bullets) = Len(p.bullets) + Extra(other)
      /\ Len(b.bullets) \in Nat /\ size <= Len(b.bullets)
      /\ Len(a.bullets) = Len(b.bullets) + Extra(rows)
  <2>1. Extra(rows) \in {0, 1} /\ Extra(other) \in {0, 1}
    BY ExtraType
  <2>2. /\ Len(b.bullets) = Len(q.bullets) + Extra(other)
        /\ Len(a.bullets) = Len(p.bullets) + Extra(other)
    BY <1>1 DEF IsEnriched
  <2>. QED  BY <1>2, <2>1, <2>2
<1>5. ASSUME NEW i \in 1 .. Len(b.bullets)
      PROVE  IF Highlight(i) \in rows
             THEN SeenIn(a.bullets[Moved(rows, size, i)], b.bullets[i], d, x)
             ELSE a.bullets[Moved(rows, size, i)] = b.bullets[i]
  <2>. DEFINE n == Moved(rows, size, i)
  <2>1. CASE i <= Len(q.bullets)
    <3>0. i \in 1 .. Len(q.bullets)
      BY <1>2, <1>4, <2>1
    <3>1. i \in 1 .. Len(q.bullets) /\ n \in 1 .. Len(p.bullets)
      BY <1>2, <3>0, MovedPlace
    <3>2. Highlight(n) \in other <=> Highlight(i) \in other
      <4>1. CASE n = i
        BY <4>1
      <4>2. CASE n # i
        <5>1. Experience \in rows /\ n = i + 1 /\ i > size
          BY <1>2, <3>0, <4>2, MovedPlace
        <5>2. Highlight(n) \notin other /\ Highlight(i) \notin other
          BY <1>2, <5>1, HighlightRow DEF Within
        <5>. QED  BY <5>2
      <4>. QED  BY <4>1, <4>2
    <3>3. IF Highlight(i) \in rows THEN SeenIn(p.bullets[n], q.bullets[i], d, x)
          ELSE p.bullets[n] = q.bullets[i]
      BY <3>1 DEF Over
    <3>4. p.bullets[n] \in Bullet /\ q.bullets[i] \in Bullet
      BY <1>2, <3>1
    <3>. HIDE DEF n
    <3>5. /\ a.bullets[n] = IF Highlight(n) \in other THEN Enriched(p.bullets[n], e, y)
                            ELSE p.bullets[n]
          /\ b.bullets[i] = IF Highlight(i) \in other THEN Enriched(q.bullets[i], e, y)
                            ELSE q.bullets[i]
      BY <1>1, <3>1 DEF IsEnriched
    <3>6. SeenIn(p.bullets[n], q.bullets[i], d, x) =>
            SeenIn(Enriched(p.bullets[n], e, y), Enriched(q.bullets[i], e, y), d, x)
      BY <3>4, SeenLater
    <3>7. IF Highlight(i) \in rows THEN SeenIn(a.bullets[n], b.bullets[i], d, x)
          ELSE a.bullets[n] = b.bullets[i]
      BY <3>2, <3>3, <3>5, <3>6
    <3>. QED  BY <3>7 DEF n
  <2>2. CASE i > Len(q.bullets)
    <3>1. Experience \in other /\ i = Len(q.bullets) + 1
      <4>1. Extra(other) = 1
        BY <1>2, <1>4, <2>2
      <4>2. Experience \in other
        BY <4>1 DEF Extra
      <4>3. Len(b.bullets) = Len(q.bullets) + 1
        BY <1>4, <4>1
      <4>. QED  BY <1>2, <2>2, <4>2, <4>3
    <3>2. n = Len(p.bullets) + 1
      <4>1. i \in Nat /\ i > size
        BY <1>2, <3>1
      <4>2. Moved(rows, size, i) = i + Extra(rows)
        BY <1>2, <4>1 DEF Moved, Past, Extra
      <4>. QED  BY <1>2, <1>4, <3>1, <4>2
    <3>3. Highlight(i) \notin rows
      <4>1. Within(rows, size)
        BY DEF Over
      <4>. QED  BY <1>2, <2>2, <4>1, HighlightRow DEF Within
    <3>. QED  BY <1>1, <3>1, <3>2, <3>3 DEF IsEnriched
  <2>. QED  BY <1>2, <1>4, <2>1, <2>2
<1>6. Experience \in rows => a.bullets[size + 1] = BulletOf({d}, x)
  <2>. SUFFICES ASSUME Experience \in rows  PROVE a.bullets[size + 1] = BulletOf({d}, x)
    OBVIOUS
  <2>1. size + 1 \in 1 .. Len(p.bullets)
    BY <1>2 DEF Extra
  <2>2. Highlight(size + 1) \notin other
    BY <1>2, HighlightRow DEF Within
  <2>3. p.bullets[size + 1] = BulletOf({d}, x)
    BY DEF Over
  <2>4. a.bullets[size + 1] = p.bullets[size + 1]
    BY <1>1, <2>1, <2>2 DEF IsEnriched
  <2>. QED  BY <2>3, <2>4
<1>7. RevertedProjects(a.projects, d, rows) = b.projects
  <2>1. Dropped(Append(p.projects, e), {d}) = Append(Dropped(p.projects, {d}), e)
    <3>. DEFINE gone == {d}
    <3>1. e \notin gone
      OBVIOUS
    <3>. HIDE DEF gone
    <3>2. Dropped(Append(p.projects, e), gone) = Append(Dropped(p.projects, gone), e)
      BY <1>2, <3>1, DroppedAppend
    <3>. QED  BY <3>2 DEF gone
  <2>2. RevertedProjects(p.projects, d, rows) = q.projects
    BY DEF Over
  <2>. QED  BY <1>1, <2>1, <2>2 DEF RevertedProjects, AppliedProjects
<1>8. Over(a, b, d, rows, x, size)
  BY <1>4, <1>5, <1>6, <1>7 DEF Over
<1>. QED  BY <1>3, <1>8 DEF a, b

\* Reverting takes off what is seen of d and drops the bullet in between.
LEMMA OverReverted ==
  ASSUME NEW p \in Parts, NEW q \in Parts, NEW d \in Docs, NEW rows \in SUBSET RowKinds,
         NEW x \in Extracted, NEW size, Over(p, q, d, rows, x, size), Free(q, d),
         \A i \in 1 .. Len(q.bullets) :
           Highlight(i) \in rows => Apart(p.bullets[i], q.bullets[i], d, x)
  PROVE  Reverted(p, d, rows, x) = q
<1>. DEFINE r == Reverted(p, d, rows, x)
<1>1. PICK bare : /\ IsStripped(bare, p.bullets, d, rows, x)
                  /\ r \in Parts
                  /\ r.bullets = IF Experience \in rows THEN Dropped(bare, AloneOf(d)) ELSE bare
                  /\ r.projects = RevertedProjects(p.projects, d, rows)
  BY RevertedParts
<1>. HIDE DEF r
<1>2. /\ q.bullets \in Seq(Bullet) /\ Len(q.bullets) \in Nat
      /\ p.bullets \in Seq(Bullet)
      /\ bare \in Seq(Bullet) /\ Len(bare) = Len(p.bullets)
      /\ size \in Nat /\ size <= Len(q.bullets)
      /\ Len(p.bullets) = Len(q.bullets) + Extra(rows)
  BY <1>1 DEF Parts, IsStripped, Over
<1>3. ASSUME NEW i \in 1 .. Len(q.bullets)
      PROVE  bare[Moved(rows, size, i)] = q.bullets[i]
  <2>. DEFINE n == Moved(rows, size, i)
  <2>1. n \in 1 .. Len(p.bullets)
    BY <1>2, MovedPlace
  <2>2. n = i \/ (n = i + 1 /\ i > size)
    BY <1>2, MovedPlace
  <2>3. /\ Highlight(i) \in rows => i <= size
        /\ Highlight(n) \in rows => n <= size
    BY HighlightRow DEF Over, Within
  <2>4. bare[n] = IF Highlight(n) \in rows THEN Stripped(p.bullets[n], d, x) ELSE p.bullets[n]
    BY <1>1, <2>1 DEF IsStripped
  <2>5. CASE Highlight(i) \in rows
    <3>1. n = i
      BY <1>2, <2>2, <2>3, <2>5
    <3>2. SeenIn(p.bullets[i], q.bullets[i], d, x)
      BY <2>5, <3>1 DEF Over
    <3>3. p.bullets[i] \in Bullet /\ q.bullets[i] \in Bullet
      BY <1>2, <2>1, <3>1
    <3>4. Stripped(p.bullets[i], d, x) = q.bullets[i]
      BY <2>5, <3>2, <3>3, StrippedOff
    <3>. QED  BY <2>4, <2>5, <3>1, <3>4
  <2>6. CASE Highlight(i) \notin rows
    <3>1. p.bullets[n] = q.bullets[i]
      BY <2>6 DEF Over
    <3>2. Highlight(n) \notin rows
      BY <1>2, <2>2, <2>3, <2>6
    <3>. QED  BY <2>4, <3>1, <3>2
  <2>. QED  BY <2>5, <2>6
<1>4. \A i \in 1 .. Len(q.bullets) : q.bullets[i] \notin AloneOf(d)
  BY NotAlone DEF Free
<1>5. CASE Experience \in rows
  <2>1. Len(bare) = Len(q.bullets) + 1 /\ size + 1 \in 1 .. Len(bare)
    BY <1>2, <1>5 DEF Extra
  <2>2. bare[size + 1] = BulletOf({d}, x)
    <3>1. Highlight(size + 1) \notin rows
      BY <1>2, HighlightRow DEF Over, Within
    <3>. QED  BY <1>1, <1>2, <1>5, <2>1, <3>1 DEF IsStripped, Over
  <2>3. BulletOf({d}, x) \in AloneOf(d)
    BY DEF BulletOf, AloneOf, Extracted
  <2>4. \A i \in 1 .. Len(q.bullets) :
          q.bullets[i] \notin AloneOf(d) /\ bare[Past(size + 1, i)] = q.bullets[i]
    BY <1>3, <1>4, <1>5 DEF Moved
  <2>5. bare[size + 1] \in AloneOf(d)
    BY <2>2, <2>3
  <2>6. Dropped(bare, AloneOf(d)) = q.bullets
    BY <1>2, <2>1, <2>4, <2>5, DroppedInserted
  <2>. QED  BY <1>1, <1>5, <2>6, SameParts DEF Over, r
<1>6. CASE Experience \notin rows
  <2>1. Len(bare) = Len(q.bullets) /\ \A i \in 1 .. Len(q.bullets) : bare[i] = q.bullets[i]
    BY <1>2, <1>3, <1>6 DEF Extra, Moved
  <2>2. bare = q.bullets
    BY <1>2, <2>1, SameBullets
  <2>. QED  BY <1>1, <1>6, <2>2, SameParts DEF Over, r
<1>. QED  BY <1>5, <1>6

-----------------------------------------------------------------------------
(* Reverting one document of a replay, entry by entry. *)

LEMMA Prefix ==
  ASSUME NEW s \in Seq(Entry), NEW n \in 0 .. Len(s)
  PROVE  /\ SubSeq(s, 1, n) \in Seq(Entry) /\ Len(SubSeq(s, 1, n)) = n
         /\ \A i \in 1 .. n : SubSeq(s, 1, n)[i] = s[i]
<1>1. n \in Nat /\ n <= Len(s) /\ \A i \in 1 .. n : s[i] \in Entry
  OBVIOUS
<1>2. SubSeq(s, 1, n) = [i \in 1 .. n |-> s[i]]
  BY <1>1
<1>. DEFINE t == SubSeq(s, 1, n)
<1>3. t = [i \in 1 .. n |-> s[i]] /\ t \in Seq(Entry)
  BY <1>1, <1>2
<1>. HIDE DEF t
<1>4. Len(t) = n /\ \A i \in 1 .. n : t[i] = s[i]
  BY <1>1, <1>3
<1>. QED  BY <1>3, <1>4 DEF t

LEMMA EntryFields ==
  ASSUME NEW m \in Entry
  PROVE  m.doc \in Docs /\ m.rows \in SUBSET RowKinds /\ m.adds \in Extracted
BY DEF Entry

LEMMA ReplayPrefix ==
  ASSUME NEW s \in Seq(Entry), NEW docs, NEW f, IsRun(f, s, docs), NEW n \in 0 .. Len(s)
  PROVE  Replay(SubSeq(s, 1, n), docs) = f[n]
<1>. DEFINE t == SubSeq(s, 1, n)
<1>1. t \in Seq(Entry) /\ Len(t) = n /\ \A i \in 1 .. n : t[i] = s[i]
  BY Prefix
<1>. HIDE DEF t
<1>2. IsRun(f, t, docs)
  BY <1>1 DEF IsRun
<1>. QED  BY <1>1, <1>2, ReplayOf DEF t

LEMMA FreeApplied ==
  ASSUME NEW q \in Parts, NEW d \in Docs, Free(q, d), NEW e \in Docs, e # d, NEW rows,
         NEW x \in Extracted
  PROVE  Free(Applied(q, e, rows, x), d)
<1>. DEFINE p == Applied(q, e, rows, x)
<1>1. /\ p \in Parts /\ IsEnriched(p.bullets, q.bullets, e, rows, x)
      /\ p.projects = AppliedProjects(q.projects, e, rows)
  BY AppliedParts
<1>. HIDE DEF p
<1>2. Len(q.bullets) \in Nat /\ q.projects \in Seq(Docs)
  BY DEF Parts
<1>3. ASSUME NEW i \in 1 .. Len(p.bullets)  PROVE d \notin p.bullets[i].sources
  <2>1. CASE i <= Len(q.bullets)
    <3>1. i \in 1 .. Len(q.bullets)
      BY <1>2, <2>1
    <3>2. d \notin q.bullets[i].sources /\ d \notin Enriched(q.bullets[i], e, x).sources
      BY <3>1 DEF Free, Enriched
    <3>. QED  BY <1>1, <3>1, <3>2 DEF IsEnriched
  <2>2. CASE i > Len(q.bullets)
    <3>1. Experience \in rows /\ i = Len(q.bullets) + 1
      <4>1. Len(p.bullets) = Len(q.bullets) + Extra(rows)
        BY <1>1 DEF IsEnriched
      <4>2. Extra(rows) = 1
        BY <1>2, <2>2, <4>1, ExtraType
      <4>3. Experience \in rows
        BY <4>2 DEF Extra
      <4>. QED  BY <1>2, <2>2, <4>1, <4>2, <4>3
    <3>2. p.bullets[i].sources = {e}
      BY <1>1, <3>1 DEF IsEnriched, BulletOf
    <3>. QED  BY <3>2
  <2>. QED  BY <1>2, <2>1, <2>2
<1>4. ASSUME NEW i \in 1 .. Len(p.projects)  PROVE p.projects[i] # d
  BY <1>1, <1>2 DEF Free, AppliedProjects
<1>. QED  BY <1>3, <1>4 DEF Free, p

LEMMA FreeRun ==
  ASSUME NEW s \in Seq(Entry), NEW docs, NEW d \in Docs, d \notin docs,
         NEW g \in [0 .. Len(s) -> Parts], IsRun(g, s, docs)
  PROVE  \A n \in 0 .. Len(s) : Free(g[n], d)
<1>. DEFINE T == {n \in Nat : n <= Len(s) => Free(g[n], d)}
<1>1. 0 \in T
  <2>1. Free(Bare, d)
    <3>1. Bare.projects = <<>> /\ Len(Bare.projects) = 0
      BY DEF Bare
    <3>2. Bare.bullets = [i \in DOMAIN CvBullets |-> BulletOf({}, CvBullets[i])]
      BY DEF Bare
    <3>3. \A i \in DOMAIN CvBullets : Bare.bullets[i].sources = {}
      BY <3>2 DEF BulletOf
    <3>4. 1 .. Len(Bare.bullets) = DOMAIN CvBullets
      <4>1. Bare.bullets \in Seq(Bullet)
        BY BareParts DEF Parts
      <4>. QED  BY <3>2, <4>1
    <3>. QED  BY <3>1, <3>3, <3>4 DEF Free
  <2>. QED  BY <2>1 DEF IsRun
<1>2. ASSUME NEW n \in Nat, n \in T  PROVE n + 1 \in T
  <2>. SUFFICES ASSUME n + 1 <= Len(s)  PROVE Free(g[n + 1], d)
    OBVIOUS
  <2>1. n + 1 \in 1 .. Len(s) /\ (n + 1) - 1 = n /\ n \in 0 .. Len(s)
    OBVIOUS
  <2>2. Free(g[n], d) /\ g[n] \in Parts
    BY <1>2, <2>1
  <2>3. g[n + 1] = Reapplied(g[n], s[n + 1], docs)
    BY <2>1 DEF IsRun
  <2>4. s[n + 1].doc \in Docs /\ s[n + 1].adds \in Extracted
    BY <2>1 DEF Entry
  <2>5. s[n + 1].doc \in docs => s[n + 1].doc # d
    OBVIOUS
  <2>. QED  BY <2>2, <2>3, <2>4, <2>5, FreeApplied DEF Reapplied
<1>. HIDE DEF T
<1>3. Nat \subseteq T
  BY <1>1, <1>2, AllNumbers
<1>. QED  BY <1>3 DEF T

\* Reverting a document takes exactly its rows out of a replay, unless the
\* bullets it enriches have some of what it adds without it, too, or a later
\* document names the bullets after the one it appended: revert_mapping and a
\* rebuild without the document agree.
THEOREM RevertReplay ==
  ASSUME NEW s \in Seq(Entry), NEW docs, NEW k \in 1 .. Len(s), s[k].doc \in docs,
         \A i \in 1 .. Len(s) : s[i].doc = s[k].doc => i = k,
         ~Repeats(s, docs, s[k]), ~Displaces(s, docs, k)
  PROVE  Reverted(Replay(s, docs), s[k].doc, s[k].rows, s[k].adds)
           = Replay(s, docs \ {s[k].doc})
<1>. DEFINE d == s[k].doc
            rows == s[k].rows
            x == s[k].adds
            rest == docs \ {d}
            p == Replay(s, docs)
            q == Replay(s, rest)
<1>1. s[k] \in Entry /\ d \in Docs /\ rows \in SUBSET RowKinds /\ x \in Extracted
  <2>1. s[k] \in Entry
    OBVIOUS
  <2>. QED  BY <2>1, EntryFields
<1>2. PICK f \in [0 .. Len(s) -> Parts] : IsRun(f, s, docs) /\ p = f[Len(s)]
  BY ReplayRun
<1>3. PICK g \in [0 .. Len(s) -> Parts] : IsRun(g, s, rest) /\ q = g[Len(s)]
  BY ReplayRun
<1>4. /\ ~\E i \in DOMAIN q.bullets :
            /\ Highlight(i) \in rows
            /\ \/ x.items \cap q.bullets[i].items # {}
               \/ p.bullets[i].text = x.text /\ q.bullets[i].text # NoText
  BY DEF Repeats
<1>5. Len(s) \in Nat /\ k \in 1 .. Len(s) /\ k - 1 \in 0 .. Len(s)
  OBVIOUS
<1>6. Replay(SubSeq(s, 1, k - 1), docs) = f[k - 1]
  BY <1>2, <1>5, ReplayPrefix
<1>7. Experience \in rows /\ Fits(f[k - 1], rows) =>
        \A n \in k + 1 .. Len(s) :
          s[n].doc \in docs => Within(s[n].rows, Len(f[k - 1].bullets))
  <2>1. Targets \subseteq Nat /\ Len(f[k - 1].bullets) \in Nat
    <3>1. f[k - 1].bullets \in Seq(Bullet)
      BY <1>5 DEF Parts
    <3>. QED  BY <3>1, LibraryAssumption
  <2>. QED  BY <1>6, <2>1 DEF Displaces, Within
<1>8. \A n \in 1 .. Len(s) : n # k => (s[n].doc # d /\ (s[n].doc \in docs <=> s[n].doc \in rest))
  OBVIOUS
<1>9. d \notin rest /\ d \in docs
  OBVIOUS
<1>. HIDE DEF d, rows, x, rest, p, q
<1>10. \A n \in 0 .. Len(s) : Free(g[n], d)
  BY <1>1, <1>3, <1>9, FreeRun
<1>11. p \in Parts /\ q \in Parts /\ Free(q, d)
  BY <1>2, <1>3, <1>5, <1>10
<1>12. \A i \in 1 .. Len(q.bullets) :
         Highlight(i) \in rows => Apart(p.bullets[i], q.bullets[i], d, x)
  <2>1. DOMAIN q.bullets = 1 .. Len(q.bullets)
    BY <1>11 DEF Parts
  <2>. QED  BY <1>4, <1>11, <2>1 DEF Apart, Free
<1>13. CASE ~Fits(f[k - 1], rows)
  <2>1. IsRun(f, s, rest)
    <3>1. ASSUME NEW n \in 1 .. Len(s)  PROVE f[n] = Reapplied(f[n - 1], s[n], rest)
      <4>1. f[n] = Reapplied(f[n - 1], s[n], docs)
        BY <1>2 DEF IsRun
      <4>2. CASE n = k
        BY <1>9, <1>13, <4>1, <4>2 DEF Reapplied, d, rows
      <4>3. CASE n # k
        BY <1>8, <4>1, <4>3 DEF Reapplied
      <4>. QED  BY <4>2, <4>3
    <3>. QED  BY <1>2, <3>1 DEF IsRun
  <2>2. q = p
    BY <1>2, <2>1, ReplayOf DEF q
  <2>. QED  BY <1>1, <1>11, <1>12, <2>2, RevertNothing DEF p, q, d, rows, x, rest
<1>14. CASE Fits(f[k - 1], rows)
  <2>1. f[k - 1] = g[k - 1]
    <3>. DEFINE T == {n \in Nat : n < k => f[n] = g[n]}
    <3>1. 0 \in T
      BY <1>2, <1>3 DEF IsRun
    <3>2. ASSUME NEW n \in Nat, n \in T  PROVE n + 1 \in T
      <4>. SUFFICES ASSUME n + 1 < k  PROVE f[n + 1] = g[n + 1]
        OBVIOUS
      <4>1. n + 1 \in 1 .. Len(s) /\ (n + 1) - 1 = n /\ n + 1 # k
        BY <1>5
      <4>2. f[n] = g[n]
        BY <3>2, <1>5
      <4>3. f[n + 1] = Reapplied(f[n], s[n + 1], docs) /\ g[n + 1] = Reapplied(g[n], s[n + 1], rest)
        BY <1>2, <1>3, <4>1 DEF IsRun
      <4>. QED  BY <1>8, <4>1, <4>2, <4>3 DEF Reapplied
    <3>. HIDE DEF T
    <3>3. Nat \subseteq T
      BY <3>1, <3>2, AllNumbers
    <3>4. k - 1 \in Nat /\ k - 1 < k
      BY <1>5
    <3>. QED  BY <3>3, <3>4 DEF T
  <2>. DEFINE size == Len(f[k - 1].bullets)
              T == {n \in Nat : k <= n /\ n <= Len(s) => Over(f[n], g[n], d, rows, x, size)}
  <2>2. Over(f[k], g[k], d, rows, x, size)
    <3>1. f[k] = Applied(f[k - 1], d, rows, x)
      BY <1>2, <1>5, <1>9, <1>14 DEF IsRun, Reapplied, d, rows, x
    <3>2. g[k] = g[k - 1]
      BY <1>3, <1>5, <1>9 DEF IsRun, Reapplied, d
    <3>3. f[k - 1] \in Parts /\ Free(f[k - 1], d)
      BY <1>5, <1>10, <2>1
    <3>. QED  BY <1>1, <1>14, <2>1, <3>1, <3>2, <3>3, OverOwn
  <2>. HIDE DEF size
  <2>3. 0 \in T
    BY <1>5
  <2>4. ASSUME NEW n \in Nat, n \in T  PROVE n + 1 \in T
    <3>. SUFFICES ASSUME k <= n + 1, n + 1 <= Len(s)
                  PROVE  Over(f[n + 1], g[n + 1], d, rows, x, size)
      OBVIOUS
    <3>1. CASE n + 1 = k
      BY <2>2, <3>1
    <3>2. CASE n + 1 # k
      <4>1. /\ n + 1 \in 1 .. Len(s) /\ (n + 1) - 1 = n /\ n \in 0 .. Len(s)
            /\ n + 1 \in k + 1 .. Len(s) /\ k <= n
        BY <1>5, <3>2
      <4>2. Over(f[n], g[n], d, rows, x, size) /\ f[n] \in Parts /\ g[n] \in Parts
        BY <2>4, <4>1
      <4>. DEFINE m == s[n + 1]
      <4>3. m.doc \in Docs /\ m.rows \in SUBSET RowKinds /\ m.adds \in Extracted
        BY <4>1, EntryFields
      <4>4. m.doc # d /\ (m.doc \in docs <=> m.doc \in rest)
        BY <1>8, <3>2, <4>1
      <4>5. f[n + 1] = Reapplied(f[n], m, docs) /\ g[n + 1] = Reapplied(g[n], m, rest)
        BY <1>2, <1>3, <4>1 DEF IsRun
      <4>6. m.doc \in docs /\ Experience \in rows => Within(m.rows, size)
        BY <1>7, <1>14, <4>1 DEF size
      <4>. HIDE DEF m
      <4>7. CASE m.doc \notin docs
        BY <4>2, <4>4, <4>5, <4>7 DEF Reapplied
      <4>8. CASE m.doc \in docs
        <5>1. /\ Fits(f[n], m.rows) <=> Fits(g[n], m.rows)
              /\ Over(Applied(f[n], m.doc, m.rows, m.adds), Applied(g[n], m.doc, m.rows, m.adds),
                      d, rows, x, size)
          BY <1>1, <4>2, <4>3, <4>4, <4>6, <4>8, OverOther
        <5>. QED  BY <4>2, <4>4, <4>5, <4>8, <5>1 DEF Reapplied
      <4>. QED  BY <4>7, <4>8
    <3>. QED  BY <3>1, <3>2
  <2>. HIDE DEF T
  <2>5. Nat \subseteq T
    BY <2>3, <2>4, AllNumbers
  <2>6. Over(p, q, d, rows, x, size)
    BY <1>2, <1>3, <1>5, <2>5 DEF T
  <2>. QED  BY <1>1, <1>11, <1>12, <2>6, OverReverted DEF p, q, d, rows, x, rest
<1>. QED  BY <1>13, <1>14

-----------------------------------------------------------------------------
(* The mappings of one document. *)

LEMMA CurrentDocs ==
  ASSUME TypeOK
  PROVE  CurrentIds \cap Docs = Mapped
<1>1. Mapped \subseteq Docs
  BY MappedDocs DEF TypeOK
<1>2. Stored(Cvs) \subseteq Cvs /\ Stored(Repos) \subseteq Repos
  BY DEF Stored
<1>. QED  BY <1>1, <1>2, LibraryAssumption DEF CurrentIds

DocsOf(s) == {s[i].doc : i \in 1 .. Len(s)}

OnceEach(s) == \A i, k \in 1 .. Len(s) : s[i].doc = s[k].doc => i = k

LEMMA MappingsOnce ==
  ASSUME mappings \in Seq(Entry)
  PROVE  Mapped = DocsOf(mappings) /\ (OneEntryEach <=> OnceEach(mappings))
BY DEF Mapped, DocsOf, OneEntryEach, OnceEach

LEMMA PositionOf ==
  ASSUME mappings \in Seq(Entry), OnceEach(mappings), NEW d \in DocsOf(mappings)
  PROVE  /\ Position(d) \in 1 .. Len(mappings)
         /\ mappings[Position(d)].doc = d
         /\ \A i \in 1 .. Len(mappings) : mappings[i].doc = d => i = Position(d)
<1>1. \E i \in DOMAIN mappings : mappings[i].doc = d
  BY DEF DocsOf
<1>2. Position(d) \in DOMAIN mappings /\ mappings[Position(d)].doc = d
  BY <1>1 DEF Position
<1>. QED  BY <1>2 DEF OnceEach

\* Without takes the one entry of a document, and nothing else that a replay
\* of other documents would see.
LEMMA WithoutOne ==
  ASSUME mappings \in Seq(Entry), OnceEach(mappings), NEW d
  PROVE  /\ Without(d) \in Seq(Entry)
         /\ OnceEach(Without(d))
         /\ DocsOf(Without(d)) = DocsOf(mappings) \ {d}
         /\ \A docs : d \notin docs => Replay(Without(d), docs) = Replay(mappings, docs)
<1>1. Mapped = DocsOf(mappings)
  BY MappingsOnce
<1>2. CASE d \notin Mapped
  BY <1>1, <1>2 DEF Without
<1>3. CASE d \in Mapped
  <2>. DEFINE k == Position(d)
              r == RemoveAt(mappings, k)
              size == Len(mappings)
  <2>1. /\ k \in 1 .. size /\ mappings[k].doc = d /\ size \in Nat
        /\ \A i \in 1 .. size : mappings[i].doc = d => i = k
    BY <1>1, <1>3, PositionOf
  <2>2. Without(d) = r
    BY <1>3 DEF Without
  <2>. HIDE DEF k
  <2>3. /\ r \in Seq(Entry) /\ Len(r) = size - 1
        /\ \A i \in 1 .. size - 1 : r[i] = IF i < k THEN mappings[i] ELSE mappings[i + 1]
    BY <2>1, RemovedAt
  <2>4. \A docs : d \notin docs => Replay(r, docs) = Replay(mappings, docs)
    BY <2>1, ReplayRemove
  <2>. HIDE DEF r
  <2>5. OnceEach(r)
    <3>. SUFFICES ASSUME NEW i \in 1 .. Len(r), NEW j \in 1 .. Len(r), r[i].doc = r[j].doc
                  PROVE  i = j
      BY DEF OnceEach
    <3>. DEFINE at(n) == IF n < k THEN n ELSE n + 1
    <3>1. /\ at(i) \in 1 .. size /\ r[i] = mappings[at(i)]
          /\ at(j) \in 1 .. size /\ r[j] = mappings[at(j)]
      BY <2>1, <2>3
    <3>2. at(i) = at(j)
      <4>. HIDE DEF at
      <4>. QED  BY <3>1 DEF OnceEach
    <3>. QED  BY <2>1, <2>3, <3>2
  <2>6. DocsOf(r) \subseteq DocsOf(mappings) \ {d}
    <3>. SUFFICES ASSUME NEW i \in 1 .. Len(r)
                  PROVE  r[i].doc \in DocsOf(mappings) /\ r[i].doc # d
      BY DEF DocsOf
    <3>. DEFINE j == IF i < k THEN i ELSE i + 1
    <3>1. j \in 1 .. size /\ r[i] = mappings[j] /\ j # k
      BY <2>1, <2>3
    <3>. HIDE DEF j
    <3>. QED  BY <2>1, <3>1 DEF DocsOf
  <2>7. DocsOf(mappings) \ {d} \subseteq DocsOf(r)
    <3>. SUFFICES ASSUME NEW i \in 1 .. size, mappings[i].doc # d
                  PROVE  mappings[i].doc \in DocsOf(r)
      BY DEF DocsOf
    <3>. DEFINE j == IF i < k THEN i ELSE i - 1
    <3>1. i # k
      BY <2>1
    <3>2. j \in 1 .. Len(r) /\ r[j] = mappings[i]
      BY <2>1, <2>3, <3>1
    <3>. HIDE DEF j
    <3>. QED  BY <3>2 DEF DocsOf
  <2>. QED  BY <2>2, <2>3, <2>4, <2>5, <2>6, <2>7
<1>. QED  BY <1>2, <1>3

-----------------------------------------------------------------------------
(* Kinds of steps. *)

\* A step that leaves mappings and profile alone and opens no save: deleted
\* documents stay deleted, and what a sound profile knows is still right.
LEMMA QuietStep ==
  ASSUME LibraryInv, CacheInv, UNCHANGED <<mappings, profile>>,
         \A d \in Docs : state[d] = "gone" => state'[d] = "gone",
         req'.step # "save",
         req'.step = "apply" /\ profile.exists /\ trust' # "masked" => req'.doc \notin profile.key,
         trust' # "masked" => trust # "masked",
         profile.exists /\ trust' = "sound" => profile.key \cap Docs = Mapped \ InWork'
  PROVE  CacheInv'
<1>1. Mapped' = Mapped
  BY DEF Mapped
<1>2. OneEntryEach'
  BY DEF CacheInv, OneEntryEach
<1>3. AboutToSave'
  BY DEF AboutToSave, At
<1>4. KeyTellsParts'
  <2>. SUFFICES ASSUME profile.exists, trust' # "masked"
                PROVE  /\ \A d \in profile.key \cap Docs : d \in Mapped \/ state'[d] = "gone"
                       /\ req'.step = "apply" => req'.doc \notin profile.key
                       /\ profile.key \cap Docs \subseteq Mapped /\ ~profile.tangled =>
                            profile.parts = Replay(mappings, profile.key)
                       /\ trust' = "sound" => profile.key \cap Docs = Mapped \ InWork'
    BY <1>1 DEF KeyTellsParts, At
  <2>. QED  BY DEF CacheInv, KeyTellsParts
<1>. QED  BY <1>2, <1>3, <1>4 DEF CacheInv

\* A fault ends the request, or leaves it where it may be behind.
LEMMA SuspectStep ==
  ASSUME LibraryInv, CacheInv, UNCHANGED <<state, mappings, profile>>, req'.step \in {"idle", "delete"},
         trust' \in {"dirty", "masked"}, trust' = "dirty" => trust # "masked"
  PROVE  CacheInv'
BY QuietStep

\* Without a profile only the mappings have to be right.
LEMMA NoProfileStep ==
  ASSUME ~profile'.exists, OneEntryEach', req'.step # "save"
  PROVE  CacheInv'
BY DEF CacheInv, AboutToSave, KeyTellsParts, At

\* What a writer of the profile has to show of its key and contents.
LEMMA CacheSaveStep ==
  ASSUME LibraryInv, CacheInv, UNCHANGED <<state, mappings>>,
         NEW parts, NEW tangled, NEW github, NEW key, Save(parts, tangled, github, key),
         req'.step # "save",
         req'.step = "apply" => req'.doc \notin key,
         trust = "sound" => key \cap Docs = Mapped \ InWork',
         trust = "sound" /\ ~tangled => parts = Replay(mappings, key)
  PROVE  CacheInv'
<1>1. /\ profile'.key = key /\ profile'.parts = parts /\ profile'.tangled = tangled
      /\ trust' = IF trust = "dirty" THEN "masked" ELSE trust
  BY DEF Save
<1>2. Mapped' = Mapped
  BY DEF Mapped
<1>3. OneEntryEach' /\ AboutToSave'
  BY DEF CacheInv, OneEntryEach, AboutToSave, At
<1>4. trust' # "masked" => trust = "sound"
  BY <1>1 DEF LibraryInv, TypeOK
<1>5. KeyTellsParts'
  BY <1>1, <1>2, <1>4 DEF KeyTellsParts, At
<1>. QED  BY <1>3, <1>5 DEF CacheInv

\* A sound profile where no request is at work on a document.
LEMMA SoundContents ==
  ASSUME LibraryInv, CacheInv, profile.exists, trust = "sound"
  PROVE  /\ profile.key \cap Docs = Mapped \ InWork
         /\ ~profile.tangled => profile.parts = Replay(mappings, profile.key)
BY DEF LibraryInv, CacheInv, KeyTellsParts

\* Two keys with the same documents among the mapped ones.
LEMMA SameReplay ==
  ASSUME mappings \in Seq(Entry), NEW docs, NEW others,
         docs \cap Mapped = others \cap Mapped
  PROVE  Replay(mappings, docs) = Replay(mappings, others)
<1>1. ASSUME NEW n \in 1 .. Len(mappings)  PROVE mappings[n].doc \in Mapped
  BY DEF Mapped
<1>2. ASSUME NEW n \in 1 .. Len(mappings)
      PROVE  mappings[n].doc \in docs <=> mappings[n].doc \in others
  BY <1>1
<1>. QED  BY <1>2, ReplaySameDocs

-----------------------------------------------------------------------------
(* Upload, deletion and remap. *)

LEMMA CacheUploadDoc ==
  ASSUME LibraryInv, CacheInv, NEW d \in Docs, UploadDoc(d)
  PROVE  CacheInv'
<1>1. req.step = "idle" /\ UNCHANGED <<mappings, profile, req, trust>>
  BY DEF UploadDoc, At
<1>2. \A e \in Docs : state[e] = "gone" => state'[e] = "gone"
  BY DEF LibraryInv, TypeOK, UploadDoc, Ids
<1>3. InWork' = InWork
  BY <1>1 DEF InWork
<1>. QED  BY <1>1, <1>2, <1>3, SoundContents, QuietStep

LEMMA CacheUploadCv ==
  ASSUME LibraryInv, CacheInv, NEW c \in Cvs, UploadCv(c)
  PROVE  CacheInv'
<1>1. req.step = "idle" /\ UNCHANGED <<mappings, profile, trust>>
  BY DEF UploadCv, At
<1>2. req'.step \in {"idle", "drop_profile"}
  BY <1>1 DEF LibraryInv, TypeOK, Requests, UploadCv, Goto
<1>3. \A e \in Docs : state[e] = "gone" => state'[e] = "gone"
  BY LibraryAssumption DEF UploadCv, Stored, Ids
<1>4. InWork' = {} /\ InWork = {}
  BY <1>1, <1>2 DEF InWork
<1>. QED  BY <1>1, <1>2, <1>3, <1>4, SoundContents, QuietStep

LEMMA CacheDropOldProfile ==
  ASSUME LibraryInv, CacheInv, DropOldProfile
  PROVE  CacheInv'
<1>1. ~profile'.exists /\ UNCHANGED mappings
  BY DEF DropOldProfile, DropProfile, NoProfile
<1>2. req'.step = "reset_mappings"
  BY DEF LibraryInv, TypeOK, Requests, DropOldProfile, Goto
<1>. QED  BY <1>1, <1>2, NoProfileStep DEF CacheInv, OneEntryEach

LEMMA CacheResetMappings ==
  ASSUME LibraryInv, CacheInv, ResetMappings
  PROVE  CacheInv'
<1>1. ~profile'.exists
  BY DEF LibraryInv, RequestOK, ResetMappings
<1>2. OneEntryEach'
  BY DEF OneEntryEach, ResetMappings
<1>. QED  BY <1>1, <1>2, DoneOK, NoProfileStep DEF ResetMappings

LEMMA CacheDeleteCv ==
  ASSUME LibraryInv, CacheInv, NEW c \in Cvs, DeleteCv(c)
  PROVE  CacheInv'
<1>1. ~profile'.exists /\ UNCHANGED mappings /\ req'.step = "delete"
  BY BeginOK DEF DeleteCv, DropProfile, NoProfile, Ids
<1>. QED  BY <1>1, NoProfileStep DEF CacheInv, OneEntryEach

\* Reverting a mapped document takes it out of the key and, unless it is
\* entangled, out of the contents; an unmapped one is in neither.
LEMMA CacheRevert ==
  ASSUME LibraryInv, CacheInv, At("idle"), NEW d \in Stored(Docs), Revert(d),
         UNCHANGED <<state, mappings>>,
         req'.step \in {"delete", "apply"}, req'.doc = d
  PROVE  CacheInv'
<1>1. req.step = "idle" /\ d \in Docs
  BY DEF At, Stored
<1>2. InWork' = {d} /\ InWork = {}
  BY <1>1 DEF InWork
<1>3. mappings \in Seq(Entry) /\ OnceEach(mappings) /\ Mapped = DocsOf(mappings)
  BY MappingsOnce DEF LibraryInv, TypeOK, CacheInv
<1>4. CASE d \in Mapped /\ profile.exists
  <2>. DEFINE parts == Unmapped(d)
              tangled == profile.tangled \/ Entangled(d)
              key == CurrentIds \ {d}
  <2>1. Save(parts, tangled, profile.github, key)
    BY <1>4 DEF Revert
  <2>2. CurrentIds \cap Docs = Mapped /\ Mapped \subseteq Docs
    BY CurrentDocs, MappedDocs DEF LibraryInv, TypeOK
  <2>3. key \cap Docs = Mapped \ {d} /\ d \notin key
    BY <2>2
  <2>4. ASSUME trust = "sound", ~tangled
        PROVE  parts = Replay(mappings, key)
    <3>1. /\ profile.key \cap Docs = Mapped /\ d \in profile.key
          /\ profile.parts = Replay(mappings, profile.key)
      BY <1>2, <1>4, <2>2, <2>4, SoundContents
    <3>2. /\ Position(d) \in 1 .. Len(mappings)
          /\ mappings[Position(d)].doc = d
          /\ \A i \in 1 .. Len(mappings) : mappings[i].doc = d => i = Position(d)
      BY <1>3, <1>4, PositionOf
    <3>3. ~Repeats(mappings, profile.key, EntryOf(d)) /\ ~Displaces(mappings, profile.key, Position(d))
      BY <2>4 DEF Entangled
    <3>4. parts = Replay(mappings, profile.key \ {d})
      <4>. DEFINE k == Position(d)
      <4>1. EntryOf(d) = mappings[k]
        BY DEF EntryOf
      <4>. HIDE DEF k
      <4>2. Reverted(Replay(mappings, profile.key), mappings[k].doc, mappings[k].rows, mappings[k].adds)
              = Replay(mappings, profile.key \ {mappings[k].doc})
        BY <1>3, <3>1, <3>2, <3>3, <4>1, RevertReplay DEF k
      <4>. QED  BY <3>1, <3>2, <4>1, <4>2 DEF Unmapped, k
    <3>5. (profile.key \ {d}) \cap Mapped = key \cap Mapped
      BY <2>2, <3>1
    <3>. HIDE DEF key
    <3>6. Replay(mappings, profile.key \ {d}) = Replay(mappings, key)
      BY <1>3, <3>5, SameReplay
    <3>. QED  BY <3>4, <3>6
  <2>. HIDE DEF parts, tangled, key
  <2>. QED  BY <1>1, <1>2, <2>1, <2>3, <2>4, CacheSaveStep
<1>5. CASE ~(d \in Mapped /\ profile.exists)
  <2>1. UNCHANGED <<profile, trust>>
    BY <1>5 DEF Revert
  <2>2. profile.exists /\ trust # "masked" => d \notin profile.key
    <3>1. state[d] # "gone"
      BY DEF Stored
    <3>. QED  BY <1>1, <1>5, <3>1 DEF CacheInv, KeyTellsParts
  <2>3. profile.exists /\ trust = "sound" => profile.key \cap Docs = Mapped \ {d}
    BY <1>2, <1>5, SoundContents
  <2>. QED  BY <1>1, <1>2, <2>1, <2>2, <2>3, QuietStep
<1>. QED  BY <1>4, <1>5

LEMMA CacheDeleteDoc ==
  ASSUME LibraryInv, CacheInv, NEW d \in Docs, DeleteDoc(d)
  PROVE  CacheInv'
<1>1. req'.step = "delete" /\ req'.doc = d
  BY BeginOK DEF DeleteDoc, Ids
<1>. QED  BY <1>1, CacheRevert DEF DeleteDoc

LEMMA CacheRemap ==
  ASSUME LibraryInv, CacheInv, NEW d \in Docs, NEW rows \in Answers, NEW x \in Payloads,
         Remap(d, rows, x)
  PROVE  CacheInv'
<1>1. req'.step = "apply" /\ req'.doc = d
  BY AnswerOK DEF Remap
<1>. QED  BY <1>1, CacheRevert DEF Remap

LEMMA CacheDeleteUnreverted ==
  ASSUME LibraryInv, CacheInv, NEW d \in Docs, DeleteUnreverted(d)
  PROVE  CacheInv'
<1>1. req'.step = "delete" /\ UNCHANGED <<state, mappings, profile>>
  BY BeginOK DEF DeleteUnreverted, Ids
<1>2. trust' \in {"dirty", "masked"} /\ (trust' = "dirty" => trust # "masked")
  BY DamageStep DEF DeleteUnreverted
<1>. QED  BY <1>1, <1>2, SuspectStep

LEMMA CacheDeleteRepo ==
  ASSUME LibraryInv, CacheInv, NEW u \in Repos, DeleteRepo(u)
  PROVE  CacheInv'
<1>1. /\ req.step = "idle" /\ req'.step = "delete" /\ req'.doc = u
      /\ UNCHANGED <<state, mappings, profile, trust>>
  BY BeginOK DEF DeleteRepo, At, Ids
<1>2. InWork' = {u} /\ InWork = {} /\ u \notin Docs
  BY <1>1, LibraryAssumption DEF InWork
<1>3. Mapped \subseteq Docs
  BY MappedDocs DEF LibraryInv, TypeOK
<1>. QED  BY <1>1, <1>2, <1>3, SoundContents, QuietStep

\* The row goes with its mapping: the document is gone for good, so a key that
\* still names it is never current again.
LEMMA CacheDeleteRow ==
  ASSUME LibraryInv, CacheInv, DeleteRow
  PROVE  CacheInv'
<1>. DEFINE d == req.doc
<1>1. /\ req.step = "delete" /\ d \in Ids /\ UNCHANGED <<profile, trust>>
      /\ state' = [state EXCEPT ![d] = "gone"] /\ mappings' = Without(d)
  BY DEF DeleteRow, At, LibraryInv, RequestOK
<1>2. req'.step \in {"idle", "fold"}
  <2>1. CASE req.doc \in Repos
    BY <2>1 DEF LibraryInv, TypeOK, Requests, DeleteRow, Goto
  <2>2. CASE req.doc \notin Repos
    BY <2>2, DoneOK DEF DeleteRow
  <2>. QED  BY <2>1, <2>2
<1>3. InWork = {d} /\ InWork' = {}
  BY <1>1, <1>2 DEF InWork
<1>. HIDE DEF d
<1>4. mappings \in Seq(Entry) /\ OnceEach(mappings) /\ Mapped = DocsOf(mappings)
  BY MappingsOnce DEF LibraryInv, TypeOK, CacheInv
<1>5. /\ mappings' \in Seq(Entry) /\ OnceEach(mappings') /\ DocsOf(mappings') = DocsOf(mappings) \ {d}
      /\ \A docs : d \notin docs => Replay(mappings', docs) = Replay(mappings, docs)
  BY <1>1, <1>4, WithoutOne
<1>6. Mapped' = Mapped \ {d} /\ OneEntryEach'
  <2>1. DOMAIN mappings' = 1 .. Len(mappings')
    BY <1>5
  <2>2. Mapped' = DocsOf(mappings')
    BY <2>1 DEF Mapped, DocsOf
  <2>3. OneEntryEach'
    BY <1>5, <2>1 DEF OneEntryEach, OnceEach
  <2>. QED  BY <1>4, <1>5, <2>2, <2>3
<1>7. AboutToSave'
  BY <1>2 DEF AboutToSave, At
<1>8. KeyTellsParts'
  <2>. SUFFICES ASSUME profile.exists, trust # "masked"
                PROVE  /\ \A e \in profile.key \cap Docs : e \in Mapped \ {d} \/ state'[e] = "gone"
                       /\ profile.key \cap Docs \subseteq Mapped \ {d} /\ ~profile.tangled =>
                            profile.parts = Replay(mappings', profile.key)
                       /\ trust = "sound" => profile.key \cap Docs = Mapped \ {d}
    BY <1>1, <1>2, <1>3, <1>6 DEF KeyTellsParts, At
  <2>1. ASSUME NEW e \in profile.key \cap Docs  PROVE e \in Mapped \ {d} \/ state'[e] = "gone"
    <3>1. e \in Mapped \/ state[e] = "gone"
      BY DEF CacheInv, KeyTellsParts
    <3>2. state \in [Ids -> {"new", "half", "full", "gone"}] /\ e \in Ids
      BY DEF LibraryInv, TypeOK, Ids
    <3>. QED  BY <1>1, <3>1, <3>2
  <2>2. ASSUME profile.key \cap Docs \subseteq Mapped \ {d}, ~profile.tangled
        PROVE  profile.parts = Replay(mappings', profile.key)
    <3>1. profile.parts = Replay(mappings, profile.key)
      BY <2>2 DEF CacheInv, KeyTellsParts
    <3>2. CASE d \notin profile.key
      BY <1>5, <3>1, <3>2
    <3>3. CASE d \notin Docs
      <4>1. d \notin Mapped
        BY <1>4, <3>3, MappedDocs
      <4>2. mappings' = mappings
        BY <1>1, <4>1 DEF Without
      <4>. QED  BY <3>1, <4>2
    <3>. QED  BY <2>2, <3>2, <3>3
  <2>3. trust = "sound" => profile.key \cap Docs = Mapped \ {d}
    BY <1>3, SoundContents
  <2>. QED  BY <2>1, <2>2, <2>3
<1>. QED  BY <1>6, <1>7, <1>8 DEF CacheInv

-----------------------------------------------------------------------------
(* Mappings. *)

\* A document that is stored and not mapped is in no key that can be trusted.
LEMMA CacheConfirm ==
  ASSUME LibraryInv, CacheInv, NEW d \in Docs, NEW rows \in Answers, NEW x \in Payloads,
         Confirm(d, rows, x)
  PROVE  CacheInv'
<1>1. /\ req.step = "idle" /\ req'.step = "apply" /\ req'.doc = d
      /\ UNCHANGED <<state, mappings, profile, trust>>
      /\ d \notin Mapped /\ state[d] # "gone"
  BY AnswerOK DEF Confirm, At, Stored
<1>2. InWork' = {d} /\ InWork = {}
  BY <1>1 DEF InWork
<1>3. profile.exists /\ trust # "masked" => d \notin profile.key
  BY <1>1 DEF CacheInv, KeyTellsParts
<1>. QED  BY <1>1, <1>2, <1>3, SoundContents, QuietStep

LEMMA CacheRemapUnreverted ==
  ASSUME LibraryInv, CacheInv, NEW d \in Docs, NEW rows \in Answers, NEW x \in Payloads,
         RemapUnreverted(d, rows, x)
  PROVE  CacheInv'
<1>1. req'.step = "apply" /\ trust' = "masked" /\ UNCHANGED <<state, mappings, profile>>
  BY AnswerOK DEF RemapUnreverted
<1>. QED  BY <1>1, QuietStep

LEMMA CacheApplyWithoutProfile ==
  ASSUME LibraryInv, CacheInv, ApplyWithoutProfile
  PROVE  CacheInv'
BY DoneOK, NoProfileStep DEF ApplyWithoutProfile, CacheInv, OneEntryEach

\* The rows are there before the profile has them: the key does not name their
\* document yet.
LEMMA CacheApply ==
  ASSUME LibraryInv, CacheInv, Apply
  PROVE  CacheInv'
<1>. DEFINE d == req.doc
            m == [doc |-> req.doc, rows |-> req.rows, adds |-> req.adds, for |-> profile.cv]
            w == Without(d)
<1>1. /\ req.step = "apply" /\ d \in Docs /\ profile.exists
      /\ req.rows \in SUBSET RowKinds /\ req.adds \in Extracted /\ profile.cv \in Cvs
      /\ Fits(profile.parts, req.rows) /\ UNCHANGED <<state, profile, trust>>
  BY DEF LibraryInv, TypeOK, Requests, RequestOK, KeyNamesSources, Apply, At
<1>2. req'.step = "save" /\ req'.doc = d /\ req'.rows = req.rows /\ req'.adds = req.adds
  BY DEF LibraryInv, TypeOK, Requests, Apply, Goto
<1>3. m \in Entry /\ m.doc = d /\ m.rows = req.rows /\ m.adds = req.adds
  BY <1>1 DEF Entry
<1>4. mappings' = Append(w, m)
  BY DEF Apply
<1>5. InWork = {d} /\ InWork' = {d}
  BY <1>1, <1>2 DEF InWork
<1>. HIDE DEF d, m
<1>6. mappings \in Seq(Entry) /\ OnceEach(mappings) /\ Mapped = DocsOf(mappings)
  BY MappingsOnce DEF LibraryInv, TypeOK, CacheInv
<1>7. /\ w \in Seq(Entry) /\ OnceEach(w) /\ DocsOf(w) = Mapped \ {d}
      /\ \A docs : d \notin docs => Replay(w, docs) = Replay(mappings, docs)
  BY <1>6, WithoutOne
<1>. HIDE DEF w
<1>8. /\ Len(mappings') = Len(w) + 1 /\ Len(w) \in Nat /\ mappings'[Len(w) + 1] = m
      /\ DOMAIN mappings' = 1 .. Len(w) + 1
      /\ \A i \in 1 .. Len(w) : mappings'[i] = w[i]
  BY <1>3, <1>4, <1>7
<1>9. \A i \in 1 .. Len(w) : w[i].doc # d
  BY <1>7 DEF DocsOf
<1>10. OneEntryEach'
  <2>. SUFFICES ASSUME NEW i \in 1 .. Len(w) + 1, NEW k \in 1 .. Len(w) + 1,
                       mappings'[i].doc = mappings'[k].doc
                PROVE  i = k
    BY <1>8 DEF OneEntryEach
  <2>1. CASE i <= Len(w) /\ k <= Len(w)
    BY <1>7, <1>8, <2>1 DEF OnceEach
  <2>2. CASE i = Len(w) + 1 \/ k = Len(w) + 1
    BY <1>3, <1>8, <1>9, <2>2
  <2>. QED  BY <1>8, <2>1, <2>2
<1>11. Mapped' = Mapped \cup {d}
  <2>1. Mapped' = {mappings'[i].doc : i \in 1 .. Len(w) + 1}
    BY <1>8 DEF Mapped
  <2>2. Mapped' \subseteq DocsOf(w) \cup {d}
    BY <1>3, <1>8, <2>1 DEF DocsOf
  <2>3. ASSUME NEW i \in 1 .. Len(w)  PROVE w[i].doc \in Mapped'
    BY <1>8, <2>1
  <2>4. d \in Mapped'
    BY <1>3, <1>8, <2>1
  <2>. QED  BY <1>7, <2>2, <2>3, <2>4 DEF DocsOf
<1>12. AboutToSave'
  <2>1. mappings' # <<>>
    BY <1>8
  <2>. QED  BY <1>1, <1>2, <1>3, <1>8, <2>1 DEF AboutToSave
<1>13. KeyTellsParts'
  <2>. SUFFICES ASSUME trust # "masked"
                PROVE  /\ \A e \in profile.key \cap Docs : e \in Mapped \cup {d} \/ state[e] = "gone"
                       /\ d \notin profile.key
                       /\ profile.key \cap Docs \subseteq Mapped \cup {d} /\ ~profile.tangled =>
                            profile.parts = Replay(mappings', profile.key)
                       /\ trust = "sound" => profile.key \cap Docs = (Mapped \cup {d}) \ {d}
    BY <1>1, <1>2, <1>5, <1>11 DEF KeyTellsParts
  <2>1. /\ \A e \in profile.key \cap Docs : e \in Mapped \/ state[e] = "gone"
        /\ d \notin profile.key
        /\ profile.key \cap Docs \subseteq Mapped /\ ~profile.tangled =>
             profile.parts = Replay(mappings, profile.key)
        /\ trust = "sound" => profile.key \cap Docs = Mapped \ {d}
    BY <1>1, <1>5 DEF CacheInv, KeyTellsParts, At, d
  <2>2. Replay(mappings', profile.key) = Replay(w, profile.key)
    <3>1. Replay(Append(w, m), profile.key) = Reapplied(Replay(w, profile.key), m, profile.key)
      BY <1>3, <1>7, ReplayAppend
    <3>. QED  BY <1>3, <1>4, <2>1, <3>1 DEF Reapplied
  <2>3. Replay(w, profile.key) = Replay(mappings, profile.key)
    BY <1>7, <2>1
  <2>. QED  BY <2>1, <2>2, <2>3
<1>. QED  BY <1>10, <1>12, <1>13 DEF CacheInv

\* The profile gets what the last entry adds, under a key that now names it.
LEMMA CacheSaveApplied ==
  ASSUME LibraryInv, CacheInv, SaveApplied
  PROVE  CacheInv'
<1>. DEFINE d == req.doc
            parts == Applied(profile.parts, d, req.rows, req.adds)
            key == CurrentIds
<1>1. req.step = "save" /\ d \in Docs /\ profile.exists
  BY DEF LibraryInv, RequestOK, SaveApplied, At
<1>2. /\ Save(parts, profile.tangled, profile.github, key) /\ UNCHANGED <<state, mappings>>
      /\ req'.step = "idle"
  BY DoneOK DEF SaveApplied
<1>3. InWork = {d} /\ InWork' = {}
  BY <1>1, <1>2 DEF InWork
<1>4. /\ mappings # <<>> /\ mappings[Len(mappings)].doc = d
      /\ mappings[Len(mappings)].rows = req.rows /\ mappings[Len(mappings)].adds = req.adds
      /\ Fits(profile.parts, req.rows)
  BY <1>1 DEF CacheInv, AboutToSave, At
<1>. HIDE DEF d
<1>5. mappings \in Seq(Entry) /\ OnceEach(mappings) /\ Mapped = DocsOf(mappings)
  BY MappingsOnce DEF LibraryInv, TypeOK, CacheInv
<1>6. key \cap Docs = Mapped /\ Mapped \subseteq Docs
  BY CurrentDocs, MappedDocs DEF LibraryInv, TypeOK
<1>7. ASSUME trust = "sound", ~profile.tangled  PROVE parts = Replay(mappings, key)
  <2>. DEFINE m == mappings[Len(mappings)]
              front == SubSeq(mappings, 1, Len(mappings) - 1)
  <2>1. /\ front \in Seq(Entry) /\ m \in Entry /\ mappings = Append(front, m)
        /\ Len(mappings) = Len(front) + 1 /\ Len(front) \in Nat
        /\ \A i \in 1 .. Len(front) : front[i] = mappings[i]
    <3>1. Len(mappings) \in Nat \ {0}
      BY <1>4, <1>5
    <3>2. /\ front \in Seq(Entry) /\ Len(front) = Len(mappings) - 1
          /\ \A i \in 1 .. Len(mappings) - 1 : front[i] = mappings[i]
      <4>. DEFINE n == Len(mappings) - 1
      <4>1. n \in 0 .. Len(mappings)
        BY <3>1
      <4>. HIDE DEF n
      <4>2. /\ SubSeq(mappings, 1, n) \in Seq(Entry) /\ Len(SubSeq(mappings, 1, n)) = n
            /\ \A i \in 1 .. n : SubSeq(mappings, 1, n)[i] = mappings[i]
        BY <1>5, <4>1, Prefix
      <4>. QED  BY <4>2 DEF n
    <3>3. m \in Entry
      BY <1>5, <3>1
    <3>. HIDE DEF front
    <3>4. mappings = Append(front, m)
      BY <1>5, <3>1, <3>2, <3>3
    <3>. QED  BY <3>1, <3>2, <3>3, <3>4
  <2>2. profile.key \cap Docs = Mapped \ {d} /\ profile.parts = Replay(mappings, profile.key)
    BY <1>1, <1>3, <1>7, SoundContents
  <2>3. m.doc = d /\ m.rows = req.rows /\ m.adds = req.adds /\ d \in Docs
    BY <1>1, <1>4
  <2>. HIDE DEF m, front
  <2>4. Replay(mappings, profile.key) = Replay(front, profile.key)
    <3>1. Replay(Append(front, m), profile.key)
            = Reapplied(Replay(front, profile.key), m, profile.key)
      BY <2>1, ReplayAppend
    <3>2. d \notin profile.key
      BY <2>2, <2>3
    <3>. QED  BY <2>1, <2>3, <3>1, <3>2 DEF Reapplied
  <2>5. Replay(front, profile.key) = Replay(front, key)
    <3>1. ASSUME NEW i \in 1 .. Len(front)
          PROVE  front[i].doc \in profile.key <=> front[i].doc \in key
      <4>1. front[i].doc \in Mapped
        BY <1>5, <2>1 DEF DocsOf
      <4>2. front[i].doc # d
        <5>1. i \in 1 .. Len(mappings) /\ Len(mappings) \in 1 .. Len(mappings) /\ i # Len(mappings)
          BY <2>1
        <5>2. mappings[i].doc # mappings[Len(mappings)].doc
          BY <1>5, <5>1 DEF OnceEach
        <5>. QED  BY <1>4, <2>1, <5>2
      <4>. QED  BY <1>6, <2>2, <4>1, <4>2
    <3>. HIDE DEF key
    <3>. QED  BY <2>1, <3>1, ReplaySameDocs
  <2>6. Replay(Append(front, m), key) = Reapplied(Replay(front, key), m, key)
    BY <2>1, ReplayAppend
  <2>7. d \in key
    <3>1. Len(mappings) \in 1 .. Len(mappings)
      BY <2>1
    <3>. QED  BY <1>4, <1>5, <1>6, <3>1 DEF DocsOf
  <2>8. Replay(front, key) = profile.parts
    BY <2>2, <2>4, <2>5
  <2>. QED  BY <1>4, <2>1, <2>3, <2>6, <2>7, <2>8 DEF Reapplied
<1>. HIDE DEF parts, key
<1>. QED  BY <1>2, <1>3, <1>6, <1>7, CacheSaveStep

\* Misfit, FoldFails, FetchFails and Crash: a fault ends the request.
LEMMA CacheEnded ==
  ASSUME LibraryInv, CacheInv, Done, UNCHANGED <<state, mappings, profile>>,
         trust' \in {"dirty", "masked"}, trust' = "dirty" => trust # "masked"
  PROVE  CacheInv'
BY DoneOK, SuspectStep

LEMMA CacheMisfit ==
  ASSUME LibraryInv, CacheInv, Misfit
  PROVE  CacheInv'
<1>1. trust' \in {"dirty", "masked"} /\ (trust' = "dirty" => trust # "masked")
  <2>1. CASE Damage("misfit")
    BY <2>1, DamageStep
  <2>2. CASE Damaged
    BY <2>2 DEF LibraryInv, TypeOK, Damaged
  <2>. QED  BY <2>1, <2>2 DEF Misfit
<1>. QED  BY <1>1, CacheEnded DEF Misfit

LEMMA CacheFailed ==
  ASSUME LibraryInv, CacheInv, FoldFails \/ FetchFails \/ Crash
  PROVE  CacheInv'
<1>1. PICK kind \in {"fold", "fetch", "crash"} : Damage(kind)
  BY DEF FoldFails, FetchFails, Crash
<1>2. trust' \in {"dirty", "masked"} /\ (trust' = "dirty" => trust # "masked")
  BY <1>1, DamageStep
<1>. QED  BY <1>2, CacheEnded DEF FoldFails, FetchFails, Crash

-----------------------------------------------------------------------------
(* Repositories and prep. *)

LEMMA CacheFold ==
  ASSUME LibraryInv, CacheInv, Fold
  PROVE  CacheInv'
<1>1. req.step = "fold" /\ req'.step = "idle" /\ UNCHANGED <<state, mappings>>
  BY DoneOK DEF Fold, At
<1>2. InWork = {} /\ InWork' = {}
  BY <1>1 DEF InWork
<1>3. CASE profile.exists
  <2>1. Save(profile.parts, profile.tangled, Full, CurrentIds)
    BY <1>3 DEF Fold
  <2>2. CurrentIds \cap Docs = Mapped /\ Mapped \subseteq Docs /\ mappings \in Seq(Entry)
    BY CurrentDocs, MappedDocs DEF LibraryInv, TypeOK
  <2>3. ASSUME trust = "sound", ~profile.tangled  PROVE profile.parts = Replay(mappings, CurrentIds)
    <3>1. profile.key \cap Docs = Mapped /\ profile.parts = Replay(mappings, profile.key)
      BY <1>2, <1>3, <2>3, SoundContents
    <3>. QED  BY <2>2, <3>1, SameReplay
  <2>. QED  BY <1>1, <1>2, <2>1, <2>2, <2>3, CacheSaveStep
<1>4. CASE ~profile.exists
  <2>1. ~profile'.exists /\ OneEntryEach'
    BY <1>1, <1>4 DEF Fold, CacheInv, OneEntryEach
  <2>. QED  BY <1>1, <2>1, NoProfileStep
<1>. QED  BY <1>3, <1>4

\* Manage selection and ingestion touch repositories alone.
LEMMA CacheManage ==
  ASSUME LibraryInv, CacheInv, UNCHANGED <<mappings, profile, trust>>,
         req.step \in {"idle", "list", "ingest", "extract"},
         req'.step \in {"list", "ingest", "extract", "fold"},
         \A d \in Docs : state'[d] = state[d]
  PROVE  CacheInv'
<1>1. InWork = {} /\ InWork' = {}
  BY DEF InWork
<1>. QED  BY <1>1, SoundContents, QuietStep

LEMMA CacheSelectRepos ==
  ASSUME LibraryInv, CacheInv, NEW keep, NEW add, SelectRepos(keep, add)
  PROVE  CacheInv'
<1>1. req.step = "idle" /\ req'.step \in {"list", "fold"}
  BY DEF SelectRepos, Idle, At
<1>2. \A d \in Docs : state'[d] = state[d]
  BY LibraryAssumption DEF SelectRepos, Stored, Ids
<1>. QED  BY <1>1, <1>2, CacheManage DEF SelectRepos

LEMMA CacheListRepos ==
  ASSUME LibraryInv, CacheInv, ListRepos
  PROVE  CacheInv'
<1>1. req.step = "list" /\ req'.step = "ingest"
  BY DEF ListRepos, Goto, At, LibraryInv, TypeOK, Requests
<1>. QED  BY <1>1, CacheManage DEF ListRepos

LEMMA CacheIngestRow ==
  ASSUME LibraryInv, CacheInv, NEW u \in Repos, IngestRow(u)
  PROVE  CacheInv'
<1>1. req.step = "ingest" /\ req'.step = "extract"
  BY DEF IngestRow, At, LibraryInv, TypeOK
<1>2. \A d \in Docs : state'[d] = state[d]
  BY LibraryAssumption DEF IngestRow, LibraryInv, TypeOK, Ids
<1>. QED  BY <1>1, <1>2, CacheManage DEF IngestRow

LEMMA CacheExtract ==
  ASSUME LibraryInv, CacheInv, Extract
  PROVE  CacheInv'
<1>1. req.step = "extract" /\ req'.step \in {"fold", "ingest"} /\ req.doc \in Repos
  BY DEF Extract, Goto, NextRepo, At, LibraryInv, TypeOK, Requests, RequestOK
<1>2. \A d \in Docs : state'[d] = state[d]
  BY <1>1, LibraryAssumption DEF Extract, LibraryInv, TypeOK, Ids
<1>. QED  BY <1>1, <1>2, CacheManage DEF Extract

LEMMA CacheIngestFails ==
  ASSUME LibraryInv, CacheInv, NEW u \in Repos, IngestFails(u)
  PROVE  CacheInv'
<1>1. req.step \in {"ingest", "extract"} /\ req'.step \in {"fold", "ingest"}
  BY DEF IngestFails, NextRepo, At, LibraryInv, TypeOK, Requests
<1>. QED  BY <1>1, CacheManage DEF IngestFails

\* A hit certifies what its key says; a miss is built from the rows.
LEMMA CacheBuild ==
  ASSUME LibraryInv, CacheInv, Build
  PROVE  CacheInv'
<1>1. req.step = "idle" /\ req'.step \in {"idle", "fold"} /\ UNCHANGED <<state, mappings>>
  BY DEF LibraryInv, TypeOK, Requests, Build, At, Goto
<1>2. InWork' = {}
  BY <1>1 DEF InWork
<1>3. CurrentIds \cap Docs = Mapped /\ Mapped \subseteq Docs /\ mappings \in Seq(Entry)
  BY CurrentDocs, MappedDocs DEF LibraryInv, TypeOK
<1>4. CASE Hit
  <2>1. UNCHANGED profile /\ trust' = IF trust = "dirty" THEN "sound" ELSE trust
    BY <1>4 DEF Build
  <2>2. profile.key \cap Docs = Mapped
    BY <1>3, <1>4 DEF Hit
  <2>. QED  BY <1>1, <1>2, <2>1, <2>2, QuietStep
<1>5. CASE ~Hit
  <2>1. profile'.key = CurrentIds /\ profile'.parts = Rebuilt
    BY <1>5 DEF Build
  <2>2. Rebuilt = Replay(mappings, CurrentIds)
    <3>1. Mapped \cap Mapped = CurrentIds \cap Mapped
      BY <1>3
    <3>. QED  BY <1>3, <3>1, SameReplay DEF Rebuilt
  <2>3. Mapped' = Mapped
    BY <1>1 DEF Mapped
  <2>4. KeyTellsParts'
    <3>. DEFINE key == CurrentIds
    <3>1. profile'.key = key /\ profile'.parts = Replay(mappings, key) /\ key \cap Docs = Mapped
      BY <1>3, <2>1, <2>2
    <3>. HIDE DEF key
    <3>. QED  BY <1>1, <1>2, <2>3, <3>1 DEF KeyTellsParts, At
  <2>5. OneEntryEach' /\ AboutToSave'
    BY <1>1 DEF CacheInv, OneEntryEach, AboutToSave, At
  <2>. QED  BY <2>4, <2>5 DEF CacheInv
<1>. QED  BY <1>4, <1>5

-----------------------------------------------------------------------------
(* Theorems. *)

LEMMA CacheInit == Init => CacheInv
BY DEF Init, CacheInv, OneEntryEach, AboutToSave, KeyTellsParts, NoProfile, Idle, At

LEMMA CacheNext ==
  ASSUME LibraryInv, CacheInv, [Next]_vars
  PROVE  CacheInv'
<1>1. CASE Upload
  BY <1>1, CacheUploadDoc, CacheUploadCv, CacheDropOldProfile, CacheResetMappings DEF Upload
<1>2. CASE Delete
  BY <1>2, CacheDeleteCv, CacheDeleteDoc, CacheDeleteUnreverted, CacheDeleteRepo, CacheDeleteRow
     DEF Delete
<1>3. CASE Map
  BY <1>3, CacheConfirm, CacheRemap, CacheRemapUnreverted, CacheApplyWithoutProfile, CacheApply,
     CacheSaveApplied, CacheMisfit DEF Map
<1>4. CASE Manage
  BY <1>4, CacheSelectRepos, CacheListRepos, CacheExtract, CacheFold, CacheIngestRow,
     CacheIngestFails, CacheFailed DEF Manage
<1>5. CASE Build
  BY <1>5, CacheBuild
<1>6. CASE Crash
  BY <1>6, CacheFailed
<1>7. CASE UNCHANGED vars
  <2>1. UNCHANGED <<state, mappings, profile, req, trust, Mapped, InWork>>
    BY <1>7 DEF vars, Mapped, InWork
  <2>. QED  BY <2>1 DEF CacheInv, OneEntryEach, AboutToSave, KeyTellsParts, At
<1>. QED  BY <1>1, <1>2, <1>3, <1>4, <1>5, <1>6, <1>7 DEF Next

\* The key of a profile that can be trusted says what is in it: the rows of the
\* documents it names, replayed in their order.
THEOREM KeyTellsContents == Spec => []CacheInv
<1>1. LibraryInv /\ CacheInv /\ LibraryInv' /\ [Next]_vars => CacheInv'
  BY CacheNext
<1>. QED  BY CacheInit, <1>1, LibraryInvariant, PTL DEF Spec

\* decide_profile_cache may reuse a profile with the current key: it is what
\* build_profile would make of the rows there are.
THEOREM ReusedIsRebuilt == Spec => []CachedIsRebuilt
<1>1. LibraryInv /\ CacheInv => CachedIsRebuilt
  <2>. SUFFICES ASSUME LibraryInv, CacheInv, Hit, trust # "masked", ~profile.tangled
                PROVE  profile.parts = Rebuilt
    BY DEF CachedIsRebuilt
  <2>1. CurrentIds \cap Docs = Mapped /\ Mapped \subseteq Docs /\ mappings \in Seq(Entry)
    BY CurrentDocs, MappedDocs DEF LibraryInv, TypeOK
  <2>2. profile.key = CurrentIds /\ profile.parts = Replay(mappings, profile.key)
    BY <2>1 DEF Hit, CacheInv, KeyTellsParts
  <2>3. profile.key \cap Mapped = Mapped \cap Mapped
    BY <2>1, <2>2
  <2>. QED  BY <2>1, <2>2, <2>3, SameReplay DEF Rebuilt
<1>. QED  BY <1>1, LibraryInvariant, KeyTellsContents, PTL
=============================================================================
