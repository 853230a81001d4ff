-------------------------- MODULE Embedding_proofs --------------------------
(***************************************************************************)
(* The inductive invariant of embedding, for any number of documents and   *)
(* overlapping attempts, and the properties that follow from it.           *)
(***************************************************************************)
EXTENDS Embedding, TLAPS

LEMMA SetOne ==
  ASSUME TypeOK, NEW a \in Attempts, NEW q \in Attempt, Set(a, q)
  PROVE  /\ att' \in [Attempts -> Attempt]
         /\ att'[a] = q
         /\ \A b \in Attempts \ {a} : att'[b] = att[b]
BY DEF TypeOK, Set

\* An attempt that moves to another step.
LEMMA GotoOne ==
  ASSUME TypeOK, NEW a \in Attempts, NEW step \in Steps, Goto(a, step)
  PROVE  /\ [att[a] EXCEPT !.at = step] \in Attempt
         /\ Set(a, [att[a] EXCEPT !.at = step])
         /\ att'[a].at = step /\ att'[a].kind = att[a].kind /\ att'[a].doc = att[a].doc
         /\ att'[a].text = att[a].text /\ att'[a].title = att[a].title
BY DEF TypeOK, Goto, Set, Attempt

LEMMA BegunAttempt ==
  ASSUME NEW step \in Steps, NEW kind \in Kinds, NEW d \in Docs \cup {None}
  PROVE  /\ Begun(step, kind, d) \in Attempt
         /\ Begun(step, kind, d).at = step
         /\ Begun(step, kind, d).kind = kind
         /\ Begun(step, kind, d).doc = d
BY EmbedAssumption DEF Begun, Attempt

LEMMA OverAttempt == Over \in Attempt /\ Over.at = "over" /\ Over.kind = "none"
BY BegunAttempt DEF Over, Steps, Kinds

LEMMA NewIsIdle ==
  ASSUME NEW a, att[a] = New
  PROVE  att[a].at = "new" /\ att[a].kind = "none"
BY DEF New, Begun

-----------------------------------------------------------------------------
(* The semaphore. *)

\* An attempt that neither joins nor leaves the line.
LEMMA SemaKept ==
  ASSUME TypeOK, SemaOK, NEW a \in Attempts, ahead' = ahead,
         \A b \in Attempts \ {a} : att'[b] = att[b],
         InLine(a)' <=> InLine(a), Holds(a)' => Holds(a)
  PROVE  SemaOK'
<1>1. \A b \in Attempts : (InLine(b)' <=> InLine(b)) /\ (Holds(b)' => Holds(b))
  BY DEF InLine, Holds
<1>2. ahead \in [Attempts -> SUBSET Attempts]
  BY DEF TypeOK
<1>. QED  BY <1>1, <1>2 DEF SemaOK

\* First come, first served: at most one attempt holds the slot, and the one
\* that enters finds it free.
LEMMA OneHolds ==
  ASSUME SemaOK, NEW a \in Attempts, NEW b \in Attempts, a # b, Holds(b)
  PROVE  /\ ~Holds(a)
         /\ ~(att[a].at = "wait" /\ ahead[a] = {})
BY DEF SemaOK, InLine

LEMMA SemaEnter ==
  ASSUME TypeOK, SemaOK, NEW a \in Attempts, Enter(a), att[a].kind # "backfill"
  PROVE  SemaOK'
<1>1. /\ att'[a].at = "load" /\ att'[a].kind = att[a].kind
      /\ \A b \in Attempts \ {a} : att'[b] = att[b]
      /\ ahead' = ahead /\ ahead[a] = {} /\ att[a].at = "wait"
  BY GotoOne, SetOne DEF Enter, Steps, Holding
<1>2. \A b \in Attempts : InLine(b)' <=> InLine(b)
  BY <1>1 DEF InLine, Holds, Holding
<1>3. \A b \in Attempts : Holds(b)' => Holds(b) \/ b = a
  BY <1>1 DEF Holds
<1>4. ahead \in [Attempts -> SUBSET Attempts]
  BY DEF TypeOK
<1>. QED  BY <1>1, <1>2, <1>3, <1>4 DEF SemaOK

LEMMA SemaJoin ==
  ASSUME TypeOK, SemaOK, NEW a \in Attempts, Join(a), ~InLine(a), att'[a].at = "wait",
         \A b \in Attempts \ {a} : att'[b] = att[b]
  PROVE  SemaOK' /\ ahead' \in [Attempts -> SUBSET Attempts]
<1>1. /\ ahead \in [Attempts -> SUBSET Attempts]
      /\ ahead' \in [Attempts -> SUBSET Attempts]
      /\ ahead'[a] = {b \in Attempts : InLine(b)}
      /\ \A b \in Attempts \ {a} : ahead'[b] = ahead[b]
  BY DEF TypeOK, Join
<1>2. \A b \in Attempts \ {a} : (InLine(b)' <=> InLine(b)) /\ (Holds(b)' <=> Holds(b))
  BY DEF InLine, Holds
<1>3. InLine(a)' /\ ~Holds(a)'
  BY DEF InLine, Holds, Holding
<1>. QED  BY <1>1, <1>2, <1>3 DEF SemaOK

LEMMA SemaLeave ==
  ASSUME TypeOK, SemaOK, NEW a \in Attempts, Leave(a), ~InLine(a)',
         \A b \in Attempts \ {a} : att'[b] = att[b]
  PROVE  SemaOK' /\ ahead' \in [Attempts -> SUBSET Attempts]
<1>1. /\ ahead \in [Attempts -> SUBSET Attempts]
      /\ ahead' \in [Attempts -> SUBSET Attempts]
      /\ ahead'[a] = {}
      /\ \A b \in Attempts \ {a} : ahead'[b] = ahead[b] \ {a}
  BY DEF TypeOK, Leave
<1>2. \A b \in Attempts \ {a} : (InLine(b)' <=> InLine(b)) /\ (Holds(b)' <=> Holds(b))
  BY DEF InLine, Holds
<1>3. ~Holds(a)'
  BY DEF InLine
<1>4. \A b \in Attempts : \A c \in ahead'[b] : InLine(c)'
  BY <1>1, <1>2 DEF SemaOK
<1>. QED  BY <1>1, <1>2, <1>3, <1>4 DEF SemaOK

-----------------------------------------------------------------------------
(* A step of one attempt that leaves the documents and their chunks alone. *)

\* What the attempt still has to do is not lost without an excuse.
KeepsItsWork(a) ==
  \A d \in Docs \ excused' :
    /\ Toward(a, d) => Toward(a, d)'
    /\ att[a].at = "wait" /\ att[a].doc = d => (att[a].at = "wait" /\ att[a].doc = d)'

LEMMA LoadedKept ==
  ASSUME LoadedOK, NEW a \in Attempts, KeepsItsWork(a),
         \A b \in Attempts \ {a} : att'[b] = att[b],
         life' = life, text' = text, excused \subseteq excused',
         Stale(a)' => Stale(a) /\ att'[a].doc = att[a].doc,
         att[a].at = "wait" => att[a].doc \in Docs
  PROVE  LoadedOK'
<1>. SUFFICES ASSUME NEW b \in Attempts, Stale(b)'
              PROVE  \E c \in Attempts : (att'[c].doc = att'[b].doc /\ att'[c].at = "wait")
  BY DEF LoadedOK
<1>1. Stale(b) /\ att'[b].doc = att[b].doc /\ att[b].doc \notin excused'
  BY DEF Stale, Holds, Exists
<1>2. PICK c \in Attempts : att[c].doc = att[b].doc /\ att[c].at = "wait"
  BY <1>1 DEF LoadedOK
<1>3. att'[c].doc = att[c].doc /\ att'[c].at = "wait"
  BY <1>1, <1>2 DEF KeepsItsWork
<1>. QED  BY <1>1, <1>2, <1>3

LEMMA FreshKept ==
  ASSUME FreshWhenQuiet, NEW a \in Attempts, KeepsItsWork(a),
         \A b \in Attempts \ {a} : att'[b] = att[b],
         life' = life, text' = text, chunks' = chunks, excused \subseteq excused',
         \A d \in mapped' \ mapped : Toward(a, d)'
  PROVE  FreshWhenQuiet'
<1>. SUFFICES ASSUME NEW d \in Docs \ excused', Exists(d)', ~Pending(d)',
                     d \in ProjectDocs => d \in mapped'
              PROVE  \E ti \in Titles \cup {None} : chunks'[d] = ChunksOf(text'[d], ti)
  BY DEF FreshWhenQuiet
<1>1. ~Pending(d)
  BY DEF Pending, KeepsItsWork, Toward
<1>2. d \in ProjectDocs => d \in mapped
  BY DEF Pending
<1>. QED  BY <1>1, <1>2 DEF FreshWhenQuiet, Exists

LEMMA RowsKept ==
  ASSUME EmbedInv, NEW a \in Attempts, NEW q \in Attempt, Set(a, q),
         life' = life, text' = text, chunks' = chunks, UNCHANGED world,
         title' \in [Docs -> Titles \cup {None}],
         confirmed' \in [Docs -> Titles \cup {None}],
         suggested' \subseteq ProjectDocs,
         ahead' \in [Attempts -> SUBSET Attempts],
         mapped' \subseteq ProjectDocs,
         \A d \in mapped' \ mapped : Exists(d),
         excused' \subseteq Docs,
         AttemptOK(a)'
  PROVE  TypeOK' /\ RowsOK' /\ (\A b \in Attempts : AttemptOK(b)') /\ ChunksAreWhole'
<1>1. /\ att' \in [Attempts -> Attempt]
      /\ \A b \in Attempts \ {a} : att'[b] = att[b]
  BY SetOne DEF EmbedInv
<1>2. TypeOK'
  BY <1>1 DEF EmbedInv, TypeOK, world
<1>3. RowsOK'
  BY DEF EmbedInv, RowsOK, Exists
<1>4. ASSUME NEW b \in Attempts \ {a} PROVE AttemptOK(b)'
  <2>1. AttemptOK(b) /\ att'[b] = att[b]
    BY <1>1 DEF EmbedInv
  <2>. QED  BY <2>1 DEF AttemptOK, InFlight
<1>5. ChunksAreWhole'
  BY DEF EmbedInv, ChunksAreWhole, Exists
<1>. QED  BY <1>2, <1>3, <1>4, <1>5

LEMMA AttemptStep ==
  ASSUME EmbedInv, NEW a \in Attempts, NEW q \in Attempt, Set(a, q),
         life' = life, text' = text, chunks' = chunks, UNCHANGED world,
         title' \in [Docs -> Titles \cup {None}],
         confirmed' \in [Docs -> Titles \cup {None}],
         suggested' \subseteq ProjectDocs,
         ahead' \in [Attempts -> SUBSET Attempts],
         mapped' \subseteq ProjectDocs,
         \A d \in mapped' \ mapped : Exists(d) /\ Toward(a, d)',
         excused \subseteq excused', excused' \subseteq Docs,
         SemaOK', AttemptOK(a)', KeepsItsWork(a),
         Stale(a)' => Stale(a) /\ att'[a].doc = att[a].doc
  PROVE  EmbedInv'
<1>1. \A b \in Attempts \ {a} : att'[b] = att[b]
  BY SetOne DEF EmbedInv
<1>2. att[a].at = "wait" => att[a].doc \in Docs
  BY DEF EmbedInv, AttemptOK, InFlight
<1>3. LoadedOK'
  BY <1>1, <1>2, LoadedKept DEF EmbedInv
<1>4. FreshWhenQuiet'
  BY <1>1, FreshKept DEF EmbedInv
<1>5. TypeOK' /\ RowsOK' /\ (\A b \in Attempts : AttemptOK(b)') /\ ChunksAreWhole'
  BY RowsKept
<1>. QED  BY <1>3, <1>4, <1>5 DEF EmbedInv

\* A step of the attempt that keeps its place in line, if it has one.
LEMMA PlainStep ==
  ASSUME EmbedInv, NEW a \in Attempts, NEW q \in Attempt, Set(a, q),
         UNCHANGED <<life, text, chunks, ahead, world, suggested, excused>>,
         title' \in [Docs -> Titles \cup {None}],
         confirmed' \in [Docs -> Titles \cup {None}],
         mapped' \subseteq ProjectDocs,
         \A d \in mapped' \ mapped : Exists(d) /\ Toward(a, d)',
         InLine(a)' <=> InLine(a), Holds(a)' => Holds(a),
         AttemptOK(a)', KeepsItsWork(a),
         Stale(a)' => Stale(a) /\ att'[a].doc = att[a].doc
  PROVE  EmbedInv'
<1>1. \A b \in Attempts \ {a} : att'[b] = att[b]
  BY SetOne DEF EmbedInv
<1>2. TypeOK /\ SemaOK
  BY DEF EmbedInv
<1>3. SemaOK'
  BY <1>1, <1>2, SemaKept
<1>4. suggested \subseteq ProjectDocs /\ ahead \in [Attempts -> SUBSET Attempts] /\ excused \subseteq Docs
  BY <1>2 DEF TypeOK
<1>. QED  BY <1>3, <1>4, AttemptStep

\* An attempt that has not begun has no work to lose.
LEMMA NewKeepsWork ==
  ASSUME NEW a, att[a] = New
  PROVE  KeepsItsWork(a) /\ ~InLine(a) /\ ~Holds(a) /\ ~Stale(a)
BY NewIsIdle DEF KeepsItsWork, Toward, InLine, Holds, Stale, Holding

LEMMA RetryEmbedStep ==
  ASSUME EmbedInv, NEW a \in Attempts, NEW d \in Docs, RetryEmbed(a, d)
  PROVE  EmbedInv'
<1>. DEFINE q == Begun("mark", "background", d)
<1>1. q \in Attempt /\ q.at = "mark" /\ q.kind = "background" /\ q.doc = d
  BY BegunAttempt DEF Steps, Kinds
<1>2. Set(a, q) /\ UNCHANGED <<rows, chunks, ahead, world, seen, excused>> /\ Exists(d) /\ att[a] = New
  BY DEF RetryEmbed, Fresh
<1>. HIDE DEF q
<1>3. att'[a] = q
  BY <1>1, <1>2, SetOne DEF EmbedInv
<1>4. ~InLine(a)' /\ ~Holds(a)' /\ ~Stale(a)'
  BY <1>1, <1>3 DEF InLine, Holds, Stale, Holding
<1>5. AttemptOK(a)'
  BY <1>1, <1>2, <1>3 DEF AttemptOK, Exists, rows
<1>6. KeepsItsWork(a) /\ ~InLine(a) /\ ~Holds(a)
  BY <1>2, NewKeepsWork
<1>. QED  BY <1>1, <1>2, <1>4, <1>5, <1>6, PlainStep DEF rows, seen, EmbedInv, TypeOK

LEMMA ApplyMappingStep ==
  ASSUME EmbedInv, NEW a \in Attempts, NEW d \in ProjectDocs, NEW ti \in Titles, ApplyMapping(a, d, ti)
  PROVE  EmbedInv'
<1>. DEFINE q == Begun("mark", "apply", d)
<1>0. d \in Docs
  BY DEF Docs
<1>1. q \in Attempt /\ q.at = "mark" /\ q.kind = "apply" /\ q.doc = d
  BY <1>0, BegunAttempt DEF Steps, Kinds
<1>2. /\ Set(a, q) /\ UNCHANGED <<life, text, title, chunks, ahead, world, suggested, excused>>
      /\ Exists(d) /\ att[a] = New /\ mapped' = mapped \cup {d}
      /\ confirmed' = [confirmed EXCEPT ![d] = ti]
  BY DEF ApplyMapping, Fresh
<1>. HIDE DEF q
<1>3. att'[a] = q
  BY <1>1, <1>2, SetOne DEF EmbedInv
<1>4. ~InLine(a)' /\ ~Holds(a)' /\ ~Stale(a)' /\ Toward(a, d)'
  BY <1>1, <1>3 DEF InLine, Holds, Stale, Toward, Holding
<1>5. AttemptOK(a)'
  BY <1>0, <1>1, <1>2, <1>3 DEF AttemptOK, Exists
<1>6. KeepsItsWork(a) /\ ~InLine(a) /\ ~Holds(a)
  BY <1>2, NewKeepsWork
<1>7. /\ title' \in [Docs -> Titles \cup {None}] /\ mapped' \subseteq ProjectDocs
      /\ confirmed' \in [Docs -> Titles \cup {None}]
  BY <1>0, <1>2 DEF EmbedInv, TypeOK
<1>8. \A e \in mapped' \ mapped : Exists(e) /\ Toward(a, e)'
  BY <1>2, <1>4
<1>. QED  BY <1>1, <1>2, <1>4, <1>5, <1>6, <1>7, <1>8, PlainStep

LEMMA BackfillStep ==
  ASSUME EmbedInv, NEW a \in Attempts, NEW d \in Docs, Backfill(a, d)
  PROVE  EmbedInv'
<1>. DEFINE q == Begun("load", "backfill", d)
<1>1. q \in Attempt /\ q.at = "load" /\ q.kind = "backfill" /\ q.doc = d
  BY BegunAttempt DEF Steps, Kinds, Holding
<1>2. /\ Set(a, q) /\ UNCHANGED <<rows, chunks, ahead, world, seen, excused>>
      /\ life[d] # "unused" /\ att[a] = New
  BY DEF Backfill, Fresh
<1>. HIDE DEF q
<1>3. att'[a] = q
  BY <1>1, <1>2, SetOne DEF EmbedInv
<1>4. ~InLine(a)' /\ ~Holds(a)' /\ ~Stale(a)'
  BY <1>1, <1>3 DEF InLine, Holds, Stale
<1>5. AttemptOK(a)'
  BY <1>1, <1>2, <1>3 DEF AttemptOK, rows
<1>6. KeepsItsWork(a) /\ ~InLine(a) /\ ~Holds(a)
  BY <1>2, NewKeepsWork
<1>. QED  BY <1>1, <1>2, <1>4, <1>5, <1>6, PlainStep DEF rows, seen, EmbedInv, TypeOK

LEMMA ResetMappingsStep ==
  ASSUME EmbedInv, NEW a \in Attempts, ResetMappings(a)
  PROVE  EmbedInv'
<1>. DEFINE q == [att[a] EXCEPT !.at = "mark"]
<1>1. /\ q \in Attempt /\ Set(a, q)
      /\ att'[a].at = "mark" /\ att'[a].kind = att[a].kind /\ att'[a].doc = att[a].doc
  BY GotoOne DEF EmbedInv, ResetMappings, Steps
<1>2. att[a].at = "reset" /\ mapped' = {} /\ UNCHANGED <<life, text, chunks, ahead, world, suggested, excused>>
  BY DEF ResetMappings
<1>. HIDE DEF q
<1>3. title' \in [Docs -> Titles \cup {None}] /\ confirmed' \in [Docs -> Titles \cup {None}]
  BY DEF EmbedInv, TypeOK, ResetMappings
<1>4. ~InLine(a) /\ ~Holds(a) /\ ~InLine(a)' /\ ~Holds(a)' /\ ~Stale(a)'
  BY <1>1, <1>2 DEF InLine, Holds, Stale, Holding
<1>5. AttemptOK(a)'
  BY <1>1, <1>2 DEF EmbedInv, AttemptOK, InFlight
<1>6. KeepsItsWork(a)
  BY <1>1, <1>2 DEF KeepsItsWork, Toward
<1>. QED  BY <1>1, <1>2, <1>3, <1>4, <1>5, <1>6, PlainStep

LEMMA MarkStep ==
  ASSUME EmbedInv, NEW a \in Attempts, Mark(a)
  PROVE  EmbedInv'
<1>. DEFINE q == [att[a] EXCEPT !.at = "wait"]
<1>1. /\ q \in Attempt /\ Set(a, q)
      /\ att'[a].at = "wait" /\ att'[a].kind = att[a].kind /\ att'[a].doc = att[a].doc
  BY GotoOne DEF EmbedInv, Mark, Steps
<1>2. att[a].at = "mark" /\ Join(a) /\ UNCHANGED <<rows, chunks, world, seen, excused>>
  BY DEF Mark
<1>. HIDE DEF q
<1>3. ~InLine(a) /\ ~Stale(a)'
  BY <1>1, <1>2 DEF InLine, Holds, Stale, Holding
<1>4. AttemptOK(a)'
  BY <1>1, <1>2 DEF EmbedInv, AttemptOK, InFlight, rows
<1>5. KeepsItsWork(a)
  BY <1>1, <1>2 DEF KeepsItsWork, Toward
<1>6. SemaOK' /\ ahead' \in [Attempts -> SUBSET Attempts]
  BY <1>1, <1>2, <1>3, SetOne, SemaJoin DEF EmbedInv
<1>. QED  BY <1>1, <1>2, <1>3, <1>4, <1>5, <1>6, AttemptStep DEF rows, seen, EmbedInv, TypeOK

\* An attempt that fails has an excuse.
LEMMA FailStep ==
  ASSUME EmbedInv, NEW a \in Attempts, InFlight(a), Fail(a)
  PROVE  EmbedInv'
<1>1. att[a].doc \in Docs
  BY DEF EmbedInv, AttemptOK
<1>2. /\ Set(a, Over) /\ Leave(a) /\ excused' = excused \cup {att[a].doc}
      /\ UNCHANGED <<rows, chunks, world, seen>>
  BY DEF Fail, Done
<1>3. att'[a].at = "over" /\ att'[a].kind = "none"
  BY <1>2, OverAttempt, SetOne DEF EmbedInv
<1>4. ~InLine(a)' /\ ~Stale(a)' /\ AttemptOK(a)'
  BY <1>3 DEF InLine, Holds, Stale, AttemptOK, InFlight, Holding
<1>5. KeepsItsWork(a)
  BY <1>2 DEF KeepsItsWork, Toward
<1>6. SemaOK' /\ ahead' \in [Attempts -> SUBSET Attempts]
  BY <1>2, <1>4, SetOne, OverAttempt, SemaLeave DEF EmbedInv
<1>. QED  BY <1>1, <1>2, <1>4, <1>5, <1>6, AttemptStep, OverAttempt DEF rows, seen, EmbedInv, TypeOK

LEMMA EmbedBatchStep ==
  ASSUME EmbedInv, NEW a \in Attempts, EmbedBatch(a)
  PROVE  EmbedInv'
<1>1. /\ att[a] \in Attempt /\ att[a].text \in Texts /\ Size(att[a].text) > 0
      /\ att[a].at = "embed" /\ att[a].doc \in Docs /\ life[att[a].doc] # "unused" /\ att[a].kind # "none"
  BY DEF EmbedInv, TypeOK, AttemptOK, InFlight, EmbedBatch
<1>2. PICK step \in {"delete", "embed"}, got \in Nat :
        /\ Set(a, [at |-> step, kind |-> att[a].kind, doc |-> att[a].doc, text |-> att[a].text,
                   title |-> att[a].title, got |-> got, tries |-> 0])
        /\ UNCHANGED <<rows, chunks, ahead, world, seen, excused>>
  <2>1. Size(att[a].text) \in Nat /\ att[a].got + Batch \in Nat
    BY <1>1, EmbedAssumption DEF Size, Attempt
  <2>. QED  BY <2>1 DEF EmbedBatch
<1>. DEFINE q == [at |-> step, kind |-> att[a].kind, doc |-> att[a].doc, text |-> att[a].text,
                  title |-> att[a].title, got |-> got, tries |-> 0]
<1>3. /\ q \in Attempt /\ q.at \in {"delete", "embed"} /\ q.kind = att[a].kind
      /\ q.doc = att[a].doc /\ q.text = att[a].text
  BY <1>1, <1>2, EmbedAssumption DEF Attempt, Steps, Holding
<1>4. Set(a, q)
  BY <1>2
<1>. HIDE DEF q
<1>5. att'[a] = q
  BY <1>3, <1>4, SetOne DEF EmbedInv
<1>6. (InLine(a)' <=> InLine(a)) /\ (Holds(a)' => Holds(a))
  BY <1>1, <1>3, <1>5 DEF InLine, Holds, Holding
<1>7. Stale(a)' => Stale(a) /\ att'[a].doc = att[a].doc
  BY <1>1, <1>2, <1>3, <1>5, <1>6 DEF Stale, Exists, rows
<1>8. AttemptOK(a)'
  BY <1>1, <1>2, <1>3, <1>5 DEF AttemptOK, InFlight, rows
<1>9. KeepsItsWork(a)
  BY <1>1, <1>3, <1>5 DEF KeepsItsWork, Toward, Holding
<1>. QED  BY <1>2, <1>3, <1>4, <1>6, <1>7, <1>8, <1>9, PlainStep DEF rows, seen, EmbedInv, TypeOK

LEMMA BatchFailsStep ==
  ASSUME EmbedInv, NEW a \in Attempts, BatchFails(a)
  PROVE  EmbedInv'
<1>1. /\ att[a] \in Attempt /\ att[a].text \in Texts /\ Size(att[a].text) > 0
      /\ att[a].at = "embed" /\ att[a].doc \in Docs /\ life[att[a].doc] # "unused" /\ att[a].kind # "none"
  BY DEF EmbedInv, TypeOK, AttemptOK, InFlight, BatchFails
<1>2. CASE Fail(a)
  BY <1>1, <1>2, FailStep DEF InFlight
<1>3. CASE ~Fail(a)
  <2>. DEFINE q == [att[a] EXCEPT !.tries = att[a].tries + 1]
  <2>1. /\ att[a].tries + 1 < Retries
        /\ Set(a, q) /\ UNCHANGED <<rows, chunks, ahead, world, seen, excused>>
    BY <1>3 DEF BatchFails
  <2>2. att[a].tries + 1 \in 0..Retries
    BY <1>1, <2>1, EmbedAssumption DEF Attempt
  <2>3. /\ q \in Attempt /\ q.at = "embed" /\ q.kind = att[a].kind
        /\ q.doc = att[a].doc /\ q.text = att[a].text
    BY <1>1, <2>2 DEF Attempt
  <2>. HIDE DEF q
  <2>4. att'[a] = q
    BY <2>1, <2>3, SetOne DEF EmbedInv
  <2>5. (InLine(a)' <=> InLine(a)) /\ (Holds(a)' => Holds(a))
    BY <1>1, <2>3, <2>4 DEF InLine, Holds
  <2>6. Stale(a)' => Stale(a) /\ att'[a].doc = att[a].doc
    BY <1>1, <2>1, <2>3, <2>4, <2>5 DEF Stale, Exists, rows
  <2>7. AttemptOK(a)'
    BY <1>1, <2>1, <2>3, <2>4 DEF AttemptOK, InFlight, rows
  <2>8. KeepsItsWork(a)
    BY <1>1, <2>3, <2>4 DEF KeepsItsWork, Toward
  <2>. QED  BY <2>1, <2>3, <2>5, <2>6, <2>7, <2>8, PlainStep DEF rows, seen, EmbedInv, TypeOK
<1>. QED  BY <1>2, <1>3

LEMMA EnterStep ==
  ASSUME EmbedInv, NEW a \in Attempts, Enter(a)
  PROVE  EmbedInv'
<1>. DEFINE q == [att[a] EXCEPT !.at = "load"]
<1>1. /\ q \in Attempt /\ Set(a, q)
      /\ att'[a].at = "load" /\ att'[a].kind = att[a].kind /\ att'[a].doc = att[a].doc
      /\ \A b \in Attempts \ {a} : att'[b] = att[b]
  BY GotoOne, SetOne DEF EmbedInv, Enter, Steps, Holding
<1>2. att[a].at = "wait" /\ ahead[a] = {} /\ UNCHANGED <<rows, chunks, ahead, world, seen, excused>>
  BY DEF Enter
<1>. HIDE DEF q
<1>3. att[a].kind # "backfill" /\ AttemptOK(a)'
  BY <1>1, <1>2 DEF EmbedInv, AttemptOK, InFlight, rows
<1>4. SemaOK'
  BY <1>3, SemaEnter DEF EmbedInv
<1>5. LoadedOK'
  <2>1. ~Stale(a)'
    BY <1>1 DEF Stale
  <2>2. \A b \in Attempts \ {a} : ~Holds(b)
    BY <1>2, OneHolds DEF EmbedInv
  <2>3. \A b \in Attempts \ {a} : ~Stale(b)'
    BY <1>1, <2>2 DEF Stale, Holds
  <2>. QED  BY <2>1, <2>3 DEF LoadedOK
<1>6. FreshWhenQuiet'
  <2>1. \A b \in Attempts, d \in Docs : Toward(b, d)' <=> Toward(b, d)
    BY <1>1, <1>2 DEF Toward, Holding
  <2>. QED  BY <1>2, <2>1 DEF EmbedInv, FreshWhenQuiet, Pending, rows, Exists
<1>7. TypeOK' /\ RowsOK' /\ (\A b \in Attempts : AttemptOK(b)') /\ ChunksAreWhole'
  BY <1>1, <1>2, <1>3, RowsKept DEF rows, seen, EmbedInv, TypeOK
<1>. QED  BY <1>4, <1>5, <1>6, <1>7 DEF EmbedInv

LEMMA LoadStep ==
  ASSUME EmbedInv, NEW a \in Attempts, Load(a)
  PROVE  EmbedInv'
<1>. DEFINE d == att[a].doc
<1>1. /\ att[a] \in Attempt /\ att[a].at = "load" /\ InFlight(a)
      /\ d \in Docs /\ att[a].kind # "none"
  BY DEF EmbedInv, TypeOK, AttemptOK, InFlight, Load
<1>2. CASE Fail(a)
  BY <1>1, <1>2, FailStep
<1>3. CASE ~Fail(a)
  <2>. DEFINE step == IF Size(text[d]) = 0 THEN "delete" ELSE "embed"
              q == [at |-> step, kind |-> att[a].kind, doc |-> d, text |-> text[d],
                    title |-> title[d], got |-> 0, tries |-> 0]
  <2>1. /\ Exists(d) /\ Set(a, q) /\ UNCHANGED <<rows, chunks, ahead, world, seen>>
        /\ excused' = IF att[a].kind = "backfill" THEN excused ELSE excused \ {d}
    BY <1>3 DEF Load
  <2>2. text[d] \in Texts /\ title[d] \in Titles \cup {None}
    BY <1>1, <2>1 DEF EmbedInv, RowsOK, TypeOK
  <2>3. /\ q \in Attempt /\ q.at \in {"delete", "embed"} /\ q.kind = att[a].kind
        /\ q.doc = d /\ q.text = text[d] /\ (q.at = "embed" => Size(text[d]) # 0)
    BY <1>1, <2>2, EmbedAssumption DEF Attempt, Steps, Holding
  <2>. HIDE DEF q, step
  <2>4. att'[a] = q /\ \A b \in Attempts \ {a} : att'[b] = att[b]
    BY <2>1, <2>3, SetOne DEF EmbedInv
  <2>5. (InLine(a)' <=> InLine(a)) /\ (Holds(a)' <=> Holds(a))
    BY <1>1, <2>3, <2>4 DEF InLine, Holds, Holding
  <2>6. SemaOK'
    BY <2>1, <2>4, <2>5, SemaKept DEF EmbedInv
  <2>7. AttemptOK(a)'
    <3>1. Size(text[d]) \in Nat
      BY EmbedAssumption DEF Size
    <3>. QED  BY <1>1, <2>1, <2>2, <2>3, <2>4, <3>1 DEF AttemptOK, InFlight, rows, Exists
  <2>8. ~Stale(a)'
    BY <2>1, <2>3, <2>4 DEF Stale, rows
  <2>9. \A b \in Attempts, e \in Docs : Toward(b, e)' <=> Toward(b, e)
    BY <1>1, <2>3, <2>4 DEF Toward, Holding
  <2>10. \A e \in Docs : e \notin excused' => e \notin excused \/ Toward(a, e)
    BY <1>1, <2>1 DEF Toward, Holding
  <2>11. LoadedOK'
    <3>. SUFFICES ASSUME NEW b \in Attempts \ {a}, Stale(b)'
                  PROVE  \E c \in Attempts : (att'[c].doc = att'[b].doc /\ att'[c].at = "wait")
      BY <2>8 DEF LoadedOK
    <3>1. Holds(b)
      BY <2>4 DEF Stale, Holds
    <3>2. att[a].kind = "backfill"
      BY <1>1, <3>1, OneHolds DEF Holds, Holding, EmbedInv
    <3>3. Stale(b)
      BY <2>1, <2>4, <3>1, <3>2 DEF Stale, rows, Exists
    <3>4. PICK c \in Attempts : att[c].doc = att[b].doc /\ att[c].at = "wait"
      BY <3>3 DEF LoadedOK, EmbedInv
    <3>. QED  BY <1>1, <2>4, <3>4
  <2>12. FreshWhenQuiet'
    <3>. SUFFICES ASSUME NEW e \in Docs \ excused', Exists(e)', ~Pending(e)',
                         e \in ProjectDocs => e \in mapped'
                  PROVE  \E ti \in Titles \cup {None} : chunks'[e] = ChunksOf(text'[e], ti)
      BY DEF FreshWhenQuiet
    <3>1. ~Pending(e) /\ e \notin excused
      BY <2>9, <2>10 DEF Pending
    <3>. QED  BY <2>1, <3>1 DEF FreshWhenQuiet, rows, Exists, EmbedInv
  <2>13. TypeOK' /\ RowsOK' /\ (\A b \in Attempts : AttemptOK(b)') /\ ChunksAreWhole'
    BY <2>1, <2>3, <2>7, RowsKept DEF rows, seen, EmbedInv, TypeOK
  <2>. QED  BY <2>6, <2>11, <2>12, <2>13 DEF EmbedInv
<1>. QED  BY <1>2, <1>3

-----------------------------------------------------------------------------
(* The two commits that replace a document's chunks. *)

LEMMA SizeIsNat == \A t : Size(t) \in Nat /\ (Size(t) # 0 => Size(t) > 0)
BY EmbedAssumption DEF Size

LEMMA DeleteChunksStep ==
  ASSUME EmbedInv, NEW a \in Attempts, DeleteChunks(a)
  PROVE  EmbedInv'
<1>. DEFINE d == att[a].doc
<1>1. /\ att[a] \in Attempt /\ att[a].at = "delete" /\ InFlight(a) /\ att[a].text \in Texts
      /\ d \in Docs /\ att[a].kind # "none" /\ life[d] # "unused"
  BY DEF EmbedInv, TypeOK, AttemptOK, InFlight, DeleteChunks
<1>2. /\ chunks' = [chunks EXCEPT ![d] = {}]
      /\ excused' = IF att[a].kind = "backfill" THEN excused \cup {d} ELSE excused
      /\ UNCHANGED <<rows, world, seen>>
  BY DEF DeleteChunks
<1>3. PICK q \in Attempt :
        /\ Set(a, q)
        /\ \/ Size(att[a].text) = 0 /\ q = Over /\ Leave(a)
           \/ /\ Size(att[a].text) > 0 /\ ahead' = ahead
              /\ q.at = "insert" /\ q.kind = att[a].kind /\ q.doc = d /\ q.text = att[a].text
  <2>1. CASE Size(att[a].text) = 0
    BY <2>1, OverAttempt DEF DeleteChunks, Done
  <2>2. CASE Size(att[a].text) # 0
    <3>. DEFINE q == [att[a] EXCEPT !.at = "insert"]
    <3>1. q \in Attempt /\ Set(a, q)
      BY <2>2, GotoOne DEF DeleteChunks, EmbedInv, Steps, Holding
    <3>2. q.at = "insert" /\ q.kind = att[a].kind /\ q.doc = d /\ q.text = att[a].text
      BY <1>1 DEF Attempt
    <3>3. Size(att[a].text) > 0 /\ ahead' = ahead
      BY <2>2, SizeIsNat DEF DeleteChunks
    <3>. QED  BY <3>1, <3>2, <3>3
  <2>. QED  BY <2>1, <2>2
<1>4. att'[a] = q /\ \A b \in Attempts \ {a} : att'[b] = att[b]
  BY <1>3, SetOne DEF EmbedInv
<1>5. SemaOK' /\ ahead' \in [Attempts -> SUBSET Attempts]
  <2>1. CASE q = Over /\ Leave(a)
    <3>1. ~InLine(a)'
      BY <1>4, <2>1, OverAttempt DEF InLine, Holds, Holding
    <3>. QED  BY <1>4, <2>1, <3>1, SemaLeave DEF EmbedInv
  <2>2. CASE ~(q = Over /\ Leave(a))
    <3>1. (InLine(a)' <=> InLine(a)) /\ (Holds(a)' => Holds(a))
      BY <1>1, <1>3, <1>4, <2>2 DEF InLine, Holds, Holding
    <3>. QED  BY <1>3, <1>4, <2>2, <3>1, SemaKept DEF EmbedInv, TypeOK
  <2>. QED  BY <2>1, <2>2
<1>6. TypeOK'
  <2>1. att' \in [Attempts -> Attempt]
    BY <1>3, SetOne DEF EmbedInv
  <2>. QED  BY <1>1, <1>2, <1>5, <2>1 DEF EmbedInv, TypeOK, rows, world, seen
<1>7. RowsOK' /\ ChunksAreWhole'
  BY <1>1, <1>2 DEF EmbedInv, TypeOK, RowsOK, ChunksAreWhole, rows, Exists
<1>8. \A b \in Attempts : AttemptOK(b)'
  <2>1. AttemptOK(a)'
    <3>1. CASE q = Over
      BY <1>4, <3>1, OverAttempt DEF AttemptOK, InFlight
    <3>2. CASE q # Over
      BY <1>1, <1>2, <1>3, <1>4, <3>2 DEF AttemptOK, InFlight, rows
    <3>. QED  BY <3>1, <3>2
  <2>2. ASSUME NEW b \in Attempts \ {a} PROVE AttemptOK(b)'
    <3>1. AttemptOK(b) /\ att'[b] = att[b]
      BY <1>4 DEF EmbedInv
    <3>. QED  BY <1>2, <3>1 DEF AttemptOK, InFlight, rows
  <2>. QED  BY <2>1, <2>2
<1>9. LoadedOK'
  <2>. SUFFICES ASSUME NEW b \in Attempts, Stale(b)'
                PROVE  \E c \in Attempts : (att'[c].doc = att'[b].doc /\ att'[c].at = "wait")
    BY DEF LoadedOK
  <2>1. Stale(b) /\ att'[b].doc = att[b].doc
    <3>1. CASE b = a /\ q = Over
      BY <1>4, <3>1, OverAttempt DEF Stale, Holds, Holding
    <3>2. CASE b = a /\ q # Over
      BY <1>1, <1>2, <1>3, <1>4, <3>2 DEF Stale, Holds, Holding, Exists, rows
    <3>3. CASE b # a
      BY <1>2, <1>4, <3>3 DEF Stale, Holds, Exists, rows
    <3>. QED  BY <3>1, <3>2, <3>3
  <2>2. PICK c \in Attempts : att[c].doc = att[b].doc /\ att[c].at = "wait"
    BY <2>1 DEF EmbedInv, LoadedOK
  <2>. QED  BY <1>1, <1>4, <2>1, <2>2
<1>10. FreshWhenQuiet'
  <2>. SUFFICES ASSUME NEW e \in Docs \ excused', Exists(e)', ~Pending(e)',
                       e \in ProjectDocs => e \in mapped'
                PROVE  \E ti \in Titles \cup {None} : chunks'[e] = ChunksOf(text'[e], ti)
    BY DEF FreshWhenQuiet
  <2>1. CASE e # d
    <3>1. ~Pending(e)
      BY <1>4, <2>1 DEF Pending, Toward
    <3>. QED  BY <1>2, <2>1, <3>1 DEF EmbedInv, TypeOK, FreshWhenQuiet, rows, Exists
  <2>2. CASE e = d
    <3>1. att[a].kind # "backfill"
      BY <1>2, <2>2
    <3>2. ~Toward(a, e)'
      BY DEF Pending
    <3>3. Size(att[a].text) = 0
      BY <1>3, <1>4, <2>2, <3>1, <3>2 DEF Toward, Holding
    <3>4. att[a].text = text[d]
      <4>. SUFFICES ASSUME att[a].text # text[d] PROVE FALSE
        OBVIOUS
      <4>1. Stale(a)
        BY <1>1, <1>2, <2>2, <3>1 DEF Stale, Holds, Holding, rows, Exists
      <4>2. PICK c \in Attempts : att[c].doc = d /\ att[c].at = "wait"
        BY <4>1 DEF EmbedInv, LoadedOK
      <4>3. att'[c] = att[c] /\ att[c].kind # "backfill"
        BY <1>1, <1>4, <4>2 DEF EmbedInv, AttemptOK
      <4>. QED  BY <2>2, <4>2, <4>3 DEF Pending, Toward
    <3>5. chunks'[d] = {} /\ text'[d] = text[d]
      BY <1>1, <1>2 DEF EmbedInv, TypeOK, rows
    <3>6. ChunksOf(text[d], None) = {}
      BY <3>3, <3>4 DEF ChunksOf
    <3>. QED  BY <2>2, <3>5, <3>6
  <2>. QED  BY <2>1, <2>2
<1>. QED  BY <1>5, <1>6, <1>7, <1>8, <1>9, <1>10 DEF EmbedInv

\* Chunks that leave the indices of a text that is not blank free are none.
LEMMA IndexUnusedMeansNone ==
  ASSUME EmbedInv, NEW d \in Docs, NEW t, Size(t) > 0, IndexUnused(d, t)
  PROVE  chunks[d] = {}
<1>. SUFFICES ASSUME chunks[d] # {} PROVE FALSE
  OBVIOUS
<1>1. PICK u \in Texts, ti \in Titles \cup {None} : chunks[d] = ChunksOf(u, ti)
  BY DEF EmbedInv, ChunksAreWhole
<1>2. Size(u) \in Nat /\ Size(u) > 0
  BY <1>1, SizeIsNat DEF ChunksOf
<1>3. [index |-> 0, text |-> u, title |-> ti] \in chunks[d]
  BY <1>1, <1>2 DEF ChunksOf
<1>4. 0 >= Size(t)
  BY <1>3 DEF IndexUnused
<1>. QED  BY <1>4, SizeIsNat

LEMMA InsertChunksStep ==
  ASSUME EmbedInv, NEW a \in Attempts, InsertChunks(a)
  PROVE  EmbedInv'
<1>. DEFINE d == att[a].doc
<1>1. /\ att[a] \in Attempt /\ att[a].at = "insert" /\ InFlight(a) /\ att[a].text \in Texts
      /\ Size(att[a].text) > 0 /\ d \in Docs /\ att[a].kind # "none" /\ life[d] # "unused"
      /\ att[a].title \in Titles \cup {None}
  BY DEF EmbedInv, TypeOK, AttemptOK, InFlight, InsertChunks, Attempt
<1>2. CASE Fail(a)
  BY <1>1, <1>2, FailStep
<1>3. CASE ~Fail(a)
  <2>1. /\ Exists(d) /\ IndexUnused(d, att[a].text)
        /\ chunks' = [chunks EXCEPT ![d] = @ \cup ChunksOf(att[a].text, att[a].title)]
        /\ Set(a, Over) /\ Leave(a)
        /\ excused' = IF att[a].kind = "backfill" THEN excused \cup {d} ELSE excused
        /\ UNCHANGED <<rows, world, seen>>
    BY <1>3 DEF InsertChunks, Done
  <2>2. chunks[d] = {}
    BY <1>1, <2>1, IndexUnusedMeansNone
  <2>3. /\ chunks' \in [Docs -> SUBSET Chunk]
        /\ chunks'[d] = ChunksOf(att[a].text, att[a].title)
        /\ \A e \in Docs \ {d} : chunks'[e] = chunks[e]
    <3>1. ChunksOf(att[a].text, att[a].title) \subseteq Chunk
      BY <1>1, SizeIsNat DEF ChunksOf, Chunk
    <3>. QED  BY <1>1, <2>1, <2>2, <3>1 DEF EmbedInv, TypeOK
  <2>4. /\ att' \in [Attempts -> Attempt] /\ att'[a] = Over
        /\ \A b \in Attempts \ {a} : att'[b] = att[b]
    BY <2>1, SetOne, OverAttempt DEF EmbedInv
  <2>5. ~InLine(a)' /\ ~Stale(a)' /\ AttemptOK(a)'
    BY <2>4, OverAttempt DEF InLine, Holds, Stale, Holding, AttemptOK, InFlight
  <2>6. SemaOK' /\ ahead' \in [Attempts -> SUBSET Attempts]
    BY <2>1, <2>4, <2>5, SemaLeave DEF EmbedInv
  <2>7. TypeOK'
    BY <1>1, <2>1, <2>3, <2>4, <2>6 DEF EmbedInv, TypeOK, rows, world, seen
  <2>8. RowsOK'
    BY <2>1 DEF EmbedInv, RowsOK, rows, Exists
  <2>9. ChunksAreWhole'
    BY <1>1, <2>1, <2>3 DEF EmbedInv, ChunksAreWhole, rows, Exists
  <2>10. \A b \in Attempts : AttemptOK(b)'
    <3>1. ASSUME NEW b \in Attempts \ {a} PROVE AttemptOK(b)'
      <4>1. AttemptOK(b) /\ att'[b] = att[b]
        BY <2>4 DEF EmbedInv
      <4>. QED  BY <2>1, <4>1 DEF AttemptOK, InFlight, rows
    <3>. QED  BY <2>5, <3>1
  <2>11. LoadedOK'
    <3>. SUFFICES ASSUME NEW b \in Attempts \ {a}, Stale(b)'
                  PROVE  \E c \in Attempts : (att'[c].doc = att'[b].doc /\ att'[c].at = "wait")
      BY <2>5 DEF LoadedOK
    <3>1. Stale(b)
      BY <2>1, <2>4 DEF Stale, Holds, rows, Exists
    <3>2. PICK c \in Attempts : att[c].doc = att[b].doc /\ att[c].at = "wait"
      BY <3>1 DEF EmbedInv, LoadedOK
    <3>. QED  BY <1>1, <2>4, <3>2
  <2>12. FreshWhenQuiet'
    <3>. SUFFICES ASSUME NEW e \in Docs \ excused', Exists(e)', ~Pending(e)',
                         e \in ProjectDocs => e \in mapped'
                  PROVE  \E ti \in Titles \cup {None} : chunks'[e] = ChunksOf(text'[e], ti)
      BY DEF FreshWhenQuiet
    <3>1. CASE e # d
      <4>1. ~Pending(e)
        BY <2>4, <3>1 DEF Pending, Toward
      <4>. QED  BY <2>1, <2>3, <3>1, <4>1 DEF EmbedInv, FreshWhenQuiet, rows, Exists
    <3>2. CASE e = d
      <4>1. att[a].kind # "backfill" /\ d \notin excused
        BY <2>1, <3>2
      <4>2. att[a].text = text[d]
        <5>. SUFFICES ASSUME att[a].text # text[d] PROVE FALSE
          OBVIOUS
        <5>1. Stale(a)
          BY <1>1, <2>1, <4>1 DEF Stale, Holds, Holding
        <5>2. PICK c \in Attempts : att[c].doc = d /\ att[c].at = "wait"
          BY <5>1 DEF EmbedInv, LoadedOK
        <5>3. att'[c] = att[c] /\ att[c].kind # "backfill"
          BY <1>1, <2>4, <5>2 DEF EmbedInv, AttemptOK
        <5>. QED  BY <3>2, <5>2, <5>3 DEF Pending, Toward
      <4>. QED  BY <1>1, <2>1, <2>3, <3>2, <4>2 DEF rows
    <3>. QED  BY <3>1, <3>2
  <2>. QED  BY <2>6, <2>7, <2>8, <2>9, <2>10, <2>11, <2>12 DEF EmbedInv
<1>. QED  BY <1>2, <1>3

-----------------------------------------------------------------------------
(* Steps that change the documents. *)

\* No attempt is at work for a document that does not exist yet, and it is not mapped.
LEMMA UnusedIsQuiet ==
  ASSUME EmbedInv, NEW d \in Docs, life[d] = "unused"
  PROVE  /\ \A a \in Attempts : InFlight(a) => att[a].doc # d
         /\ d \notin mapped /\ chunks[d] = {} /\ text[d] = None
BY DEF EmbedInv, AttemptOK, RowsOK, ChunksAreWhole, Exists

LEMMA UploadProjectDocStep ==
  ASSUME EmbedInv, NEW d \in ProjectDocs, NEW t \in Texts, UploadProjectDoc(d, t)
  PROVE  EmbedInv'
<1>1. /\ d \in Docs /\ life[d] = "unused"
      /\ life' = [life EXCEPT ![d] = "row"] /\ text' = [text EXCEPT ![d] = t]
      /\ UNCHANGED <<title, mapped, chunks, att, ahead, world, seen, excused>>
  BY DEF UploadProjectDoc, Docs
<1>2. /\ life'[d] = "row" /\ text'[d] = t
      /\ \A e \in Docs \ {d} : life'[e] = life[e] /\ text'[e] = text[e]
  BY <1>1 DEF EmbedInv, TypeOK
<1>3. TypeOK'
  BY <1>1 DEF EmbedInv, TypeOK, world, seen
<1>4. RowsOK'
  BY <1>1, <1>2, EmbedAssumption DEF EmbedInv, TypeOK, RowsOK, Exists, Docs
<1>5. SemaOK'
  BY <1>1 DEF EmbedInv, SemaOK, InLine, Holds
<1>6. \A a \in Attempts : AttemptOK(a)'
  <2>1. ASSUME NEW a \in Attempts PROVE AttemptOK(a)'
    <3>1. AttemptOK(a)
      BY DEF EmbedInv
    <3>. QED  BY <1>1, <1>2, <3>1 DEF AttemptOK, InFlight
  <2>. QED  BY <2>1
<1>7. ChunksAreWhole'
  BY <1>1, <1>2, UnusedIsQuiet DEF EmbedInv, ChunksAreWhole, Exists
<1>8. LoadedOK'
  <2>1. \A a \in Attempts : Stale(a)' => Stale(a)
    <3>. SUFFICES ASSUME NEW a \in Attempts, Stale(a)' PROVE Stale(a)
      OBVIOUS
    <3>1. InFlight(a)
      BY <1>1 DEF Stale, Holds, Holding, InFlight
    <3>2. att[a].doc \in Docs \ {d}
      BY <1>1, <3>1, UnusedIsQuiet DEF EmbedInv, AttemptOK
    <3>. QED  BY <1>1, <1>2, <3>2 DEF Stale, Holds, Exists
  <2>. QED  BY <1>1, <2>1 DEF EmbedInv, LoadedOK
<1>9. FreshWhenQuiet'
  BY <1>1, <1>2, UnusedIsQuiet DEF EmbedInv, FreshWhenQuiet, Pending, Toward, Exists
<1>. QED  BY <1>3, <1>4, <1>5, <1>6, <1>7, <1>8, <1>9 DEF EmbedInv

LEMMA DeleteDocStep ==
  ASSUME EmbedInv, NEW d \in Docs, DeleteDoc(d)
  PROVE  EmbedInv'
<1>1. /\ life' = [life EXCEPT ![d] = "deleted"] /\ text' = [text EXCEPT ![d] = None]
      /\ title' = [title EXCEPT ![d] = None] /\ chunks' = [chunks EXCEPT ![d] = {}]
      /\ mapped' = mapped \ {d}
      /\ UNCHANGED <<att, ahead, world, seen, excused>>
  BY DEF DeleteDoc
<1>2. /\ life'[d] = "deleted" /\ text'[d] = None /\ chunks'[d] = {}
      /\ \A e \in Docs \ {d} : life'[e] = life[e] /\ text'[e] = text[e] /\ chunks'[e] = chunks[e]
  BY <1>1 DEF EmbedInv, TypeOK
<1>3. TypeOK'
  BY <1>1 DEF EmbedInv, TypeOK, world, seen
<1>4. RowsOK'
  BY <1>1, <1>2 DEF EmbedInv, TypeOK, RowsOK, Exists, Docs
<1>5. SemaOK'
  BY <1>1 DEF EmbedInv, SemaOK, InLine, Holds
<1>6. \A a \in Attempts : AttemptOK(a)'
  <2>1. ASSUME NEW a \in Attempts PROVE AttemptOK(a)'
    <3>1. AttemptOK(a)
      BY DEF EmbedInv
    <3>. QED  BY <1>1, <1>2, <3>1 DEF AttemptOK, InFlight
  <2>. QED  BY <2>1
<1>7. ChunksAreWhole'
  BY <1>2 DEF EmbedInv, ChunksAreWhole, Exists
<1>8. LoadedOK'
  <2>1. \A a \in Attempts : Stale(a)' => Stale(a)
    <3>. SUFFICES ASSUME NEW a \in Attempts, Stale(a)' PROVE Stale(a)
      OBVIOUS
    <3>1. InFlight(a)
      BY <1>1 DEF Stale, Holds, Holding, InFlight
    <3>2. att[a].doc \in Docs \ {d}
      BY <1>1, <1>2, <3>1 DEF EmbedInv, AttemptOK, Stale, Exists
    <3>. QED  BY <1>1, <1>2, <3>2 DEF Stale, Holds, Exists
  <2>. QED  BY <1>1, <2>1 DEF EmbedInv, LoadedOK
<1>9. FreshWhenQuiet'
  BY <1>1, <1>2 DEF EmbedInv, FreshWhenQuiet, Pending, Toward, Exists
<1>. QED  BY <1>3, <1>4, <1>5, <1>6, <1>7, <1>8, <1>9 DEF EmbedInv

LEMMA IngestStep ==
  ASSUME EmbedInv, NEW a \in Attempts, NEW d \in Repos, NEW t \in Texts, Ingest(a, d, t)
  PROVE  EmbedInv'
<1>. DEFINE q == Begun("wait", "ingest", d)
<1>0. d \in Docs /\ d \notin ProjectDocs
  BY EmbedAssumption DEF Docs
<1>1. q \in Attempt /\ q.at = "wait" /\ q.kind = "ingest" /\ q.doc = d
  BY <1>0, BegunAttempt DEF Steps, Kinds
<1>2. /\ att[a] = New /\ Set(a, q) /\ Join(a)
      /\ life' = [life EXCEPT ![d] = "row"] /\ text' = [text EXCEPT ![d] = t]
      /\ UNCHANGED <<title, mapped, chunks, world, seen, excused>>
  BY DEF Ingest, Fresh
<1>. HIDE DEF q
<1>3. /\ att' \in [Attempts -> Attempt] /\ att'[a] = q
      /\ \A b \in Attempts \ {a} : att'[b] = att[b]
  BY <1>1, <1>2, SetOne DEF EmbedInv
<1>4. /\ life'[d] = "row" /\ text'[d] = t
      /\ \A e \in Docs \ {d} : life'[e] = life[e] /\ text'[e] = text[e]
  BY <1>0, <1>2 DEF EmbedInv, TypeOK
<1>5. ~InLine(a) /\ ~Stale(a)' /\ AttemptOK(a)' /\ Toward(a, d)'
  BY <1>0, <1>1, <1>2, <1>3, <1>4, NewKeepsWork DEF Stale, AttemptOK, InFlight, Toward, Holds, Holding
<1>6. SemaOK' /\ ahead' \in [Attempts -> SUBSET Attempts]
  BY <1>1, <1>2, <1>3, <1>5, SemaJoin DEF EmbedInv
<1>7. TypeOK'
  BY <1>0, <1>2, <1>3, <1>6 DEF EmbedInv, TypeOK, world, seen
<1>8. RowsOK'
  BY <1>0, <1>2, <1>4, EmbedAssumption DEF EmbedInv, TypeOK, RowsOK, Exists, Docs
<1>9. \A b \in Attempts : AttemptOK(b)'
  <2>1. ASSUME NEW b \in Attempts \ {a} PROVE AttemptOK(b)'
    <3>1. AttemptOK(b) /\ att'[b] = att[b]
      BY <1>3 DEF EmbedInv
    <3>. QED  BY <1>4, <3>1 DEF AttemptOK, InFlight
  <2>. QED  BY <1>5, <2>1
<1>10. ChunksAreWhole'
  BY <1>2, <1>4 DEF EmbedInv, ChunksAreWhole, Exists
<1>11. LoadedOK'
  <2>. SUFFICES ASSUME NEW b \in Attempts \ {a}, Stale(b)'
                PROVE  \E c \in Attempts : (att'[c].doc = att'[b].doc /\ att'[c].at = "wait")
    BY <1>5 DEF LoadedOK
  <2>1. CASE att[b].doc = d
    BY <1>1, <1>3, <2>1
  <2>2. CASE att[b].doc # d
    <3>1. InFlight(b) /\ att[b].doc \in Docs
      BY <1>3 DEF Stale, Holds, Holding, InFlight, EmbedInv, AttemptOK
    <3>2. Stale(b)
      BY <1>2, <1>3, <1>4, <2>2, <3>1 DEF Stale, Holds, Exists
    <3>3. PICK c \in Attempts : att[c].doc = att[b].doc /\ att[c].at = "wait"
      BY <3>2 DEF EmbedInv, LoadedOK
    <3>4. c # a
      BY <1>2, <3>3, NewIsIdle
    <3>. QED  BY <1>3, <3>3, <3>4
  <2>. QED  BY <2>1, <2>2
<1>12. FreshWhenQuiet'
  <2>. SUFFICES ASSUME NEW e \in Docs \ excused', Exists(e)', ~Pending(e)',
                       e \in ProjectDocs => e \in mapped'
                PROVE  \E ti \in Titles \cup {None} : chunks'[e] = ChunksOf(text'[e], ti)
    BY DEF FreshWhenQuiet
  <2>1. e # d
    BY <1>5 DEF Pending
  <2>2. ~Pending(e)
    BY <1>2, <1>3, NewIsIdle DEF Pending, Toward, Holding
  <2>. QED  BY <1>2, <1>4, <2>1, <2>2 DEF EmbedInv, FreshWhenQuiet, Exists
<1>. QED  BY <1>6, <1>7, <1>8, <1>9, <1>10, <1>11, <1>12 DEF EmbedInv

LEMMA UploadCvStep ==
  ASSUME EmbedInv, NEW a \in Attempts, NEW d \in Cvs, NEW t \in Texts, UploadCv(a, d, t)
  PROVE  EmbedInv'
<1>. DEFINE old == {c \in Cvs : Exists(c)}
            q == Begun(IF old = {} THEN "mark" ELSE "reset", "background", d)
<1>0. d \in Docs /\ d \notin ProjectDocs /\ old \subseteq Docs /\ old \cap ProjectDocs = {}
  BY EmbedAssumption DEF Docs
<1>1. q \in Attempt /\ q.at \in {"mark", "reset"} /\ q.kind = "background" /\ q.doc = d
  BY <1>0, BegunAttempt DEF Steps, Kinds
<1>2. /\ att[a] = New /\ Set(a, q) /\ life[d] = "unused"
      /\ life' = [x \in Docs |-> IF x = d THEN "row" ELSE IF x \in old THEN "deleted" ELSE life[x]]
      /\ text' = [x \in Docs |-> IF x = d THEN t ELSE IF x \in old THEN None ELSE text[x]]
      /\ chunks' = [x \in Docs |-> IF x \in old THEN {} ELSE chunks[x]]
      /\ UNCHANGED <<title, mapped, ahead, world, seen, excused>>
  BY DEF UploadCv, Fresh
<1>3. d \notin old
  BY <1>2 DEF Exists
<1>. HIDE DEF q, old
<1>4. /\ att' \in [Attempts -> Attempt] /\ att'[a] = q
      /\ \A b \in Attempts \ {a} : att'[b] = att[b]
  BY <1>1, <1>2, SetOne DEF EmbedInv
<1>5. /\ life'[d] = "row" /\ text'[d] = t /\ chunks'[d] = chunks[d]
      /\ \A e \in old : life'[e] = "deleted" /\ text'[e] = None /\ chunks'[e] = {}
      /\ \A e \in Docs \ (old \cup {d}) :
           life'[e] = life[e] /\ text'[e] = text[e] /\ chunks'[e] = chunks[e]
  BY <1>0, <1>2, <1>3
<1>6. ~InLine(a) /\ ~Holds(a) /\ ~InLine(a)' /\ ~Holds(a)' /\ ~Stale(a)' /\ AttemptOK(a)' /\ Toward(a, d)'
  BY <1>0, <1>1, <1>2, <1>4, <1>5, NewKeepsWork
     DEF Stale, AttemptOK, InFlight, Toward, InLine, Holds, Holding
<1>7. SemaOK'
  BY <1>2, <1>4, <1>6, SemaKept DEF EmbedInv
<1>8. TypeOK'
  <2>1. /\ life' \in [Docs -> {"unused", "row", "deleted"}]
        /\ text' \in [Docs -> Texts \cup {None}]
        /\ chunks' \in [Docs -> SUBSET Chunk]
    BY <1>2 DEF EmbedInv, TypeOK
  <2>. QED  BY <1>2, <1>4, <2>1 DEF EmbedInv, TypeOK, world, seen
<1>9. RowsOK'
  <2>1. \A e \in Docs : Exists(e)' <=> text'[e] # None
    BY <1>0, <1>5, EmbedAssumption DEF EmbedInv, RowsOK, Exists
  <2>2. \A e \in mapped : e \in Docs \ (old \cup {d})
    BY <1>0 DEF EmbedInv, TypeOK, Docs
  <2>. QED  BY <1>2, <1>5, <2>1, <2>2 DEF EmbedInv, RowsOK, Exists
<1>10. \A b \in Attempts : AttemptOK(b)'
  <2>1. ASSUME NEW b \in Attempts \ {a} PROVE AttemptOK(b)'
    <3>1. AttemptOK(b) /\ att'[b] = att[b]
      BY <1>4 DEF EmbedInv
    <3>2. \A e \in Docs : life[e] # "unused" => life'[e] # "unused"
      BY <1>5
    <3>. QED  BY <3>1, <3>2 DEF AttemptOK, InFlight
  <2>. QED  BY <1>6, <2>1
<1>11. ChunksAreWhole'
  <2>. SUFFICES ASSUME NEW e \in Docs, chunks'[e] # {}
                PROVE  Exists(e)' /\ \E u \in Texts, ti \in Titles \cup {None} : chunks'[e] = ChunksOf(u, ti)
    BY DEF ChunksAreWhole
  <2>1. chunks[d] = {}
    BY <1>0, <1>2, UnusedIsQuiet
  <2>2. e \in Docs \ (old \cup {d})
    BY <1>5, <2>1
  <2>. QED  BY <1>5, <2>2 DEF EmbedInv, ChunksAreWhole, Exists
<1>12. LoadedOK'
  <2>. SUFFICES ASSUME NEW b \in Attempts \ {a}, Stale(b)'
                PROVE  \E c \in Attempts : (att'[c].doc = att'[b].doc /\ att'[c].at = "wait")
    BY <1>6 DEF LoadedOK
  <2>1. InFlight(b) /\ att[b].doc \in Docs \ {d}
    BY <1>0, <1>2, <1>4, UnusedIsQuiet DEF Stale, Holds, Holding, InFlight, EmbedInv, AttemptOK
  <2>2. att[b].doc \notin old
    BY <1>4, <1>5 DEF Stale, Exists
  <2>3. Stale(b)
    BY <1>2, <1>4, <1>5, <2>1, <2>2 DEF Stale, Holds, Exists
  <2>4. PICK c \in Attempts : att[c].doc = att[b].doc /\ att[c].at = "wait"
    BY <2>3 DEF EmbedInv, LoadedOK
  <2>5. c # a
    BY <1>2, <2>4, NewIsIdle
  <2>. QED  BY <1>4, <2>4, <2>5
<1>13. FreshWhenQuiet'
  <2>. SUFFICES ASSUME NEW e \in Docs \ excused', Exists(e)', ~Pending(e)',
                       e \in ProjectDocs => e \in mapped'
                PROVE  \E ti \in Titles \cup {None} : chunks'[e] = ChunksOf(text'[e], ti)
    BY DEF FreshWhenQuiet
  <2>1. e # d
    BY <1>6 DEF Pending
  <2>2. e \notin old
    BY <1>5 DEF Exists
  <2>3. ~Pending(e)
    BY <1>2, <1>4, NewIsIdle DEF Pending, Toward, Holding
  <2>. QED  BY <1>2, <1>5, <2>1, <2>2, <2>3 DEF EmbedInv, FreshWhenQuiet, Exists
<1>. QED  BY <1>7, <1>8, <1>9, <1>10, <1>11, <1>12, <1>13 DEF EmbedInv

-----------------------------------------------------------------------------
(* Neighbours and faults. *)

\* Steps that no document's chunks depend on.
LEMMA AsideStep ==
  ASSUME EmbedInv, UNCHANGED <<life, text, mapped, chunks, att, ahead, excused>>, TypeOK'
  PROVE  EmbedInv'
<1>1. RowsOK' /\ SemaOK' /\ ChunksAreWhole'
  BY DEF EmbedInv, RowsOK, SemaOK, ChunksAreWhole, Exists, InLine, Holds
<1>2. \A a \in Attempts : AttemptOK(a)'
  <2>1. ASSUME NEW a \in Attempts PROVE AttemptOK(a)'
    <3>1. AttemptOK(a)
      BY DEF EmbedInv
    <3>. QED  BY <3>1 DEF AttemptOK, InFlight
  <2>. QED  BY <2>1
<1>3. LoadedOK' /\ FreshWhenQuiet'
  BY DEF EmbedInv, LoadedOK, Stale, FreshWhenQuiet, Pending, Toward, Holds, Exists
<1>. QED  BY <1>1, <1>2, <1>3 DEF EmbedInv

LEMMA NeighbourStep ==
  ASSUME EmbedInv,
         \/ \E d \in ProjectDocs, ti \in Titles : RunIntake(d, ti)
         \/ Boot \/ LoadModel \/ RestartSidecar
  PROVE  EmbedInv'
<1>1. CASE \E d \in ProjectDocs, ti \in Titles : RunIntake(d, ti)
  <2>1. PICK d \in ProjectDocs, ti \in Titles : RunIntake(d, ti)
    BY <1>1
  <2>2. TypeOK'
    BY <2>1 DEF EmbedInv, TypeOK, RunIntake, world, Docs
  <2>. QED  BY <2>1, <2>2, AsideStep DEF RunIntake
<1>2. CASE Boot
  BY <1>2, AsideStep DEF EmbedInv, TypeOK, Boot, rows, seen
<1>3. CASE LoadModel
  BY <1>3, AsideStep DEF EmbedInv, TypeOK, LoadModel, rows, seen
<1>4. CASE RestartSidecar
  <2>1. faults' \in 0..MaxFaults
    BY <1>4, EmbedAssumption DEF EmbedInv, TypeOK, RestartSidecar
  <2>. QED  BY <1>4, <2>1, AsideStep DEF EmbedInv, TypeOK, RestartSidecar, rows, seen
<1>. QED  BY <1>1, <1>2, <1>3, <1>4

LEMMA CrashStep ==
  ASSUME EmbedInv, Crash
  PROVE  EmbedInv'
<1>. DEFINE lost == {a \in Attempts : InFlight(a) /\ att[a].kind # "backfill"}
<1>1. /\ att' = [a \in Attempts |-> IF a \in lost THEN Over ELSE att[a]]
      /\ excused' = excused \cup {att[a].doc : a \in lost}
      /\ ahead' = [a \in Attempts |-> {}]
      /\ api' = "down" /\ faults' = faults + 1 /\ faults < MaxFaults
      /\ UNCHANGED <<rows, chunks, model, seen>>
  BY DEF Crash
<1>2. \A a \in lost : att'[a].at = "over" /\ att'[a].kind = "none" /\ att[a].doc \in Docs
  BY <1>1, OverAttempt DEF EmbedInv, AttemptOK
<1>3. \A a \in Attempts \ lost : att'[a] = att[a]
  BY <1>1
<1>4. \A a \in Attempts : ~InLine(a)'
  <2>1. ASSUME NEW a \in lost PROVE ~InLine(a)'
    BY <1>2 DEF InLine, Holds, Holding
  <2>2. ASSUME NEW a \in Attempts \ lost PROVE ~InLine(a)'
    <3>1. AttemptOK(a) /\ att'[a] = att[a]
      BY <1>3 DEF EmbedInv
    <3>. QED  BY <3>1 DEF AttemptOK, InLine, Holds, InFlight, Holding
  <2>. QED  BY <2>1, <2>2
<1>5. TypeOK'
  <2>1. att' \in [Attempts -> Attempt]
    BY <1>1, OverAttempt DEF EmbedInv, TypeOK
  <2>2. faults' \in 0..MaxFaults
    BY <1>1, EmbedAssumption DEF EmbedInv, TypeOK
  <2>3. excused' \subseteq Docs
    BY <1>1, <1>2 DEF EmbedInv, TypeOK
  <2>4. ahead' \in [Attempts -> SUBSET Attempts]
    BY <1>1
  <2>. QED  BY <1>1, <2>1, <2>2, <2>3, <2>4 DEF EmbedInv, TypeOK, rows, seen
<1>6. RowsOK' /\ ChunksAreWhole'
  BY <1>1 DEF EmbedInv, RowsOK, ChunksAreWhole, Exists, rows
<1>7. SemaOK'
  BY <1>1, <1>4 DEF SemaOK, InLine
<1>8. \A a \in Attempts : AttemptOK(a)'
  <2>1. ASSUME NEW a \in lost PROVE AttemptOK(a)'
    BY <1>2 DEF AttemptOK, InFlight
  <2>2. ASSUME NEW a \in Attempts \ lost PROVE AttemptOK(a)'
    <3>1. AttemptOK(a) /\ att'[a] = att[a]
      BY <1>3 DEF EmbedInv
    <3>. QED  BY <1>1, <3>1 DEF AttemptOK, InFlight, rows
  <2>. QED  BY <2>1, <2>2
<1>9. LoadedOK'
  BY <1>4 DEF LoadedOK, Stale, InLine
<1>10. FreshWhenQuiet'
  <2>. SUFFICES ASSUME NEW d \in Docs \ excused', Exists(d)', ~Pending(d)',
                       d \in ProjectDocs => d \in mapped'
                PROVE  \E ti \in Titles \cup {None} : chunks'[d] = ChunksOf(text'[d], ti)
    BY DEF FreshWhenQuiet
  <2>1. ~Pending(d)
    <3>. SUFFICES ASSUME NEW a \in Attempts, Toward(a, d) PROVE FALSE
      BY DEF Pending
    <3>1. a \in lost
      BY DEF Toward, InFlight, Holding
    <3>. QED  BY <1>1, <3>1 DEF Toward
  <2>. QED  BY <1>1, <2>1 DEF EmbedInv, FreshWhenQuiet, Exists, rows
<1>. QED  BY <1>5, <1>6, <1>7, <1>8, <1>9, <1>10 DEF EmbedInv

-----------------------------------------------------------------------------
LEMMA InitEmbedInv == Init => EmbedInv
<1>. SUFFICES ASSUME Init PROVE EmbedInv
  OBVIOUS
<1>1. New \in Attempt
  BY BegunAttempt DEF New, Steps, Kinds
<1>2. \A a \in Attempts : att[a].at = "new" /\ att[a].kind = "none"
  BY NewIsIdle DEF Init
<1>3. TypeOK
  BY <1>1, EmbedAssumption DEF Init, TypeOK
<1>4. RowsOK /\ ChunksAreWhole
  BY DEF Init, RowsOK, ChunksAreWhole, Exists
<1>5. SemaOK /\ LoadedOK
  BY <1>2 DEF Init, SemaOK, LoadedOK, Stale, InLine, Holds, Holding
<1>6. \A a \in Attempts : AttemptOK(a)
  BY <1>2 DEF AttemptOK, InFlight
<1>7. FreshWhenQuiet
  BY DEF Init, FreshWhenQuiet, Exists
<1>. QED  BY <1>3, <1>4, <1>5, <1>6, <1>7 DEF EmbedInv

LEMMA NextEmbedInv == EmbedInv /\ [Next]_vars => EmbedInv'
<1>. SUFFICES ASSUME EmbedInv, [Next]_vars PROVE EmbedInv'
  OBVIOUS
<1>1. CASE UNCHANGED vars
  BY <1>1, AsideStep DEF vars, rows, world, seen, EmbedInv, TypeOK
<1>2. ASSUME NEW a \in Attempts, Begin(a) PROVE EmbedInv'
  BY <1>2, UploadCvStep, RetryEmbedStep, BackfillStep, ApplyMappingStep, IngestStep DEF Begin
<1>3. ASSUME NEW a \in Attempts, Continue(a) PROVE EmbedInv'
  BY <1>3, ResetMappingsStep, MarkStep, EnterStep, LoadStep, EmbedBatchStep, BatchFailsStep,
     DeleteChunksStep, InsertChunksStep DEF Continue
<1>4. ASSUME NEW a \in Attempts, CutOff(a) PROVE EmbedInv'
  BY <1>4, FailStep DEF CutOff
<1>5. ASSUME NEW d \in ProjectDocs, NEW t \in Texts, UploadProjectDoc(d, t) PROVE EmbedInv'
  BY <1>5, UploadProjectDocStep
<1>6. ASSUME NEW d \in Docs, DeleteDoc(d) PROVE EmbedInv'
  BY <1>6, DeleteDocStep
<1>7. CASE Crash
  BY <1>7, CrashStep
<1>8. CASE \/ \E d \in ProjectDocs, ti \in Titles : RunIntake(d, ti)
           \/ Boot \/ LoadModel \/ RestartSidecar
  BY <1>8, NeighbourStep
<1>. QED  BY <1>1, <1>2, <1>3, <1>4, <1>5, <1>6, <1>7, <1>8 DEF Next

\* The inductive invariant of embedding: among others at most one attempt holds
\* the semaphore, and an attempt whose text is no longer the document's has
\* another one waiting behind it (rag/ingest.py, rag/concurrency.py).
THEOREM EmbeddingInvariant == Spec => []EmbedInv
<1>. QED  BY InitEmbedInv, NextEmbedInv, PTL DEF Spec

\* However attempts, the backfill and deletions overlap, a document has no
\* chunks or all the chunks of one text (embed_and_store_document).
THEOREM WholeChunks == Spec => []ChunksAreWhole
<1>1. EmbedInv => ChunksAreWhole
  BY DEF EmbedInv
<1>. QED  BY <1>1, EmbeddingInvariant, PTL

\* A document no attempt is at work for, whose last one was not lost, has the
\* chunks of its present text (ingest_repo, apply_mapping, _embed_in_background).
THEOREM FreshChunks == Spec => []FreshWhenQuiet
<1>1. EmbedInv => FreshWhenQuiet
  BY DEF EmbedInv
<1>. QED  BY <1>1, EmbeddingInvariant, PTL
=============================================================================
