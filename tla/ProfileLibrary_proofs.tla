------------------------ MODULE ProfileLibrary_proofs ------------------------
(***************************************************************************)
(* The inductive invariant of the library, for any documents and faults,   *)
(* and what it says of a profile that counts as current.                   *)
(***************************************************************************)
EXTENDS ProfileLibrary, SequenceTheorems, TLAPS

-----------------------------------------------------------------------------
(* Mappings. *)

\* Mappings belong to project documents.
LEMMA MappedDocs ==
  ASSUME mappings \in Seq(Entry)
  PROVE  Mapped \subseteq Docs
<1>1. \A i \in DOMAIN mappings : mappings[i] \in Entry
  OBVIOUS
<1>2. \A m \in Entry : m.doc \in Docs
  BY DEF Entry
<1>. QED  BY <1>1, <1>2 DEF Mapped

\* Dropping a document's entry leaves a sequence of entries.
LEMMA WithoutType ==
  ASSUME mappings \in Seq(Entry), NEW d
  PROVE  Without(d) \in Seq(Entry)
<1>1. CASE d \notin Mapped
  BY <1>1 DEF Without
<1>2. CASE d \in Mapped
  <2>1. Position(d) \in DOMAIN mappings
    BY <1>2 DEF Position, Mapped
  <2>2. Position(d) \in 1..Len(mappings)
    BY <2>1
  <2>. DEFINE n == Position(d)
  <2>3. SubSeq(mappings, 1, n - 1) \in Seq(Entry)
    BY <2>2
  <2>4. SubSeq(mappings, n + 1, Len(mappings)) \in Seq(Entry)
    BY <2>2
  <2>5. RemoveAt(mappings, n) \in Seq(Entry)
    BY <2>3, <2>4 DEF RemoveAt
  <2>. QED  BY <1>2, <2>5 DEF Without
<1>. QED  BY <1>1, <1>2

-----------------------------------------------------------------------------
(* Keys. *)

\* The CV and the repositories of the current document set are the stored ones.
LEMMA CurrentByKind ==
  ASSUME TypeOK
  PROVE  /\ CurrentIds \subseteq Ids
         /\ CurrentIds \cap Cvs = Stored(Cvs)
         /\ CurrentIds \cap Repos = Stored(Repos)
<1>1. Mapped \subseteq Docs
  BY MappedDocs DEF TypeOK
<1>2. Stored(Cvs) \subseteq Cvs /\ Stored(Repos) \subseteq Repos
  BY DEF Stored
<1>. QED  BY <1>1, <1>2, LibraryAssumption DEF CurrentIds, Ids

\* A current key vouches for the CV and the repositories.
LEMMA HitSources ==
  ASSUME LibraryInv, Hit, trust # "masked"
  PROVE  profile.cv \in Stored(Cvs) /\ profile.github \subseteq Stored(Repos)
<1>1. /\ profile.key \cap Cvs = {profile.cv}
      /\ profile.github \subseteq profile.key
      /\ profile.github \subseteq Repos
      /\ profile.key = CurrentIds
  BY DEF LibraryInv, TypeOK, KeyNamesSources, Hit
<1>2. CurrentIds \cap Cvs = Stored(Cvs) /\ CurrentIds \cap Repos = Stored(Repos)
  BY CurrentByKind DEF LibraryInv
<1>. QED  BY <1>1, <1>2

-----------------------------------------------------------------------------
(* Steps that leave the profile alone. *)

\* What such a step has to show: types, the request, the CVs, and that a sound
\* profile is behind only where it may be.
LEMMA KeepsProfile ==
  ASSUME LibraryInv, UNCHANGED profile, TypeOK', RequestOK', OneCv',
         ProfileHasItsCv', BehindOnlyAtWork',
         trust' # "masked" => trust # "masked"
  PROVE  LibraryInv'
<1>1. KeyNamesSources'
  BY DEF LibraryInv, KeyNamesSources
<1>. QED  BY <1>1 DEF LibraryInv

\* A step on the request and the history alone, which ends or goes on where a
\* sound profile was up to date.
LEMMA RequestStep ==
  ASSUME LibraryInv, UNCHANGED <<state, profile>>,
         mappings' \in Seq(Entry), faults' \in 0..MaxFaults,
         req' \in Requests,
         RequestOK',
         \/ trust' \in {"dirty", "masked"} /\ (trust' = "dirty" => trust # "masked")
         \/ trust' = trust /\ (profile.exists /\ trust = "sound" => BehindOnlyAtWork')
  PROVE  LibraryInv'
<1>1. UNCHANGED <<Stored(Cvs), Stored(Repos)>>
  BY DEF Stored
<1>2. TypeOK'
  BY DEF LibraryInv, TypeOK
<1>3. OneCv' /\ ProfileHasItsCv'
  BY <1>1 DEF LibraryInv, OneCv, ProfileHasItsCv
<1>4. BehindOnlyAtWork'
  BY DEF BehindOnlyAtWork
<1>. QED  BY <1>2, <1>3, <1>4, KeepsProfile

-----------------------------------------------------------------------------
(* Steps of Save. *)

\* What a writer of the profile has to show: the profile it read was of the
\* stored CV and repositories, unless a fault came before it.
LEMMA SaveStep ==
  ASSUME LibraryInv, profile.exists,
         UNCHANGED <<state, faults>>, mappings' \in Seq(Entry),
         NEW parts, NEW tangled \in BOOLEAN,
         NEW github \in SUBSET Repos, NEW key \in SUBSET Ids,
         Save(parts, tangled, github, key),
         trust = "sound" =>
           /\ profile.cv \in Stored(Cvs)
           /\ github \subseteq Stored(Repos)
           /\ key \cap Cvs = Stored(Cvs)
           /\ github \subseteq key,
         req' \in Requests,
         RequestOK'
  PROVE  LibraryInv'
<1>1. /\ profile'.exists = TRUE /\ profile'.key = key /\ profile'.cv = profile.cv
      /\ profile'.github = github /\ profile'.tangled = tangled
      /\ trust' = IF trust = "dirty" THEN "masked" ELSE trust
  BY DEF Save
<1>2. /\ Stored(Cvs)' = Stored(Cvs) /\ Stored(Repos)' = Stored(Repos)
  BY DEF Stored
<1>3. TypeOK'
  BY <1>1 DEF LibraryInv, TypeOK
<1>4. OneCv' /\ ProfileHasItsCv'
  BY <1>2 DEF LibraryInv, OneCv, ProfileHasItsCv
<1>5. trust' # "masked" => trust = "sound" /\ trust' = "sound"
  BY <1>1 DEF LibraryInv, TypeOK
<1>6. BehindOnlyAtWork'
  BY <1>1, <1>2, <1>5 DEF BehindOnlyAtWork
<1>7. KeyNamesSources'
  <2>1. profile.cv \in Cvs
    BY DEF LibraryInv, KeyNamesSources
  <2>2. trust = "sound" => Stored(Cvs) = {profile.cv}
    BY DEF LibraryInv, OneCv
  <2>. QED  BY <1>1, <1>5, <2>1, <2>2 DEF KeyNamesSources
<1>. QED  BY <1>3, <1>4, <1>6, <1>7 DEF LibraryInv

\* A sound profile at a step where it may not be behind.
LEMMA SoundProfile ==
  ASSUME LibraryInv, profile.exists, trust = "sound", ~At("drop_profile")
  PROVE  /\ profile.cv \in Stored(Cvs)
         /\ At("idle") \/ At("save") => profile.github \subseteq Stored(Repos)
BY DEF LibraryInv, BehindOnlyAtWork

\* Revert, at the start of a deletion or a remap.
LEMMA RevertStep ==
  ASSUME LibraryInv, At("idle"), NEW d \in Docs, Revert(d),
         UNCHANGED <<state, mappings, faults>>,
         req' \in Requests, req'.step \in {"delete", "apply"}, req'.doc = d
  PROVE  LibraryInv'
<1>1. RequestOK'
  BY LibraryAssumption DEF Ids, RequestOK, At
<1>3. CASE d \in Mapped /\ profile.exists
  <2>. DEFINE parts == Unmapped(d)
              tangled == profile.tangled \/ Entangled(d)
  <2>1. Save(parts, tangled, profile.github, CurrentIds \ {d})
    BY <1>3 DEF Revert
  <2>2. /\ CurrentIds \subseteq Ids
        /\ CurrentIds \cap Cvs = Stored(Cvs)
        /\ CurrentIds \cap Repos = Stored(Repos)
    BY CurrentByKind DEF LibraryInv
  <2>3. d \notin Cvs /\ d \notin Repos
    BY LibraryAssumption
  <2>4. profile.github \in SUBSET Repos /\ mappings' \in Seq(Entry)
    BY DEF LibraryInv, TypeOK
  <2>5. trust = "sound" => profile.cv \in Stored(Cvs) /\ profile.github \subseteq Stored(Repos)
    BY <1>3, SoundProfile DEF At
  <2>6. (CurrentIds \ {d}) \cap Cvs = Stored(Cvs)
    BY <2>2, <2>3
  <2>7. profile.github \subseteq Stored(Repos) => profile.github \subseteq CurrentIds \ {d}
    BY <2>2, <2>3, <2>4
  <2>8. CurrentIds \ {d} \in SUBSET Ids
    BY <2>2
  <2>9. tangled \in BOOLEAN
    OBVIOUS
  <2>. HIDE DEF parts, tangled
  <2>. QED  BY <1>1, <1>3, <2>1, <2>4, <2>5, <2>6, <2>7, <2>8, <2>9, SaveStep
<1>4. CASE ~(d \in Mapped /\ profile.exists)
  <2>1. UNCHANGED <<profile, trust>>
    BY <1>4 DEF Revert
  <2>2. UNCHANGED <<Stored(Cvs), Stored(Repos)>>
    BY DEF Stored
  <2>3. profile.exists /\ trust = "sound" => BehindOnlyAtWork'
    BY <2>1, <2>2, SoundProfile DEF BehindOnlyAtWork, At
  <2>4. mappings' \in Seq(Entry) /\ faults' \in 0..MaxFaults
    BY DEF LibraryInv, TypeOK
  <2>. QED  BY <1>1, <2>1, <2>3, <2>4, RequestStep
<1>. QED  BY <1>3, <1>4
-----------------------------------------------------------------------------
(* Upload. *)

LEMMA UploadDocStep ==
  ASSUME LibraryInv, NEW d \in Docs, UploadDoc(d)
  PROVE  LibraryInv'
<1>1. TypeOK'
  BY DEF LibraryInv, TypeOK, UploadDoc
<1>2. Stored(Cvs)' = Stored(Cvs) /\ Stored(Repos)' = Stored(Repos)
  BY LibraryAssumption DEF LibraryInv, TypeOK, UploadDoc, Stored, Ids
<1>3. RequestOK' /\ OneCv' /\ ProfileHasItsCv' /\ BehindOnlyAtWork'
  BY <1>2 DEF LibraryInv, RequestOK, OneCv, ProfileHasItsCv, BehindOnlyAtWork, UploadDoc, At
<1>. QED  BY <1>1, <1>3, KeepsProfile DEF UploadDoc

LEMMA UploadCvStep ==
  ASSUME LibraryInv, NEW c \in Cvs, UploadCv(c)
  PROVE  LibraryInv'
<1>1. state' \in [Ids -> {"new", "half", "full", "gone"}]
  BY DEF LibraryInv, TypeOK, UploadCv
<1>2. /\ req.step = "idle"
      /\ req' \in Requests
      /\ req'.step = IF Stored(Cvs) = {} THEN "idle" ELSE "drop_profile"
  BY DEF LibraryInv, TypeOK, UploadCv, Goto, At, Steps, Requests
<1>3. TypeOK'
  BY <1>1, <1>2 DEF LibraryInv, TypeOK, UploadCv
<1>4. RequestOK'
  BY <1>2 DEF RequestOK, At
<1>5. Stored(Cvs)' = {c}
  BY LibraryAssumption DEF LibraryInv, TypeOK, UploadCv, Stored, Ids
<1>6. Stored(Repos)' = Stored(Repos)
  BY LibraryAssumption DEF LibraryInv, TypeOK, UploadCv, Stored, Ids
<1>7. OneCv' /\ ProfileHasItsCv'
  BY <1>5 DEF OneCv, ProfileHasItsCv
<1>8. BehindOnlyAtWork'
  BY <1>2, <1>6 DEF LibraryInv, ProfileHasItsCv, BehindOnlyAtWork, UploadCv, At
<1>. QED  BY <1>3, <1>4, <1>7, <1>8, KeepsProfile DEF UploadCv

\* Dropping the profile leaves nothing to show but types and the CVs.
LEMMA DropStep ==
  ASSUME LibraryInv, DropProfile, UNCHANGED <<state, mappings, faults>>,
         req' \in Requests,
         RequestOK'
  PROVE  LibraryInv'
<1>1. profile'.exists = FALSE /\ profile'.key = {} /\ profile'.cv = NoDoc
        /\ profile'.github = {} /\ profile'.tangled = FALSE
  BY DEF DropProfile, NoProfile
<1>2. TypeOK'
  BY <1>1 DEF LibraryInv, TypeOK, DropProfile
<1>3. OneCv'
  BY DEF LibraryInv, OneCv, Stored
<1>. QED
  BY <1>1, <1>2, <1>3 DEF LibraryInv, ProfileHasItsCv, BehindOnlyAtWork, KeyNamesSources

LEMMA DropOldProfileStep ==
  ASSUME LibraryInv, DropOldProfile
  PROVE  LibraryInv'
<1>1. /\ req' \in Requests
      /\ req'.step = "reset_mappings"
  BY DEF LibraryInv, TypeOK, DropOldProfile, Goto, Steps, Requests
<1>2. RequestOK'
  BY <1>1 DEF RequestOK, At, DropOldProfile, DropProfile, NoProfile
<1>. QED  BY <1>1, <1>2, DropStep DEF DropOldProfile

\* A request that is over asks nothing of its document.
LEMMA DoneOK ==
  ASSUME Done
  PROVE  req' \in Requests /\ RequestOK'
         /\ req'.step = "idle"
BY DEF Done, Idle, RequestOK, At, Steps, Requests, Extracted, NoExtract

LEMMA ResetMappingsStep ==
  ASSUME LibraryInv, ResetMappings
  PROVE  LibraryInv'
<1>1. ~profile.exists
  BY DEF LibraryInv, RequestOK, ResetMappings
<1>2. mappings' \in Seq(Entry) /\ faults' \in 0..MaxFaults
  BY DEF LibraryInv, TypeOK, ResetMappings
<1>. QED  BY <1>1, <1>2, DoneOK, RequestStep DEF ResetMappings

-----------------------------------------------------------------------------
(* Deletion. *)

\* A request that begins with a document, and one that answers a mapping.
LEMMA BeginOK ==
  ASSUME NEW d \in Ids, Begin("delete", d)
  PROVE  req' \in Requests /\ req'.step = "delete" /\ req'.doc = d
<1>1. req' = [step |-> "delete", doc |-> d, rows |-> {}, adds |-> NoExtract, todo |-> {}]
  BY DEF Begin, Idle
<1>. QED  BY <1>1 DEF Steps, Requests, Extracted, NoExtract

LEMMA AnswerOK ==
  ASSUME NEW d \in Docs, NEW rows \in Answers, NEW x \in Payloads, Answer(d, rows, x)
  PROVE  req' \in Requests /\ req'.step = "apply" /\ req'.doc = d /\ RequestOK'
<1>1. req' = [step |-> "apply", doc |-> d, rows |-> rows, adds |-> x, todo |-> {}]
  BY DEF Answer
<1>2. rows \in SUBSET RowKinds /\ x \in Extracted
  BY LibraryAssumption DEF Answers
<1>. QED  BY <1>1, <1>2 DEF Steps, Requests, Ids, RequestOK, At

LEMMA DeleteCvStep ==
  ASSUME LibraryInv, NEW c \in Cvs, DeleteCv(c)
  PROVE  LibraryInv'
<1>1. req'.step = "delete" /\ req'.doc = c
  BY BeginOK DEF DeleteCv, Ids
<1>2. req' \in Requests
  BY BeginOK DEF DeleteCv, Ids
<1>3. RequestOK'
  BY <1>1 DEF RequestOK, At, Ids, DeleteCv, DropProfile, NoProfile
<1>. QED  BY <1>2, <1>3, DropStep DEF DeleteCv

LEMMA DeleteDocStep ==
  ASSUME LibraryInv, NEW d \in Docs, DeleteDoc(d)
  PROVE  LibraryInv'
<1>1. req' \in Requests /\ req'.step = "delete" /\ req'.doc = d
  BY BeginOK DEF DeleteDoc, Ids
<1>. QED  BY <1>1, RevertStep DEF DeleteDoc

\* A fault the profile may not survive makes it suspect.
LEMMA DamageStep ==
  ASSUME LibraryInv, NEW kind, Damage(kind)
  PROVE  /\ faults' \in 0..MaxFaults
         /\ trust' \in {"dirty", "masked"} /\ (trust' = "dirty" => trust # "masked")
<1>1. trust \in {"sound", "dirty", "masked"} /\ faults \in 0..MaxFaults
  BY DEF LibraryInv, TypeOK
<1>2. MaxFaults \in Nat
  BY LibraryAssumption
<1>. QED  BY <1>1, <1>2 DEF Damage, Damaged, Fault

LEMMA DeleteUnrevertedStep ==
  ASSUME LibraryInv, NEW d \in Docs, DeleteUnreverted(d)
  PROVE  LibraryInv'
<1>1. mappings' \in Seq(Entry)
  BY DEF LibraryInv, TypeOK, DeleteUnreverted
<1>2. req' \in Requests /\ RequestOK'
  <2>1. req' \in Requests /\ req'.step = "delete" /\ req'.doc = d
    BY BeginOK DEF DeleteUnreverted, Ids
  <2>. QED  BY <2>1, LibraryAssumption DEF RequestOK, At, Ids, DeleteUnreverted
<1>3. /\ faults' \in 0..MaxFaults
      /\ trust' \in {"dirty", "masked"} /\ (trust' = "dirty" => trust # "masked")
  BY DamageStep DEF DeleteUnreverted
<1>4. UNCHANGED <<state, profile>>
  BY DEF DeleteUnreverted
<1>. QED  BY <1>1, <1>2, <1>3, <1>4, RequestStep

LEMMA DeleteRepoStep ==
  ASSUME LibraryInv, NEW u \in Repos, DeleteRepo(u)
  PROVE  LibraryInv'
<1>1. req' \in Requests /\ req'.step = "delete" /\ req'.doc = u
  BY BeginOK DEF DeleteRepo, Ids
<1>2. req' \in Requests /\ RequestOK'
  BY <1>1, LibraryAssumption DEF Steps, Requests, Ids, RequestOK, At
<1>3. profile.exists /\ trust = "sound" => BehindOnlyAtWork'
  <2>1. UNCHANGED <<Stored(Cvs), Stored(Repos), profile, trust>>
    BY DEF DeleteRepo, Stored
  <2>2. u \notin Docs
    BY LibraryAssumption
  <2>. QED  BY <1>1, <2>1, <2>2, SoundProfile DEF BehindOnlyAtWork, At, DeleteRepo
<1>4. mappings' \in Seq(Entry) /\ faults' \in 0..MaxFaults
  BY DEF LibraryInv, TypeOK, DeleteRepo
<1>. QED  BY <1>2, <1>3, <1>4, RequestStep DEF DeleteRepo

LEMMA DeleteRowStep ==
  ASSUME LibraryInv, DeleteRow
  PROVE  LibraryInv'
<1>1. req.doc \in Ids /\ req.step = "delete"
  BY DEF LibraryInv, RequestOK, DeleteRow, At
<1>2. /\ req' \in Requests
      /\ req'.step = IF req.doc \in Repos THEN "fold" ELSE "idle"
      /\ RequestOK'
  <2>1. CASE req.doc \in Repos
    <3>1. req' = [req EXCEPT !.step = "fold"]
      BY <2>1 DEF DeleteRow, Goto
    <3>. QED  BY <2>1, <3>1 DEF LibraryInv, TypeOK, Steps, Requests, RequestOK, At
  <2>2. CASE req.doc \notin Repos
    BY <2>2, DoneOK DEF DeleteRow
  <2>. QED  BY <2>1, <2>2
<1>3. mappings' \in Seq(Entry)
  BY WithoutType DEF LibraryInv, TypeOK, DeleteRow
<1>4. TypeOK'
  BY <1>2, <1>3 DEF LibraryInv, TypeOK, DeleteRow
<1>5. req.doc \notin Cvs => Stored(Cvs)' = Stored(Cvs)
  BY DEF DeleteRow, Stored, LibraryInv, TypeOK, Ids
<1>6. req.doc \notin Repos => Stored(Repos)' = Stored(Repos)
  BY DEF DeleteRow, Stored, LibraryInv, TypeOK, Ids
<1>7. Stored(Cvs)' \subseteq Stored(Cvs)
  BY DEF DeleteRow, Stored, LibraryInv, TypeOK, Ids
<1>8. req.doc \in Cvs => ~profile.exists
  BY <1>1 DEF LibraryInv, RequestOK, At
<1>9. OneCv' /\ ProfileHasItsCv'
  BY <1>5, <1>7, <1>8 DEF LibraryInv, OneCv, ProfileHasItsCv, DeleteRow
<1>10. BehindOnlyAtWork'
  <2>. SUFFICES ASSUME profile.exists, trust = "sound"
                PROVE  BehindOnlyAtWork'
    BY DEF BehindOnlyAtWork, DeleteRow
  <2>1. profile.cv \in Stored(Cvs)'
    BY <1>1, <1>5, <1>8, SoundProfile DEF At
  <2>2. req.doc \in Docs => profile.github \subseteq Stored(Repos)
    BY <1>1 DEF LibraryInv, BehindOnlyAtWork, At
  <2>3. req.doc \in Docs \/ req.doc \in Repos
    BY <1>1, <1>8 DEF Ids
  <2>4. req.doc \in Docs => profile.github \subseteq Stored(Repos)'
    BY <1>6, <2>2, LibraryAssumption
  <2>. QED  BY <1>2, <2>1, <2>3, <2>4 DEF BehindOnlyAtWork, DeleteRow, At
<1>. QED  BY <1>2, <1>4, <1>9, <1>10, KeepsProfile DEF DeleteRow
-----------------------------------------------------------------------------
(* Mappings. *)

LEMMA ConfirmStep ==
  ASSUME LibraryInv, NEW d \in Docs, NEW rows \in Answers, NEW x \in Payloads,
         Confirm(d, rows, x)
  PROVE  LibraryInv'
<1>2. Answer(d, rows, x) /\ UNCHANGED <<state, mappings, profile, trust, faults>>
  BY DEF Confirm
<1>3. req' \in Requests /\ RequestOK'
  BY <1>2, AnswerOK
<1>4. profile.exists /\ trust = "sound" => BehindOnlyAtWork'
  <2>1. UNCHANGED <<Stored(Cvs), Stored(Repos)>>
    BY <1>2 DEF Stored
  <2>. QED  BY <1>2, <2>1, SoundProfile DEF BehindOnlyAtWork, Confirm, At
<1>5. mappings' \in Seq(Entry) /\ faults' \in 0..MaxFaults
  BY <1>2 DEF LibraryInv, TypeOK
<1>. QED  BY <1>2, <1>3, <1>4, <1>5, RequestStep

LEMMA RemapStep ==
  ASSUME LibraryInv, NEW d \in Docs, NEW rows \in Answers, NEW x \in Payloads,
         Remap(d, rows, x)
  PROVE  LibraryInv'
<1>1. req' \in Requests /\ req'.step = "apply" /\ req'.doc = d
  BY AnswerOK DEF Remap
<1>. QED  BY <1>1, RevertStep DEF Remap

LEMMA RemapUnrevertedStep ==
  ASSUME LibraryInv, NEW d \in Docs, NEW rows \in Answers, NEW x \in Payloads,
         RemapUnreverted(d, rows, x)
  PROVE  LibraryInv'
<1>2. req' \in Requests /\ RequestOK'
  BY AnswerOK DEF RemapUnreverted
<1>3. mappings' \in Seq(Entry) /\ faults' \in 0..MaxFaults
  BY LibraryAssumption DEF LibraryInv, TypeOK, RemapUnreverted, Fault
<1>. QED  BY <1>2, <1>3, RequestStep DEF RemapUnreverted

LEMMA ApplyWithoutProfileStep ==
  ASSUME LibraryInv, ApplyWithoutProfile
  PROVE  LibraryInv'
<1>1. mappings' \in Seq(Entry) /\ faults' \in 0..MaxFaults
  BY DEF LibraryInv, TypeOK, ApplyWithoutProfile
<1>. QED  BY <1>1, DoneOK, RequestStep DEF ApplyWithoutProfile

LEMMA ApplyStep ==
  ASSUME LibraryInv, Apply
  PROVE  LibraryInv'
<1>1. /\ req.step = "apply" /\ req.doc \in Docs /\ profile.exists
      /\ req.rows \in SUBSET RowKinds /\ req.adds \in Extracted /\ profile.cv \in Cvs
  BY DEF LibraryInv, TypeOK, Requests, RequestOK, KeyNamesSources, Apply, At
<1>2. mappings' \in Seq(Entry)
  <2>1. [doc |-> req.doc, rows |-> req.rows, adds |-> req.adds, for |-> profile.cv]
         \in Entry
    BY <1>1 DEF Entry
  <2>2. Without(req.doc) \in Seq(Entry)
    BY WithoutType DEF LibraryInv, TypeOK
  <2>. QED  BY <2>1, <2>2 DEF Apply
<1>3. req' = [req EXCEPT !.step = "save"] /\ UNCHANGED <<state, profile, trust, faults>>
  BY DEF Apply, Goto
<1>4. /\ req' \in Requests
      /\ req'.step = "save" /\ req'.doc = req.doc
  BY <1>3 DEF LibraryInv, TypeOK, Steps, Requests
<1>5. RequestOK'
  BY <1>1, <1>3, <1>4 DEF RequestOK, At
<1>6. profile.exists /\ trust = "sound" => BehindOnlyAtWork'
  <2>1. UNCHANGED <<Stored(Cvs), Stored(Repos)>>
    BY <1>3 DEF Stored
  <2>. QED  BY <1>1, <1>3, <2>1 DEF LibraryInv, BehindOnlyAtWork, At
<1>7. faults' \in 0..MaxFaults
  BY <1>3 DEF LibraryInv, TypeOK
<1>. QED  BY <1>2, <1>3, <1>4, <1>5, <1>6, <1>7, RequestStep

LEMMA SaveAppliedStep ==
  ASSUME LibraryInv, SaveApplied
  PROVE  LibraryInv'
<1>. DEFINE parts == Applied(profile.parts, req.doc, req.rows, req.adds)
<1>1. /\ Save(parts, profile.tangled, profile.github, CurrentIds)
      /\ Done /\ UNCHANGED <<state, mappings, faults>>
  BY DEF SaveApplied
<1>2. profile.exists
  BY DEF LibraryInv, RequestOK, SaveApplied
<1>3. /\ CurrentIds \in SUBSET Ids
      /\ CurrentIds \cap Cvs = Stored(Cvs)
      /\ CurrentIds \cap Repos = Stored(Repos)
  BY CurrentByKind DEF LibraryInv
<1>4. /\ profile.github \in SUBSET Repos /\ profile.tangled \in BOOLEAN
      /\ mappings' \in Seq(Entry)
  BY <1>1 DEF LibraryInv, TypeOK
<1>5. trust = "sound" => profile.cv \in Stored(Cvs) /\ profile.github \subseteq Stored(Repos)
  BY <1>2, SoundProfile DEF At, SaveApplied
<1>. HIDE DEF parts
<1>. QED  BY <1>1, <1>2, <1>3, <1>4, <1>5, DoneOK, SaveStep

LEMMA MisfitStep ==
  ASSUME LibraryInv, Misfit
  PROVE  LibraryInv'
<1>1. mappings' \in Seq(Entry) /\ UNCHANGED <<state, profile>> /\ Done
  BY DEF LibraryInv, TypeOK, Misfit
<1>2. /\ faults' \in 0..MaxFaults
      /\ trust' \in {"dirty", "masked"} /\ (trust' = "dirty" => trust # "masked")
  <2>1. CASE Damage("misfit")
    BY <2>1, DamageStep
  <2>2. CASE Damaged /\ UNCHANGED faults
    BY <2>2 DEF LibraryInv, TypeOK, Damaged
  <2>. QED  BY <2>1, <2>2 DEF Misfit
<1>. QED  BY <1>1, <1>2, DoneOK, RequestStep

\* FoldFails, FetchFails and Crash: a fault ends the request.
LEMMA FailedStep ==
  ASSUME LibraryInv, NEW kind, Damage(kind), Done, UNCHANGED <<state, mappings, profile>>
  PROVE  LibraryInv'
<1>1. mappings' \in Seq(Entry)
  BY DEF LibraryInv, TypeOK
<1>. QED  BY <1>1, DamageStep, DoneOK, RequestStep

-----------------------------------------------------------------------------
(* Repositories. *)

LEMMA FoldStep ==
  ASSUME LibraryInv, Fold
  PROVE  LibraryInv'
<1>1. mappings' \in Seq(Entry) /\ faults' \in 0..MaxFaults
  BY DEF LibraryInv, TypeOK, Fold
<1>2. CASE profile.exists
  <2>1. /\ Save(profile.parts, profile.tangled, Full, CurrentIds) /\ profile.tangled \in BOOLEAN
        /\ Done /\ UNCHANGED <<state, mappings, faults>>
    BY <1>2 DEF Fold, LibraryInv, TypeOK
  <2>2. /\ CurrentIds \in SUBSET Ids
        /\ CurrentIds \cap Cvs = Stored(Cvs)
        /\ CurrentIds \cap Repos = Stored(Repos)
    BY CurrentByKind DEF LibraryInv
  <2>3. Full \in SUBSET Repos /\ Full \subseteq Stored(Repos) /\ Full \subseteq CurrentIds
    BY <2>2 DEF Full, Stored
  <2>4. trust = "sound" => profile.cv \in Stored(Cvs)
    BY <1>2, SoundProfile DEF At, Fold
  <2>. QED  BY <1>1, <1>2, <2>1, <2>2, <2>3, <2>4, DoneOK, SaveStep
<1>3. CASE ~profile.exists
  BY <1>1, <1>3, DoneOK, RequestStep DEF Fold
<1>. QED  BY <1>2, <1>3

\* A step of the ingestion: the CVs stay, and the fold is still to come.
LEMMA IngestStep ==
  ASSUME LibraryInv, UNCHANGED <<mappings, profile, trust>>, faults' \in 0..MaxFaults,
         state' \in [Ids -> {"new", "half", "full", "gone"}],
         \A d \in Ids \ Repos : state'[d] = state[d],
         ~At("drop_profile"),
         req' \in Requests,
         req'.step \in {"list", "ingest", "extract", "fold"},
         req'.step = "extract" => req'.doc \in Repos
  PROVE  LibraryInv'
<1>1. Stored(Cvs)' = Stored(Cvs)
  BY LibraryAssumption DEF Stored, Ids
<1>2. TypeOK'
  BY DEF LibraryInv, TypeOK
<1>3. RequestOK'
  BY DEF RequestOK, At
<1>4. OneCv' /\ ProfileHasItsCv'
  BY <1>1 DEF LibraryInv, OneCv, ProfileHasItsCv
<1>5. BehindOnlyAtWork'
  BY <1>1, SoundProfile DEF BehindOnlyAtWork, At
<1>. QED  BY <1>2, <1>3, <1>4, <1>5, KeepsProfile

LEMMA SelectReposStep ==
  ASSUME LibraryInv, NEW keep \in SUBSET Repos, NEW add \in SUBSET Repos,
         SelectRepos(keep, add)
  PROVE  LibraryInv'
<1>1. req' = [step |-> IF add = {} THEN "fold" ELSE "list", doc |-> NoDoc,
              rows |-> {}, adds |-> NoExtract, todo |-> add]
  BY DEF SelectRepos, Idle
<1>2. /\ req' \in Requests
      /\ req'.step \in {"list", "fold"}
  BY <1>1 DEF Steps, Requests, Extracted, NoExtract
<1>3. state' \in [Ids -> {"new", "half", "full", "gone"}]
  BY DEF LibraryInv, TypeOK, SelectRepos
<1>4. \A d \in Ids \ Repos : state'[d] = state[d]
  BY DEF SelectRepos, Stored
<1>5. ~At("drop_profile") /\ UNCHANGED <<mappings, profile, trust>> /\ faults' \in 0..MaxFaults
  BY DEF SelectRepos, At, LibraryInv, TypeOK
<1>. QED  BY <1>2, <1>3, <1>4, <1>5, IngestStep

LEMMA ListReposStep ==
  ASSUME LibraryInv, ListRepos
  PROVE  LibraryInv'
<1>1. /\ req' \in Requests
      /\ req'.step = "ingest"
  BY DEF ListRepos, Goto, LibraryInv, TypeOK, Steps, Requests
<1>2. ~At("drop_profile") /\ UNCHANGED <<state, mappings, profile, trust>>
        /\ faults' \in 0..MaxFaults
  BY DEF ListRepos, At, LibraryInv, TypeOK
<1>3. state' \in [Ids -> {"new", "half", "full", "gone"}]
  BY <1>2 DEF LibraryInv, TypeOK
<1>. QED  BY <1>1, <1>2, <1>3, IngestStep

LEMMA IngestRowStep ==
  ASSUME LibraryInv, NEW u \in Repos, IngestRow(u)
  PROVE  LibraryInv'
<1>1. /\ req' \in Requests
      /\ req'.step = "extract" /\ req'.doc = u
  BY DEF IngestRow, LibraryInv, TypeOK, Steps, Requests, Ids
<1>2. /\ state' \in [Ids -> {"new", "half", "full", "gone"}]
      /\ \A d \in Ids \ Repos : state'[d] = state[d]
  BY DEF IngestRow, LibraryInv, TypeOK, Ids
<1>3. ~At("drop_profile") /\ UNCHANGED <<mappings, profile, trust>> /\ faults' \in 0..MaxFaults
  BY DEF IngestRow, At, LibraryInv, TypeOK
<1>. QED  BY <1>1, <1>2, <1>3, IngestStep

LEMMA ExtractStep ==
  ASSUME LibraryInv, Extract
  PROVE  LibraryInv'
<1>1. req.doc \in Repos
  BY DEF LibraryInv, RequestOK, Extract
<1>2. /\ req' \in Requests
      /\ req'.step \in {"fold", "ingest"}
  BY DEF Extract, Goto, NextRepo, LibraryInv, TypeOK, Steps, Requests
<1>3. /\ state' \in [Ids -> {"new", "half", "full", "gone"}]
      /\ \A d \in Ids \ Repos : state'[d] = state[d]
  BY <1>1 DEF Extract, LibraryInv, TypeOK, Ids
<1>4. ~At("drop_profile") /\ UNCHANGED <<mappings, profile, trust>> /\ faults' \in 0..MaxFaults
  BY DEF Extract, At, LibraryInv, TypeOK
<1>. QED  BY <1>2, <1>3, <1>4, IngestStep

LEMMA IngestFailsStep ==
  ASSUME LibraryInv, NEW u \in Repos, IngestFails(u)
  PROVE  LibraryInv'
<1>1. /\ req' \in Requests
      /\ req'.step \in {"fold", "ingest"}
  BY DEF IngestFails, NextRepo, LibraryInv, TypeOK, Steps, Requests
<1>2. state' \in [Ids -> {"new", "half", "full", "gone"}] /\ UNCHANGED state
  BY DEF IngestFails, LibraryInv, TypeOK
<1>3. faults' \in 0..MaxFaults
  BY LibraryAssumption DEF IngestFails, Fault, LibraryInv, TypeOK
<1>4. ~At("drop_profile") /\ UNCHANGED <<mappings, profile, trust>>
  BY DEF IngestFails, At
<1>. QED  BY <1>1, <1>2, <1>3, <1>4, IngestStep

-----------------------------------------------------------------------------
(* Prep. *)

LEMMA BuildStep ==
  ASSUME LibraryInv, Build
  PROVE  LibraryInv'
<1>1. /\ req.step = "idle"
      /\ req' \in Requests
      /\ req'.step \in {"idle", "fold"}
  BY DEF LibraryInv, TypeOK, Build, At, Goto, Steps, Requests
<1>2. RequestOK'
  BY <1>1 DEF RequestOK, At
<1>3. UNCHANGED <<Stored(Cvs), Stored(Repos)>> /\ Stored(Cvs) # {}
  BY DEF Build, Stored
<1>4. OneCv' /\ ProfileHasItsCv'
  BY <1>3 DEF LibraryInv, OneCv, ProfileHasItsCv
<1>5. CASE Hit
  <2>1. UNCHANGED profile /\ trust' = IF trust = "dirty" THEN "sound" ELSE trust
    BY <1>5 DEF Build
  <2>2. TypeOK'
    BY <1>1, <2>1 DEF LibraryInv, TypeOK, Build
  <2>3. BehindOnlyAtWork'
    BY <1>3, <1>5, <2>1, HitSources DEF BehindOnlyAtWork
  <2>. QED  BY <1>2, <1>4, <2>1, <2>2, <2>3, KeepsProfile
<1>6. CASE ~Hit
  <2>1. PICK cv \in Stored(Cvs) :
          profile' = [exists |-> TRUE, key |-> CurrentIds, cv |-> cv,
                      parts |-> Rebuilt, tangled |-> FALSE, github |-> {}]
    BY <1>6 DEF Build
  <2>2. /\ profile'.exists = TRUE /\ profile'.key = CurrentIds /\ profile'.cv = cv
        /\ profile'.github = {} /\ profile'.tangled = FALSE
    BY <2>1
  <2>3. trust' = "sound" /\ UNCHANGED <<state, mappings, faults>>
    BY <1>6 DEF Build
  <2>4. CurrentIds \subseteq Ids /\ CurrentIds \cap Cvs = Stored(Cvs)
    BY CurrentByKind DEF LibraryInv
  <2>5. cv \in Cvs /\ Stored(Cvs) = {cv}
    BY DEF LibraryInv, OneCv, Stored
  <2>6. TypeOK'
    BY <1>1, <2>2, <2>3, <2>4, <2>5 DEF LibraryInv, TypeOK
  <2>7. BehindOnlyAtWork' /\ KeyNamesSources'
    BY <1>3, <2>2, <2>4, <2>5 DEF BehindOnlyAtWork, KeyNamesSources
  <2>. QED  BY <1>2, <1>4, <2>6, <2>7 DEF LibraryInv
<1>. QED  BY <1>5, <1>6

-----------------------------------------------------------------------------
(* Theorems. *)

LEMMA InitInv == Init => LibraryInv
<1>. SUFFICES ASSUME Init  PROVE LibraryInv
  OBVIOUS
<1>1. TypeOK
  BY LibraryAssumption DEF Init, TypeOK, NoProfile, Idle, Steps, Requests, Extracted, NoExtract
<1>2. Stored(Cvs) = {}
  BY DEF Init, Stored, Ids
<1>. QED
  BY <1>1, <1>2 DEF Init, LibraryInv, RequestOK, OneCv, ProfileHasItsCv,
     BehindOnlyAtWork, KeyNamesSources, NoProfile, Idle, At

LEMMA NextInv == LibraryInv /\ [Next]_vars => LibraryInv'
<1>. SUFFICES ASSUME LibraryInv, [Next]_vars  PROVE LibraryInv'
  OBVIOUS
<1>1. CASE Upload
  BY <1>1, UploadDocStep, UploadCvStep, DropOldProfileStep, ResetMappingsStep DEF Upload
<1>2. CASE Delete
  BY <1>2, DeleteCvStep, DeleteDocStep, DeleteUnrevertedStep, DeleteRepoStep, DeleteRowStep
     DEF Delete
<1>3. CASE Map
  BY <1>3, ConfirmStep, RemapStep, RemapUnrevertedStep, ApplyWithoutProfileStep, ApplyStep,
     SaveAppliedStep, MisfitStep DEF Map
<1>4. CASE Manage
  <2>1. FoldFails \/ FetchFails => LibraryInv'
    BY FailedStep DEF FoldFails, FetchFails
  <2>. QED  BY <1>4, <2>1, SelectReposStep, ListReposStep, ExtractStep, FoldStep,
               IngestRowStep, IngestFailsStep DEF Manage
<1>5. CASE Build
  BY <1>5, BuildStep
<1>6. CASE Crash
  BY <1>6, FailedStep DEF Crash
<1>7. CASE UNCHANGED vars
  BY <1>7 DEF vars, LibraryInv, TypeOK, RequestOK, OneCv, ProfileHasItsCv,
     BehindOnlyAtWork, KeyNamesSources, Stored, At
<1>. QED  BY <1>1, <1>2, <1>3, <1>4, <1>5, <1>6, <1>7 DEF Next

\* The library is well-formed, its one CV is there before a profile of it, and
\* a profile's key names its sources unless a later writer hid a fault.
THEOREM LibraryInvariant == Spec => []LibraryInv
BY InitInv, NextInv, PTL DEF Spec

\* What prep reuses is of the stored CV and names no deleted repository.
THEOREM CachedSourcesAreStored == Spec => []CachedSourcesExist
<1>1. LibraryInv => CachedSourcesExist
  BY HitSources DEF CachedSourcesExist
<1>. QED  BY <1>1, LibraryInvariant, PTL

\* No profile outlives its CV, not even between two commits.
THEOREM NoProfileWithoutCv == Spec => []ProfileHasItsCv
<1>1. LibraryInv => ProfileHasItsCv
  BY DEF LibraryInv
<1>. QED  BY <1>1, LibraryInvariant, PTL

=============================================================================
