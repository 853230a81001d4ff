--------------------------- MODULE ProfileLibrary ---------------------------
(***************************************************************************)
(* The user's library: the CV, the project documents with their mappings,  *)
(* the repositories, and the one profile derived from them.  Modelled are  *)
(* its writers: upload, CV replacement, deletion and remap                 *)
(* (api/documents/routes.py, agents/nodes/doc_intake.py), the Manage       *)
(* selection (api/github/routes.py), and prep as far as it writes the      *)
(* profile (agents/nodes/profile_builder.py, github_ingest.py); PrepGraph  *)
(* has prep in full.  One action per commit; requests follow one another,  *)
(* and any of them may die between two commits.                            *)
(***************************************************************************)
EXTENDS Integers, SequencesExt

CONSTANTS
  Cvs, Docs, Repos,  \* document ids by kind; an id is never used twice
  NoDoc,             \* not a document id
  Items,             \* technologies and addresses a bullet may list
  Texts, NoText,     \* descriptions a bullet may have; not one
  CvBullets,         \* the bullets of a CV: what each says of itself
  Payloads,          \* what doc_intake may extract from a document
  Targets,           \* bullets that a mapping may enrich
  MaxRows,           \* bound: rows of one mapping
  FaultKinds,        \* which of AllFaults the environment may inject
  MaxFaults          \* bound: number of injected faults

AllFaults == {"crash", "revert", "misfit", "fold", "fetch", "ingest"}
Ids == Cvs \cup Docs \cup Repos

\* DocIntakeExtracted, and what a bullet of a CV has in its place.
Extracted == [items : SUBSET Items, text : Texts \cup {NoText}]

ASSUME LibraryAssumption ==
  /\ Cvs \cap Docs = {} /\ Cvs \cap Repos = {} /\ Docs \cap Repos = {}
  /\ NoDoc \notin Ids
  /\ NoText \notin Texts
  /\ CvBullets \in Seq(Extracted)
  /\ Payloads \subseteq Extracted
  /\ Targets \subseteq Nat \ {0}
  /\ MaxRows \in Nat
  /\ FaultKinds \subseteq AllFaults
  /\ MaxFaults \in Nat

VARIABLES
  state,     \* a document id: not yet used, row only, complete, deleted
  mappings,  \* document_mappings, one entry per document, oldest first
  profile,   \* the profile row
  req,       \* the request in flight
  trust,     \* history: did a fault leave the profile behind, and did
             \* another writer then certify it
  faults     \* injected so far

vars == <<state, mappings, profile, req, trust, faults>>

Stored(S) == {d \in S : state[d] \in {"half", "full"}}
Full == {u \in Repos : state[u] = "full"}
Mapped == {mappings[i].doc : i \in DOMAIN mappings}

\* Variant: the repositories do not count.
CvAndMapped == Stored(Cvs) \cup Mapped
\* repos.current_profile_doc_ids
CurrentIds == Stored(Cvs) \cup Stored(Repos) \cup Mapped

\* What one document adds to: it enriches bullets, appends one, or a project.
Highlight(i) == <<"highlight", i>>
Experience == <<"experience", 0>>
Project == <<"project", 0>>
RowKinds == {Highlight(i) : i \in Targets} \cup {Experience, Project}
Answers == {rows \in SUBSET RowKinds : Cardinality(rows) \in 1..MaxRows}

\* A bullet with the documents it came from: those of a CV start with none.
Bullet == [sources : SUBSET Docs, items : SUBSET Items, text : Texts \cup {NoText}]
BulletOf(sources, x) == [sources |-> sources, items |-> x.items, text |-> x.text]

\* The experiences and projects of a profile.
Bare == [bullets  |-> [i \in DOMAIN CvBullets |-> BulletOf({}, CvBullets[i])],
         projects |-> <<>>]

\* "tangled" is history: did a revert take more than was its document's.
NoProfile == [exists |-> FALSE, key |-> {}, cv |-> NoDoc, parts |-> Bare,
              tangled |-> FALSE, github |-> {}]

NoExtract == [items |-> {}, text |-> NoText]
Idle == [step |-> "idle", doc |-> NoDoc, rows |-> {}, adds |-> NoExtract, todo |-> {}]

Init ==
  /\ state = [d \in Ids |-> "new"]
  /\ mappings = <<>>
  /\ profile = NoProfile
  /\ req = Idle
  /\ trust = "sound"
  /\ faults = 0

-----------------------------------------------------------------------------
(* doc_intake: what a mapping does to a profile, and how it is undone. *)

\* Every highlight row names a bullet there is (else ValueError).
Fits(p, rows) == \A i \in Targets : Highlight(i) \in rows => i <= Len(p.bullets)

\* A description is kept once there is one.
Enriched(b, d, x) ==
  [sources |-> b.sources \cup {d},
   items   |-> b.items \cup x.items,
   text    |-> IF b.text = NoText THEN x.text ELSE b.text]

\* _mutate_profile_apply
Applied(p, d, rows, x) ==
  LET enriched == [i \in DOMAIN p.bullets |->
                     IF Highlight(i) \in rows THEN Enriched(p.bullets[i], d, x)
                     ELSE p.bullets[i]]
  IN [p EXCEPT
        !.bullets  = IF Experience \in rows THEN Append(enriched, BulletOf({d}, x))
                     ELSE enriched,
        !.projects = IF Project \in rows THEN Append(p.projects, d) ELSE p.projects]


\* Items and description go, whoever else contributed them.
Stripped(b, d, x) ==
  [sources |-> b.sources \ {d},
   items   |-> b.items \ x.items,
   text    |-> IF b.text = x.text THEN NoText ELSE b.text]

AloneOf(d) == [sources : {{d}}, items : SUBSET Items, text : Texts \cup {NoText}]

Dropped(seq, gone) ==
  LET kept[n \in 0 .. Len(seq)] ==
        IF n = 0 THEN <<>>
        ELSE IF seq[n] \in gone THEN kept[n - 1] ELSE Append(kept[n - 1], seq[n])
  IN kept[Len(seq)]

\* _mutate_profile_revert: bullets and projects whose only source is d go.
Reverted(p, d, rows, x) ==
  LET bare == [i \in DOMAIN p.bullets |->
                 IF Highlight(i) \in rows THEN Stripped(p.bullets[i], d, x)
                 ELSE p.bullets[i]]
  IN [p EXCEPT
        !.bullets  = IF Experience \in rows THEN Dropped(bare, AloneOf(d)) ELSE bare,
        !.projects = IF Project \in rows THEN Dropped(p.projects, {d}) ELSE p.projects]

\* One entry of reapply_existing_mappings: skipped when its rows no longer fit.
Reapplied(p, m, docs) ==
  IF m.doc \in docs /\ Fits(p, m.rows)
  THEN Applied(p, m.doc, m.rows, m.adds) ELSE p

\* The entries of the given documents, oldest first, over a fresh profile.
Replay(entries, docs) ==
  LET after[n \in 0 .. Len(entries)] ==
        IF n = 0 THEN Bare ELSE Reapplied(after[n - 1], entries[n], docs)
  IN after[Len(entries)]
Rebuilt == Replay(mappings, Mapped)

\* A document has one entry: the position is unique.
Position(d) == CHOOSE i \in DOMAIN mappings : mappings[i].doc = d
EntryOf(d) == mappings[Position(d)]
Without(d) == IF d \in Mapped THEN RemoveAt(mappings, Position(d)) ELSE mappings

-----------------------------------------------------------------------------
(* What every handler does at a commit. *)

At(step) == req.step = step
Goto(step) == req' = [req EXCEPT !.step = step]
Begin(step, d) == req' = [Idle EXCEPT !.step = step, !.doc = d]
Answer(d, rows, x) ==
  req' = [step |-> "apply", doc |-> d, rows |-> rows, adds |-> x, todo |-> {}]
Done == req' = Idle

\* upsert_profile under the document set of the moment.  A writer adds its own
\* part to what is there: what an earlier fault left out is then no longer seen.
Save(parts, tangled, github, key) ==
  /\ profile' = [exists |-> TRUE, key |-> key, cv |-> profile.cv,
                 parts |-> parts, tangled |-> tangled, github |-> github]
  /\ trust' = IF trust = "dirty" THEN "masked" ELSE trust

\* delete_profile; nothing is left to be stale.
DropProfile ==
  /\ profile' = NoProfile
  /\ trust' = "sound"

Fault(kind) ==
  /\ kind \in FaultKinds
  /\ faults < MaxFaults
  /\ faults' = faults + 1

\* A request failed half way: the profile may be behind the rows.
Damaged == trust' = IF trust = "sound" THEN "dirty" ELSE trust
Damage(kind) == Fault(kind) /\ Damaged

-----------------------------------------------------------------------------
(* Upload. *)

\* The same content again is answered with the row there is.
UploadDoc(d) ==
  /\ At("idle") /\ state[d] = "new"
  /\ state' = [state EXCEPT ![d] = "full"]
  /\ UNCHANGED <<mappings, profile, req, trust, faults>>

\* create_document deletes the old CV in its transaction.
UploadCv(c) ==
  /\ At("idle") /\ state[c] = "new"
  /\ state' = [d \in Ids |-> IF d = c THEN "full"
                             ELSE IF d \in Stored(Cvs) THEN "gone" ELSE state[d]]
  /\ IF Stored(Cvs) = {} THEN UNCHANGED req ELSE Goto("drop_profile")
  /\ UNCHANGED <<mappings, profile, trust, faults>>

DropOldProfile ==
  /\ At("drop_profile")
  /\ DropProfile
  /\ Goto("reset_mappings")
  /\ UNCHANGED <<state, mappings, faults>>

ResetMappings ==
  /\ At("reset_mappings")
  /\ mappings' = <<>>
  /\ Done
  /\ UNCHANGED <<state, profile, trust, faults>>

-----------------------------------------------------------------------------
(* delete_document.  A CV that active sessions use is refused with 409: no step. *)

\* Variant: the document first, the profile after it.
DeleteCvFirst(c) ==
  /\ At("idle") /\ c \in Stored(Cvs)
  /\ state' = [state EXCEPT ![c] = "gone"]
  /\ Goto("drop_profile")
  /\ UNCHANGED <<mappings, profile, trust, faults>>

DeleteCv(c) ==
  /\ At("idle") /\ c \in Stored(Cvs)
  /\ DropProfile
  /\ Begin("delete", c)
  /\ UNCHANGED <<state, mappings, faults>>

\* A revert is not the inverse of the apply when the bullets d enriches have
\* an item or a description of d's without it, too ...
Repeats(entries, docs, m) ==
  \E i \in DOMAIN Replay(entries, docs \ {m.doc}).bullets :
    LET with    == Replay(entries, docs).bullets[i]
        without == Replay(entries, docs \ {m.doc}).bullets[i]
    IN /\ Highlight(i) \in m.rows
       /\ \/ m.adds.items \cap without.items # {}
          \/ with.text = m.adds.text /\ without.text # NoText

\* ... or a later document names a bullet, by position, from the one on that d
\* has appended.
Displaces(entries, docs, k) ==
  LET before == Replay(SubSeq(entries, 1, k - 1), docs)
  IN /\ Experience \in entries[k].rows /\ Fits(before, entries[k].rows)
     /\ \E n \in k + 1 .. Len(entries), i \in Targets :
          entries[n].doc \in docs /\ Highlight(i) \in entries[n].rows
            /\ i > Len(before.bullets)

Entangled(d) ==
  \/ Repeats(mappings, profile.key, EntryOf(d))
  \/ Displaces(mappings, profile.key, Position(d))

Unmapped(d) == Reverted(profile.parts, d, EntryOf(d).rows, EntryOf(d).adds)

\* Variant: the key still names the document.
RevertUnderOldKey(d) ==
  IF d \in Mapped /\ profile.exists
  THEN Save(Unmapped(d), profile.tangled \/ Entangled(d), profile.github, CurrentIds)
  ELSE UNCHANGED <<profile, trust>>

\* revert_mapping
Revert(d) ==
  IF d \in Mapped /\ profile.exists
  THEN Save(Unmapped(d), profile.tangled \/ Entangled(d), profile.github, CurrentIds \ {d})
  ELSE UNCHANGED <<profile, trust>>

DeleteDoc(d) ==
  /\ At("idle") /\ d \in Stored(Docs)
  /\ Revert(d)
  /\ Begin("delete", d)
  /\ UNCHANGED <<state, mappings, faults>>

DeleteRepo(u) ==
  /\ At("idle") /\ u \in Stored(Repos)
  /\ Begin("delete", u)
  /\ UNCHANGED <<state, mappings, profile, trust, faults>>

\* The document's mapping rows go with it.
DeleteRow ==
  /\ At("delete")
  /\ state' = [state EXCEPT ![req.doc] = "gone"]
  /\ mappings' = Without(req.doc)
  /\ IF req.doc \in Repos THEN Goto("fold") ELSE Done
  /\ UNCHANGED <<profile, trust, faults>>

-----------------------------------------------------------------------------
(* Mappings: confirmed in prep, or changed by confirm_remap. *)

Confirm(d, rows, x) ==
  /\ At("idle") /\ d \in Stored(Docs) \ Mapped /\ profile.exists
  /\ Answer(d, rows, x)
  /\ UNCHANGED <<state, mappings, profile, trust, faults>>

Remap(d, rows, x) ==
  /\ At("idle") /\ d \in Stored(Docs)
  /\ Revert(d)
  /\ Answer(d, rows, x)
  /\ UNCHANGED <<state, mappings, faults>>

\* revert_mapping raises: a deletion goes on ...
DeleteUnreverted(d) ==
  /\ At("idle") /\ d \in Stored(Docs) \cap Mapped /\ profile.exists
  /\ Damage("revert")
  /\ Begin("delete", d)
  /\ UNCHANGED <<state, mappings, profile>>

\* ... and so does a remap, over the enrichments that are still there.
RemapUnreverted(d, rows, x) ==
  /\ At("idle") /\ d \in Stored(Docs) \cap Mapped /\ profile.exists
  /\ Fault("revert")
  /\ trust' = "masked"
  /\ Answer(d, rows, x)
  /\ UNCHANGED <<state, mappings, profile>>

\* apply_mapping: 409 without a profile, else the rows ...
ApplyWithoutProfile ==
  /\ At("apply") /\ ~profile.exists
  /\ Done
  /\ UNCHANGED <<state, mappings, profile, trust, faults>>

Apply ==
  /\ At("apply") /\ profile.exists /\ Fits(profile.parts, req.rows)
  /\ mappings' = Append(Without(req.doc),
                        [doc |-> req.doc, rows |-> req.rows, adds |-> req.adds,
                         for |-> profile.cv])
  /\ Goto("save")
  /\ UNCHANGED <<state, profile, trust, faults>>

\* ... then the profile they enrich.
SaveApplied ==
  /\ At("save")
  /\ Save(Applied(profile.parts, req.doc, req.rows, req.adds), profile.tangled,
          profile.github, CurrentIds)
  /\ Done
  /\ UNCHANGED <<state, mappings, faults>>

\* The panel showed another profile: ValueError.
Misfit ==
  /\ At("apply") /\ profile.exists
  /\ \/ Damage("misfit")
     \/ ~Fits(profile.parts, req.rows) /\ Damaged /\ UNCHANGED faults
  /\ Done
  /\ UNCHANGED <<state, mappings, profile>>

-----------------------------------------------------------------------------
(* Repositories: the Manage selection, and the fold every writer ends with. *)

\* fold_github_projects
Fold ==
  /\ At("fold")
  /\ IF profile.exists
     THEN Save(profile.parts, profile.tangled, Full, CurrentIds)
     ELSE UNCHANGED <<profile, trust>>
  /\ Done
  /\ UNCHANGED <<state, mappings, faults>>

FoldFails ==
  /\ At("fold")
  /\ Damage("fold")
  /\ Done
  /\ UNCHANGED <<state, mappings, profile>>

\* select_repos: what is not selected is deleted; what is neither stored nor
\* left out by the cap is ingested.
SelectRepos(keep, add) ==
  /\ At("idle")
  /\ keep \subseteq Stored(Repos) /\ \A u \in add : state[u] = "new"
  /\ state' = [d \in Ids |-> IF d \in Stored(Repos) \ keep THEN "gone" ELSE state[d]]
  /\ req' = [Idle EXCEPT !.step = IF add = {} THEN "fold" ELSE "list", !.todo = add]
  /\ UNCHANGED <<mappings, profile, trust, faults>>

ListRepos ==
  /\ At("list")
  /\ Goto("ingest")
  /\ UNCHANGED <<state, mappings, profile, trust, faults>>

\* 502 github_unreachable, after the deletion and without the fold.
FetchFails ==
  /\ At("list")
  /\ Damage("fetch")
  /\ Done
  /\ UNCHANGED <<state, mappings, profile>>

NextRepo(todo) == IF todo = {} THEN "fold" ELSE "ingest"

\* ingest_repo commits the row, then the chunks and the project.
IngestRow(u) ==
  /\ At("ingest") /\ u \in req.todo
  /\ state' = [state EXCEPT ![u] = "half"]
  /\ req' = [req EXCEPT !.step = "extract", !.doc = u, !.todo = @ \ {u}]
  /\ UNCHANGED <<mappings, profile, trust, faults>>

Extract ==
  /\ At("extract")
  /\ state' = [state EXCEPT ![req.doc] = "full"]
  /\ Goto(NextRepo(req.todo))
  /\ UNCHANGED <<mappings, profile, trust, faults>>

\* A failed repository is logged, before or after its row, and the next is
\* tried; the fold counts the complete ones only.
IngestFails(u) ==
  /\ \/ At("ingest") /\ u \in req.todo
     \/ At("extract") /\ u = req.doc
  /\ Fault("ingest")
  /\ req' = [req EXCEPT !.step = NextRepo(req.todo \ {u}), !.todo = @ \ {u}]
  /\ UNCHANGED <<state, mappings, profile, trust>>

-----------------------------------------------------------------------------
(* Prep: build_profile when the cache verdict is a miss, then the fold. *)

Hit == profile.exists /\ profile.key = CurrentIds

Build ==
  /\ At("idle") /\ Stored(Cvs) # {}
  /\ IF Hit
     THEN /\ UNCHANGED profile
          /\ trust' = IF trust = "dirty" THEN "sound" ELSE trust
     ELSE /\ \E cv \in Stored(Cvs) :
               profile' = [exists |-> TRUE, key |-> CurrentIds, cv |-> cv,
                           parts |-> Rebuilt, tangled |-> FALSE, github |-> {}]
          /\ trust' = "sound"
  /\ IF Stored(Repos) = {} THEN UNCHANGED req ELSE Goto("fold")
  /\ UNCHANGED <<state, mappings, faults>>

\* The process dies, or the stream is cut off, between two commits.
Crash ==
  /\ ~At("idle")
  /\ Damage("crash")
  /\ Done
  /\ UNCHANGED <<state, mappings, profile>>

-----------------------------------------------------------------------------
Upload == (\E d \in Docs : UploadDoc(d)) \/ (\E c \in Cvs : UploadCv(c))
             \/ DropOldProfile \/ ResetMappings
Delete == (\E c \in Cvs : DeleteCv(c)) \/ (\E d \in Docs : DeleteDoc(d) \/ DeleteUnreverted(d))
             \/ (\E u \in Repos : DeleteRepo(u)) \/ DeleteRow
Map == \/ \E d \in Docs, rows \in Answers, x \in Payloads :
            Confirm(d, rows, x) \/ Remap(d, rows, x) \/ RemapUnreverted(d, rows, x)
       \/ ApplyWithoutProfile \/ Apply \/ SaveApplied \/ Misfit
Manage == \/ \E keep, add \in SUBSET Repos : SelectRepos(keep, add)
          \/ ListRepos \/ FetchFails \/ Extract \/ Fold \/ FoldFails
          \/ \E u \in Repos : IngestRow(u) \/ IngestFails(u)

Next == Upload \/ Delete \/ Map \/ Manage \/ Build \/ Crash

Spec == Init /\ [][Next]_vars

-----------------------------------------------------------------------------
(* Properties. *)

Steps == {"idle", "drop_profile", "reset_mappings", "delete", "apply", "save",
          "list", "ingest", "extract", "fold"}
Requests == [step : Steps, doc : Ids \cup {NoDoc}, rows : SUBSET RowKinds,
             adds : Extracted, todo : SUBSET Repos]
Entry == [doc : Docs, rows : SUBSET RowKinds, adds : Extracted, for : Cvs]

TypeOK ==
  /\ state \in [Ids -> {"new", "half", "full", "gone"}]
  /\ mappings \in Seq(Entry)
  /\ profile.exists \in BOOLEAN /\ profile.key \subseteq Ids
  /\ profile.cv \in Cvs \cup {NoDoc} /\ profile.github \subseteq Repos
  /\ profile.tangled \in BOOLEAN
  /\ req \in Requests
  /\ trust \in {"sound", "dirty", "masked"}
  /\ faults \in 0..MaxFaults

\* The document a request is about is of the kind its step expects.
RequestOK ==
  /\ At("delete") => req.doc \in Ids
  /\ At("apply") \/ At("save") => req.doc \in Docs
  /\ At("extract") => req.doc \in Repos
  /\ At("save") => profile.exists
  /\ At("reset_mappings") \/ (At("delete") /\ req.doc \in Cvs) => ~profile.exists

OneCv == \A c, e \in Stored(Cvs) : c = e

\* A profile that no fault has touched is behind the rows only while the
\* request that changes them is still at work.
BehindOnlyAtWork ==
  profile.exists /\ trust = "sound" =>
    /\ At("drop_profile") \/ profile.cv \in Stored(Cvs)
    /\ At("idle") \/ At("apply") \/ At("save") \/ (At("delete") /\ req.doc \in Docs)
         => profile.github \subseteq Stored(Repos)

\* The key names what the profile holds, unless a later writer hid a fault.
KeyNamesSources ==
  profile.exists =>
    /\ profile.cv \in Cvs
    /\ trust # "masked" =>
         profile.key \cap Cvs = {profile.cv} /\ profile.github \subseteq profile.key

\* decide_profile_cache takes the key for the contents: a profile whose key is
\* current is what build_profile would make of the same rows, whatever was
\* uploaded, mapped, remapped and deleted since it was built, and wherever a
\* request died.  Two things are excepted.  Another writer certifies what a fault
\* left behind; and a document is reverted that shares an item or a description
\* with the CV or another document on a bullet it enriches, or that appended a
\* bullet before the ones a later document names (Entangled): the revert takes
\* what the others contributed, or moves their bullets, under a current key.
CachedIsRebuilt ==
  At("idle") /\ Hit /\ trust # "masked" /\ ~profile.tangled => profile.parts = Rebuilt


\* A profile whose key is current is of the CV there is and names no deleted
\* repository, under the same proviso.
CachedSourcesExist ==
  At("idle") /\ Hit /\ trust # "masked" =>
    profile.cv \in Stored(Cvs) /\ profile.github \subseteq Stored(Repos)

\* The wizard takes a profile for a CV: there is none without one, also between
\* the commits of a deletion and after a crash there.
ProfileHasItsCv == profile.exists => Stored(Cvs) # {}

\* A mapping names bullets by position: those of the CV the profile is built of.
MappingsMatchTheCv ==
  At("idle") /\ profile.exists =>
    \A i \in DOMAIN mappings : mappings[i].for = profile.cv

\* The strengthening the proofs use: inductive.
LibraryInv ==
  TypeOK /\ RequestOK /\ OneCv /\ ProfileHasItsCv /\ BehindOnlyAtWork /\ KeyNamesSources

\* The strengthening of CachedIsRebuilt: a profile is what its own key says, the
\* rows of the documents in it replayed, unless one of them is deleted for good;
\* it knows every mapped document but the one a request is at work on, unless a
\* fault came in between.
OneEntryEach == \A i, k \in DOMAIN mappings : mappings[i].doc = mappings[k].doc => i = k

AboutToSave ==
  At("save") =>
    /\ mappings # <<>>
    /\ mappings[Len(mappings)].doc = req.doc /\ mappings[Len(mappings)].rows = req.rows
    /\ mappings[Len(mappings)].adds = req.adds
    /\ Fits(profile.parts, req.rows)

InWork == IF req.step \in {"apply", "save", "delete"} THEN {req.doc} ELSE {}

KeyTellsParts ==
  profile.exists /\ trust # "masked" =>
    /\ \A d \in profile.key \cap Docs : d \in Mapped \/ state[d] = "gone"
    /\ At("apply") \/ At("save") => req.doc \notin profile.key
    /\ profile.key \cap Docs \subseteq Mapped /\ ~profile.tangled =>
         profile.parts = Replay(mappings, profile.key)
    /\ trust = "sound" => profile.key \cap Docs = Mapped \ InWork

CacheInv == OneEntryEach /\ AboutToSave /\ KeyTellsParts
=============================================================================
