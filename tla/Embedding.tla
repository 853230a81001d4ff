----------------------------- MODULE Embedding -----------------------------
(***************************************************************************)
(* How documents get their grounding chunks: attempts that queue at one    *)
(* semaphore, chunk and embed a document's text over HTTP, and replace its *)
(* chunks in two commits (rag/ingest.py, rag/client.py,                    *)
(* rag/concurrency.py), begun by uploads, retries, confirmed mappings and  *)
(* repository ingests, while scripts/backfill_grounding.py runs in a       *)
(* process of its own, the embedder sidecar loads its model, and the api   *)
(* crashes and boots.                                                      *)
(***************************************************************************)
EXTENDS Integers, FiniteSets

CONSTANTS
  Cvs, ProjectDocs, Repos,  \* document ids of each kind, never used twice
  MaxAttempts,              \* bound: embedding attempts ever begun
  Texts,                    \* documents.raw_text
  Blank,                    \* the texts that give no chunk
  Pieces,                   \* bound: the chunks any other text gives
  Titles,                   \* documents.project_title
  Batch,                    \* settings.embedder_max_batch
  Retries,                  \* settings.embedder_retries
  MaxFaults,                \* bound: crashes of the api, restarts of the sidecar
  None                      \* NULL

Docs == Cvs \cup ProjectDocs \cup Repos
Attempts == 1..MaxAttempts
Size(t) == IF t \in Blank THEN 0 ELSE Pieces

ASSUME EmbedAssumption ==
  /\ Blank \subseteq Texts /\ Pieces \in Nat \ {0} /\ Batch \in Nat \ {0} /\ Retries \in Nat \ {0}
  /\ MaxAttempts \in Nat /\ MaxFaults \in Nat
  /\ None \notin Docs \cup Texts \cup Titles
  /\ Cvs \cap ProjectDocs = {} /\ Cvs \cap Repos = {} /\ ProjectDocs \cap Repos = {}

VARIABLES
  life,       \* a document id: "unused", "row", "deleted"
  text,       \* documents.raw_text
  title,      \* documents.project_title
  mapped,     \* project documents with document_mappings rows
  chunks,     \* grounding_chunks by document
  att,        \* the attempts
  ahead,      \* attempts before this one at ingest_sema
  model,      \* the sidecar's: "loading", "loaded", "broken"
  api,        \* is the api up
  faults,     \* injected so far
  suggested,  \* documents whose suggested mapping the user has been shown
  confirmed,  \* history: the title of the last confirmed mapping
  excused     \* history: documents of an attempt that failed or was cut off,
              \* or that the backfill wrote, since an attempt last loaded them

rows == <<life, text, title, mapped>>
world == <<model, api, faults>>
seen == <<suggested, confirmed>>
vars == <<rows, chunks, att, ahead, world, seen, excused>>

Chunk == [index : Nat, text : Texts, title : Titles \cup {None}]
\* chunk_text: numbered from 0, each with the title it was cut under.
ChunksOf(t, ti) == {[index |-> i, text |-> t, title |-> ti] : i \in 0..(Size(t) - 1)}

Holding == {"load", "embed", "delete", "insert"}
Steps == {"new", "reset", "mark", "wait"} \cup Holding \cup {"over"}
Kinds == {"none", "background", "apply", "ingest", "backfill"}
Attempt == [at : Steps, kind : Kinds, doc : Docs \cup {None},
            text : Texts \cup {None}, title : Titles \cup {None},
            got : Nat, tries : 0..Retries]
Begun(step, kind, d) ==
  [at |-> step, kind |-> kind, doc |-> d, text |-> None, title |-> None, got |-> 0, tries |-> 0]
New == Begun("new", "none", None)
Over == Begun("over", "none", None)

Exists(d) == life[d] = "row"
InFlight(a) == att[a].at \notin {"new", "over"}
\* The backfill takes no semaphore.
Holds(a) == att[a].at \in Holding /\ att[a].kind # "backfill"
InLine(a) == att[a].at = "wait" \/ Holds(a)

Init ==
  /\ life = [d \in Docs |-> "unused"]
  /\ text = [d \in Docs |-> None]
  /\ title = [d \in Docs |-> None]
  /\ mapped = {}
  /\ chunks = [d \in Docs |-> {}]
  /\ att = [a \in Attempts |-> New]
  /\ ahead = [a \in Attempts |-> {}]
  /\ model = "loaded" /\ api = "up" /\ faults = 0
  /\ suggested = {}
  /\ confirmed = [d \in Docs |-> None]
  /\ excused = {}

-----------------------------------------------------------------------------
(* ingest_sema: one slot, first come, first served. *)

Set(a, q) == att' = [att EXCEPT ![a] = q]
Goto(a, step) == Set(a, [att[a] EXCEPT !.at = step])

Join(a) == ahead' = [ahead EXCEPT ![a] = {b \in Attempts : InLine(b)}]
\* Variant: the slot is not given back.
LeaveNot(a) == UNCHANGED ahead
Leave(a) == ahead' = [b \in Attempts |-> IF b = a THEN {} ELSE ahead[b] \ {a}]

\* Variant: no semaphore.
EnterAtOnce(a) ==
  /\ att[a].at = "wait"
  /\ Goto(a, "load")
  /\ UNCHANGED <<rows, chunks, ahead, world, seen, excused>>
Enter(a) ==
  /\ att[a].at = "wait"
  /\ ahead[a] = {}
  /\ Goto(a, "load")
  /\ UNCHANGED <<rows, chunks, ahead, world, seen, excused>>

-----------------------------------------------------------------------------
(* What begins an attempt; attempts are numbered as they begin. *)

Fresh(a) == att[a] = New /\ \A b \in 1..(a - 1) : att[b] # New

\* POST /documents with a CV; the row of the CV before it goes in the same commit.
UploadCv(a, d, t) ==
  LET old == {c \in Cvs : Exists(c)}
  IN /\ api = "up" /\ Fresh(a)
     /\ life[d] = "unused"
     /\ life' = [x \in Docs |-> IF x = d THEN "row" ELSE IF x \in old THEN "deleted" ELSE life[x]]
     /\ text' = [x \in Docs |-> IF x = d THEN t ELSE IF x \in old THEN None ELSE text[x]]
     /\ chunks' = [x \in Docs |-> IF x \in old THEN {} ELSE chunks[x]]
     /\ Set(a, Begun(IF old = {} THEN "mark" ELSE "reset", "background", d))
     /\ UNCHANGED <<title, mapped, ahead, world, seen, excused>>

\* reset_project_doc_mappings_for_user, when a CV was replaced: the chunks stay.
ResetMappings(a) ==
  /\ att[a].at = "reset"
  /\ mapped' = {}
  /\ title' = [d \in Docs |-> IF d \in ProjectDocs THEN None ELSE title[d]]
  /\ confirmed' = [d \in Docs |-> IF d \in ProjectDocs THEN None ELSE confirmed[d]]
  /\ Goto(a, "mark")
  /\ UNCHANGED <<life, text, chunks, ahead, world, suggested, excused>>

\* A project document is not embedded before its mapping is confirmed.
UploadProjectDoc(d, t) ==
  /\ api = "up"
  /\ life[d] = "unused"
  /\ life' = [life EXCEPT ![d] = "row"]
  /\ text' = [text EXCEPT ![d] = t]
  /\ UNCHANGED <<title, mapped, chunks, att, ahead, world, seen, excused>>

\* POST /documents/{id}/embed
RetryEmbed(a, d) ==
  /\ api = "up" /\ Fresh(a)
  /\ Exists(d)
  /\ d \in ProjectDocs => d \in mapped
  /\ Set(a, Begun("mark", "background", d))
  /\ UNCHANGED <<rows, chunks, ahead, world, seen, excused>>

\* run_intake, in prep or POST /documents/{id}/remap: the suggested title is
\* stored at once.
RunIntake(d, ti) ==
  /\ api = "up"
  /\ Exists(d)
  /\ title' = [title EXCEPT ![d] = ti]
  /\ suggested' = suggested \cup {d}
  /\ UNCHANGED <<life, text, mapped, chunks, att, ahead, world, confirmed, excused>>

\* apply_mapping stores the rows, in the place of earlier ones; the title the
\* user confirmed names a project of the profile, and is not stored with the
\* document.
ApplyMapping(a, d, ti) ==
  /\ api = "up" /\ Fresh(a)
  /\ Exists(d) /\ d \in suggested
  /\ mapped' = mapped \cup {d}
  /\ confirmed' = [confirmed EXCEPT ![d] = ti]
  /\ Set(a, Begun("mark", "apply", d))
  /\ UNCHANGED <<life, text, title, chunks, ahead, world, suggested, excused>>

\* ingest_repo: the fetched text replaces the row's, and its extract goes.
Ingest(a, d, t) ==
  /\ api = "up" /\ Fresh(a)
  /\ life[d] # "deleted"
  /\ life' = [life EXCEPT ![d] = "row"]
  /\ text' = [text EXCEPT ![d] = t]
  /\ Set(a, Begun("wait", "ingest", d))
  /\ Join(a)
  /\ UNCHANGED <<title, mapped, chunks, world, seen, excused>>

\* The script goes over the ids it has read; a row may be gone by then.
Backfill(a, d) ==
  /\ Fresh(a)
  /\ life[d] # "unused"
  /\ Set(a, Begun("load", "backfill", d))
  /\ UNCHANGED <<rows, chunks, ahead, world, seen, excused>>

\* mark_embed_attempt, then the semaphore.
Mark(a) ==
  /\ att[a].at = "mark"
  /\ Goto(a, "wait")
  /\ Join(a)
  /\ UNCHANGED <<rows, chunks, world, seen, excused>>

-----------------------------------------------------------------------------
(* embed_and_store_document *)

Done(a) == Set(a, Over) /\ Leave(a)

\* Any exception: swallowed and logged, or reported as a RepoIngestError.
Fail(a) ==
  /\ Done(a)
  /\ excused' = excused \cup {att[a].doc}
  /\ UNCHANGED <<rows, chunks, world, seen>>

\* The row is read once; a row that is gone is a ValueError.
Load(a) ==
  LET q == att[a]
  IN /\ q.at = "load"
     /\ \/ Fail(a)
        \/ /\ Exists(q.doc)
           /\ LET step == IF Size(text[q.doc]) = 0 THEN "delete" ELSE "embed"
              IN Set(a, [at |-> step, kind |-> q.kind, doc |-> q.doc,
                         text |-> text[q.doc], title |-> title[q.doc],
                         got |-> 0, tries |-> 0])
           /\ excused' = IF q.kind = "backfill" THEN excused ELSE excused \ {q.doc}
           /\ UNCHANGED <<rows, chunks, ahead, world, seen>>

\* One POST /embed of embed_passages: 503 unless the model is loaded.
EmbedBatch(a) ==
  LET q == att[a]
      got == IF q.got + Batch < Size(q.text) THEN q.got + Batch ELSE Size(q.text)
      step == IF got = Size(q.text) THEN "delete" ELSE "embed"
  IN /\ q.at = "embed"
     /\ model = "loaded"
     /\ Set(a, [at |-> step, kind |-> q.kind, doc |-> q.doc, text |-> q.text,
                title |-> q.title, got |-> got, tries |-> 0])
     /\ UNCHANGED <<rows, chunks, ahead, world, seen, excused>>

\* Connection errors, read timeouts and 5xx are tried again; then, and for any
\* other error at once, the attempt fails.
BatchFails(a) ==
  LET q == att[a]
  IN /\ q.at = "embed"
     /\ \/ /\ q.tries + 1 < Retries
           /\ Set(a, [q EXCEPT !.tries = q.tries + 1])
           /\ UNCHANGED <<rows, chunks, ahead, world, seen, excused>>
        \/ Fail(a)

DeleteChunks(a) ==
  LET d == att[a].doc
  IN /\ att[a].at = "delete"
     /\ chunks' = [chunks EXCEPT ![d] = {}]
     /\ IF Size(att[a].text) = 0 THEN Done(a) ELSE Goto(a, "insert") /\ UNCHANGED ahead
     /\ excused' = IF att[a].kind = "backfill" THEN excused \cup {d} ELSE excused
     /\ UNCHANGED <<rows, world, seen>>

\* Variant: no unique index.
IndexFree(d, t) == TRUE
\* uq_grounding_chunks_document_chunk
IndexUnused(d, t) == \A c \in chunks[d] : c.index >= Size(t)

\* One transaction; the document is referenced by its chunks.
InsertChunks(a) ==
  LET q == att[a]
  IN /\ q.at = "insert"
     /\ \/ /\ Exists(q.doc) /\ IndexUnused(q.doc, q.text)
           /\ chunks' = [chunks EXCEPT ![q.doc] = @ \cup ChunksOf(q.text, q.title)]
           /\ Done(a)
           /\ excused' = IF q.kind = "backfill" THEN excused \cup {q.doc} ELSE excused
           /\ UNCHANGED <<rows, world, seen>>
        \/ /\ ~(Exists(q.doc) /\ IndexUnused(q.doc, q.text))
           /\ Fail(a)

-----------------------------------------------------------------------------
(* Neighbours and faults. *)

\* DELETE /documents/{id}, or a repository deselected: the chunks go with it.
DeleteDoc(d) ==
  /\ api = "up"
  /\ Exists(d)
  /\ life' = [life EXCEPT ![d] = "deleted"]
  /\ text' = [text EXCEPT ![d] = None]
  /\ title' = [title EXCEPT ![d] = None]
  /\ chunks' = [chunks EXCEPT ![d] = {}]
  /\ mapped' = mapped \ {d}
  /\ UNCHANGED <<att, ahead, world, seen, excused>>

\* The client of a prep stream goes away; a background task has no client.
CutOff(a) ==
  /\ InFlight(a)
  /\ att[a].kind \in {"apply", "ingest"}
  /\ Fail(a)

Crash ==
  /\ api = "up" /\ faults < MaxFaults
  /\ LET lost == {a \in Attempts : InFlight(a) /\ att[a].kind # "backfill"}
     IN /\ att' = [a \in Attempts |-> IF a \in lost THEN Over ELSE att[a]]
        /\ excused' = excused \cup {att[a].doc : a \in lost}
  /\ ahead' = [a \in Attempts |-> {}]
  /\ api' = "down" /\ faults' = faults + 1
  /\ UNCHANGED <<rows, chunks, model, seen>>

\* lifespan: assert_embedder_model refuses to boot before the model is loaded.
Boot ==
  /\ api = "down" /\ model = "loaded"
  /\ api' = "up"
  /\ UNCHANGED <<rows, chunks, att, ahead, model, faults, seen, excused>>

\* _load_model: an error is kept, and never tried again.
LoadModel ==
  /\ model = "loading"
  /\ model' \in {"loaded", "broken"}
  /\ UNCHANGED <<rows, chunks, att, ahead, api, faults, seen, excused>>

RestartSidecar ==
  /\ faults < MaxFaults
  /\ model' = "loading" /\ faults' = faults + 1
  /\ UNCHANGED <<rows, chunks, att, ahead, api, seen, excused>>

Begin(a) ==
  \/ \E d \in Cvs, t \in Texts : UploadCv(a, d, t)
  \/ \E d \in Docs : RetryEmbed(a, d) \/ Backfill(a, d)
  \/ \E d \in ProjectDocs, ti \in Titles : ApplyMapping(a, d, ti)
  \/ \E d \in Repos, t \in Texts : Ingest(a, d, t)

Continue(a) ==
  \/ ResetMappings(a) \/ Mark(a) \/ Enter(a) \/ Load(a)
  \/ EmbedBatch(a) \/ BatchFails(a)
  \/ DeleteChunks(a) \/ InsertChunks(a)

Next ==
  \/ \E a \in Attempts : Begin(a) \/ Continue(a) \/ CutOff(a)
  \/ \E d \in ProjectDocs : \/ \E t \in Texts : UploadProjectDoc(d, t)
                            \/ \E ti \in Titles : RunIntake(d, ti)
  \/ \E d \in Docs : DeleteDoc(d)
  \/ Crash \/ Boot \/ LoadModel \/ RestartSidecar

\* Tasks run and requests time out.  Nothing else has to happen: the sidecar may
\* stay broken, the api down.
Fairness == \A a \in Attempts : WF_vars(Continue(a))

Spec == Init /\ [][Next]_vars /\ Fairness

-----------------------------------------------------------------------------
TypeOK ==
  /\ life \in [Docs -> {"unused", "row", "deleted"}]
  /\ text \in [Docs -> Texts \cup {None}]
  /\ title \in [Docs -> Titles \cup {None}]
  /\ mapped \subseteq ProjectDocs
  /\ chunks \in [Docs -> SUBSET Chunk]
  /\ att \in [Attempts -> Attempt]
  /\ ahead \in [Attempts -> SUBSET Attempts]
  /\ model \in {"loading", "loaded", "broken"}
  /\ api \in {"up", "down"}
  /\ faults \in 0..MaxFaults
  /\ suggested \subseteq ProjectDocs
  /\ confirmed \in [Docs -> Titles \cup {None}]
  /\ excused \subseteq Docs

\* However attempts, the backfill and deletions overlap and wherever they are
\* cut off, a document has no chunks or all the chunks of one text, under one
\* title, and a document that is gone has none.
ChunksAreWhole ==
  \A d \in Docs :
    \/ chunks[d] = {}
    \/ /\ Exists(d)
       /\ \E t \in Texts, ti \in Titles \cup {None} : chunks[d] = ChunksOf(t, ti)

\* Attempt a has d still to load and to write.
Toward(a, d) ==
  /\ att[a].doc = d /\ att[a].kind # "backfill"
  /\ att[a].at \in {"reset", "mark", "wait"} \cup Holding
Pending(d) == \E a \in Attempts : Toward(a, d)

\* When no attempt for a document is at work and the last to load it was not
\* lost, its chunks are those of the text it has now, also if a repository was
\* ingested again while an older attempt for it was at work.
FreshWhenQuiet ==
  \A d \in Docs \ excused :
    Exists(d) /\ ~Pending(d) /\ (d \in ProjectDocs => d \in mapped) =>
      \E ti \in Titles \cup {None} : chunks[d] = ChunksOf(text[d], ti)

\* An attempt that has begun ends, whatever the sidecar does and however many
\* others wait: nobody waits for a semaphore that nobody gives back.
EveryAttemptEnds == \A a \in Attempts : (InFlight(a) ~> (att[a].at = "over"))

\* A confirmed mapping leaves chunks that carry the confirmed title.
ConfirmedTitleIsEmbedded ==
  \A d \in ProjectDocs \ excused :
    confirmed[d] # None /\ ~Pending(d) => \A c \in chunks[d] : c.title = confirmed[d]

-----------------------------------------------------------------------------
\* The inductive invariant.

\* At most one attempt holds the semaphore, and those waiting are in line.
SemaOK ==
  /\ \A a \in Attempts : ~InLine(a) => ahead[a] = {}
  /\ \A a \in Attempts : Holds(a) => ahead[a] = {}
  /\ \A a \in Attempts : \A b \in ahead[a] : InLine(b)
  /\ \A a, b \in Attempts : InLine(a) /\ InLine(b) /\ a # b => a \in ahead[b] \/ b \in ahead[a]

AttemptOK(a) ==
  LET q == att[a]
  IN /\ InFlight(a) => q.doc \in Docs /\ life[q.doc] # "unused" /\ q.kind # "none"
     /\ q.at \in {"embed", "delete", "insert"} =>
          q.text \in Texts /\ (q.at # "delete" => Size(q.text) > 0)
     /\ q.at \in {"reset", "mark", "wait"} => q.kind # "backfill"

\* A document whose text an attempt at work no longer has is still to be loaded
\* by another.
Stale(a) ==
  /\ Holds(a) /\ att[a].at # "load"
  /\ att[a].doc \notin excused /\ Exists(att[a].doc)
  /\ att[a].text # text[att[a].doc]
LoadedOK ==
  \A a \in Attempts : Stale(a) =>
    \E b \in Attempts : att[b].doc = att[a].doc /\ att[b].at = "wait"

RowsOK ==
  /\ \A d \in Docs : Exists(d) <=> text[d] # None
  /\ \A d \in mapped : Exists(d)

EmbedInv ==
  /\ TypeOK /\ RowsOK
  /\ SemaOK
  /\ \A a \in Attempts : AttemptOK(a)
  /\ ChunksAreWhole /\ LoadedOK /\ FreshWhenQuiet
=============================================================================
