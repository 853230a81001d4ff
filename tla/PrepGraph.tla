----------------------------- MODULE PrepGraph -----------------------------
(***************************************************************************)
(* Prep: POST /sessions/prepare, /prepare/resume and /prepare/resume_repos *)
(* (api/sessions/routes.py) driving the prep graph (agents/graph.py,       *)
(* graph_nodes.py, nodes/github_ingest.py).  Each job of the user has a    *)
(* checkpoint thread of its own; the documents, the repositories and the   *)
(* profile are the user's, so that two jobs prepared at once share them.   *)
(*                                                                         *)
(* A checkpoint is stored together with the last commit of its node: every *)
(* reader treats all checkpoints that are neither paused nor finished      *)
(* alike, so where between the two a stream dies makes no difference.      *)
(***************************************************************************)
EXTENDS Integers, FiniteSets

CONSTANTS
  Jobs,        \* the user's jobs
  Docs,        \* project documents, numbered oldest first
  Repos,       \* public repositories of the verified GitHub handle
  RepoCap,     \* how many repositories one selection may ingest
  FaultKinds,  \* which of AllFaults the environment may inject
  MaxFaults    \* bound: number of injected faults

AllFaults == {"model", "cut", "ingest", "restart", "misfit"}
NoDoc == -1

ASSUME PrepAssumption ==
  /\ Docs \subseteq Nat
  /\ Repos \cap (Docs \cup {NoDoc}) = {}
  /\ IsFiniteSet(Repos)
  /\ RepoCap \in Nat
  /\ FaultKinds \subseteq AllFaults
  /\ MaxFaults \in Nat

VARIABLES
  mapped,   \* documents with document_mappings rows
  repo,     \* a repository's document: no row, row only, fully ingested
  profile,  \* the profile row: what it was built from, what it contains;
            \* history: the mapped documents whose rows did not fit it
  job,      \* jobs.parsed_json: not analyzed, or analyzed with a name or none
  company,  \* company_snapshots row of a job, or its _degraded reason
  ckpt,     \* latest checkpoint of "prep:{user_id}:{job_id}"
  run,      \* the stream in flight for a job
  heard,    \* the last frame the client of a job's prep received
  refused,  \* the last /prepare of a job was answered 409
  outcome,  \* how the company node of a job's last run reported itself
  faults    \* injected so far

db == <<mapped, repo, profile, job, company>>
client == <<heard, refused, outcome>>
vars == <<db, ckpt, run, client, faults>>

NoPick == {NoDoc}   \* github_resume = None
NoProfile == [exists |-> FALSE, key |-> {}, holds |-> {}, lacks |-> {}]

\* What the graph state carries from node to node.
Fresh(force) ==
  [force |-> force, skipped |-> {}, pending |-> NoDoc, failed |-> FALSE,
   decision |-> "none", picked |-> NoPick]

Idle == [step |-> "idle", node |-> "none", state |-> Fresh(FALSE),
         draft |-> {}, lacks |-> {}, todo |-> {}, broken |-> FALSE]

NoThread == [node |-> "none", paused |-> FALSE, state |-> Fresh(FALSE)]

Init ==
  /\ mapped = {}
  /\ repo = [u \in Repos |-> "none"]
  /\ profile = NoProfile
  /\ job = [j \in Jobs |-> "raw"]
  /\ company = [j \in Jobs |-> "none"]
  /\ ckpt = [j \in Jobs |-> NoThread]
  /\ run = [j \in Jobs |-> Idle]
  /\ heard = [j \in Jobs |-> "nothing"]
  /\ refused = [j \in Jobs |-> FALSE]
  /\ outcome = [j \in Jobs |-> "none"]
  /\ faults = 0

Fault(kind) ==
  /\ kind \in FaultKinds
  /\ faults < MaxFaults
  /\ faults' = faults + 1

At(j, step) == run[j].step = step
AtNode(j, node) == run[j].step = "start" /\ run[j].node = node
Goto(j, step) == run' = [run EXCEPT ![j].step = step]
Draft(j, step, draft, lacks) ==
  run' = [run EXCEPT ![j] = [@ EXCEPT !.step = step, !.draft = draft, !.lacks = lacks]]

\* A node returns its delta, or a run starts: the stream goes on from the
\* checkpoint stored.
FinishNode(j, next, state) ==
  /\ run' = [run EXCEPT ![j] = [Idle EXCEPT !.step = "start", !.node = next, !.state = state]]
  /\ ckpt' = [ckpt EXCEPT ![j] = [node |-> next, paused |-> FALSE, state |-> state]]

\* The stream ends with a frame; the checkpoint stays.
EndStream(j, frame) ==
  /\ run' = [run EXCEPT ![j] = Idle]
  /\ heard' = [heard EXCEPT ![j] = frame]

-----------------------------------------------------------------------------
(* Queries. *)

Unmapped(skipped) == (Docs \ mapped) \ skipped
Ingested == {u \in Repos : repo[u] = "full"}
RepoRows == {u \in Repos : repo[u] # "none"}

\* Variant: the cache key forgets the confirmed mappings.
CvAndRepos == RepoRows
\* repos.current_profile_doc_ids, without the CV, which is always there.
CurrentIds == RepoRows \cup mapped

-----------------------------------------------------------------------------
(* The routes. *)

\* aget_state: nothing is next on a thread that never ran or reached END.
HasNext(c) == c.node \notin {"none", "end"}

Begin(j, force) ==
  /\ FinishNode(j, "profile_builder", Fresh(force))
  /\ heard' = [heard EXCEPT ![j] = "nothing"]
  /\ refused' = [refused EXCEPT ![j] = FALSE]
  /\ outcome' = [outcome EXCEPT ![j] = "none"]
  /\ UNCHANGED db

\* prepare_session resets the thread and starts from START.  A forced restart
\* that gives up a prompt the user could still answer counts as a fault.
Prepare(j, force) ==
  /\ At(j, "idle")
  /\ \/ ~HasNext(ckpt[j]) /\ UNCHANGED faults
     \/ HasNext(ckpt[j]) /\ force /\ ~ckpt[j].paused /\ UNCHANGED faults
     \/ HasNext(ckpt[j]) /\ force /\ ckpt[j].paused /\ Fault("restart")
  /\ Begin(j, force)

\* 409 prep_in_progress.
Refuse(j) ==
  /\ HasNext(ckpt[j])
  /\ refused' = [refused EXCEPT ![j] = TRUE]
  /\ UNCHANGED <<db, ckpt, run, heard, outcome, faults>>

\* prepare_session_resume and prepare_session_resume_repos: the client answers
\* the prompt it was left with; the await node returns the answer at once.
Resume(j, prompt, next, state) ==
  /\ At(j, "idle")
  /\ heard[j] = prompt
  /\ FinishNode(j, next, state)
  /\ heard' = [heard EXCEPT ![j] = "nothing"]
  /\ refused' = [refused EXCEPT ![j] = FALSE]
  /\ UNCHANGED <<db, outcome, faults>>

ResumeRepos(j, picked) ==
  Resume(j, "awaiting_repos", "github_ingest_and_fold",
         [ckpt[j].state EXCEPT !.picked = picked])

\* "bad": an apply whose rows do not fit the profile (ValueError).
Decisions == {"apply", "bad", "skip"}
ResumeMapping(j, decision) ==
  Resume(j, "awaiting_mapping", "apply_or_skip_mapping",
         [ckpt[j].state EXCEPT !.decision = decision])

\* Variant: the awaiting frame without the interrupt.
PauseUnmarked(j, node, frame) ==
  /\ AtNode(j, node)
  /\ EndStream(j, frame)
  /\ UNCHANGED <<db, ckpt, refused, outcome, faults>>

\* The stream ends at an interrupt.
Pause(j, node, frame) ==
  /\ AtNode(j, node)
  /\ ckpt' = [ckpt EXCEPT ![j].paused = TRUE]
  /\ EndStream(j, frame)
  /\ UNCHANGED <<db, refused, outcome, faults>>

AwaitRepoSelection(j) == Pause(j, "await_repo_selection", "awaiting_repos")
AwaitMappingConfirm(j) == Pause(j, "await_mapping_confirm", "awaiting_mapping")

\* astream reached END: done, ready.
EndRun(j) ==
  /\ AtNode(j, "end")
  /\ EndStream(j, "done")
  /\ UNCHANGED <<db, ckpt, refused, outcome, faults>>

-----------------------------------------------------------------------------
(* node_profile_builder *)

ProfileHit == profile.exists /\ profile.key = CurrentIds

ProfileCached(j) ==
  /\ AtNode(j, "profile_builder")
  /\ ProfileHit
  /\ FinishNode(j, "github_discover", run[j].state)
  /\ UNCHANGED <<db, client, faults>>

\* The CV is extracted, then the confirmed mappings are read and replayed.
\* reapply_existing_mappings logs and leaves out a document whose rows do not
\* fit the new profile; the document stays mapped.
BuildProfile(j) ==
  /\ AtNode(j, "profile_builder")
  /\ ~ProfileHit
  /\ \E misfits \in SUBSET mapped :
       /\ IF misfits = {} THEN UNCHANGED faults ELSE Fault("misfit")
       /\ Draft(j, "build", mapped \ misfits, misfits)
  /\ UNCHANGED <<db, ckpt, client>>

\* The row is written under the document set of that moment.
WriteProfile(j) ==
  profile' = [exists |-> TRUE, key |-> CurrentIds,
              holds |-> run[j].draft, lacks |-> run[j].lacks]

\* The rebuilt profile has no github projects; the fold adds them again.
StoreBuilt(j) ==
  /\ At(j, "build")
  /\ WriteProfile(j)
  /\ FinishNode(j, "github_discover", run[j].state)
  /\ UNCHANGED <<mapped, repo, job, company, client, faults>>

-----------------------------------------------------------------------------
(* github_ingest.py *)

\* Re-fold what is ingested; else prompt with the listing; else, without a
\* handle, a listing or a visible repository, skip the segment.
Discover(j) ==
  /\ AtNode(j, "github_discover")
  /\ IF RepoRows # {}
       THEN FinishNode(j, "github_ingest_and_fold", [run[j].state EXCEPT !.picked = NoPick])
       ELSE \/ Repos # {} /\ FinishNode(j, "await_repo_selection", run[j].state)
            \/ FinishNode(j, "prepare_mapping_suggestion", run[j].state)
  /\ UNCHANGED <<db, client, faults>>

\* Deselected repositories are deleted; those not ingested yet are up next,
\* cut to the cap.
Select(j) ==
  LET picked == run[j].state.picked
  IN /\ AtNode(j, "github_ingest_and_fold")
     /\ picked # NoPick
     /\ repo' = [u \in Repos |-> IF u \in picked THEN repo[u] ELSE "none"]
     /\ \E chosen \in SUBSET picked :
          /\ IF Cardinality(picked) > RepoCap THEN Cardinality(chosen) = RepoCap
                                              ELSE chosen = picked
          /\ run' = [run EXCEPT ![j] = [@ EXCEPT !.step = "ingest", !.todo = chosen \ Ingested]]
     /\ UNCHANGED <<mapped, profile, job, company, ckpt, client, faults>>

\* ingest_repo: fetched and upserted, not yet embedded and extracted.
UpsertRepo(j, u) ==
  /\ At(j, "ingest")
  /\ u \in run[j].todo
  /\ repo' = [repo EXCEPT ![u] = "row"]
  /\ run' = [run EXCEPT ![j] = [@ EXCEPT !.step = "extract", !.draft = {u}]]
  /\ UNCHANGED <<mapped, profile, job, company, ckpt, client, faults>>

\* A row deleted meanwhile by another job's selection stays deleted.
StoreExtract(j) ==
  /\ At(j, "extract")
  /\ repo' = [u \in Repos |->
                IF u \in run[j].draft /\ repo[u] # "none" THEN "full" ELSE repo[u]]
  /\ run' = [run EXCEPT ![j] = [@ EXCEPT !.step = "ingest", !.todo = run[j].todo \ run[j].draft]]
  /\ UNCHANGED <<mapped, profile, job, company, ckpt, client, faults>>

\* Variant: a failed repository is not held against the selection.
IngestShrugged(j) ==
  /\ Fault("ingest")
  /\ At(j, "extract")
  /\ run' = [run EXCEPT ![j] = [@ EXCEPT !.step = "ingest", !.todo = run[j].todo \ run[j].draft]]
  /\ UNCHANGED <<db, ckpt, client>>

\* The fetch fails, or the embed or the extraction does.
IngestFails(j) ==
  /\ Fault("ingest")
  /\ \E u \in run[j].todo :
       /\ At(j, "ingest") \/ (At(j, "extract") /\ run[j].draft = {u})
       /\ run' = [run EXCEPT ![j] = [@ EXCEPT !.step = "ingest", !.broken = TRUE,
                                       !.todo = run[j].todo \ {u}]]
  /\ UNCHANGED <<db, ckpt, client>>

\* The barrier: with a failure the picker is opened again.
Reopen(j) ==
  /\ At(j, "ingest")
  /\ run[j].todo = {}
  /\ run[j].broken
  /\ FinishNode(j, "await_repo_selection", [run[j].state EXCEPT !.picked = NoPick])
  /\ UNCHANGED <<db, client, faults>>

\* fold_github_projects reads the profile and the repositories ...
Fold(j) ==
  /\ \/ AtNode(j, "github_ingest_and_fold") /\ run[j].state.picked = NoPick
     \/ At(j, "ingest") /\ run[j].todo = {} /\ ~run[j].broken
  /\ Draft(j, "fold", (profile.holds \ Repos) \cup Ingested, profile.lacks)
  /\ UNCHANGED <<db, ckpt, client, faults>>

\* ... and replaces its github projects.
StoreFold(j) ==
  /\ At(j, "fold")
  /\ WriteProfile(j)
  /\ FinishNode(j, "prepare_mapping_suggestion", [run[j].state EXCEPT !.picked = NoPick])
  /\ UNCHANGED <<mapped, repo, job, company, client, faults>>

-----------------------------------------------------------------------------
(* The doc-mapping loop. *)

\* The oldest document neither mapped nor skipped in this run; its intake
\* either fails, or is put before the user.
PrepareMapping(j) ==
  LET left == Unmapped(run[j].state.skipped)
  IN /\ AtNode(j, "prepare_mapping_suggestion")
     /\ \/ /\ left = {}
           /\ FinishNode(j, "job_analyzer", [run[j].state EXCEPT !.pending = NoDoc])
        \/ \E d \in left :
             /\ \A e \in left : d <= e
             /\ \/ FinishNode(j, "apply_or_skip_mapping",
                     [run[j].state EXCEPT !.pending = d, !.failed = TRUE])
                \/ FinishNode(j, "await_mapping_confirm",
                     [run[j].state EXCEPT !.pending = d, !.failed = FALSE])
     /\ UNCHANGED <<db, client, faults>>

Decided(state, skipped) ==
  [state EXCEPT !.pending = NoDoc, !.failed = FALSE, !.decision = "none", !.skipped = skipped]
Forget(state) == Decided(state, state.skipped)
Skip(state) == Decided(state, state.skipped \cup {state.pending})

\* A failed intake, the user's skip, an apply that raises ValueError or
\* ProfileMissing: the document is skipped for the rest of the run.
SkipMapping(j) ==
  /\ AtNode(j, "apply_or_skip_mapping")
  /\ run[j].state.failed \/ run[j].state.decision # "apply" \/ ~profile.exists
  /\ FinishNode(j, "prepare_mapping_suggestion", Skip(run[j].state))
  /\ UNCHANGED <<db, client, faults>>

\* apply_mapping: read the profile and apply the rows to the copy,
ApplyMapping(j) ==
  /\ AtNode(j, "apply_or_skip_mapping")
  /\ ~run[j].state.failed
  /\ run[j].state.decision = "apply"
  /\ profile.exists
  /\ Draft(j, "apply", profile.holds \cup {run[j].state.pending},
           profile.lacks \ {run[j].state.pending})
  /\ UNCHANGED <<db, ckpt, client, faults>>

\* commit the mapping rows,
StoreMapping(j) ==
  /\ At(j, "apply")
  /\ mapped' = mapped \cup {run[j].state.pending}
  /\ Goto(j, "applied")
  /\ UNCHANGED <<repo, profile, job, company, ckpt, client, faults>>

\* and write the copy back.
StoreApplied(j) ==
  /\ At(j, "applied")
  /\ WriteProfile(j)
  /\ FinishNode(j, "prepare_mapping_suggestion", Forget(run[j].state))
  /\ UNCHANGED <<mapped, repo, job, company, client, faults>>

-----------------------------------------------------------------------------
(* node_job_analyzer and node_company_researcher *)

\* The posting may or may not name the company.
AnalyzeJob(j) ==
  /\ AtNode(j, "job_analyzer")
  /\ IF job[j] = "raw" THEN \E a \in {"named", "nameless"} : job' = [job EXCEPT ![j] = a]
                       ELSE UNCHANGED job
  /\ FinishNode(j, "company_researcher", run[j].state)
  /\ UNCHANGED <<mapped, repo, profile, company, client, faults>>

\* decide_company_cache: a transient degraded snapshot is worth a retry.
CompanyHit(j) == ~run[j].state.force /\ company[j] \in {"researched", "CompanyNameMissing"}

\* Variant: a soft failure leaves no placeholder.
ReportUnsaved(j, result, row) ==
  /\ outcome' = [outcome EXCEPT ![j] = result]
  /\ FinishNode(j, "end", run[j].state)
  /\ company' = IF result = "degraded" THEN company ELSE [company EXCEPT ![j] = row]
  /\ UNCHANGED <<mapped, repo, profile, job, heard, refused, faults>>

Report(j, result, row) ==
  /\ company' = [company EXCEPT ![j] = row]
  /\ outcome' = [outcome EXCEPT ![j] = result]
  /\ FinishNode(j, "end", run[j].state)
  /\ UNCHANGED <<mapped, repo, profile, job, heard, refused, faults>>

CompanyCached(j) ==
  /\ AtNode(j, "company_researcher")
  /\ CompanyHit(j)
  /\ Report(j, "skipped", company[j])

\* research_company: without force_refresh an existing row is returned as it
\* is.  A soft failure leaves a placeholder with the reason.
Research(j) ==
  /\ AtNode(j, "company_researcher")
  /\ ~CompanyHit(j)
  /\ CASE job[j] = "nameless" -> Report(j, "degraded", "CompanyNameMissing")
       [] job[j] = "named" /\ ~run[j].state.force /\ company[j] # "none" -> Report(j, "ok", company[j])
       [] OTHER -> \/ Report(j, "ok", "researched")
                   \/ Report(j, "degraded", "NoSearchHits")

-----------------------------------------------------------------------------
(* What goes wrong. *)

\* A model or search call raises: an error frame.
ModelFails(j) ==
  /\ Fault("model")
  /\ \/ AtNode(j, "profile_builder") /\ ~ProfileHit
     \/ AtNode(j, "job_analyzer") /\ job[j] = "raw"
     \/ AtNode(j, "company_researcher") /\ ~CompanyHit(j)
  /\ EndStream(j, "error")
  /\ UNCHANGED <<db, ckpt, refused, outcome>>

\* The client disconnects, or the api process dies.
CutOff(j) ==
  /\ Fault("cut")
  /\ ~At(j, "idle")
  /\ EndStream(j, "error")
  /\ UNCHANGED <<db, ckpt, refused, outcome>>

Serve(j) ==
  \/ AwaitRepoSelection(j) \/ AwaitMappingConfirm(j) \/ EndRun(j)
  \/ ProfileCached(j) \/ BuildProfile(j) \/ StoreBuilt(j)
  \/ Discover(j) \/ Select(j) \/ StoreExtract(j) \/ Reopen(j) \/ Fold(j) \/ StoreFold(j)
  \/ \E u \in Repos : UpsertRepo(j, u)
  \/ PrepareMapping(j) \/ SkipMapping(j) \/ ApplyMapping(j) \/ StoreMapping(j) \/ StoreApplied(j)
  \/ AnalyzeJob(j) \/ CompanyCached(j) \/ Research(j)

Answer(j) ==
  \/ \E picked \in SUBSET Repos : ResumeRepos(j, picked)
  \/ \E decision \in Decisions : ResumeMapping(j, decision)

Next ==
  \E j \in Jobs :
    \/ \E force \in BOOLEAN : Prepare(j, force)
    \/ Refuse(j)
    \/ Answer(j)
    \/ Serve(j)
    \/ IngestFails(j)
    \/ ModelFails(j)
    \/ CutOff(j)

Spec == Init /\ [][Next]_vars

\* A stream is served to its end, the user answers each prompt, and a client
\* left with an error or with nothing prepares again.
Restart(j) == heard[j] \in {"nothing", "error"} /\ Prepare(j, TRUE)

Fairness ==
  \A j \in Jobs : WF_vars(Serve(j)) /\ WF_vars(Answer(j)) /\ WF_vars(Restart(j))

FairSpec == Spec /\ Fairness

-----------------------------------------------------------------------------
(* Type invariant. *)

Steps == {"idle", "start", "build", "ingest", "extract", "fold", "apply", "applied"}
Nodes == {"none", "profile_builder", "github_discover", "await_repo_selection",
          "github_ingest_and_fold", "prepare_mapping_suggestion", "await_mapping_confirm",
          "apply_or_skip_mapping", "job_analyzer", "company_researcher", "end"}
Sources == Docs \cup Repos

GraphState == [force : BOOLEAN, skipped : SUBSET Docs, pending : Docs \cup {NoDoc},
               failed : BOOLEAN, decision : Decisions \cup {"none"},
               picked : (SUBSET Repos) \cup {NoPick}]

TypeOK ==
  /\ mapped \in SUBSET Docs
  /\ repo \in [Repos -> {"none", "row", "full"}]
  /\ profile \in [exists : BOOLEAN, key : SUBSET Sources, holds : SUBSET Sources,
                 lacks : SUBSET Docs]
  /\ job \in [Jobs -> {"raw", "named", "nameless"}]
  /\ company \in [Jobs -> {"none", "researched", "NoSearchHits", "CompanyNameMissing"}]
  /\ ckpt \in [Jobs -> [node : Nodes, paused : BOOLEAN, state : GraphState]]
  /\ run \in [Jobs -> [step : Steps, node : Nodes, state : GraphState,
                       draft : SUBSET Sources, lacks : SUBSET Docs,
                       todo : SUBSET Repos, broken : BOOLEAN]]
  /\ heard \in [Jobs -> {"nothing", "done", "awaiting_repos", "awaiting_mapping", "error"}]
  /\ refused \in [Jobs -> BOOLEAN]
  /\ outcome \in [Jobs -> {"none", "skipped", "ok", "degraded"}]
  /\ faults \in Nat

-----------------------------------------------------------------------------
(* Properties of every run, however the jobs' streams overlap or die. *)

AfterProfile == Nodes \ {"none", "profile_builder"}
AfterMapping == {"job_analyzer", "company_researcher", "end"}

\* What has been achieved for job j once its graph stands before a node.
ReachedOK(j, node, state) ==
  /\ node \in AfterProfile => profile.exists
  /\ node \in AfterMapping => Unmapped(state.skipped) = {}
  /\ node \in {"company_researcher", "end"} => job[j] # "raw"
  /\ node = "end" => company[j] # "none"
  /\ node \in {"await_mapping_confirm", "apply_or_skip_mapping"} => state.pending \in Docs

\* The step a stream has reached belongs to its node.
StepOK(j) ==
  /\ At(j, "build") => run[j].node = "profile_builder"
  /\ run[j].step \in {"ingest", "extract", "fold"} => run[j].node = "github_ingest_and_fold"
  /\ run[j].step \in {"apply", "applied"} => run[j].node = "apply_or_skip_mapping"

\* The picker and the mapping panel are shown only over a checkpoint that can
\* take the answer: paused at the node that asked, with nothing running.
PromptIsOpen ==
  \A j \in Jobs :
    /\ heard[j] = "awaiting_repos" =>
         At(j, "idle") /\ ckpt[j].paused /\ ckpt[j].node = "await_repo_selection"
    /\ heard[j] = "awaiting_mapping" =>
         At(j, "idle") /\ ckpt[j].paused /\ ckpt[j].node = "await_mapping_confirm"

\* A stream sends {"ready": true} on END alone: the profile is built, each
\* project document is mapped or was skipped in this run, the posting analyzed
\* and the company row there, researched or degraded.
DoneMeansReady ==
  \A j \in Jobs : heard[j] = "done" =>
    /\ profile.exists
    /\ job[j] # "raw"
    /\ company[j] # "none"
    /\ Docs \subseteq mapped \cup ckpt[j].state.skipped

\* The inductive strengthening of both.
PrepInv ==
  /\ TypeOK
  /\ PromptIsOpen
  /\ \A j \in Jobs :
       /\ ReachedOK(j, ckpt[j].node, ckpt[j].state)
       /\ ~At(j, "idle") => run[j].node = ckpt[j].node /\ run[j].state = ckpt[j].state
       /\ StepOK(j)
       /\ heard[j] = "done" => At(j, "idle") /\ ckpt[j].node = "end"

-----------------------------------------------------------------------------
(* Properties of one job prepared at a time, cut off or not. *)

\* When prep is done the profile holds what the documents promise: every
\* confirmed mapping and every ingested repository, whatever was rebuilt,
\* folded or lost on the way.  The exception is a document whose rows did not
\* fit the profile when it was last rebuilt.
Applied == mapped \ profile.lacks
ProfileIsComplete ==
  \A j \in Jobs : heard[j] = "done" => profile.holds = Applied \cup Ingested

\* The prep-interview barrier within one selection: no repository of it is
\* folded half-ingested, unless the cap has cut the selection short.
SelectionIngested ==
  \A j \in Jobs :
    /\ At(j, "fold") /\ run[j].state.picked # NoPick
    /\ Cardinality(run[j].state.picked) <= RepoCap
    => RepoRows = Ingested

\* Their inductive strengthening, for a user with one job: the profile's key
\* bounds what it holds, what a node read is still what the rows say when it
\* writes, and every row the selection left half-ingested is still to be done.
SingleJob == \A i, j \in Jobs : i = j

KeyOK ==
  /\ profile.holds \subseteq profile.key
  /\ profile.key \cap Docs \subseteq profile.holds \cup profile.lacks
  /\ profile.holds \cap profile.lacks = {}

DraftOK(j) ==
  LET left == mapped \ run[j].lacks
  IN /\ At(j, "build") => run[j].draft = left
     /\ At(j, "apply") => run[j].draft = left \cup Ingested \cup {run[j].state.pending}
     /\ At(j, "apply") => run[j].state.pending \notin run[j].lacks
     /\ run[j].step \in {"fold", "applied"} => run[j].draft = left \cup Ingested

\* Prep goes on from its checkpoint; after an error it starts over.
UnderWay(j) == ~At(j, "idle") \/ heard[j] \notin {"nothing", "error"}
AfterFold == {"prepare_mapping_suggestion", "await_mapping_confirm", "apply_or_skip_mapping"}
             \cup AfterMapping

HoldsOK(j) ==
  UnderWay(j) /\ ~At(j, "applied") =>
    /\ ckpt[j].node \in AfterProfile => profile.holds \ Repos = Applied
    /\ ckpt[j].node = "github_discover" => profile.holds \cap Repos \subseteq RepoRows
    /\ ckpt[j].node \in AfterFold => profile.holds = Applied \cup Ingested

SelectionOK(j) ==
  run[j].state.picked # NoPick /\ Cardinality(run[j].state.picked) <= RepoCap =>
    /\ run[j].step \in {"ingest", "extract"} /\ ~run[j].broken =>
         RepoRows \ Ingested \subseteq run[j].todo
    /\ At(j, "fold") => RepoRows = Ingested

SoloInv == KeyOK /\ \A j \in Jobs : DraftOK(j) /\ HoldsOK(j) /\ SelectionOK(j)

\* Prep comes to an end for a user who answers its prompts, whatever the
\* answers, and prepares again, forced, after an error.
PrepFinishes == \A j \in Jobs : <>(heard[j] = "done")

-----------------------------------------------------------------------------
(* What the documentation says and the code does not do. *)

\* github_ingest.py: if a selected repository fails to ingest, prep does not
\* finalize.
BarrierHolds ==
  \A j \in Jobs : heard[j] = "done" => RepoRows = Ingested
=============================================================================
