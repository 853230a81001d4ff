-------------------------- MODULE PrepGraph_proofs --------------------------
(***************************************************************************)
(* For any number of jobs prepared at once, whatever fails: PrepInv, and   *)
(* from it DoneMeansReady.  The shared rows only ever gain what a job has  *)
(* already relied on (Grows), so a stream of another job cannot take it    *)
(* away; what a step does to its own job is one of three shapes: a node    *)
(* finishes, a node works on, a stream ends.                               *)
(* Then, for a user who prepares one job at a time, SoloInv, and from it   *)
(* ProfileIsComplete and SelectionIngested.                                *)
(***************************************************************************)
EXTENDS PrepGraph, FiniteSetTheorems, TLAPS

DbTypeOK ==
  /\ mapped \in SUBSET Docs
  /\ repo \in [Repos -> {"none", "row", "full"}]
  /\ profile \in [exists : BOOLEAN, key : SUBSET Sources, holds : SUBSET Sources,
                 lacks : SUBSET Docs]
  /\ job \in [Jobs -> {"raw", "named", "nameless"}]
  /\ company \in [Jobs -> {"none", "researched", "NoSearchHits", "CompanyNameMissing"}]

\* What a job has relied on stays: no step of prep unmaps a document, drops the
\* profile, un-analyzes a posting or deletes a company row.
Grows ==
  /\ DbTypeOK'
  /\ mapped \subseteq mapped'
  /\ profile.exists => profile'.exists
  /\ \A i \in Jobs : job[i] # "raw" => job'[i] # "raw"
  /\ \A i \in Jobs : company[i] # "none" => company'[i] # "none"

RunType == [step : Steps, node : Nodes, state : GraphState,
            draft : SUBSET Sources, lacks : SUBSET Docs, todo : SUBSET Repos,
            broken : BOOLEAN]

LEMMA FreshType == \A force \in BOOLEAN : Fresh(force) \in GraphState
  BY DEF GraphState, Fresh, Decisions

LEMMA IdleType == Idle \in RunType /\ Idle.step = "idle"
  BY FreshType DEF Idle, RunType, Steps, Nodes

\* What was reached is not lost when the rows grow.
LEMMA ReachedStays ==
  ASSUME Grows, NEW j \in Jobs, NEW node, NEW state, ReachedOK(j, node, state)
  PROVE  /\ node \in AfterProfile => profile'.exists
         /\ node \in AfterMapping => (Docs \ mapped') \ state.skipped = {}
         /\ node \in {"company_researcher", "end"} => job'[j] # "raw"
         /\ node = "end" => company'[j] # "none"
         /\ node \in {"await_mapping_confirm", "apply_or_skip_mapping"} => state.pending \in Docs
  BY DEF Grows, ReachedOK, Unmapped

\* The same, with the conclusion of the next state.
LEMMA ReachedPrime ==
  ASSUME NEW j \in Jobs, NEW node, NEW state,
         node \in AfterProfile => profile'.exists,
         node \in AfterMapping => (Docs \ mapped') \ state.skipped = {},
         node \in {"company_researcher", "end"} => job'[j] # "raw",
         node = "end" => company'[j] # "none",
         node \in {"await_mapping_confirm", "apply_or_skip_mapping"} => state.pending \in Docs,
         ckpt'[j].node = node, ckpt'[j].state = state
  PROVE  ReachedOK(j, ckpt[j].node, ckpt[j].state)'
  BY DEF ReachedOK, Unmapped

\* A step of job j keeps PrepInv when it keeps it for j.
LEMMA OneJob ==
  ASSUME PrepInv, Grows, NEW j \in Jobs,
         NEW c \in [node : Nodes, paused : BOOLEAN, state : GraphState],
         NEW x \in RunType,
         NEW h \in {"nothing", "done", "awaiting_repos", "awaiting_mapping", "error"},
         ckpt' = [ckpt EXCEPT ![j] = c],
         run' = [run EXCEPT ![j] = x],
         heard' = [heard EXCEPT ![j] = h],
         refused' \in [Jobs -> BOOLEAN],
         outcome' \in [Jobs -> {"none", "skipped", "ok", "degraded"}],
         faults' \in Nat,
         c.node \in AfterProfile => profile'.exists,
         c.node \in AfterMapping => (Docs \ mapped') \ c.state.skipped = {},
         c.node \in {"company_researcher", "end"} => job'[j] # "raw",
         c.node = "end" => company'[j] # "none",
         c.node \in {"await_mapping_confirm", "apply_or_skip_mapping"} => c.state.pending \in Docs,
         x.step # "idle" => x.node = c.node /\ x.state = c.state,
         x.step = "build" => x.node = "profile_builder",
         x.step \in {"ingest", "extract", "fold"} => x.node = "github_ingest_and_fold",
         x.step \in {"apply", "applied"} => x.node = "apply_or_skip_mapping",
         h = "awaiting_repos" => x.step = "idle" /\ c.paused /\ c.node = "await_repo_selection",
         h = "awaiting_mapping" => x.step = "idle" /\ c.paused /\ c.node = "await_mapping_confirm",
         h = "done" => x.step = "idle" /\ c.node = "end"
  PROVE  PrepInv'
<1> USE DEF PrepInv
<1>t. TypeOK
  OBVIOUS
<1>1. TypeOK'
  BY <1>t DEF TypeOK, Grows, DbTypeOK, RunType
<1>2. ckpt'[j] = c /\ run'[j] = x /\ heard'[j] = h
  BY <1>t DEF TypeOK
<1>3. ASSUME NEW i \in Jobs, i # j
      PROVE ckpt'[i] = ckpt[i] /\ run'[i] = run[i] /\ heard'[i] = heard[i]
  BY <1>t, <1>3 DEF TypeOK
<1>4. PromptIsOpen'
  <2> SUFFICES ASSUME NEW i \in Jobs
               PROVE /\ heard'[i] = "awaiting_repos" =>
                          run'[i].step = "idle" /\ ckpt'[i].paused
                            /\ ckpt'[i].node = "await_repo_selection"
                     /\ heard'[i] = "awaiting_mapping" =>
                          run'[i].step = "idle" /\ ckpt'[i].paused
                            /\ ckpt'[i].node = "await_mapping_confirm"
    BY DEF PromptIsOpen, At
  <2>1. CASE i = j
    BY <2>1, <1>2
  <2>2. CASE i # j
    BY <2>2, <1>3 DEF PromptIsOpen, At
  <2> QED BY <2>1, <2>2
<1>5. ASSUME NEW i \in Jobs PROVE ReachedOK(i, ckpt[i].node, ckpt[i].state)'
  <2>1. CASE i = j
    BY <2>1, <1>2, ReachedPrime
  <2>2. CASE i # j
    BY <2>2, <1>3, ReachedStays, ReachedPrime
  <2> QED BY <2>1, <2>2
<1>6. ASSUME NEW i \in Jobs
      PROVE /\ ~At(i, "idle")' => run'[i].node = ckpt'[i].node /\ run'[i].state = ckpt'[i].state
            /\ heard'[i] = "done" => At(i, "idle")' /\ ckpt'[i].node = "end"
  <2>1. CASE i = j
    BY <2>1, <1>2 DEF At
  <2>2. CASE i # j
    BY <2>2, <1>3 DEF At
  <2> QED BY <2>1, <2>2
<1>7. ASSUME NEW i \in Jobs PROVE StepOK(i)'
  <2>1. CASE i = j
    BY <2>1, <1>2 DEF StepOK, At
  <2>2. CASE i # j
    BY <2>2, <1>3 DEF StepOK, At
  <2> QED BY <2>1, <2>2
<1> QED BY <1>1, <1>4, <1>5, <1>6, <1>7

-----------------------------------------------------------------------------
(* The three shapes of a step, each with what its action has to provide. *)

CkptType == [node : Nodes, paused : BOOLEAN, state : GraphState]

\* What the invariant says of the job a step belongs to.
LEMMA Known ==
  ASSUME PrepInv, NEW j \in Jobs
  PROVE  /\ ckpt[j] \in CkptType /\ run[j] \in RunType
         /\ ReachedOK(j, ckpt[j].node, ckpt[j].state)
         /\ ~At(j, "idle") =>
              /\ run[j].node = ckpt[j].node
              /\ run[j].state = ckpt[j].state
              /\ heard[j] \in {"nothing", "error"}
         /\ StepOK(j)
         /\ heard[j] \in {"nothing", "done", "awaiting_repos", "awaiting_mapping", "error"}
  BY DEF PrepInv, TypeOK, CkptType, RunType, PromptIsOpen, At

LEMMA NothingLost == ASSUME PrepInv, UNCHANGED db PROVE Grows
  BY DEF PrepInv, TypeOK, Grows, DbTypeOK, db

\* A node that finishes hands on to the next, for which all it needs is reached.
LEMMA NodeFinishes ==
  ASSUME PrepInv, Grows, NEW j \in Jobs, NEW next \in Nodes, NEW state \in GraphState,
         NEW h \in {"nothing", "error"},
         FinishNode(j, next, state),
         heard' = [heard EXCEPT ![j] = h],
         refused' \in [Jobs -> BOOLEAN],
         outcome' \in [Jobs -> {"none", "skipped", "ok", "degraded"}],
         faults' \in Nat,
         next \in AfterProfile => profile'.exists,
         next \in AfterMapping => (Docs \ mapped') \ state.skipped = {},
         next \in {"company_researcher", "end"} => job'[j] # "raw",
         next = "end" => company'[j] # "none",
         next \in {"await_mapping_confirm", "apply_or_skip_mapping"} => state.pending \in Docs
  PROVE  PrepInv'
<1> DEFINE c == [node |-> next, paused |-> FALSE, state |-> state]
           x == [Idle EXCEPT !.step = "start", !.node = next, !.state = state]
<1>1. c \in [node : Nodes, paused : BOOLEAN, state : GraphState]
  OBVIOUS
<1>2. x \in RunType /\ x.step = "start" /\ x.node = next /\ x.state = state
  BY IdleType DEF RunType, Steps
<1>3. ckpt' = [ckpt EXCEPT ![j] = c] /\ run' = [run EXCEPT ![j] = x]
  BY DEF FinishNode
<1>4. c.node = next /\ c.state = state
  OBVIOUS
<1> HIDE DEF c, x
<1> QED BY <1>1, <1>2, <1>3, <1>4, OneJob

\* A node that works on moves its own step, over rows that grow.
LEMMA NodeWorks ==
  ASSUME PrepInv, Grows, NEW j \in Jobs, NEW x \in RunType,
         ~At(j, "idle"),
         x.node = run[j].node, x.state = run[j].state,
         run' = [run EXCEPT ![j] = x],
         UNCHANGED <<ckpt, client>>,
         faults' \in Nat,
         x.step # "idle",
         x.step = "build" => x.node = "profile_builder",
         x.step \in {"ingest", "extract", "fold"} => x.node = "github_ingest_and_fold",
         x.step \in {"apply", "applied"} => x.node = "apply_or_skip_mapping"
  PROVE  PrepInv'
<1>1. ckpt' = [ckpt EXCEPT ![j] = ckpt[j]] /\ heard' = [heard EXCEPT ![j] = heard[j]]
  BY DEF PrepInv, TypeOK, client
<1>2. refused' \in [Jobs -> BOOLEAN] /\ outcome' \in [Jobs -> {"none", "skipped", "ok", "degraded"}]
  BY DEF PrepInv, TypeOK, client
<1>3. /\ ckpt[j].node \in AfterProfile => profile'.exists
      /\ ckpt[j].node \in AfterMapping => (Docs \ mapped') \ ckpt[j].state.skipped = {}
      /\ ckpt[j].node \in {"company_researcher", "end"} => job'[j] # "raw"
      /\ ckpt[j].node = "end" => company'[j] # "none"
      /\ ckpt[j].node \in {"await_mapping_confirm", "apply_or_skip_mapping"}
           => ckpt[j].state.pending \in Docs
  BY Known, ReachedStays
<1>4. x.node = ckpt[j].node /\ x.state = ckpt[j].state /\ heard[j] \in {"nothing", "error"}
  BY Known
<1>5. ckpt[j] \in [node : Nodes, paused : BOOLEAN, state : GraphState]
  BY Known DEF CkptType
<1> QED BY <1>1, <1>2, <1>3, <1>4, <1>5, OneJob

\* A stream that ends leaves the checkpoint to the prompt it shows, or none.
LEMMA StreamEnds ==
  ASSUME PrepInv, UNCHANGED db, NEW j \in Jobs, NEW paused \in BOOLEAN,
         NEW h \in {"done", "awaiting_repos", "awaiting_mapping", "error"},
         EndStream(j, h),
         ckpt' = [ckpt EXCEPT ![j] = [@ EXCEPT !.paused = paused]],
         UNCHANGED <<refused, outcome>>,
         faults' \in Nat,
         h = "awaiting_repos" => paused /\ ckpt[j].node = "await_repo_selection",
         h = "awaiting_mapping" => paused /\ ckpt[j].node = "await_mapping_confirm",
         h = "done" => ckpt[j].node = "end"
  PROVE  PrepInv'
<1> DEFINE c == [ckpt[j] EXCEPT !.paused = paused]
<1>1. /\ c \in [node : Nodes, paused : BOOLEAN, state : GraphState]
      /\ c.node = ckpt[j].node /\ c.state = ckpt[j].state /\ c.paused = paused
  BY Known DEF CkptType
<1>2. Grows
  BY NothingLost
<1>3. /\ c.node \in AfterProfile => profile'.exists
      /\ c.node \in AfterMapping => (Docs \ mapped') \ c.state.skipped = {}
      /\ c.node \in {"company_researcher", "end"} => job'[j] # "raw"
      /\ c.node = "end" => company'[j] # "none"
      /\ c.node \in {"await_mapping_confirm", "apply_or_skip_mapping"} => c.state.pending \in Docs
  BY <1>1, <1>2, Known, ReachedStays
<1>4. ckpt' = [ckpt EXCEPT ![j] = c]
  BY DEF PrepInv, TypeOK
<1>5. run' = [run EXCEPT ![j] = Idle] /\ heard' = [heard EXCEPT ![j] = h]
  BY DEF EndStream
<1>6. refused' \in [Jobs -> BOOLEAN] /\ outcome' \in [Jobs -> {"none", "skipped", "ok", "degraded"}]
  BY DEF PrepInv, TypeOK
<1>7. /\ h = "awaiting_repos" => c.paused /\ c.node = "await_repo_selection"
      /\ h = "awaiting_mapping" => c.paused /\ c.node = "await_mapping_confirm"
      /\ h = "done" => c.node = "end"
  BY <1>1
<1>8. Idle \in RunType /\ Idle.step = "idle"
  BY IdleType
<1> HIDE DEF c
<1> QED BY <1>1, <1>2, <1>3, <1>4, <1>5, <1>6, <1>7, <1>8, OneJob, ZenonT(60)

\* NodeFinishes for a node that says nothing to the client.
LEMMA NodeHandsOn ==
  ASSUME PrepInv, Grows, NEW j \in Jobs, NEW next \in Nodes, NEW state \in GraphState,
         ~At(j, "idle"),
         FinishNode(j, next, state),
         UNCHANGED <<heard, refused>>,
         outcome' \in [Jobs -> {"none", "skipped", "ok", "degraded"}],
         faults' \in Nat,
         next \in AfterProfile => profile'.exists,
         next \in AfterMapping => (Docs \ mapped') \ state.skipped = {},
         next \in {"company_researcher", "end"} => job'[j] # "raw",
         next = "end" => company'[j] # "none",
         next \in {"await_mapping_confirm", "apply_or_skip_mapping"} => state.pending \in Docs
  PROVE  PrepInv'
<1>1. heard[j] \in {"nothing", "error"}
  BY Known
<1>2. heard' = [heard EXCEPT ![j] = heard[j]] /\ refused' \in [Jobs -> BOOLEAN]
  BY DEF PrepInv, TypeOK
<1> QED BY <1>1, <1>2, NodeFinishes

-----------------------------------------------------------------------------
(* One lemma per handler. *)

LEMMA Counters ==
  ASSUME PrepInv
  PROVE  /\ faults \in Nat
         /\ outcome \in [Jobs -> {"none", "skipped", "ok", "degraded"}]
         /\ refused \in [Jobs -> BOOLEAN]
         /\ \A kind : Fault(kind) => faults' \in Nat
  BY DEF PrepInv, TypeOK, Fault

LEMMA PrepareStep ==
  ASSUME PrepInv, NEW j \in Jobs, NEW force \in BOOLEAN, Prepare(j, force)
  PROVE  PrepInv'
<1>1. Begin(j, force) /\ faults' \in Nat
  BY Counters DEF Prepare
<1>2. "profile_builder" \in Nodes \ (AfterProfile \cup AfterMapping)
  BY DEF Nodes, AfterProfile, AfterMapping
<1>3. Grows
  BY <1>1, NothingLost DEF Begin
<1>4. /\ refused' \in [Jobs -> BOOLEAN]
      /\ outcome' \in [Jobs -> {"none", "skipped", "ok", "degraded"}]
  BY <1>1, Counters DEF Begin
<1>5. FinishNode(j, "profile_builder", Fresh(force)) /\ heard' = [heard EXCEPT ![j] = "nothing"]
  BY <1>1 DEF Begin
<1> QED BY <1>1, <1>2, <1>3, <1>4, <1>5, FreshType, NodeFinishes

LEMMA RefuseStep == ASSUME PrepInv, NEW j \in Jobs, Refuse(j) PROVE PrepInv'
  BY DEF Refuse, PrepInv, TypeOK, PromptIsOpen, ReachedOK, StepOK, At, Unmapped, db

\* Both prompts are answered over the checkpoint that asked.
LEMMA ResumeStep ==
  ASSUME PrepInv, NEW j \in Jobs, NEW prompt, NEW next \in Nodes, NEW state \in GraphState,
         Resume(j, prompt, next, state),
         next \in AfterProfile => profile.exists,
         next \notin AfterMapping,
         next \in {"await_mapping_confirm", "apply_or_skip_mapping"} => state.pending \in Docs
  PROVE  PrepInv'
<1>1. Grows /\ profile' = profile
  BY NothingLost DEF Resume, db
<1>2. /\ FinishNode(j, next, state)
      /\ heard' = [heard EXCEPT ![j] = "nothing"]
      /\ refused' \in [Jobs -> BOOLEAN]
      /\ outcome' \in [Jobs -> {"none", "skipped", "ok", "degraded"}]
      /\ faults' \in Nat
  BY Counters DEF Resume
<1>3. next \notin {"company_researcher", "end"}
  BY DEF AfterMapping
<1> QED BY <1>1, <1>2, <1>3, NodeFinishes

LEMMA AnswerStep == ASSUME PrepInv, NEW j \in Jobs, Answer(j) PROVE PrepInv'
<1>0. /\ {"await_repo_selection", "await_mapping_confirm", "github_ingest_and_fold",
          "apply_or_skip_mapping"} \subseteq (Nodes \cap AfterProfile) \ AfterMapping
  BY DEF Nodes, AfterProfile, AfterMapping
<1>c. ckpt[j].state \in GraphState
  BY Known DEF CkptType
<1>1. CASE \E picked \in SUBSET Repos : ResumeRepos(j, picked)
  <2> PICK picked \in SUBSET Repos : ResumeRepos(j, picked)
    BY <1>1
  <2> DEFINE state == [ckpt[j].state EXCEPT !.picked = picked]
  <2>1. state \in GraphState
    BY <1>c DEF GraphState
  <2>2. heard[j] = "awaiting_repos" /\ Resume(j, "awaiting_repos", "github_ingest_and_fold", state)
    BY DEF ResumeRepos, Resume
  <2>3. profile.exists
    BY <2>2, <1>0, Known DEF PrepInv, PromptIsOpen, ReachedOK
  <2> HIDE DEF state
  <2> QED BY <2>1, <2>2, <2>3, <1>0, ResumeStep
<1>2. CASE \E decision \in Decisions : ResumeMapping(j, decision)
  <2> PICK decision \in Decisions : ResumeMapping(j, decision)
    BY <1>2
  <2> DEFINE state == [ckpt[j].state EXCEPT !.decision = decision]
  <2>1. state \in GraphState /\ state.pending = ckpt[j].state.pending
    BY <1>c DEF GraphState
  <2>2. /\ heard[j] = "awaiting_mapping"
        /\ Resume(j, "awaiting_mapping", "apply_or_skip_mapping", state)
    BY DEF ResumeMapping, Resume
  <2>3. profile.exists /\ ckpt[j].state.pending \in Docs
    BY <2>2, <1>0, Known DEF PrepInv, PromptIsOpen, ReachedOK
  <2> HIDE DEF state
  <2> QED BY <2>1, <2>2, <2>3, <1>0, ResumeStep
<1> QED BY <1>1, <1>2 DEF Answer

\* A stream at the start of a node: what the checkpoint says holds for it.
LEMMA Standing ==
  ASSUME PrepInv, NEW j \in Jobs, ~At(j, "idle")
  PROVE  /\ ReachedOK(j, run[j].node, run[j].state)
         /\ run[j] \in RunType /\ run[j].node \in Nodes /\ run[j].state \in GraphState
         /\ StepOK(j)
  BY Known DEF RunType

LEMMA StreamStep ==
  ASSUME PrepInv, NEW j \in Jobs,
         AwaitRepoSelection(j) \/ AwaitMappingConfirm(j) \/ EndRun(j) \/ ModelFails(j) \/ CutOff(j)
  PROVE  PrepInv'
<1>c. ckpt[j] \in CkptType /\ ckpt[j].paused \in BOOLEAN
  BY Known DEF CkptType
<1>k. ckpt = [ckpt EXCEPT ![j] = [@ EXCEPT !.paused = ckpt[j].paused]]
  BY <1>c DEF CkptType, PrepInv, TypeOK
<1>1. ASSUME NEW node, NEW frame \in {"awaiting_repos", "awaiting_mapping"}, Pause(j, node, frame),
             frame = "awaiting_repos" => node = "await_repo_selection",
             frame = "awaiting_mapping" => node = "await_mapping_confirm"
      PROVE PrepInv'
  <2>1. run[j].node = node /\ ~At(j, "idle")
    BY <1>1 DEF Pause, AtNode, At
  <2>2. ckpt[j].node = node
    BY <2>1, Known
  <2>3. ckpt' = [ckpt EXCEPT ![j] = [@ EXCEPT !.paused = TRUE]]
    BY <1>1 DEF Pause
  <2>4. EndStream(j, frame) /\ UNCHANGED db /\ UNCHANGED <<refused, outcome>> /\ faults' \in Nat
    BY <1>1, Counters DEF Pause
  <2> QED BY <1>1, <2>2, <2>3, <2>4, StreamEnds
<1>2. CASE EndRun(j)
  <2>1. ckpt[j].node = "end"
    BY <1>2, Known DEF EndRun, AtNode, At
  <2>2. /\ EndStream(j, "done") /\ UNCHANGED db /\ UNCHANGED <<refused, outcome>> /\ faults' \in Nat
        /\ ckpt' = ckpt
    BY <1>2, Counters DEF EndRun
  <2> QED BY <1>c, <1>k, <2>1, <2>2, StreamEnds
<1>3. CASE ModelFails(j) \/ CutOff(j)
  <2>1. /\ EndStream(j, "error") /\ UNCHANGED db /\ UNCHANGED <<refused, outcome>> /\ faults' \in Nat
        /\ ckpt' = ckpt
    BY <1>3, Counters DEF ModelFails, CutOff
  <2> QED BY <1>c, <1>k, <2>1, StreamEnds
<1> QED BY <1>1, <1>2, <1>3 DEF AwaitRepoSelection, AwaitMappingConfirm

\* The profile row is replaced, never dropped.
LEMMA ProfileWritten ==
  ASSUME PrepInv, NEW j \in Jobs, run[j] \in RunType, WriteProfile(j),
         UNCHANGED <<mapped, repo, job, company>>
  PROVE  Grows /\ profile'.exists
  BY DEF PrepInv, TypeOK, WriteProfile, RunType, Grows, DbTypeOK, CurrentIds, RepoRows, Sources

LEMMA ProfileBuilderStep ==
  ASSUME PrepInv, NEW j \in Jobs, ProfileCached(j) \/ BuildProfile(j) \/ StoreBuilt(j)
  PROVE  PrepInv'
<1>n. "github_discover" \in Nodes /\ "github_discover" \notin AfterMapping
  BY DEF Nodes, AfterMapping
<1>0. ~At(j, "idle") /\ run[j] \in RunType /\ run[j].state \in GraphState
  BY Standing DEF ProfileCached, BuildProfile, StoreBuilt, AtNode, At
<1>1. CASE ProfileCached(j)
  <2>1. Grows /\ profile'.exists
    BY <1>1, NothingLost DEF ProfileCached, ProfileHit, db
  <2>2. FinishNode(j, "github_discover", run[j].state)
    BY <1>1 DEF ProfileCached
  <2>3. UNCHANGED <<heard, refused>> /\ outcome' = outcome /\ faults' = faults
    BY <1>1 DEF ProfileCached, client
  <2> QED BY <1>n, <1>0, <2>1, <2>2, <2>3, Counters, NodeHandsOn DEF AfterMapping
<1>2. CASE BuildProfile(j)
  <2> PICK misfits \in SUBSET mapped :
        /\ IF misfits = {} THEN UNCHANGED faults ELSE Fault("misfit")
        /\ Draft(j, "build", mapped \ misfits, misfits)
    BY <1>2 DEF BuildProfile
  <2> DEFINE x == [run[j] EXCEPT !.step = "build", !.draft = mapped \ misfits, !.lacks = misfits]
  <2>1. /\ x \in RunType /\ x.node = run[j].node /\ x.state = run[j].state /\ x.step = "build"
        /\ x.node = "profile_builder"
    BY <1>0, <1>2 DEF RunType, Steps, BuildProfile, AtNode, PrepInv, TypeOK, Sources
  <2>2. run' = [run EXCEPT ![j] = x]
    BY DEF Draft, PrepInv, TypeOK
  <2>3. Grows /\ UNCHANGED <<ckpt, client>> /\ faults' \in Nat
    BY <1>2, NothingLost, Counters DEF BuildProfile, Fault
  <2> HIDE DEF x
  <2> QED BY <1>0, <2>1, <2>2, <2>3, NodeWorks
<1>3. CASE StoreBuilt(j)
  <2>1. Grows /\ profile'.exists
    BY <1>0, <1>3, ProfileWritten DEF StoreBuilt, RunType
  <2>2. FinishNode(j, "github_discover", run[j].state)
    BY <1>3 DEF StoreBuilt
  <2>3. UNCHANGED <<heard, refused>> /\ outcome' = outcome /\ faults' = faults
    BY <1>3 DEF StoreBuilt, client
  <2> QED BY <1>n, <1>0, <2>1, <2>2, <2>3, Counters, NodeHandsOn DEF AfterMapping
<1> QED BY <1>1, <1>2, <1>3

\* Only the repositories' rows change: nothing a job relied on is lost.
LEMMA ReposRewritten ==
  ASSUME PrepInv, repo' \in [Repos -> {"none", "row", "full"}],
         UNCHANGED <<mapped, profile, job, company>>
  PROVE  Grows
  BY DEF PrepInv, TypeOK, Grows, DbTypeOK

LEMMA DiscoverStep ==
  ASSUME PrepInv, NEW j \in Jobs, Discover(j) \/ Reopen(j)
  PROVE  PrepInv'
<1>n. {"github_ingest_and_fold", "await_repo_selection", "prepare_mapping_suggestion",
       "github_discover"} \subseteq (Nodes \cap AfterProfile) \ AfterMapping
  BY DEF Nodes, AfterProfile, AfterMapping
<1>0. ~At(j, "idle") /\ run[j].state \in GraphState /\ run[j].node \in AfterProfile
  BY <1>n, Standing DEF Discover, Reopen, AtNode, At, StepOK
<1>1. profile'.exists /\ Grows
  BY <1>0, Standing, NothingLost DEF ReachedOK, Discover, Reopen, db
<1>2. [run[j].state EXCEPT !.picked = NoPick] \in GraphState
  BY <1>0 DEF GraphState
<1>3. \E next \in {"github_ingest_and_fold", "await_repo_selection", "prepare_mapping_suggestion"} :
        \E state \in GraphState : FinishNode(j, next, state)
  BY <1>0, <1>2 DEF Discover, Reopen
<1>4. UNCHANGED <<heard, refused>> /\ outcome' = outcome /\ faults' = faults
  BY DEF Discover, Reopen, client
<1>5. PICK next \in {"github_ingest_and_fold", "await_repo_selection", "prepare_mapping_suggestion"},
           state \in GraphState : FinishNode(j, next, state)
  BY <1>3
<1> QED BY <1>n, <1>0, <1>1, <1>4, <1>5, Counters, NodeHandsOn DEF AfterMapping

LEMMA SelectStep == ASSUME PrepInv, NEW j \in Jobs, Select(j) PROVE PrepInv'
<1>0. ~At(j, "idle") /\ run[j] \in RunType /\ run[j].node = "github_ingest_and_fold"
  BY Standing DEF Select, AtNode, At
<1>1. run[j].state.picked \in SUBSET Repos
  BY <1>0 DEF Select, RunType, GraphState
<1>2. PICK chosen \in SUBSET run[j].state.picked :
        run' = [run EXCEPT ![j] = [@ EXCEPT !.step = "ingest", !.todo = chosen \ Ingested]]
  BY DEF Select
<1> DEFINE x == [run[j] EXCEPT !.step = "ingest", !.todo = chosen \ Ingested]
<1>3. x \in RunType /\ x.node = run[j].node /\ x.state = run[j].state /\ x.step = "ingest"
  BY <1>0, <1>1 DEF RunType, Steps
<1>4. run' = [run EXCEPT ![j] = x]
  BY <1>2 DEF PrepInv, TypeOK
<1>5. repo' \in [Repos -> {"none", "row", "full"}]
  BY DEF Select, PrepInv, TypeOK
<1>6. Grows /\ UNCHANGED <<ckpt, client>> /\ faults' \in Nat
  BY <1>5, ReposRewritten, Counters DEF Select
<1> HIDE DEF x
<1> QED BY <1>0, <1>3, <1>4, <1>6, NodeWorks

LEMMA IngestStep ==
  ASSUME PrepInv, NEW j \in Jobs,
         (\E u \in Repos : UpsertRepo(j, u)) \/ StoreExtract(j) \/ IngestFails(j)
  PROVE  PrepInv'
<1>0. ~At(j, "idle") /\ run[j] \in RunType /\ run[j].node = "github_ingest_and_fold"
  BY Standing DEF UpsertRepo, StoreExtract, IngestFails, At, StepOK
<1>1. ASSUME NEW x \in RunType, x.node = run[j].node, x.state = run[j].state,
             x.step \in {"ingest", "extract"}, run' = [run EXCEPT ![j] = x],
             Grows, UNCHANGED <<ckpt, client>>, faults' \in Nat
      PROVE PrepInv'
  BY <1>0, <1>1, NodeWorks
<1>2. ASSUME NEW u \in Repos, UpsertRepo(j, u) PROVE PrepInv'
  <2> DEFINE x == [run[j] EXCEPT !.step = "extract", !.draft = {u}]
  <2>1. /\ x \in RunType /\ x.node = run[j].node /\ x.state = run[j].state
        /\ x.step \in {"ingest", "extract"}
    BY <1>0 DEF RunType, Steps, Sources
  <2>2. run' = [run EXCEPT ![j] = x]
    BY <1>2 DEF UpsertRepo, PrepInv, TypeOK
  <2>3. repo' \in [Repos -> {"none", "row", "full"}]
    BY <1>2 DEF UpsertRepo, PrepInv, TypeOK
  <2>4. Grows /\ UNCHANGED <<ckpt, client>> /\ faults' \in Nat
    BY <1>2, <2>3, ReposRewritten, Counters DEF UpsertRepo
  <2> HIDE DEF x
  <2> QED BY <1>1, <2>1, <2>2, <2>4
<1>3. CASE StoreExtract(j)
  <2> DEFINE x == [run[j] EXCEPT !.step = "ingest", !.todo = run[j].todo \ run[j].draft]
  <2>1. /\ x \in RunType /\ x.node = run[j].node /\ x.state = run[j].state
        /\ x.step \in {"ingest", "extract"}
    BY <1>0 DEF RunType, Steps
  <2>2. run' = [run EXCEPT ![j] = x]
    BY <1>3 DEF StoreExtract, PrepInv, TypeOK
  <2>3. repo' \in [Repos -> {"none", "row", "full"}]
    BY <1>3 DEF StoreExtract, PrepInv, TypeOK
  <2>4. Grows /\ UNCHANGED <<ckpt, client>> /\ faults' \in Nat
    BY <1>3, <2>3, ReposRewritten, Counters DEF StoreExtract
  <2> HIDE DEF x
  <2> QED BY <1>1, <2>1, <2>2, <2>4
<1>4. CASE IngestFails(j)
  <2>0. PICK u \in run[j].todo :
          run' = [run EXCEPT ![j] = [@ EXCEPT !.step = "ingest", !.broken = TRUE, !.todo = run[j].todo \ {u}]]
    BY <1>4 DEF IngestFails
  <2> DEFINE x == [run[j] EXCEPT !.step = "ingest", !.broken = TRUE, !.todo = run[j].todo \ {u}]
  <2>1. /\ x \in RunType /\ x.node = run[j].node /\ x.state = run[j].state
        /\ x.step \in {"ingest", "extract"}
    BY <1>0 DEF RunType, Steps
  <2>2. run' = [run EXCEPT ![j] = x]
    BY <2>0 DEF PrepInv, TypeOK
  <2>3. Grows /\ UNCHANGED <<ckpt, client>> /\ faults' \in Nat
    BY <1>4, NothingLost, Counters DEF IngestFails
  <2> HIDE DEF x
  <2> QED BY <1>1, <2>1, <2>2, <2>3
<1> QED BY <1>2, <1>3, <1>4

LEMMA FoldStep == ASSUME PrepInv, NEW j \in Jobs, Fold(j) \/ StoreFold(j) PROVE PrepInv'
<1>n. "prepare_mapping_suggestion" \in Nodes \ AfterMapping
  BY DEF Nodes, AfterMapping
<1>0. /\ ~At(j, "idle") /\ run[j] \in RunType /\ run[j].state \in GraphState
      /\ run[j].node = "github_ingest_and_fold"
  BY Standing DEF Fold, StoreFold, AtNode, At, StepOK
<1>1. CASE Fold(j)
  <2> DEFINE draft == (profile.holds \ Repos) \cup Ingested
             x == [run[j] EXCEPT !.step = "fold", !.draft = draft, !.lacks = profile.lacks]
  <2>1. draft \in SUBSET Sources /\ profile.lacks \in SUBSET Docs
    BY DEF PrepInv, TypeOK, Sources, Ingested
  <2> HIDE DEF draft
  <2>2. x \in RunType /\ x.node = run[j].node /\ x.state = run[j].state /\ x.step = "fold"
    BY <1>0, <2>1 DEF RunType, Steps
  <2>3. run' = [run EXCEPT ![j] = x]
    BY <1>1 DEF Fold, Draft, PrepInv, TypeOK, draft
  <2>4. Grows /\ UNCHANGED <<ckpt, client>> /\ faults' \in Nat
    BY <1>1, NothingLost, Counters DEF Fold
  <2> HIDE DEF x
  <2> QED BY <1>0, <2>2, <2>3, <2>4, NodeWorks
<1>2. CASE StoreFold(j)
  <2> DEFINE state == [run[j].state EXCEPT !.picked = NoPick]
  <2>1. state \in GraphState
    BY <1>0 DEF GraphState
  <2>2. Grows /\ profile'.exists
    BY <1>0, <1>2, ProfileWritten DEF StoreFold, RunType
  <2>3. FinishNode(j, "prepare_mapping_suggestion", state)
    BY <1>2 DEF StoreFold
  <2>4. UNCHANGED <<heard, refused>> /\ outcome' = outcome /\ faults' = faults
    BY <1>2 DEF StoreFold, client
  <2> HIDE DEF state
  <2> QED BY <1>n, <1>0, <2>1, <2>2, <2>3, <2>4, Counters, NodeHandsOn DEF AfterMapping
<1> QED BY <1>1, <1>2

\* The rows of a document are added, nothing else.
LEMMA MappingStored ==
  ASSUME PrepInv, NEW d \in Docs, mapped' = mapped \cup {d},
         UNCHANGED <<repo, profile, job, company>>
  PROVE  Grows
  BY DEF PrepInv, TypeOK, Grows, DbTypeOK

LEMMA PrepareMappingStep == ASSUME PrepInv, NEW j \in Jobs, PrepareMapping(j) PROVE PrepInv'
<1>n. /\ "job_analyzer" \in Nodes \cap AfterMapping
      /\ {"apply_or_skip_mapping", "await_mapping_confirm"} \subseteq Nodes \ AfterMapping
      /\ "prepare_mapping_suggestion" \in AfterProfile
  BY DEF Nodes, AfterProfile, AfterMapping
<1>0. /\ ~At(j, "idle") /\ run[j].state \in GraphState
      /\ run[j].node = "prepare_mapping_suggestion"
  BY Standing DEF PrepareMapping, AtNode, At
<1>1. profile'.exists /\ Grows
  BY <1>n, <1>0, Standing, NothingLost DEF ReachedOK, PrepareMapping, db
<1>2. UNCHANGED <<heard, refused>> /\ outcome' = outcome /\ faults' = faults /\ mapped' = mapped
  BY DEF PrepareMapping, client, db
<1>3. CASE /\ Unmapped(run[j].state.skipped) = {}
           /\ FinishNode(j, "job_analyzer", [run[j].state EXCEPT !.pending = NoDoc])
  <2> DEFINE state == [run[j].state EXCEPT !.pending = NoDoc]
  <2>1. state \in GraphState /\ (Docs \ mapped') \ state.skipped = {}
    BY <1>0, <1>2, <1>3 DEF GraphState, Unmapped
  <2>2. FinishNode(j, "job_analyzer", state)
    BY <1>3
  <2> HIDE DEF state
  <2> QED BY <1>n, <1>0, <1>1, <1>2, <2>1, <2>2, Counters, NodeHandsOn
<1>4. CASE \E d \in Unmapped(run[j].state.skipped), failed \in BOOLEAN,
              next \in {"apply_or_skip_mapping", "await_mapping_confirm"} :
             FinishNode(j, next, [run[j].state EXCEPT !.pending = d, !.failed = failed])
  <2> PICK d \in Unmapped(run[j].state.skipped), failed \in BOOLEAN,
           next \in {"apply_or_skip_mapping", "await_mapping_confirm"} :
             FinishNode(j, next, [run[j].state EXCEPT !.pending = d, !.failed = failed])
    BY <1>4
  <2> DEFINE state == [run[j].state EXCEPT !.pending = d, !.failed = failed]
  <2>1. state \in GraphState /\ state.pending \in Docs
    BY <1>0 DEF GraphState, Unmapped
  <2>2. FinishNode(j, next, state)
    OBVIOUS
  <2> HIDE DEF state
  <2> QED BY <1>n, <1>0, <1>1, <1>2, <2>1, <2>2, Counters, NodeHandsOn DEF AfterMapping
<1> QED BY <1>3, <1>4 DEF PrepareMapping

LEMMA SkipMappingStep == ASSUME PrepInv, NEW j \in Jobs, SkipMapping(j) PROVE PrepInv'
<1>n. /\ "prepare_mapping_suggestion" \in Nodes \ AfterMapping
      /\ "apply_or_skip_mapping" \in AfterProfile
  BY DEF Nodes, AfterProfile, AfterMapping
<1>0. ~At(j, "idle") /\ run[j].state \in GraphState /\ run[j].node = "apply_or_skip_mapping"
  BY Standing DEF SkipMapping, AtNode, At
<1>1. profile'.exists /\ Grows /\ run[j].state.pending \in Docs
  BY <1>n, <1>0, Standing, NothingLost DEF ReachedOK, SkipMapping, db
<1>2. UNCHANGED <<heard, refused>> /\ outcome' = outcome /\ faults' = faults
  BY DEF SkipMapping, client
<1>3. Skip(run[j].state) \in GraphState
  BY <1>0, <1>1 DEF Skip, Decided, GraphState
<1>4. FinishNode(j, "prepare_mapping_suggestion", Skip(run[j].state))
  BY DEF SkipMapping
<1> QED BY <1>n, <1>0, <1>1, <1>2, <1>3, <1>4, Counters, NodeHandsOn DEF AfterMapping

LEMMA ApplyMappingStep ==
  ASSUME PrepInv, NEW j \in Jobs, ApplyMapping(j) \/ StoreMapping(j) \/ StoreApplied(j)
  PROVE  PrepInv'
<1>n. /\ "prepare_mapping_suggestion" \in Nodes \ AfterMapping
      /\ "apply_or_skip_mapping" \in AfterProfile
  BY DEF Nodes, AfterProfile, AfterMapping
<1>0. /\ ~At(j, "idle") /\ run[j] \in RunType /\ run[j].state \in GraphState
      /\ run[j].node = "apply_or_skip_mapping"
  BY Standing DEF ApplyMapping, StoreMapping, StoreApplied, AtNode, At, StepOK
<1>d. run[j].state.pending \in Docs
  BY <1>n, <1>0, Standing DEF ReachedOK
<1>1. CASE ApplyMapping(j)
  <2> DEFINE x == [run[j] EXCEPT !.step = "apply", !.draft = profile.holds \cup {run[j].state.pending},
                                 !.lacks = profile.lacks \ {run[j].state.pending}]
  <2>1. /\ profile.holds \cup {run[j].state.pending} \in SUBSET Sources
        /\ profile.lacks \ {run[j].state.pending} \in SUBSET Docs
    BY <1>d DEF PrepInv, TypeOK, Sources
  <2>2. x \in RunType /\ x.node = run[j].node /\ x.state = run[j].state /\ x.step = "apply"
    BY <1>0, <2>1 DEF RunType, Steps
  <2>3. run' = [run EXCEPT ![j] = x]
    BY <1>1 DEF ApplyMapping, Draft, PrepInv, TypeOK
  <2>4. Grows /\ UNCHANGED <<ckpt, client>> /\ faults' \in Nat
    BY <1>1, NothingLost, Counters DEF ApplyMapping
  <2> HIDE DEF x
  <2> QED BY <1>0, <2>2, <2>3, <2>4, NodeWorks
<1>2. CASE StoreMapping(j)
  <2> DEFINE x == [run[j] EXCEPT !.step = "applied"]
  <2>1. x \in RunType /\ x.node = run[j].node /\ x.state = run[j].state /\ x.step = "applied"
    BY <1>0 DEF RunType, Steps
  <2>2. run' = [run EXCEPT ![j] = x]
    BY <1>2 DEF StoreMapping, Goto, PrepInv, TypeOK
  <2>3. Grows /\ UNCHANGED <<ckpt, client>> /\ faults' \in Nat
    BY <1>2, <1>d, MappingStored, Counters DEF StoreMapping
  <2> HIDE DEF x
  <2> QED BY <1>0, <2>1, <2>2, <2>3, NodeWorks
<1>3. CASE StoreApplied(j)
  <2>1. Grows /\ profile'.exists
    BY <1>0, <1>3, ProfileWritten DEF StoreApplied, RunType
  <2>2. Forget(run[j].state) \in GraphState
    BY <1>0 DEF Forget, Decided, GraphState
  <2>3. FinishNode(j, "prepare_mapping_suggestion", Forget(run[j].state))
    BY <1>3 DEF StoreApplied
  <2>4. UNCHANGED <<heard, refused>> /\ outcome' = outcome /\ faults' = faults
    BY <1>3 DEF StoreApplied, client
  <2> QED BY <1>n, <1>0, <2>1, <2>2, <2>3, <2>4, Counters, NodeHandsOn DEF AfterMapping
<1> QED BY <1>1, <1>2, <1>3

\* Analyzed once, and the loop is over when it happens.
LEMMA AnalyzeStep == ASSUME PrepInv, NEW j \in Jobs, AnalyzeJob(j) PROVE PrepInv'
<1>n. "company_researcher" \in Nodes /\ "job_analyzer" \in AfterProfile \cap AfterMapping
  BY DEF Nodes, AfterProfile, AfterMapping
<1>0. ~At(j, "idle") /\ run[j].state \in GraphState /\ run[j].node = "job_analyzer"
  BY Standing DEF AnalyzeJob, AtNode, At
<1>j. job \in [Jobs -> {"raw", "named", "nameless"}]
  BY DEF PrepInv, TypeOK
<1>a. PICK a \in {"named", "nameless"} : job' = [job EXCEPT ![j] = a]
  <2>1. CASE job[j] = "raw"
    BY <2>1 DEF AnalyzeJob
  <2>2. CASE job[j] # "raw"
    <3>1. job' = [job EXCEPT ![j] = job[j]]
      BY <2>2, <1>j DEF AnalyzeJob
    <3> QED BY <3>1, <2>2, <1>j
  <2> QED BY <2>1, <2>2
<1>1. job' \in [Jobs -> {"raw", "named", "nameless"}] /\ job'[j] # "raw"
  BY <1>a, <1>j
<1>2. \A i \in Jobs : job[i] # "raw" => job'[i] # "raw"
  BY <1>a, <1>j
<1>3. Grows
  BY <1>1, <1>2 DEF AnalyzeJob, PrepInv, TypeOK, Grows, DbTypeOK
<1>4. profile'.exists /\ (Docs \ mapped') \ run[j].state.skipped = {}
  BY <1>n, <1>0, <1>3, Standing, ReachedStays
<1>5. FinishNode(j, "company_researcher", run[j].state)
  BY DEF AnalyzeJob
<1>6. UNCHANGED <<heard, refused>> /\ outcome' = outcome /\ faults' = faults
  BY DEF AnalyzeJob, client
<1> QED BY <1>n, <1>0, <1>1, <1>3, <1>4, <1>5, <1>6, Counters, NodeHandsOn

\* Whatever it reports, the node leaves a company row.
LEMMA CompanyStep ==
  ASSUME PrepInv, NEW j \in Jobs, CompanyCached(j) \/ Research(j)
  PROVE  PrepInv'
<1>n. /\ "end" \in Nodes
      /\ "company_researcher" \in AfterProfile \cap AfterMapping
  BY DEF Nodes, AfterProfile, AfterMapping
<1>0. ~At(j, "idle") /\ run[j].state \in GraphState /\ run[j].node = "company_researcher"
  BY Standing DEF CompanyCached, Research, AtNode, At
<1>c. company \in [Jobs -> {"none", "researched", "NoSearchHits", "CompanyNameMissing"}]
  BY DEF PrepInv, TypeOK
<1>1. PICK result \in {"skipped", "ok", "degraded"},
           row \in {"researched", "NoSearchHits", "CompanyNameMissing"} : Report(j, result, row)
  <2>1. CASE CompanyCached(j)
    BY <2>1 DEF CompanyCached, CompanyHit
  <2>2. CASE Research(j)
    <3>1. CASE job[j] = "nameless"
      BY <2>2, <3>1 DEF Research
    <3>2. CASE job[j] = "named" /\ ~run[j].state.force /\ company[j] # "none"
      <4>1. Report(j, "ok", company[j])
        BY <2>2, <3>2 DEF Research
      <4> QED BY <4>1, <3>2, <1>c
    <3>3. CASE job[j] # "nameless" /\ ~(job[j] = "named" /\ ~run[j].state.force /\ company[j] # "none")
      BY <2>2, <3>3 DEF Research
    <3> QED BY <3>1, <3>2, <3>3
  <2> QED BY <2>1, <2>2
<1>2. Grows /\ company'[j] # "none"
  BY <1>1 DEF Report, PrepInv, TypeOK, Grows, DbTypeOK
<1>3. /\ profile'.exists /\ (Docs \ mapped') \ run[j].state.skipped = {} /\ job'[j] # "raw"
  BY <1>n, <1>0, <1>2, Standing, ReachedStays
<1>4. FinishNode(j, "end", run[j].state) /\ UNCHANGED <<heard, refused>> /\ faults' = faults
  BY <1>1 DEF Report
<1>5. outcome' \in [Jobs -> {"none", "skipped", "ok", "degraded"}]
  BY <1>1, Counters DEF Report
<1> QED BY <1>n, <1>0, <1>2, <1>3, <1>4, <1>5, Counters, NodeHandsOn

-----------------------------------------------------------------------------
(* The theorems. *)

LEMMA InitOK == Init => PrepInv
<1> SUFFICES ASSUME Init PROVE PrepInv
  OBVIOUS
<1>1. TypeOK
  BY FreshType, IdleType DEF Init, TypeOK, NoThread, NoProfile, Nodes, RunType
<1>2. PromptIsOpen
  BY DEF Init, PromptIsOpen
<1>3. ASSUME NEW j \in Jobs PROVE ReachedOK(j, ckpt[j].node, ckpt[j].state)
  BY DEF Init, NoThread, ReachedOK, AfterProfile, AfterMapping
<1>4. ASSUME NEW j \in Jobs PROVE At(j, "idle") /\ StepOK(j) /\ heard[j] = "nothing"
  BY IdleType DEF Init, At, StepOK
<1> QED BY <1>1, <1>2, <1>3, <1>4 DEF PrepInv

LEMMA NextStep == PrepInv /\ [Next]_vars => PrepInv'
<1> SUFFICES ASSUME PrepInv, [Next]_vars PROVE PrepInv'
  OBVIOUS
<1>1. CASE UNCHANGED vars
  BY <1>1 DEF vars, db, client, PrepInv, TypeOK, PromptIsOpen, ReachedOK, StepOK, At, Unmapped
<1>2. CASE Next
  <2> PICK j \in Jobs :
        \/ \E force \in BOOLEAN : Prepare(j, force)
        \/ Refuse(j)
        \/ Answer(j)
        \/ Serve(j)
        \/ IngestFails(j)
        \/ ModelFails(j)
        \/ CutOff(j)
    BY <1>2 DEF Next
  <2>1. CASE \E force \in BOOLEAN : Prepare(j, force)
    BY <2>1, PrepareStep
  <2>2. CASE Refuse(j)
    BY <2>2, RefuseStep
  <2>3. CASE Answer(j)
    BY <2>3, AnswerStep
  <2>4. CASE AwaitRepoSelection(j) \/ AwaitMappingConfirm(j) \/ EndRun(j) \/ ModelFails(j) \/ CutOff(j)
    BY <2>4, StreamStep
  <2>5. CASE ProfileCached(j) \/ BuildProfile(j) \/ StoreBuilt(j)
    BY <2>5, ProfileBuilderStep
  <2>6. CASE Discover(j) \/ Reopen(j)
    BY <2>6, DiscoverStep
  <2>7. CASE Select(j)
    BY <2>7, SelectStep
  <2>8. CASE (\E u \in Repos : UpsertRepo(j, u)) \/ StoreExtract(j) \/ IngestFails(j)
    BY <2>8, IngestStep
  <2>9. CASE Fold(j) \/ StoreFold(j)
    BY <2>9, FoldStep
  <2>10. CASE PrepareMapping(j)
    BY <2>10, PrepareMappingStep
  <2>11. CASE SkipMapping(j)
    BY <2>11, SkipMappingStep
  <2>12. CASE ApplyMapping(j) \/ StoreMapping(j) \/ StoreApplied(j)
    BY <2>12, ApplyMappingStep
  <2>13. CASE AnalyzeJob(j)
    BY <2>13, AnalyzeStep
  <2>14. CASE CompanyCached(j) \/ Research(j)
    BY <2>14, CompanyStep
  <2> QED
    BY <2>1, <2>2, <2>3, <2>4, <2>5, <2>6, <2>7, <2>8, <2>9, <2>10, <2>11, <2>12, <2>13, <2>14
    DEF Serve
<1> QED BY <1>1, <1>2

\* However many jobs are prepared at once and whatever fails: what a checkpoint
\* stands for has been reached, and a prompt is shown over a checkpoint that
\* can take its answer.
THEOREM PrepInvariant == Spec => []PrepInv
<1>1. Init => PrepInv
  BY InitOK
<1>2. PrepInv /\ [Next]_vars => PrepInv'
  BY NextStep
<1> QED BY <1>1, <1>2, PTL DEF Spec

LEMMA DoneFollows == PrepInv => DoneMeansReady
<1> SUFFICES ASSUME PrepInv, NEW j \in Jobs, heard[j] = "done"
             PROVE /\ profile.exists
                   /\ job[j] # "raw"
                   /\ company[j] # "none"
                   /\ Docs \subseteq mapped \cup ckpt[j].state.skipped
  BY DEF DoneMeansReady
<1>1. ckpt[j].node = "end" /\ ReachedOK(j, "end", ckpt[j].state)
  BY DEF PrepInv
<1>2. "end" \in AfterProfile \cap AfterMapping
  BY DEF AfterProfile, AfterMapping, Nodes
<1> QED BY <1>1, <1>2 DEF ReachedOK, Unmapped

\* The ready frame of a stream never promises more than prep has done, even
\* when another job's stream folds, selects and maps at the same time.
THEOREM DoneIsReady == Spec => []DoneMeansReady
<1>1. PrepInv => DoneMeansReady
  BY DoneFollows
<1> QED BY <1>1, PrepInvariant, PTL

-----------------------------------------------------------------------------
(* One job at a time, with any documents, any repositories, any cap and    *)
(* any faults.  The hypothesis is needed: two jobs share the profile and   *)
(* the repositories, and what one stream has read the other may rewrite    *)
(* before it is stored.                                                    *)

\* Only one job there is: what holds for it holds for all.
LEMMA OnlyJob ==
  ASSUME SingleJob, NEW j \in Jobs, KeyOK', DraftOK(j)', HoldsOK(j)', SelectionOK(j)'
  PROVE  SoloInv'
<1>1. ASSUME NEW i \in Jobs PROVE (DraftOK(i) /\ HoldsOK(i) /\ SelectionOK(i))'
  <2>1. i = j
    BY DEF SingleJob
  <2> QED BY <2>1
<1> QED BY <1>1 DEF SoloInv

LEMMA Sorts ==
  /\ Docs \cap Repos = {}
  /\ AfterFold \subseteq AfterProfile
  /\ "profile_builder" \notin AfterProfile
  /\ {"github_discover", "await_repo_selection", "github_ingest_and_fold"}
       \subseteq AfterProfile \ AfterFold
  /\ {"prepare_mapping_suggestion", "await_mapping_confirm", "apply_or_skip_mapping",
      "job_analyzer", "company_researcher", "end"} \subseteq AfterFold
  BY PrepAssumption DEF AfterFold, AfterProfile, AfterMapping, Nodes

-----------------------------------------------------------------------------
(* The shapes of a step, each with what its action has to provide. *)

\* A node hands on: nothing is drafted, the profile must fit the next node.
LEMMA SoloHandsOn ==
  ASSUME PrepInv, SingleJob, NEW j \in Jobs, NEW next, NEW state,
         FinishNode(j, next, state),
         KeyOK',
         next \in AfterProfile => profile'.holds \ Repos = Applied',
         next = "github_discover" => profile'.holds \cap Repos \subseteq RepoRows',
         next \in AfterFold => profile'.holds = Applied' \cup Ingested'
  PROVE  SoloInv'
<1>1. run'[j].step = "start" /\ ckpt'[j].node = next
  BY DEF PrepInv, TypeOK, FinishNode, Idle
<1>2. DraftOK(j)'
  BY <1>1 DEF DraftOK, At
<1>3. HoldsOK(j)'
  BY <1>1 DEF HoldsOK
<1>4. SelectionOK(j)'
  BY <1>1 DEF SelectionOK, At
<1> QED BY <1>2, <1>3, <1>4, OnlyJob

\* What an unfinished node may rely on.
LEMMA SoloStanding ==
  ASSUME PrepInv, SoloInv, NEW j \in Jobs, ~At(j, "idle")
  PROVE  /\ run[j].node = ckpt[j].node
         /\ ~At(j, "applied") =>
              /\ run[j].node \in AfterProfile => profile.holds \ Repos = Applied
              /\ run[j].node = "github_discover" => profile.holds \cap Repos \subseteq RepoRows
              /\ run[j].node \in AfterFold => profile.holds = Applied \cup Ingested
  BY Known DEF SoloInv, HoldsOK, UnderWay

\* The node goes on over the same documents and profile, and the repositories
\* may change as long as nothing is folded.
LEMMA SoloWorks ==
  ASSUME PrepInv, SoloInv, SingleJob, NEW j \in Jobs,
         ~At(j, "idle"), ~At(j, "applied"),
         UNCHANGED <<mapped, profile, ckpt, heard>>,
         repo' = repo \/ run[j].node = "github_ingest_and_fold",
         DraftOK(j)', SelectionOK(j)'
  PROVE  SoloInv'
<1>1. KeyOK'
  BY DEF SoloInv, KeyOK
<1>2. /\ ckpt'[j].node = run[j].node /\ profile' = profile /\ mapped' = mapped
      /\ Applied' = Applied
  BY SoloStanding DEF Applied
<1>3. run[j].node = "github_discover" => profile'.holds \cap Repos \subseteq RepoRows'
  BY SoloStanding DEF RepoRows
<1>4. run[j].node \in AfterFold => profile'.holds = Applied' \cup Ingested'
  <2>1. "github_ingest_and_fold" \notin AfterFold
    BY Sorts
  <2> QED BY <1>2, <2>1, SoloStanding DEF Ingested
<1>5. run[j].node \in AfterProfile => profile'.holds \ Repos = Applied'
  BY <1>2, SoloStanding
<1>6. HoldsOK(j)'
  BY <1>2, <1>3, <1>4, <1>5 DEF HoldsOK
<1> QED BY <1>1, <1>6, OnlyJob

\* The stream ends; the rows and the node of the checkpoint stay.
LEMMA SoloEnds ==
  ASSUME PrepInv, SoloInv, SingleJob, NEW j \in Jobs, NEW frame,
         UNCHANGED db, EndStream(j, frame), ckpt'[j].node = ckpt[j].node,
         frame = "error" \/ AtNode(j, run[j].node)
  PROVE  SoloInv'
<1>1. run'[j] = Idle /\ heard'[j] = frame /\ profile' = profile /\ mapped' = mapped /\ repo' = repo
  BY DEF PrepInv, TypeOK, EndStream, db
<1>2. KeyOK'
  BY <1>1 DEF SoloInv, KeyOK
<1>3. DraftOK(j)' /\ SelectionOK(j)'
  BY <1>1, IdleType DEF DraftOK, SelectionOK, At
<1>4. HoldsOK(j)'
  <2>1. CASE frame = "error"
    BY <2>1, <1>1, IdleType DEF HoldsOK, UnderWay, At
  <2>2. CASE AtNode(j, run[j].node)
    <3>1. ~At(j, "idle") /\ ~At(j, "applied")
      BY <2>2 DEF AtNode, At
    <3>2. /\ ckpt[j].node \in AfterProfile => profile.holds \ Repos = Applied
          /\ ckpt[j].node = "github_discover" => profile.holds \cap Repos \subseteq RepoRows
          /\ ckpt[j].node \in AfterFold => profile.holds = Applied \cup Ingested
      BY <3>1, SoloStanding
    <3>3. RepoRows' = RepoRows /\ Ingested' = Ingested /\ Applied' = Applied
      BY <1>1 DEF RepoRows, Ingested, Applied
    <3> QED BY <1>1, <3>2, <3>3 DEF HoldsOK
  <2> QED BY <2>1, <2>2
<1> QED BY <1>2, <1>3, <1>4, OnlyJob

LEMMA SameRows ==
  ASSUME UNCHANGED db
  PROVE  /\ RepoRows' = RepoRows /\ Ingested' = Ingested /\ CurrentIds' = CurrentIds
         /\ mapped' = mapped /\ profile' = profile /\ repo' = repo
         /\ Applied' = Applied
         /\ KeyOK => KeyOK'
  BY DEF db, RepoRows, Ingested, CurrentIds, KeyOK, Applied

\* A profile written over its own rows, with the mappings and the repositories
\* the rows speak of, is bounded by its key.
LEMMA KeyWritten ==
  ASSUME TypeOK, NEW j \in Jobs, WriteProfile(j), UNCHANGED <<mapped, repo>>,
         \/ run[j].draft = mapped \ run[j].lacks
         \/ run[j].draft = (mapped \ run[j].lacks) \cup Ingested
  PROVE  /\ KeyOK' /\ profile'.holds = run[j].draft
         /\ RepoRows' = RepoRows /\ Ingested' = Ingested
         /\ profile'.holds \ Repos = Applied' /\ profile'.holds \cap Repos \subseteq RepoRows
<1>1. /\ profile'.holds = run[j].draft /\ profile'.key = RepoRows \cup mapped
      /\ profile'.lacks = run[j].lacks /\ Applied' = mapped \ run[j].lacks
  BY DEF WriteProfile, CurrentIds, Applied
<1>2. /\ Ingested \subseteq RepoRows /\ RepoRows \subseteq Repos /\ mapped \subseteq Docs
      /\ run[j].lacks \subseteq Docs
  BY DEF Ingested, RepoRows, TypeOK
<1>3. RepoRows' = RepoRows /\ Ingested' = Ingested
  BY DEF RepoRows, Ingested
<1>4. /\ profile'.holds \subseteq profile'.key
      /\ profile'.key \cap Docs \subseteq profile'.holds \cup profile'.lacks
      /\ profile'.holds \cap profile'.lacks = {}
  BY <1>1, <1>2, Sorts
<1> QED BY <1>1, <1>2, <1>3, <1>4, Sorts DEF KeyOK

-----------------------------------------------------------------------------
(* One lemma per handler. *)

LEMMA SoloPrepare ==
  ASSUME PrepInv, SoloInv, SingleJob, NEW j \in Jobs, NEW force \in BOOLEAN, Prepare(j, force)
  PROVE  SoloInv'
<1>1. FinishNode(j, "profile_builder", Fresh(force)) /\ UNCHANGED db
  BY DEF Prepare, Begin
<1>2. KeyOK'
  BY <1>1, SameRows DEF SoloInv
<1> QED BY <1>1, <1>2, Sorts, SoloHandsOn

LEMMA SoloUnchanged ==
  ASSUME SoloInv, UNCHANGED <<db, ckpt, run, heard>>
  PROVE  SoloInv'
  BY DEF SoloInv, db, KeyOK, DraftOK, HoldsOK, SelectionOK, UnderWay, At, RepoRows, Ingested,
     Applied

\* Both answers find the profile as the prompt left it.
LEMMA SoloResume ==
  ASSUME PrepInv, SoloInv, SingleJob, NEW j \in Jobs, Answer(j)
  PROVE  SoloInv'
<1>0. PICK state :
        \E prompt \in {"awaiting_repos", "awaiting_mapping"},
           next \in {"github_ingest_and_fold", "apply_or_skip_mapping"} :
          /\ Resume(j, prompt, next, state)
          /\ next = "apply_or_skip_mapping" => prompt = "awaiting_mapping"
  BY DEF Answer, ResumeRepos, ResumeMapping
<1>1. PICK prompt \in {"awaiting_repos", "awaiting_mapping"},
           next \in {"github_ingest_and_fold", "apply_or_skip_mapping"} :
        /\ Resume(j, prompt, next, state)
        /\ next = "apply_or_skip_mapping" => prompt = "awaiting_mapping"
  BY <1>0
<1>2. /\ FinishNode(j, next, state) /\ UNCHANGED db
      /\ At(j, "idle") /\ heard[j] = prompt
  BY <1>1 DEF Resume
<1>3. /\ ckpt[j].node \in {"await_repo_selection", "await_mapping_confirm"}
      /\ prompt = "awaiting_mapping" => ckpt[j].node = "await_mapping_confirm"
  BY <1>1, <1>2 DEF PrepInv, PromptIsOpen
<1>4. UnderWay(j) /\ ~At(j, "applied")
  BY <1>1, <1>2 DEF UnderWay, At
<1>5. /\ profile.holds \ Repos = Applied
      /\ ckpt[j].node = "await_mapping_confirm" => profile.holds = Applied \cup Ingested
  BY <1>3, <1>4, Sorts DEF SoloInv, HoldsOK
<1>6. KeyOK' /\ Applied' = Applied /\ profile' = profile /\ Ingested' = Ingested
  BY <1>2, SameRows DEF SoloInv
<1>7. next # "github_discover" /\ (next \in AfterFold => next = "apply_or_skip_mapping")
  BY Sorts
<1> QED BY <1>1, <1>2, <1>3, <1>5, <1>6, <1>7, SoloHandsOn

LEMMA SoloStream ==
  ASSUME PrepInv, SoloInv, SingleJob, NEW j \in Jobs,
         AwaitRepoSelection(j) \/ AwaitMappingConfirm(j) \/ EndRun(j) \/ ModelFails(j) \/ CutOff(j)
  PROVE  SoloInv'
<1>1. ASSUME NEW node, NEW frame, Pause(j, node, frame) PROVE SoloInv'
  <2>1. UNCHANGED db /\ EndStream(j, frame) /\ AtNode(j, run[j].node)
    BY <1>1 DEF Pause, AtNode
  <2>2. ckpt'[j].node = ckpt[j].node
    BY <1>1 DEF Pause, PrepInv, TypeOK
  <2> QED BY <2>1, <2>2, SoloEnds
<1>2. CASE EndRun(j)
  <2>1. UNCHANGED db /\ EndStream(j, "done") /\ AtNode(j, run[j].node) /\ ckpt' = ckpt
    BY <1>2 DEF EndRun, AtNode
  <2> QED BY <2>1, SoloEnds
<1>3. CASE ModelFails(j) \/ CutOff(j)
  <2>1. UNCHANGED db /\ EndStream(j, "error") /\ ckpt' = ckpt
    BY <1>3 DEF ModelFails, CutOff
  <2> QED BY <2>1, SoloEnds
<1> QED BY <1>1, <1>2, <1>3 DEF AwaitRepoSelection, AwaitMappingConfirm

\* A cached profile is what a rebuild would give, but for the repositories,
\* which the fold replaces.
LEMMA SoloProfile ==
  ASSUME PrepInv, SoloInv, SingleJob, NEW j \in Jobs,
         ProfileCached(j) \/ BuildProfile(j) \/ StoreBuilt(j)
  PROVE  SoloInv'
<1>n. "github_discover" \notin AfterFold
  BY Sorts
<1>t. TypeOK
  BY DEF PrepInv
<1>1. CASE ProfileCached(j)
  <2>1. FinishNode(j, "github_discover", run[j].state) /\ UNCHANGED db
    BY <1>1 DEF ProfileCached
  <2>2. /\ profile.key = RepoRows \cup mapped
        /\ mapped \subseteq Docs /\ RepoRows \subseteq Repos
        /\ profile.holds \subseteq profile.key
        /\ profile.key \cap Docs \subseteq profile.holds \cup profile.lacks
        /\ profile.holds \cap profile.lacks = {} /\ profile.lacks \subseteq Docs
    BY <1>1, <1>t DEF ProfileCached, ProfileHit, CurrentIds, SoloInv, KeyOK, TypeOK, RepoRows
  <2>3. profile.holds \ Repos = Applied /\ profile.holds \cap Repos \subseteq RepoRows
    BY <2>2, Sorts DEF Applied
  <2>4. KeyOK' /\ Applied' = Applied /\ profile' = profile /\ RepoRows' = RepoRows
    BY <2>1, SameRows DEF SoloInv
  <2> QED BY <1>n, <2>1, <2>3, <2>4, SoloHandsOn
<1>2. CASE BuildProfile(j)
  <2>1. UNCHANGED <<mapped, profile, ckpt, heard>> /\ repo' = repo
    BY <1>2 DEF BuildProfile, db, client
  <2>2. ~At(j, "idle") /\ ~At(j, "applied")
    BY <1>2 DEF BuildProfile, AtNode, At
  <2>3. run'[j].step = "build" /\ run'[j].draft = mapped \ run'[j].lacks
    <3>1. PICK misfits \in SUBSET mapped : Draft(j, "build", mapped \ misfits, misfits)
      BY <1>2 DEF BuildProfile
    <3>2. /\ run'[j].step = "build" /\ run'[j].draft = mapped \ misfits
          /\ run'[j].lacks = misfits
      BY <3>1, <1>t DEF Draft, TypeOK
    <3> QED BY <3>2
  <2>4. DraftOK(j)'
    BY <2>1, <2>3 DEF DraftOK, At
  <2>5. SelectionOK(j)'
    BY <2>3 DEF SelectionOK, At
  <2> QED BY <2>1, <2>2, <2>4, <2>5, SoloWorks
<1>3. CASE StoreBuilt(j)
  <2>1. /\ WriteProfile(j) /\ FinishNode(j, "github_discover", run[j].state)
        /\ UNCHANGED <<mapped, repo>>
    BY <1>3 DEF StoreBuilt
  <2>2. run[j].draft = mapped \ run[j].lacks
    BY <1>3 DEF StoreBuilt, SoloInv, DraftOK
  <2>3. /\ KeyOK' /\ RepoRows' = RepoRows
        /\ profile'.holds \ Repos = Applied' /\ profile'.holds \cap Repos \subseteq RepoRows
    BY <1>t, <2>1, <2>2, KeyWritten
  <2> QED BY <1>n, <2>1, <2>3, SoloHandsOn
<1> QED BY <1>1, <1>2, <1>3

\* Without repositories there is nothing to fold: the profile is whole already.
LEMMA SoloDiscover ==
  ASSUME PrepInv, SoloInv, SingleJob, NEW j \in Jobs, Discover(j) \/ Reopen(j)
  PROVE  SoloInv'
<1>0. /\ ~At(j, "idle") /\ ~At(j, "applied")
      /\ run[j].node \in {"github_discover", "github_ingest_and_fold"}
      /\ UNCHANGED db
  BY Standing DEF Discover, Reopen, AtNode, At, StepOK
<1>1. KeyOK' /\ Applied' = Applied /\ profile' = profile /\ Ingested' = Ingested
  BY <1>0, SameRows DEF SoloInv
<1>2. profile.holds \ Repos = Applied
  BY <1>0, SoloStanding, Sorts
<1>3. ASSUME NEW next \in {"github_ingest_and_fold", "await_repo_selection"}, NEW state,
             FinishNode(j, next, state)
      PROVE SoloInv'
  <2>1. next \notin AfterFold /\ next # "github_discover"
    BY <1>3, Sorts
  <2> QED BY <1>1, <1>2, <1>3, <2>1, SoloHandsOn
<1>4. CASE /\ AtNode(j, "github_discover") /\ RepoRows = {}
           /\ FinishNode(j, "prepare_mapping_suggestion", run[j].state)
  <2>1. profile.holds \cap Repos \subseteq RepoRows
    BY <1>0, <1>4, SoloStanding DEF AtNode
  <2>2. Ingested \subseteq RepoRows
    BY DEF Ingested, RepoRows
  <2>3. profile.holds = Applied \cup Ingested
    BY <1>2, <1>4, <2>1, <2>2
  <2> QED BY <1>1, <1>2, <1>4, <2>3, SoloHandsOn
<1> QED BY <1>3, <1>4 DEF Discover, Reopen

\* The rows that a selection within the cap leaves half-ingested are up next.
LEMMA SoloSelect ==
  ASSUME PrepInv, SoloInv, SingleJob, NEW j \in Jobs, Select(j)
  PROVE  SoloInv'
<1>0. /\ ~At(j, "idle") /\ ~At(j, "applied") /\ run[j] \in RunType
      /\ run[j].node = "github_ingest_and_fold"
  BY Standing DEF Select, AtNode, At
<1>1. UNCHANGED <<mapped, profile, ckpt, heard>>
  BY DEF Select, client
<1>p. PICK picked \in SUBSET Repos : picked = run[j].state.picked
  BY <1>0 DEF Select, RunType, GraphState
<1>2. PICK chosen \in SUBSET picked :
        /\ IF Cardinality(picked) > RepoCap THEN Cardinality(chosen) = RepoCap
                                            ELSE chosen = picked
        /\ run' = [run EXCEPT ![j] = [@ EXCEPT !.step = "ingest", !.todo = chosen \ Ingested]]
  BY <1>p DEF Select
<1>i. PICK ingested : ingested = Ingested
  OBVIOUS
<1>3. /\ run'[j].step = "ingest" /\ run'[j].todo = chosen \ ingested
      /\ run'[j].state.picked = picked
  BY <1>2, <1>i, <1>p, <1>0 DEF PrepInv, TypeOK, RunType
<1>4. DraftOK(j)'
  BY <1>3 DEF DraftOK, At
<1>5. Cardinality(picked) \in Nat /\ RepoCap \in Nat
  BY PrepAssumption, FS_Subset, FS_CardinalityType
<1>6. ASSUME Cardinality(picked) <= RepoCap
      PROVE  RepoRows' \ Ingested' \subseteq run'[j].todo
  <2>1. chosen = picked
    BY <1>2, <1>5, <1>6
  <2>2. repo' = [u \in Repos |-> IF u \in picked THEN repo[u] ELSE "none"]
    BY <1>p DEF Select
  <2>3. SUFFICES ASSUME NEW u \in Repos, repo'[u] # "none", repo'[u] # "full"
                 PROVE  u \in picked \ ingested
    BY <1>3, <2>1 DEF RepoRows, Ingested
  <2> QED BY <1>i, <2>2, <2>3 DEF Ingested
<1>7. SelectionOK(j)'
  BY <1>3, <1>6 DEF SelectionOK, At
<1> QED BY <1>0, <1>1, <1>4, <1>7, SoloWorks

LEMMA SoloIngest ==
  ASSUME PrepInv, SoloInv, SingleJob, NEW j \in Jobs,
         (\E u \in Repos : UpsertRepo(j, u)) \/ StoreExtract(j) \/ IngestFails(j)
  PROVE  SoloInv'
<1>0. /\ ~At(j, "idle") /\ ~At(j, "applied") /\ run[j] \in RunType
      /\ run[j].node = "github_ingest_and_fold"
      /\ run[j].step \in {"ingest", "extract"}
  BY Standing DEF UpsertRepo, StoreExtract, IngestFails, At, StepOK
<1>1. UNCHANGED <<mapped, profile, ckpt, heard>>
  BY DEF UpsertRepo, StoreExtract, IngestFails, db, client
<1>t. run \in [Jobs -> RunType] /\ repo \in [Repos -> {"none", "row", "full"}]
  BY DEF PrepInv, TypeOK, RunType
<1>2. ASSUME run'[j].step \in {"ingest", "extract"}, run'[j].state = run[j].state,
             ~run'[j].broken => ~run[j].broken /\
               (RepoRows \ Ingested \subseteq run[j].todo => RepoRows' \ Ingested' \subseteq run'[j].todo)
      PROVE SoloInv'
  <2>1. DraftOK(j)'
    BY <1>2 DEF DraftOK, At
  <2>2. SelectionOK(j)
    BY DEF SoloInv
  <2>3. SelectionOK(j)'
    BY <2>2, <1>0, <1>2 DEF SelectionOK, At
  <2> QED BY <1>0, <1>1, <2>1, <2>3, SoloWorks
<1>3. ASSUME NEW u \in Repos, UpsertRepo(j, u) PROVE SoloInv'
  <2>1. /\ u \in run[j].todo /\ repo' = [repo EXCEPT ![u] = "row"]
        /\ run'[j].step = "extract" /\ run'[j].state = run[j].state
        /\ run'[j].todo = run[j].todo /\ run'[j].broken = run[j].broken
    BY <1>3, <1>t DEF UpsertRepo, RunType
  <2>2. ASSUME RepoRows \ Ingested \subseteq run[j].todo
        PROVE  RepoRows' \ Ingested' \subseteq run'[j].todo
    <3> SUFFICES ASSUME NEW v \in Repos, repo'[v] # "none", repo'[v] # "full"
                 PROVE  v \in run[j].todo
      BY <2>1 DEF RepoRows, Ingested
    <3>1. v = u \/ repo'[v] = repo[v]
      BY <2>1, <1>t
    <3> QED BY <3>1, <2>1, <2>2 DEF RepoRows, Ingested
  <2> QED BY <2>1, <2>2, <1>2
<1>4. CASE StoreExtract(j)
  <2>1. /\ repo' = [u \in Repos |->
                      IF u \in run[j].draft /\ repo[u] # "none" THEN "full" ELSE repo[u]]
        /\ run'[j].step = "ingest" /\ run'[j].state = run[j].state
        /\ run'[j].todo = run[j].todo \ run[j].draft /\ run'[j].broken = run[j].broken
    BY <1>4, <1>t DEF StoreExtract, RunType
  <2>2. ASSUME RepoRows \ Ingested \subseteq run[j].todo
        PROVE  RepoRows' \ Ingested' \subseteq run'[j].todo
    <3> SUFFICES ASSUME NEW v \in Repos, repo'[v] # "none", repo'[v] # "full"
                 PROVE  v \in run[j].todo /\ v \notin run[j].draft
      BY <2>1 DEF RepoRows, Ingested
    <3>1. repo'[v] = repo[v] /\ v \notin run[j].draft
      BY <2>1
    <3> QED BY <3>1, <2>2 DEF RepoRows, Ingested
  <2> QED BY <2>1, <2>2, <1>2
<1>5. CASE IngestFails(j)
  <2>1. run'[j].step = "ingest" /\ run'[j].state = run[j].state /\ run'[j].broken = TRUE
    BY <1>5, <1>t, ZenonT(60) DEF IngestFails, RunType
  <2> QED BY <2>1, <1>2
<1> QED BY <1>3, <1>4, <1>5

\* With nothing left to do and nothing failed, the fold finds the selection
\* ingested; what it reads is what it stores.
LEMMA SoloFold ==
  ASSUME PrepInv, SoloInv, SingleJob, NEW j \in Jobs, Fold(j) \/ StoreFold(j)
  PROVE  SoloInv'
<1>0. /\ ~At(j, "idle") /\ ~At(j, "applied") /\ run[j] \in RunType
      /\ run[j].node = "github_ingest_and_fold"
  BY Standing DEF Fold, StoreFold, AtNode, At, StepOK
<1>t. TypeOK
  BY DEF PrepInv
<1>1. CASE Fold(j)
  <2>1. UNCHANGED <<mapped, profile, ckpt, heard>> /\ repo' = repo
    BY <1>1 DEF Fold, db, client
  <2>2. profile.holds \ Repos = Applied
    BY <1>0, SoloStanding, Sorts
  <2>3. /\ run'[j].step = "fold" /\ run'[j].draft = (mapped \ run'[j].lacks) \cup Ingested
        /\ run'[j].state = run[j].state
    BY <1>1, <1>t, <2>2 DEF Fold, Draft, TypeOK, Applied
  <2>4. RepoRows' = RepoRows /\ Ingested' = Ingested
    BY <2>1 DEF RepoRows, Ingested
  <2>5. DraftOK(j)'
    BY <2>1, <2>3, <2>4 DEF DraftOK, At
  <2>6. ASSUME run[j].state.picked # NoPick, Cardinality(run[j].state.picked) <= RepoCap
        PROVE  RepoRows = Ingested
    <3>1. run[j].step = "ingest" /\ run[j].todo = {} /\ ~run[j].broken
      BY <1>1, <2>6 DEF Fold, At
    <3>2. RepoRows \ Ingested \subseteq run[j].todo
      BY <3>1, <2>6 DEF SoloInv, SelectionOK
    <3> QED BY <3>1, <3>2 DEF RepoRows, Ingested
  <2>7. SelectionOK(j)'
    BY <2>3, <2>4, <2>6 DEF SelectionOK, At
  <2> QED BY <1>0, <2>1, <2>5, <2>7, SoloWorks
<1>2. CASE StoreFold(j)
  <2>1. /\ WriteProfile(j) /\ UNCHANGED <<mapped, repo>>
        /\ FinishNode(j, "prepare_mapping_suggestion", [run[j].state EXCEPT !.picked = NoPick])
    BY <1>2 DEF StoreFold
  <2>2. run[j].draft = (mapped \ run[j].lacks) \cup Ingested
    BY <1>2 DEF StoreFold, SoloInv, DraftOK, At
  <2>3. /\ KeyOK' /\ profile'.holds = Applied' \cup Ingested'
        /\ profile'.holds \ Repos = Applied'
    BY <1>t, <2>1, <2>2, KeyWritten DEF WriteProfile, Applied
  <2> QED BY <2>1, <2>3, SoloHandsOn
<1> QED BY <1>1, <1>2

\* The loop looks for the next document, or goes on past a skipped one.
LEMMA SoloMapping ==
  ASSUME PrepInv, SoloInv, SingleJob, NEW j \in Jobs, PrepareMapping(j) \/ SkipMapping(j)
  PROVE  SoloInv'
<1>0. /\ ~At(j, "idle") /\ ~At(j, "applied") /\ run[j].node \in AfterFold /\ UNCHANGED db
  BY Sorts DEF PrepareMapping, SkipMapping, AtNode, At
<1>1. KeyOK' /\ Applied' = Applied /\ profile' = profile /\ Ingested' = Ingested
  BY <1>0, SameRows DEF SoloInv
<1>2. profile.holds = Applied \cup Ingested /\ profile.holds \ Repos = Applied
  BY <1>0, SoloStanding, Sorts
<1>3. PICK next \in AfterFold : \E state : FinishNode(j, next, state)
  BY Sorts DEF PrepareMapping, SkipMapping
<1>4. PICK state : FinishNode(j, next, state)
  BY <1>3
<1>5. next # "github_discover"
  BY Sorts
<1> QED BY <1>1, <1>2, <1>4, <1>5, SoloHandsOn

\* The copy read before the mapping rows are committed still fits when it is
\* written after them.
LEMMA SoloApply ==
  ASSUME PrepInv, SoloInv, SingleJob, NEW j \in Jobs,
         ApplyMapping(j) \/ StoreMapping(j) \/ StoreApplied(j)
  PROVE  SoloInv'
<1>0. /\ ~At(j, "idle") /\ run[j] \in RunType /\ run[j].node = "apply_or_skip_mapping"
      /\ run[j].node \in AfterFold
  BY Standing, Sorts DEF ApplyMapping, StoreMapping, StoreApplied, AtNode, At, StepOK
<1>t. TypeOK
  BY DEF PrepInv
<1>1. CASE ApplyMapping(j)
  <2>1. UNCHANGED <<mapped, profile, ckpt, heard>> /\ repo' = repo
    BY <1>1 DEF ApplyMapping, db, client
  <2>2. ~At(j, "applied")
    BY <1>1 DEF ApplyMapping, AtNode, At
  <2>3. profile.holds = Applied \cup Ingested
    BY <1>0, <2>2, SoloStanding
  <2>4. /\ run'[j].step = "apply" /\ run'[j].state = run[j].state
        /\ run'[j].draft = (mapped \ run'[j].lacks) \cup Ingested \cup {run[j].state.pending}
        /\ run[j].state.pending \notin run'[j].lacks
    BY <1>1, <1>t, <2>3 DEF ApplyMapping, Draft, TypeOK, Applied
  <2>5. Ingested' = Ingested
    BY <2>1 DEF Ingested
  <2>6. DraftOK(j)' /\ SelectionOK(j)'
    BY <2>1, <2>4, <2>5 DEF DraftOK, SelectionOK, At
  <2> QED BY <1>0, <2>1, <2>2, <2>6, SoloWorks
<1>2. CASE StoreMapping(j)
  <2>1. /\ mapped' = mapped \cup {run[j].state.pending}
        /\ UNCHANGED <<repo, profile, ckpt, heard>>
    BY <1>2 DEF StoreMapping, client
  <2>2. /\ run'[j].step = "applied" /\ run'[j].draft = run[j].draft
        /\ run'[j].lacks = run[j].lacks
    BY <1>2, <1>t DEF StoreMapping, Goto, TypeOK
  <2>3. /\ run[j].draft = (mapped \ run[j].lacks) \cup Ingested \cup {run[j].state.pending}
        /\ run[j].state.pending \notin run[j].lacks
    BY <1>2 DEF StoreMapping, SoloInv, DraftOK
  <2>4. Ingested' = Ingested
    BY <2>1 DEF Ingested
  <2>5. run'[j].draft = (mapped' \ run'[j].lacks) \cup Ingested'
    BY <2>1, <2>2, <2>3, <2>4
  <2>6. DraftOK(j)' /\ SelectionOK(j)' /\ HoldsOK(j)'
    BY <2>2, <2>5 DEF DraftOK, SelectionOK, HoldsOK, At
  <2>7. KeyOK'
    BY <2>1 DEF SoloInv, KeyOK
  <2> QED BY <2>6, <2>7, OnlyJob
<1>3. CASE StoreApplied(j)
  <2>1. /\ WriteProfile(j) /\ UNCHANGED <<mapped, repo>>
        /\ FinishNode(j, "prepare_mapping_suggestion", Forget(run[j].state))
    BY <1>3 DEF StoreApplied
  <2>2. run[j].draft = (mapped \ run[j].lacks) \cup Ingested
    BY <1>3 DEF StoreApplied, SoloInv, DraftOK, At
  <2>3. /\ KeyOK' /\ profile'.holds = Applied' \cup Ingested'
        /\ profile'.holds \ Repos = Applied'
    BY <1>t, <2>1, <2>2, KeyWritten DEF WriteProfile, Applied
  <2> QED BY <2>1, <2>3, SoloHandsOn
<1> QED BY <1>1, <1>2, <1>3

\* The posting and the company leave the profile alone.
LEMMA SoloRest ==
  ASSUME PrepInv, SoloInv, SingleJob, NEW j \in Jobs,
         AnalyzeJob(j) \/ CompanyCached(j) \/ Research(j)
  PROVE  SoloInv'
<1>0. /\ ~At(j, "idle") /\ ~At(j, "applied") /\ run[j].node \in AfterFold
  BY Sorts DEF AnalyzeJob, CompanyCached, Research, AtNode, At
<1>1. \E next \in {"company_researcher", "end"} :
        FinishNode(j, next, run[j].state) /\ UNCHANGED <<mapped, repo, profile>>
  <2>1. CASE AnalyzeJob(j)
    BY <2>1 DEF AnalyzeJob
  <2>2. CASE CompanyCached(j)
    BY <2>2 DEF CompanyCached, Report
  <2>3. CASE Research(j)
    <3>1. \E result, row : Report(j, result, row)
      BY <2>3 DEF Research
    <3> QED BY <3>1 DEF Report
  <2> QED BY <2>1, <2>2, <2>3
<1>2. PICK next \in {"company_researcher", "end"} :
        FinishNode(j, next, run[j].state) /\ UNCHANGED <<mapped, repo, profile>>
  BY <1>1
<1>3. KeyOK' /\ Ingested' = Ingested /\ Applied' = Applied
  BY <1>2 DEF SoloInv, KeyOK, Ingested, Applied
<1>4. profile.holds = Applied \cup Ingested /\ profile.holds \ Repos = Applied
  BY <1>0, SoloStanding, Sorts
<1> QED BY <1>2, <1>3, <1>4, SoloHandsOn

-----------------------------------------------------------------------------
(* The theorems. *)

LEMMA SoloInit == Init => SoloInv
<1> SUFFICES ASSUME Init PROVE SoloInv
  OBVIOUS
<1>1. KeyOK
  BY DEF Init, NoProfile, KeyOK
<1>2. ASSUME NEW j \in Jobs PROVE At(j, "idle") /\ heard[j] = "nothing"
  BY IdleType DEF Init, At
<1>3. ASSUME NEW j \in Jobs PROVE DraftOK(j) /\ HoldsOK(j) /\ SelectionOK(j)
  BY <1>2 DEF DraftOK, HoldsOK, SelectionOK, UnderWay, At
<1> QED BY <1>1, <1>3 DEF SoloInv

LEMMA SoloNext == PrepInv /\ SoloInv /\ SingleJob /\ [Next]_vars => SoloInv'
<1> SUFFICES ASSUME PrepInv, SoloInv, SingleJob, [Next]_vars PROVE SoloInv'
  OBVIOUS
<1>1. CASE UNCHANGED vars
  BY <1>1, SoloUnchanged DEF vars, client
<1>2. CASE Next
  <2> PICK j \in Jobs :
        \/ \E force \in BOOLEAN : Prepare(j, force)
        \/ Refuse(j)
        \/ Answer(j)
        \/ Serve(j)
        \/ IngestFails(j)
        \/ ModelFails(j)
        \/ CutOff(j)
    BY <1>2 DEF Next
  <2>1. CASE \E force \in BOOLEAN : Prepare(j, force)
    BY <2>1, SoloPrepare
  <2>2. CASE Refuse(j)
    BY <2>2, SoloUnchanged DEF Refuse
  <2>3. CASE Answer(j)
    BY <2>3, SoloResume
  <2>4. CASE AwaitRepoSelection(j) \/ AwaitMappingConfirm(j) \/ EndRun(j) \/ ModelFails(j) \/ CutOff(j)
    BY <2>4, SoloStream
  <2>5. CASE ProfileCached(j) \/ BuildProfile(j) \/ StoreBuilt(j)
    BY <2>5, SoloProfile
  <2>6. CASE Discover(j) \/ Reopen(j)
    BY <2>6, SoloDiscover
  <2>7. CASE Select(j)
    BY <2>7, SoloSelect
  <2>8. CASE (\E u \in Repos : UpsertRepo(j, u)) \/ StoreExtract(j) \/ IngestFails(j)
    BY <2>8, SoloIngest
  <2>9. CASE Fold(j) \/ StoreFold(j)
    BY <2>9, SoloFold
  <2>10. CASE PrepareMapping(j) \/ SkipMapping(j)
    BY <2>10, SoloMapping
  <2>11. CASE ApplyMapping(j) \/ StoreMapping(j) \/ StoreApplied(j)
    BY <2>11, SoloApply
  <2>12. CASE AnalyzeJob(j) \/ CompanyCached(j) \/ Research(j)
    BY <2>12, SoloRest
  <2> QED
    BY <2>1, <2>2, <2>3, <2>4, <2>5, <2>6, <2>7, <2>8, <2>9, <2>10, <2>11, <2>12 DEF Serve
<1> QED BY <1>1, <1>2

\* One job prepared at a time: what a node has read is still what the rows say
\* when it writes, at every step, whatever fails.
THEOREM SoloInvariant == ASSUME SingleJob PROVE Spec => []SoloInv
<1>1. Init => SoloInv
  BY SoloInit
<1>2. PrepInv /\ SoloInv /\ [Next]_vars => SoloInv'
  BY SoloNext
<1> QED BY <1>1, <1>2, PrepInvariant, PTL DEF Spec

\* One job prepared at a time, cut off or failed anywhere and started over:
\* when prep is done the profile holds every confirmed mapping that fitted it
\* when it was last rebuilt, and every ingested repository, and nothing else.
THEOREM CompleteWhenDone == ASSUME SingleJob PROVE Spec => []ProfileIsComplete
<1>1. PrepInv /\ SoloInv => ProfileIsComplete
  <2> SUFFICES ASSUME PrepInv, SoloInv, NEW j \in Jobs, heard[j] = "done"
               PROVE  profile.holds = Applied \cup Ingested
    BY DEF ProfileIsComplete
  <2>1. At(j, "idle") /\ ckpt[j].node = "end"
    BY DEF PrepInv
  <2>2. UnderWay(j) /\ ~At(j, "applied")
    BY <2>1 DEF UnderWay, At
  <2> QED BY <2>1, <2>2, Sorts DEF SoloInv, HoldsOK
<1> QED BY <1>1, PrepInvariant, SoloInvariant, PTL

\* One job prepared at a time: a selection within the cap is folded only when
\* each of its repositories is ingested.
THEOREM FoldAfterIngest == ASSUME SingleJob PROVE Spec => []SelectionIngested
<1>1. SoloInv => SelectionIngested
  BY DEF SoloInv, SelectionOK, SelectionIngested
<1> QED BY <1>1, SoloInvariant, PTL
=============================================================================
