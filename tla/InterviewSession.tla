-------------------------- MODULE InterviewSession --------------------------
(***************************************************************************)
(* One interview session: POST /sessions/{id}/message (api/sessions/       *)
(* routes.py) driving the interview graph (agents/graph.py, graph_nodes.py,*)
(* nodes/question_generator.py, nodes/evaluator.py).                       *)
(*                                                                         *)
(* The session lives in two stores that no transaction spans: Postgres     *)
(* holds the session, its threads and their messages, committed one        *)
(* statement at a time by the nodes; SQLite holds the LangGraph            *)
(* checkpoint, written between two nodes.  A request may overlap another,  *)
(* be cut off at any await, fail in a model call, or die with the process. *)
(*                                                                         *)
(* A thread is identified with its index (uq_threads_session_thread); the  *)
(* text of a message is abstracted to who spoke and in which role.         *)
(***************************************************************************)
EXTENDS Integers, Sequences, FiniteSets

CONSTANTS
  Requests,      \* slots for POST /message requests in flight
  NQuestions,    \* sessions.n_questions: the topic budget
  MaxFollowups,  \* RoundStrategy.max_followups of the session's round
  FaultKinds,    \* which of AllFaults the environment may inject
  MaxFaults,     \* bound: number of injected faults
  MaxMessages,   \* bound: no new request once a thread is this long
  Nobody         \* "no request": the author of the absent checkpoint

AllFaults == {"model", "cut", "crash", "read"}

ASSUME SessionAssumption ==
  /\ NQuestions \in Nat \ {0}
  /\ MaxFollowups \in Nat \ {0}
  /\ FaultKinds \subseteq AllFaults
  /\ MaxFaults \in Nat
  /\ MaxMessages \in Nat
  /\ Nobody \notin Requests

Topics == 0 .. NQuestions - 1
NoThread == -1

VARIABLES
  status,      \* sessions.status
  tstatus,     \* threads.status by thread_index; "none" = no such row
  msgs,        \* the messages of a thread in seq order
  judged,      \* how many messages the persisted score was computed from
  ckpt,        \* latest checkpoint of "interview:{session_id}"
  run,         \* the requests in flight
  abandoning,  \* POST /abandon has read "active" and not yet written
  faults       \* injected so far

db == <<status, tstatus, msgs, judged>>
vars == <<db, ckpt, run, abandoning, faults>>

-----------------------------------------------------------------------------
(* Postgres: rows and the queries over them. *)

Utterance == {"question", "followup", "candidate"}

Closed == {t \in Topics : tstatus[t] = "closed"}
OpenThreads == {t \in Topics : tstatus[t] = "open"}

\* Variant: counts open threads too.
CountThreads == Cardinality({t \in Topics : tstatus[t] # "none"})
\* repos.count_closed_threads: also the index of the next thread to open.
CountClosed == Cardinality(Closed)

Interviewer(t) == {k \in 1 .. Len(msgs[t]) : msgs[t][k] # "candidate"}

\* Variant: no unique index on (session, thread_index).
TakenToo(t) == TRUE
\* uq_threads_session_thread and uq_messages_thread_seq: an insert at a taken
\* key is an IntegrityError.  Messages are never deleted, so seq k is free
\* exactly when no message has reached it.
IndexFree(t) == tstatus[t] = "none"
SeqFree(t, seq) == seq >= Len(msgs[t])

-----------------------------------------------------------------------------
(* Requests and the graph state they carry. *)

Idle == [step |-> "idle", node |-> "none", answer |-> FALSE,
         thread |-> NoThread, followups |-> 0, pending |-> FALSE,
         seq |-> 0, dirty |-> FALSE]

NoCheckpoint == [node |-> "none", paused |-> FALSE, thread |-> NoThread,
                 followups |-> 0, pending |-> FALSE, by |-> Nobody]

Goto(r, step) == run' = [run EXCEPT ![r].step = step]
CountThenGoto(r, step, seq) ==
  run' = [run EXCEPT ![r] = [@ EXCEPT !.step = step, !.seq = seq]]

\* The checkpoint AsyncSqliteSaver stores for the superstep r has finished.
SavedBy(r) == [node |-> run[r].node, paused |-> FALSE, thread |-> run[r].thread,
               followups |-> run[r].followups, pending |-> run[r].pending, by |-> r]

\* A request ends: with an error frame, cancelled, or at the end of its
\* stream.  LangGraph waits for the checkpoint write it has queued.
Stop(r) ==
  /\ run' = [run EXCEPT ![r] = Idle]
  /\ ckpt' = IF run[r].dirty THEN SavedBy(r) ELSE ckpt

\* A superstep ends: the node's delta is applied and its checkpoint is queued
\* (at most one write is in flight; the next superstep starts meanwhile).
FinishNode(r, next, thread, followups) ==
  /\ ~run[r].dirty
  /\ run' = [run EXCEPT ![r] = [@ EXCEPT !.step = "start", !.node = next,
               !.thread = thread, !.followups = followups,
               !.pending = FALSE, !.dirty = TRUE]]
  /\ UNCHANGED ckpt

At(r, step) == run[r].step = step
AtNode(r, node) == run[r].step = "start" /\ run[r].node = node

Init ==
  /\ status = "active"
  /\ tstatus = [t \in Topics |-> "none"]
  /\ msgs = [t \in Topics |-> <<>>]
  /\ judged = [t \in Topics |-> 0]
  /\ ckpt = NoCheckpoint
  /\ run = [r \in Requests |-> Idle]
  /\ abandoning = FALSE
  /\ faults = 0

Fault(kind) ==
  /\ kind \in FaultKinds
  /\ faults < MaxFaults
  /\ faults' = faults + 1

-----------------------------------------------------------------------------
(* The route: session_message. *)

\* The session must be active, or 409.
Post(r, answer) ==
  /\ At(r, "idle")
  /\ status = "active"
  /\ \A t \in Topics : Len(msgs[t]) < MaxMessages
  /\ run' = [run EXCEPT ![r] = [Idle EXCEPT !.step = "accepted", !.answer = answer]]
  /\ UNCHANGED <<db, ckpt, abandoning, faults>>

HasNext(c) == c.node \notin {"none", "end"}
\* Paused means parked on the await_candidate interrupt.
IsPaused(c) == c.paused

\* An unreadable checkpoint counts as a fresh session; a paused session
\* refuses an empty message (400).
ReadCheckpoint(r) ==
  /\ At(r, "accepted")
  /\ \/ /\ IsPaused(ckpt)
        /\ IF run[r].answer THEN Goto(r, "resume") ELSE run' = [run EXCEPT ![r] = Idle]
        /\ UNCHANGED faults
     \/ ~IsPaused(ckpt) /\ Goto(r, "fresh") /\ UNCHANGED faults
     \/ Fault("read") /\ Goto(r, "fresh")
  /\ UNCHANGED <<db, ckpt, abandoning>>

\* astream(Command(resume)): LangGraph loads the latest checkpoint again, which
\* another request may have advanced since it was read, and runs what is next
\* there.  await_candidate returns the message at once, as pending_message.
ResumeStream(r) ==
  LET answered == ckpt.node = "await"
      loaded   == [run[r] EXCEPT !.step = "start",
                     !.node = IF answered THEN "interviewer" ELSE ckpt.node,
                     !.thread = ckpt.thread, !.followups = ckpt.followups,
                     !.pending = ckpt.pending \/ answered, !.dirty = answered]
  IN /\ At(r, "resume")
     /\ run' = [run EXCEPT ![r] = IF ckpt.node \in {"none", "end"} THEN Idle ELSE loaded]
     /\ UNCHANGED <<db, ckpt, abandoning, faults>>

\* Variant: an adopted thread starts its budget anew.
ForgottenFollowups(t) == 0
\* followups_used of an adopted thread, recovered from its transcript.
AdoptedFollowups(t) ==
  LET n == Cardinality(Interviewer(t)) IN IF n = 0 THEN 0 ELSE n - 1

\* Variant: the newest thread, open or not.
NewestThread == {t \in Topics : tstatus[t] # "none" /\ \A u \in Topics : u > t => tstatus[u] = "none"}
\* Variant: nothing is adopted.
NoThreads == {}
\* get_open_thread: the newest open thread of the session, if any.
Adoptable == {t \in OpenThreads : \A u \in OpenThreads : u <= t}

\* astream(fresh input): adopt the open thread Postgres knows of, with the
\* message as its pending answer, else start with no thread, and then a
\* message is dropped.  An adopted thread refuses an empty message (400).
FreshStream(r) ==
  LET begin(thread, followups) ==
        [run[r] EXCEPT !.step = "start", !.node = "interviewer", !.thread = thread,
           !.followups = followups, !.pending = thread # NoThread, !.dirty = TRUE]
  IN /\ At(r, "fresh")
     /\ \/ /\ Adoptable = {}
           /\ run' = [run EXCEPT ![r] = begin(NoThread, 0)]
        \/ \E t \in Adoptable :
             run' = [run EXCEPT ![r] =
                       IF run[r].answer THEN begin(t, AdoptedFollowups(t)) ELSE Idle]
     /\ UNCHANGED <<db, ckpt, abandoning, faults>>

\* The queued checkpoint reaches SQLite, while the next node may be running.
SaveCheckpoint(r) ==
  /\ run[r].dirty
  /\ ckpt' = SavedBy(r)
  /\ run' = [run EXCEPT ![r].dirty = FALSE]
  /\ UNCHANGED <<db, abandoning, faults>>

-----------------------------------------------------------------------------
(* node_interviewer *)

\* Variant: the answer is not persisted.
KeepNothing(r) ==
  /\ AtNode(r, "interviewer")
  /\ Goto(r, "decide")
  /\ UNCHANGED <<db, ckpt, abandoning, faults>>

\* _persist_pending_candidate, first half: count the messages.
TakeAnswer(r) ==
  /\ AtNode(r, "interviewer")
  /\ IF run[r].pending /\ run[r].thread # NoThread
       THEN CountThenGoto(r, "answer", Len(msgs[run[r].thread]))
       ELSE Goto(r, "decide")
  /\ UNCHANGED <<db, ckpt, abandoning, faults>>

Append1(t, u) == msgs' = [msgs EXCEPT ![t] = Append(@, u)]

\* _persist_pending_candidate, second half: insert at the counted seq.
PersistAnswer(r) ==
  LET t == run[r].thread
  IN /\ At(r, "answer")
     /\ IF SeqFree(t, run[r].seq)
          THEN Append1(t, "candidate") /\ Goto(r, "decide") /\ UNCHANGED ckpt
          ELSE Stop(r) /\ UNCHANGED msgs
     /\ UNCHANGED <<status, tstatus, judged, abandoning, faults>>

\* stream_open_thread up to its model call.
OpenThread(r) ==
  /\ At(r, "decide")
  /\ run[r].thread = NoThread
  /\ IF status = "active" /\ CountClosed < NQuestions
       THEN CountThenGoto(r, "open", CountClosed) /\ UNCHANGED ckpt
       ELSE Stop(r)
  /\ UNCHANGED <<db, abandoning, faults>>

\* The question has been generated: insert the thread row and commit.
CreateThread(r) ==
  LET t == run[r].seq
  IN /\ At(r, "open")
     /\ IF IndexFree(t)
          THEN tstatus' = [tstatus EXCEPT ![t] = "open"] /\ Goto(r, "root") /\ UNCHANGED ckpt
          ELSE Stop(r) /\ UNCHANGED tstatus
     /\ UNCHANGED <<status, msgs, judged, abandoning, faults>>

\* A second commit stores the root question as message 0.
AppendRoot(r) ==
  LET t == run[r].seq
  IN /\ At(r, "root")
     /\ IF SeqFree(t, 0)
          THEN Append1(t, "question") /\ Goto(r, "said") /\ UNCHANGED ckpt
          ELSE Stop(r) /\ UNCHANGED msgs
     /\ UNCHANGED <<status, tstatus, judged, abandoning, faults>>

\* The budget guard: no model call once max_followups is spent.
BudgetSpent(followups) == followups >= MaxFollowups

Advance(r) == FinishNode(r, "evaluator", run[r].thread, run[r].followups)

ForceAdvance(r) ==
  /\ At(r, "decide")
  /\ run[r].thread # NoThread
  /\ BudgetSpent(run[r].followups)
  /\ Advance(r)
  /\ UNCHANGED <<db, abandoning, faults>>

\* stream_conduct: the model chooses to advance, or a move (anything it says
\* outside the allowed set is coerced to one) that is about to be persisted.
Conduct(r) ==
  /\ At(r, "decide")
  /\ run[r].thread # NoThread
  /\ ~BudgetSpent(run[r].followups)
  /\ \/ Advance(r)
     \/ CountThenGoto(r, "move", Len(msgs[run[r].thread])) /\ UNCHANGED ckpt
  /\ UNCHANGED <<db, abandoning, faults>>

PersistMove(r) ==
  LET t == run[r].thread
  IN /\ At(r, "move")
     /\ IF SeqFree(t, run[r].seq)
          THEN Append1(t, "followup") /\ Goto(r, "said") /\ UNCHANGED ckpt
          ELSE Stop(r) /\ UNCHANGED msgs
     /\ UNCHANGED <<status, tstatus, judged, abandoning, faults>>

\* Variant: the interviewer goes on without awaiting the answer.
FinishUnpaused(r) ==
  /\ At(r, "said")
  /\ IF run[r].thread = NoThread
       THEN FinishNode(r, "interviewer", run[r].seq, 0)
       ELSE FinishNode(r, "interviewer", run[r].thread, run[r].followups + 1)
  /\ UNCHANGED <<db, abandoning, faults>>

\* The interviewer has spoken; its node returns the opened thread, or the open
\* thread with one more follow-up used.
FinishMove(r) ==
  /\ At(r, "said")
  /\ IF run[r].thread = NoThread
       THEN FinishNode(r, "await", run[r].seq, 0)
       ELSE FinishNode(r, "await", run[r].thread, run[r].followups + 1)
  /\ UNCHANGED <<db, abandoning, faults>>

\* node_await_candidate: the interrupt is recorded on the checkpoint r wrote
\* and the stream ends.  A checkpoint another request has stored since stays
\* the latest, and is not paused by this.
Pause(r) ==
  /\ AtNode(r, "await")
  /\ ~run[r].dirty
  /\ ckpt' = IF ckpt.by = r THEN [ckpt EXCEPT !.paused = TRUE] ELSE ckpt
  /\ run' = [run EXCEPT ![r] = Idle]
  /\ UNCHANGED <<db, abandoning, faults>>

-----------------------------------------------------------------------------
(* node_evaluator: stream_thread_evaluation *)

\* A thread is judged only while it is open.
Judgeable(t) == tstatus[t] = "open"

\* Read the transcript the judge will see.
StartJudging(r) ==
  LET t == run[r].thread
  IN /\ AtNode(r, "evaluator")
     /\ IF Judgeable(t)
          THEN CountThenGoto(r, "judge", Len(msgs[t])) /\ UNCHANGED ckpt
          ELSE Stop(r)
     /\ UNCHANGED <<db, abandoning, faults>>

\* close_thread: score, feedback and status in one commit.  A failed
\* model-answer call in between is swallowed.
CloseThread(r) ==
  LET t == run[r].thread
  IN /\ At(r, "judge")
     /\ tstatus' = [tstatus EXCEPT ![t] = "closed"]
     /\ judged' = [judged EXCEPT ![t] = run[r].seq]
     /\ Goto(r, "flip")
     /\ UNCHANGED <<status, msgs, ckpt, abandoning, faults>>

\* Variant: the last thread is recognized one thread early.
IsLastOffByOne == CountClosed + 1 >= NQuestions
IsLast == CountClosed >= NQuestions

\* Count the closed threads; on the last one the session is set complete,
\* whatever its status is by now.
FlipStatus(r) ==
  /\ At(r, "flip")
  /\ status' = IF IsLast THEN "complete" ELSE status
  /\ CountThenGoto(r, "judged", CountClosed)
  /\ UNCHANGED <<tstatus, msgs, judged, ckpt, abandoning, faults>>

\* Variant: the open-thread carry survives the evaluator.
KeepThread(r) ==
  /\ At(r, "judged")
  /\ FinishNode(r, IF run[r].seq >= NQuestions THEN "end" ELSE "interviewer", run[r].thread, 0)
  /\ UNCHANGED <<db, abandoning, faults>>

\* The open-thread carry is reset, and the edge loops or ends.
FinishJudging(r) ==
  /\ At(r, "judged")
  /\ FinishNode(r, IF run[r].seq >= NQuestions THEN "end" ELSE "interviewer", NoThread, 0)
  /\ UNCHANGED <<db, abandoning, faults>>

EndRun(r) ==
  /\ AtNode(r, "end")
  /\ ~run[r].dirty
  /\ Stop(r)
  /\ UNCHANGED <<db, abandoning, faults>>

-----------------------------------------------------------------------------
(* POST /abandon, and what goes wrong. *)

AbandonRead ==
  /\ ~abandoning
  /\ status = "active"
  /\ abandoning' = TRUE
  /\ UNCHANGED <<db, ckpt, run, faults>>

AbandonWrite ==
  /\ abandoning
  /\ status' = "abandoned"
  /\ abandoning' = FALSE
  /\ UNCHANGED <<tstatus, msgs, judged, ckpt, run, faults>>

\* A model call (question, conductor, judge) fails: an error frame.
ModelFails(r) ==
  /\ Fault("model")
  /\ \/ run[r].step \in {"open", "judge"}
     \/ /\ At(r, "decide")
        /\ run[r].thread # NoThread
        /\ ~BudgetSpent(run[r].followups)
  /\ Stop(r)
  /\ UNCHANGED <<db, abandoning>>

\* The client disconnects: the stream is cancelled at its current await.
CutOff(r) ==
  /\ Fault("cut")
  /\ ~At(r, "idle")
  /\ Stop(r)
  /\ UNCHANGED <<db, abandoning>>

\* The api process dies: requests and queued checkpoint writes are gone.
Crash ==
  /\ Fault("crash")
  /\ run' = [r \in Requests |-> Idle]
  /\ abandoning' = FALSE
  /\ UNCHANGED <<db, ckpt>>

Serve(r) ==
  \/ ReadCheckpoint(r) \/ ResumeStream(r) \/ FreshStream(r) \/ SaveCheckpoint(r)
  \/ TakeAnswer(r) \/ PersistAnswer(r) \/ OpenThread(r) \/ CreateThread(r)
  \/ AppendRoot(r) \/ ForceAdvance(r) \/ Conduct(r) \/ PersistMove(r) \/ FinishMove(r) \/ Pause(r)
  \/ StartJudging(r) \/ CloseThread(r) \/ FlipStatus(r) \/ FinishJudging(r) \/ EndRun(r)

Next ==
  \/ \E r \in Requests :
       \/ \E answer \in BOOLEAN : Post(r, answer)
       \/ Serve(r)
       \/ ModelFails(r)
       \/ CutOff(r)
  \/ AbandonRead
  \/ AbandonWrite
  \/ Crash

Spec == Init /\ [][Next]_vars

\* The api keeps serving a request it has accepted, and the candidate keeps
\* answering as long as the session takes answers.
Fairness ==
  /\ \A r \in Requests : WF_vars(Serve(r))
  /\ \A r \in Requests : SF_vars(Post(r, TRUE))

FairSpec == Spec /\ Fairness

-----------------------------------------------------------------------------
(* Type invariant. *)

Steps == {"idle", "accepted", "resume", "fresh", "start", "answer", "decide",
          "open", "root", "move", "said", "judge", "flip", "judged"}
Nodes == {"none", "interviewer", "await", "evaluator", "end"}

RunState == [step : Steps, node : Nodes, answer : BOOLEAN,
             thread : Topics \cup {NoThread}, followups : Nat,
             pending : BOOLEAN, seq : Nat, dirty : BOOLEAN]

Checkpoint == [node : Nodes, paused : BOOLEAN, thread : Topics \cup {NoThread},
               followups : Nat, pending : BOOLEAN, by : Requests \cup {Nobody}]

TypeOK ==
  /\ status \in {"active", "complete", "abandoned"}
  /\ tstatus \in [Topics -> {"none", "open", "closed"}]
  /\ msgs \in [Topics -> Seq(Utterance)]
  /\ judged \in [Topics -> Nat]
  /\ ckpt \in Checkpoint
  /\ run \in [Requests -> RunState]
  /\ abandoning \in BOOLEAN
  /\ faults \in Nat

-----------------------------------------------------------------------------
(* Properties of every run, however requests overlap or die. *)

AllIdle == \A r \in Requests : At(r, "idle")
AllScored == \A t \in Topics : tstatus[t] = "closed"
HasAnswer(t) == \E k \in 1 .. Len(msgs[t]) : msgs[t][k] = "candidate"

\* Topics are opened in order and one at a time: a thread exists only when all
\* earlier ones are closed.  get_open_thread relies on it ("the session's
\* single open thread"), although two overlapping requests may both decide to
\* open the same index; only the unique index stops the second.
TopicsInOrder ==
  \A t, u \in Topics : u < t /\ tstatus[t] # "none" => tstatus[u] = "closed"

\* A session is complete only when each of its n_questions threads has been
\* scored, although completion is decided by counting rows while other
\* requests insert and close them.
CompleteMeansAllScored == status = "complete" => AllScored

\* No thread is scored before the candidate has said anything in it, whichever
\* request, resumed or adopted, brings it to the evaluator.
ScoredAfterAnAnswer ==
  \A t \in Topics : tstatus[t] = "closed" => HasAnswer(t)

\* What a graph state carries, in a request or in a checkpoint, about the
\* thread it names: the thread exists, an interviewer with a thread has an
\* answer to record, an answer is awaited in some thread, and only an answered
\* thread is evaluated.
CarryOK(g) ==
  /\ g.thread # NoThread => tstatus[g.thread] # "none"
  /\ g.node = "interviewer" /\ g.thread # NoThread => g.pending
  /\ g.node = "await" => g.thread # NoThread
  /\ g.node = "evaluator" => g.thread # NoThread /\ HasAnswer(g.thread)

\* What a request knows at each step between two awaits of a node.
StepOK(r) ==
  /\ run[r].step \in {"answer", "decide", "open", "root", "move", "said"}
       => run[r].node = "interviewer"
  /\ run[r].step \in {"judge", "flip", "judged"} => run[r].node = "evaluator"
  /\ run[r].step \in {"answer", "move"} => run[r].thread # NoThread
  /\ run[r].step \in {"decide", "move"} /\ run[r].thread # NoThread
       => HasAnswer(run[r].thread)
  /\ run[r].step \in {"open", "root"} => run[r].thread = NoThread
  /\ run[r].step = "open"
       => /\ run[r].seq \in Topics
          /\ \A u \in Topics : u < run[r].seq => tstatus[u] = "closed"
  /\ run[r].step \in {"root", "said"} /\ run[r].thread = NoThread
       => run[r].seq \in Topics /\ tstatus[run[r].seq] # "none"

\* Messages belong to a thread row: create_thread has committed it before any.
MessagesHaveThread == \A t \in Topics : tstatus[t] = "none" => msgs[t] = <<>>

\* The inductive strengthening of the three invariants above.
SessionInv ==
  /\ TypeOK
  /\ TopicsInOrder
  /\ CompleteMeansAllScored
  /\ ScoredAfterAnAnswer
  /\ MessagesHaveThread
  /\ CarryOK(ckpt)
  /\ \A r \in Requests : CarryOK(run[r]) /\ StepOK(r)

\* The session implements the ledger: whatever a step does to the rows, the
\* ledger sees one topic move one phase, a terminal status, or nothing.
Phase(t) ==
  CASE tstatus[t] = "none" -> "pending"
    [] tstatus[t] = "closed" -> "scored"
    [] OTHER -> IF HasAnswer(t) THEN "answered" ELSE "opened"

Ledger == INSTANCE InterviewLedger WITH phase <- [t \in Topics |-> Phase(t)]

ImplementsLedger == Ledger!Spec

-----------------------------------------------------------------------------
(* Properties of requests that follow one another, cut off or not. *)

\* The interviewer never speaks twice in a row: a move repeated after a lost
\* checkpoint always follows an answer.
InterviewerWaitsForAnswer ==
  \A t \in Topics : \A k \in 1 .. Len(msgs[t]) - 1 :
     msgs[t][k] # "candidate" => msgs[t][k + 1] = "candidate"

\* The persisted score was computed from the whole transcript that is kept,
\* and its last word is the candidate's.
VerdictCoversTranscript ==
  \A t \in Topics : tstatus[t] = "closed" =>
     /\ judged[t] = Len(msgs[t])
     /\ msgs[t][Len(msgs[t])] = "candidate"

\* Between requests the two stores agree on whose turn it is: a checkpoint
\* paused for an answer names the thread Postgres has open.
PausedOnTheOpenThread ==
  ckpt.paused /\ AllIdle => OpenThreads = {ckpt.thread}

\* One POST /message at a time, as the composer sends them.
SingleRequest == \A r, s \in Requests : r = s

CandidateSpokeLast(t) == msgs[t] # <<>> /\ msgs[t][Len(msgs[t])] = "candidate"

\* The open threads, as the request in the graph knows them: the one it
\* carries or has just created, and none once that one is scored.
Held(r) ==
  CASE run[r].step \in {"flip", "judged"} -> {}
    [] run[r].step \in {"root", "said"} /\ run[r].thread = NoThread -> {run[r].seq}
    [] OTHER -> {run[r].thread} \ {NoThread}

\* What the one request knows: nobody moves the pause it resumes; a checkpoint
\* is queued only in the graph; until its first one is saved it is at work on
\* the thread the pause names; and the interviewer decides, and the judge reads,
\* after the candidate's word.
TurnOK(r) ==
  /\ At(r, "resume") => ckpt.paused
  /\ run[r].step \in {"idle", "accepted", "resume", "fresh"} => ~run[r].dirty
  /\ run[r].step \notin {"idle", "accepted", "resume", "fresh"} =>
       /\ OpenThreads = Held(r)
       /\ ckpt.paused => /\ run[r].dirty /\ run[r].node = "interviewer"
                        /\ run[r].thread = ckpt.thread
       /\ AtNode(r, "await") /\ ~run[r].dirty
            => /\ ckpt.node = "await" /\ ckpt.thread = run[r].thread
               /\ ckpt.followups = run[r].followups
       /\ \/ run[r].step \in {"decide", "move"} /\ run[r].thread # NoThread
          \/ AtNode(r, "evaluator") \/ At(r, "judge")
          => CandidateSpokeLast(run[r].thread)
       /\ At(r, "judge") => run[r].seq = Len(msgs[run[r].thread])

\* The part of TurnInv that is about who has the word.
WordInv ==
  /\ InterviewerWaitsForAnswer
  /\ VerdictCoversTranscript
  /\ ckpt.paused => ckpt.node = "await" /\ OpenThreads = {ckpt.thread}
  /\ \A r \in Requests : TurnOK(r)

FollowupsIn(t) == Cardinality({k \in 1 .. Len(msgs[t]) : msgs[t][k] = "followup"})
HasRoot(t) == msgs[t] # <<>> /\ msgs[t][1] = "question"

\* A bound on the follow-ups nobody counted: a checkpoint dies with the
\* process, and a thread cut off before its root question is counted one short.
Lost == IF FaultKinds \cap {"cut", "crash"} = {} THEN 0 ELSE faults

\* What the one request knows of the follow-ups of its thread.
BudgetOK(r) ==
  /\ At(r, "root") => msgs[run[r].seq] = <<>>
  /\ At(r, "move") => ~BudgetSpent(run[r].followups)
  /\ At(r, "said") =>
       IF run[r].thread = NoThread
         THEN FollowupsIn(run[r].seq) = 0
         ELSE FollowupsIn(run[r].thread) <= run[r].followups + 1 + Lost
  /\ /\ run[r].step \in {"start", "answer", "decide", "move"}
     /\ run[r].node \in {"interviewer", "await"} /\ run[r].thread # NoThread
     => FollowupsIn(run[r].thread) <= run[r].followups + Lost

\* The part of TurnInv that is about the follow-up budget: the count a paused
\* checkpoint would bring back is short by what was lost, and by the move just
\* stored; a thread is without its root question only if that was lost.
BudgetInv ==
  /\ \A t \in Topics : FollowupsIn(t) <= MaxFollowups + Lost
  /\ \A t \in Topics : tstatus[t] # "none" =>
       HasRoot(t) \/ Lost > 0 \/ \E r \in Requests : At(r, "root") /\ run[r].seq = t
  /\ ckpt.paused =>
       FollowupsIn(ckpt.thread) <= ckpt.followups + Lost
         + IF \E r \in Requests : At(r, "said") THEN 1 ELSE 0
  /\ \A r \in Requests : BudgetOK(r)

\* The inductive strengthening, over SessionInv, of the properties of requests
\* that follow one another.
TurnInv == WordInv /\ BudgetInv

\* A closed thread stays as it was judged: no retry, replay or adoption adds a
\* message to it, reopens it or scores it again.
VerdictIsFinal ==
  [][\A t \in Topics : tstatus[t] = "closed" =>
       tstatus'[t] = "closed" /\ judged'[t] = judged[t] /\ msgs'[t] = msgs[t]]_db

\* rounds.py: max_followups is a hard cap over probe, clarify and nudge per
\* thread, also for a thread adopted with a recomputed count.
FollowupCap == \A t \in Topics : FollowupsIn(t) <= MaxFollowups

\* If the candidate keeps answering and requests are served, the session ends,
\* model failures and unreadable checkpoints notwithstanding.
SessionEnds == <>(status # "active")

\* evaluator.py: closing the last thread flips the session complete, so with
\* nothing in flight no active session has all its threads closed.
AllScoredMeansComplete == AllIdle /\ AllScored => status # "active"
=============================================================================
