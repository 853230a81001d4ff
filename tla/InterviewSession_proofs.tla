----------------------- MODULE InterviewSession_proofs -----------------------
(***************************************************************************)
(* For any number of overlapping requests and any faults: the inductive    *)
(* invariant of InterviewSession, the safety properties it implies, and    *)
(* the refinement of InterviewLedger.  Then, for requests that follow one  *)
(* another, whose turn it is, that a verdict is final, and how many        *)
(* follow-ups a thread takes.                                              *)
(***************************************************************************)
EXTENDS InterviewSession, FiniteSetTheorems, TLAPS

-----------------------------------------------------------------------------
(* Facts about the operators. *)

\* Topics closed in order form a prefix, so counting the closed rows (repos.
\* count_closed_threads) yields the index below which everything is closed.
LEMMA ClosedPrefix ==
  ASSUME TypeOK, TopicsInOrder
  PROVE  /\ CountClosed \in Nat
         /\ \A u \in Topics : u < CountClosed => tstatus[u] = "closed"
         /\ CountClosed >= NQuestions => AllScored
<1> USE SessionAssumption DEF Topics
<1>1. IsFiniteSet(Topics) /\ IsFiniteSet(Closed)
  <2>1. IsFiniteSet(0 .. NQuestions - 1)
    BY FS_Interval
  <2>2. Closed \subseteq 0 .. NQuestions - 1
    BY DEF Closed
  <2> QED BY <2>1, <2>2, FS_Subset
<1>2. CountClosed \in Nat
  BY <1>1, FS_CardinalityType DEF CountClosed
<1>3. ASSUME NEW u \in Topics, u < CountClosed, tstatus[u] # "closed"
      PROVE  FALSE
  <2>1. Closed \subseteq 0 .. u - 1
    <3> SUFFICES ASSUME NEW t \in Closed PROVE t < u
      BY DEF Closed
    <3> QED BY <1>3 DEF Closed, TopicsInOrder
  <2>2. IsFiniteSet(0 .. u - 1) /\ Cardinality(0 .. u - 1) = u
    BY FS_Interval
  <2>3. Cardinality(Closed) <= u
    BY <2>1, <2>2, FS_Subset
  <2> QED BY <1>2, <1>3, <2>3 DEF CountClosed
<1>4. CountClosed >= NQuestions => AllScored
  BY <1>2, <1>3 DEF AllScored
<1> QED BY <1>2, <1>3, <1>4

\* An answer, once recorded, stays in the transcript: messages are only appended.
LEMMA AnswersStay ==
  ASSUME TypeOK, NEW t \in Topics, HasAnswer(t),
         \/ UNCHANGED msgs
         \/ \E u \in Topics, m \in Utterance : Append1(u, m)
  PROVE  HasAnswer(t)'
<1>1. CASE UNCHANGED msgs
  BY <1>1 DEF HasAnswer
<1>2. ASSUME NEW u \in Topics, NEW m \in Utterance, Append1(u, m)
      PROVE  HasAnswer(t)'
  <2>1. PICK k \in 1 .. Len(msgs[t]) : msgs[t][k] = "candidate"
    BY DEF HasAnswer
  <2>2. msgs[t] \in Seq(Utterance) /\ msgs'[t] \in {msgs[t], Append(msgs[t], m)}
    BY <1>2 DEF TypeOK, Append1
  <2>3. k \in 1 .. Len(msgs'[t]) /\ msgs'[t][k] = "candidate"
    BY <2>1, <2>2, SMTT(30)
  <2> QED BY <2>3 DEF HasAnswer
<1> QED BY <1>1, <1>2

\* Recording the candidate's message gives its thread an answer.
LEMMA AnswerRecorded ==
  ASSUME TypeOK, NEW t \in Topics, Append1(t, "candidate")
  PROVE  HasAnswer(t)'
<1>1. msgs[t] \in Seq(Utterance) /\ msgs'[t] = Append(msgs[t], "candidate")
  BY DEF TypeOK, Append1
<1>2. Len(msgs'[t]) \in 1 .. Len(msgs'[t]) /\ msgs'[t][Len(msgs'[t])] = "candidate"
  BY <1>1
<1> QED BY <1>2 DEF HasAnswer

-----------------------------------------------------------------------------
(* The request table. *)

\* What a step of request r leaves alone in the request table.
Others(r) == \A s \in Requests \ {r} : run'[s] = run[s]
Table == run \in [Requests -> RunState]

\* Writing one well-typed record changes no other request.
LEMMA Store ==
  ASSUME TypeOK, NEW r \in Requests, NEW q \in RunState, run' = [run EXCEPT ![r] = q]
  PROVE  Table' /\ Others(r) /\ run'[r] = q
BY DEF TypeOK, Table, Others

\* Moving to another step keeps what the request carries.
LEMMA GotoStep ==
  ASSUME TypeOK, NEW r \in Requests, NEW step \in Steps, Goto(r, step)
  PROVE  /\ Table' /\ Others(r)
         /\ run'[r].step = step
         /\ run'[r].node = run[r].node /\ run'[r].thread = run[r].thread
         /\ run'[r].pending = run[r].pending /\ run'[r].seq = run[r].seq
         /\ run'[r].followups = run[r].followups /\ run'[r].dirty = run[r].dirty
BY DEF TypeOK, Goto, RunState, Table, Others

\* So does moving to another step with a freshly counted seq or index.
LEMMA CountStep ==
  ASSUME TypeOK, NEW r \in Requests, NEW step \in Steps, NEW seq \in Nat,
         CountThenGoto(r, step, seq)
  PROVE  /\ Table' /\ Others(r)
         /\ run'[r].step = step /\ run'[r].seq = seq
         /\ run'[r].node = run[r].node /\ run'[r].thread = run[r].thread
         /\ run'[r].pending = run[r].pending
         /\ run'[r].followups = run[r].followups /\ run'[r].dirty = run[r].dirty
BY DEF TypeOK, CountThenGoto, RunState, Table, Others

\* The checkpoint of a superstep is well-typed.
LEMMA Saved ==
  ASSUME TypeOK, NEW r \in Requests
  PROVE  SavedBy(r) \in Checkpoint
BY DEF TypeOK, SavedBy, RunState, Checkpoint

\* So is an empty slot.
LEMMA IdleRecord == Idle \in RunState
BY DEF Idle, RunState, Steps, Nodes, NoThread

\* A request that stops leaves at most its queued checkpoint behind.
LEMMA StopStep ==
  ASSUME TypeOK, NEW r \in Requests, Stop(r)
  PROVE  /\ Table' /\ Others(r)
         /\ run'[r] = Idle
         /\ ckpt' \in {ckpt, SavedBy(r)} /\ ckpt' \in Checkpoint
BY IdleRecord, Saved DEF TypeOK, Stop, Table, Others

\* What a request carries into its next node.
LEMMA FinishStep ==
  ASSUME TypeOK, NEW r \in Requests, NEW next \in Nodes,
         NEW thread \in Topics \cup {NoThread}, NEW n \in Nat,
         FinishNode(r, next, thread, n)
  PROVE  /\ Table' /\ Others(r)
         /\ run'[r].step = "start" /\ run'[r].node = next /\ run'[r].thread = thread
         /\ ~run'[r].pending /\ run'[r].followups = n /\ run'[r].dirty
         /\ UNCHANGED ckpt
<1> DEFINE q == [run[r] EXCEPT !.step = "start", !.node = next, !.thread = thread,
                         !.followups = n, !.pending = FALSE, !.dirty = TRUE]
<1>1. run[r] \in RunState
  BY DEF TypeOK
<1>2. q \in RunState
  BY <1>1 DEF RunState, Steps
<1>3. q.step = "start" /\ q.node = next /\ q.thread = thread /\ ~q.pending
      /\ q.followups = n /\ q.dirty
  BY <1>1 DEF RunState
<1>4. run' = [run EXCEPT ![r] = q] /\ UNCHANGED ckpt
  BY DEF FinishNode
<1> HIDE DEF q
<1> QED BY <1>2, <1>3, <1>4, Store
-----------------------------------------------------------------------------
(* What every step of a request has in common. *)

\* The database only grows: threads are not deleted, verdicts not withdrawn and
\* answers not taken back.
Grows ==
  \A t \in Topics :
     /\ HasAnswer(t) => HasAnswer(t)'
     /\ tstatus[t] # "none" => tstatus'[t] # "none"
     /\ tstatus[t] = "closed" => tstatus'[t] = "closed"

\* The checkpoint carries what it did before, or what r carries.
CkptFrom(r) ==
  \E g \in {ckpt, run[r]} :
     ckpt'.node = g.node /\ ckpt'.thread = g.thread /\ ckpt'.pending = g.pending

\* A step that changes the database keeps the invariant if it keeps the three
\* safety properties and what r itself knows: what the others know survives.
LEMMA RequestStep ==
  ASSUME SessionInv, NEW r \in Requests, TypeOK', Others(r), Grows, CkptFrom(r),
         TopicsInOrder', CompleteMeansAllScored', ScoredAfterAnAnswer',
         MessagesHaveThread', CarryOK(run[r])', StepOK(r)'
  PROVE  SessionInv'
<1>1. CarryOK(ckpt)'
  <2>1. CarryOK(ckpt) /\ CarryOK(run[r]) /\ ckpt.thread \in Topics \cup {NoThread}
        /\ run[r].thread \in Topics \cup {NoThread}
    BY DEF SessionInv, TypeOK, Checkpoint, RunState
  <2> QED BY <2>1 DEF CarryOK, CkptFrom, Grows
<1>2. ASSUME NEW s \in Requests \ {r} PROVE CarryOK(run[s])' /\ StepOK(s)'
  <2>1. run'[s] = run[s] /\ CarryOK(run[s]) /\ StepOK(s)
        /\ run[s].thread \in Topics \cup {NoThread}
    BY <1>2 DEF SessionInv, TypeOK, RunState, Others
  <2>2. CarryOK(run[s])'
    BY <2>1 DEF CarryOK, Grows
  <2>3. StepOK(s)'
    BY <2>1 DEF StepOK, Grows
  <2> QED BY <2>2, <2>3
<1> QED BY <1>1, <1>2 DEF SessionInv

\* A step that leaves the database alone.
LEMMA QuietStep ==
  ASSUME SessionInv, NEW r \in Requests, UNCHANGED db, Table', ckpt' \in Checkpoint,
         abandoning' \in BOOLEAN, faults' \in Nat, Others(r), CkptFrom(r),
         CarryOK(run[r])', StepOK(r)'
  PROVE  SessionInv'
<1>1. TypeOK'
  BY DEF SessionInv, TypeOK, Table, db
<1>2. Grows
  BY DEF Grows, HasAnswer, db
<1>3. (TopicsInOrder /\ CompleteMeansAllScored /\ ScoredAfterAnAnswer /\ MessagesHaveThread)'
  BY DEF SessionInv, TopicsInOrder, CompleteMeansAllScored, AllScored,
         ScoredAfterAnAnswer, HasAnswer, MessagesHaveThread, db
<1> QED BY <1>1, <1>2, <1>3, RequestStep

\* A request that only stops keeps the invariant, wherever it was.
LEMMA StopKeeps ==
  ASSUME SessionInv, NEW r \in Requests, Stop(r), UNCHANGED db,
         abandoning' \in BOOLEAN, faults' \in Nat
  PROVE  SessionInv'
<1>1. TypeOK
  BY DEF SessionInv
<1>2. Table' /\ Others(r) /\ run'[r] = Idle /\ ckpt' \in {ckpt, SavedBy(r)}
      /\ ckpt' \in Checkpoint
  BY <1>1, StopStep
<1>3. CkptFrom(r)
  BY <1>2 DEF CkptFrom, SavedBy
<1>4. CarryOK(run[r])' /\ StepOK(r)'
  BY <1>2 DEF CarryOK, StepOK, Idle, NoThread
<1> QED BY <1>2, <1>3, <1>4, QuietStep

-----------------------------------------------------------------------------
(* The route's steps. *)

\* Accepting a message.
LEMMA PostKeeps ==
  ASSUME SessionInv, NEW r \in Requests, NEW answer \in BOOLEAN, Post(r, answer)
  PROVE  SessionInv'
<1> DEFINE q == [Idle EXCEPT !.step = "accepted", !.answer = answer]
<1>1. q \in RunState /\ q.step = "accepted" /\ q.node = "none" /\ q.thread = NoThread
  BY IdleRecord DEF Idle, RunState, Steps
<1>2. run' = [run EXCEPT ![r] = q] /\ UNCHANGED <<db, ckpt, abandoning, faults>>
  BY DEF Post
<1> HIDE DEF q
<1>3. Table' /\ Others(r) /\ run'[r] = q
  BY <1>1, <1>2, Store DEF SessionInv
<1>4. CarryOK(run[r])' /\ StepOK(r)'
  BY <1>1, <1>3 DEF CarryOK, StepOK
<1>5. CkptFrom(r) /\ ckpt' \in Checkpoint /\ abandoning' \in BOOLEAN /\ faults' \in Nat
  BY <1>2 DEF CkptFrom, SessionInv, TypeOK
<1> QED BY <1>2, <1>3, <1>4, <1>5, QuietStep

\* Reading the checkpoint decides between resuming, starting afresh and refusing.
LEMMA ReadCheckpointKeeps ==
  ASSUME SessionInv, NEW r \in Requests, ReadCheckpoint(r)
  PROVE  SessionInv'
<1>1. TypeOK /\ CarryOK(run[r])
  BY DEF SessionInv
<1>2. UNCHANGED <<db, ckpt, abandoning>> /\ faults' \in Nat
  BY <1>1 DEF ReadCheckpoint, Fault, TypeOK
<1>3. CkptFrom(r) /\ ckpt' \in Checkpoint /\ abandoning' \in BOOLEAN
  BY <1>1, <1>2 DEF CkptFrom, TypeOK
<1>4. CASE \E step \in {"resume", "fresh"} : Goto(r, step)
  <2>1. PICK step \in {"resume", "fresh"} : Goto(r, step)
    BY <1>4
  <2>2. Table' /\ Others(r) /\ run'[r].step = step /\ run'[r].node = run[r].node
        /\ run'[r].thread = run[r].thread /\ run'[r].pending = run[r].pending
    BY <1>1, <2>1, GotoStep DEF Steps
  <2>3. CarryOK(run[r])' /\ StepOK(r)'
    BY <1>1, <1>2, <2>2 DEF CarryOK, StepOK, HasAnswer, db
  <2> QED BY <1>2, <1>3, <2>2, <2>3, QuietStep
<1>5. CASE run' = [run EXCEPT ![r] = Idle]
  <2>1. Table' /\ Others(r) /\ run'[r] = Idle
    BY <1>1, <1>5, IdleRecord, Store
  <2>2. CarryOK(run[r])' /\ StepOK(r)'
    BY <2>1 DEF CarryOK, StepOK, Idle, NoThread
  <2> QED BY <1>2, <1>3, <2>1, <2>2, QuietStep
<1> QED BY <1>4, <1>5 DEF ReadCheckpoint

\* A resumed request carries what the checkpoint carried, and a message that
\* answers its open thread.
LEMMA ResumeStreamKeeps ==
  ASSUME SessionInv, NEW r \in Requests, ResumeStream(r)
  PROVE  SessionInv'
<1>1. TypeOK /\ CarryOK(ckpt) /\ run[r] \in RunState /\ ckpt \in Checkpoint
  BY DEF SessionInv, TypeOK
<1> DEFINE answered == ckpt.node = "await"
           q == [run[r] EXCEPT !.step = "start",
                     !.node = IF answered THEN "interviewer" ELSE ckpt.node,
                     !.thread = ckpt.thread, !.followups = ckpt.followups,
                     !.pending = ckpt.pending \/ answered, !.dirty = answered]
           w == IF ckpt.node \in {"none", "end"} THEN Idle ELSE q
<1>2. q \in RunState
  BY <1>1, ZenonT(60) DEF RunState, Checkpoint, Steps, Nodes
<1>3. /\ q.step = "start" /\ q.thread = ckpt.thread
      /\ q.node = IF answered THEN "interviewer" ELSE ckpt.node
      /\ q.pending = (ckpt.pending \/ answered)
  BY <1>1 DEF RunState, Checkpoint
<1>4. run' = [run EXCEPT ![r] = w] /\ UNCHANGED <<db, ckpt, abandoning, faults>>
  BY DEF ResumeStream
<1> HIDE DEF q
<1>5. w \in RunState
  BY <1>2, IdleRecord
<1>6. CarryOK(w) /\ w.step \in {"idle", "start"}
  BY <1>1, <1>3 DEF CarryOK, Idle, NoThread
<1> HIDE DEF w
<1>7. Table' /\ Others(r) /\ run'[r] = w
  BY <1>1, <1>4, <1>5, Store
<1>8. CarryOK(run[r])' /\ StepOK(r)'
  BY <1>4, <1>6, <1>7 DEF CarryOK, StepOK, HasAnswer, db
<1>9. CkptFrom(r) /\ ckpt' \in Checkpoint /\ abandoning' \in BOOLEAN /\ faults' \in Nat
  BY <1>1, <1>4 DEF CkptFrom, TypeOK
<1> QED BY <1>4, <1>7, <1>8, <1>9, QuietStep

\* The follow-up count recovered from a transcript is a number.
LEMMA AdoptedType ==
  ASSUME TypeOK, NEW t \in Topics
  PROVE  AdoptedFollowups(t) \in Nat
<1>1. IsFiniteSet(1 .. Len(msgs[t])) /\ Interviewer(t) \subseteq 1 .. Len(msgs[t])
  BY FS_Interval DEF TypeOK, Interviewer
<1>2. Cardinality(Interviewer(t)) \in Nat
  BY <1>1, FS_Subset, FS_CardinalityType
<1> QED BY <1>2 DEF AdoptedFollowups

\* A fresh request carries the thread it adopts together with its message.
LEMMA FreshStreamKeeps ==
  ASSUME SessionInv, NEW r \in Requests, FreshStream(r)
  PROVE  SessionInv'
<1>1. TypeOK /\ run[r] \in RunState
  BY DEF SessionInv, TypeOK
<1> DEFINE begin(thread, followups) ==
        [run[r] EXCEPT !.step = "start", !.node = "interviewer", !.thread = thread,
           !.followups = followups, !.pending = thread # NoThread, !.dirty = TRUE]
<1>2. ASSUME NEW thread \in Topics \cup {NoThread}, NEW n \in Nat
      PROVE  /\ begin(thread, n) \in RunState
             /\ begin(thread, n).step = "start" /\ begin(thread, n).thread = thread
             /\ begin(thread, n).node = "interviewer"
             /\ thread # NoThread => begin(thread, n).pending
  BY <1>1 DEF RunState, Steps, Nodes
<1>3. \/ run' = [run EXCEPT ![r] = begin(NoThread, 0)]
      \/ \E t \in Adoptable : run' = [run EXCEPT ![r] = begin(t, AdoptedFollowups(t))]
      \/ run' = [run EXCEPT ![r] = Idle]
  BY DEF FreshStream
<1> HIDE DEF begin
<1>4. \E w \in RunState :
        /\ run' = [run EXCEPT ![r] = w]
        /\ CarryOK(w) /\ w.step \in {"idle", "start"}
  <2>1. begin(NoThread, 0) \in RunState /\ CarryOK(begin(NoThread, 0))
        /\ begin(NoThread, 0).step = "start"
    BY <1>2 DEF CarryOK
  <2>2. ASSUME NEW t \in Adoptable
        PROVE  /\ begin(t, AdoptedFollowups(t)) \in RunState
               /\ begin(t, AdoptedFollowups(t)).step = "start"
               /\ CarryOK(begin(t, AdoptedFollowups(t)))
    <3>1. t \in Topics /\ tstatus[t] = "open" /\ AdoptedFollowups(t) \in Nat
      BY <1>1, AdoptedType DEF Adoptable, OpenThreads
    <3>2. PICK n \in Nat : n = AdoptedFollowups(t)
      BY <3>1
    <3> QED BY <1>2, <3>1, <3>2 DEF CarryOK
  <2>3. Idle \in RunState /\ CarryOK(Idle) /\ Idle.step = "idle"
    BY IdleRecord DEF CarryOK, Idle, NoThread
  <2> QED BY <1>3, <2>1, <2>2, <2>3
<1>5. PICK w \in RunState :
        /\ run' = [run EXCEPT ![r] = w]
        /\ CarryOK(w) /\ w.step \in {"idle", "start"}
  BY <1>4
<1>6. Table' /\ Others(r) /\ run'[r] = w
  BY <1>1, <1>5, Store
<1>7. UNCHANGED <<db, ckpt, abandoning, faults>>
  BY DEF FreshStream
<1>8. CarryOK(run[r])' /\ StepOK(r)'
  BY <1>5, <1>6, <1>7 DEF CarryOK, StepOK, HasAnswer, db
<1>9. CkptFrom(r) /\ ckpt' \in Checkpoint /\ abandoning' \in BOOLEAN /\ faults' \in Nat
  BY <1>1, <1>7 DEF CkptFrom, TypeOK
<1> QED BY <1>6, <1>7, <1>8, <1>9, QuietStep

\* Writing the queued checkpoint copies what the request carries.
LEMMA SaveCheckpointKeeps ==
  ASSUME SessionInv, NEW r \in Requests, SaveCheckpoint(r)
  PROVE  SessionInv'
<1>1. TypeOK /\ CarryOK(run[r]) /\ StepOK(r) /\ run[r] \in RunState
  BY DEF SessionInv, TypeOK
<1> DEFINE q == [run[r] EXCEPT !.dirty = FALSE]
<1>2. q \in RunState /\ q.step = run[r].step /\ q.node = run[r].node
      /\ q.thread = run[r].thread /\ q.pending = run[r].pending /\ q.seq = run[r].seq
  BY <1>1 DEF RunState
<1>3. run' = [run EXCEPT ![r] = q] /\ ckpt' = SavedBy(r) /\ UNCHANGED <<db, abandoning, faults>>
  BY DEF SaveCheckpoint
<1> HIDE DEF q
<1>4. Table' /\ Others(r) /\ run'[r] = q
  BY <1>1, <1>2, <1>3, Store
<1>5. CarryOK(run[r])' /\ StepOK(r)'
  BY <1>1, <1>2, <1>3, <1>4 DEF CarryOK, StepOK, HasAnswer, db
<1>6. CkptFrom(r) /\ ckpt' \in Checkpoint /\ abandoning' \in BOOLEAN /\ faults' \in Nat
  BY <1>1, <1>3, Saved DEF CkptFrom, SavedBy, TypeOK
<1> QED BY <1>3, <1>4, <1>5, <1>6, QuietStep

-----------------------------------------------------------------------------
(* node_interviewer's steps. *)

\* What the invariant says of the request that takes the step.
LEMMA KnownOf ==
  ASSUME SessionInv, NEW r \in Requests
  PROVE  /\ TypeOK /\ CarryOK(run[r]) /\ StepOK(r)
         /\ run[r] \in RunState /\ run[r].thread \in Topics \cup {NoThread}
         /\ run[r].seq \in Nat /\ run[r].followups \in Nat
BY DEF SessionInv, TypeOK, RunState

\* A quiet step to another step of the same node.
LEMMA GotoKeeps ==
  ASSUME SessionInv, NEW r \in Requests, NEW step \in Steps,
         Goto(r, step) \/ \E seq \in Nat : CountThenGoto(r, step, seq),
         UNCHANGED <<db, ckpt, abandoning, faults>>, StepOK(r)'
  PROVE  SessionInv'
<1>1. TypeOK /\ CarryOK(run[r])
  BY KnownOf
<1>2. Table' /\ Others(r) /\ run'[r].node = run[r].node /\ run'[r].thread = run[r].thread
      /\ run'[r].pending = run[r].pending
  BY <1>1, GotoStep, CountStep
<1>3. CarryOK(run[r])'
  BY <1>1, <1>2 DEF CarryOK, HasAnswer, db
<1>4. CkptFrom(r) /\ ckpt' \in Checkpoint /\ abandoning' \in BOOLEAN /\ faults' \in Nat
  BY <1>1 DEF CkptFrom, TypeOK
<1> QED BY <1>2, <1>3, <1>4, QuietStep

\* A quiet step into the next node.
LEMMA FinishKeeps ==
  ASSUME SessionInv, NEW r \in Requests, NEW next \in Nodes,
         NEW thread \in Topics \cup {NoThread}, NEW n \in Nat,
         FinishNode(r, next, thread, n), UNCHANGED <<db, abandoning, faults>>,
         thread # NoThread => tstatus[thread] # "none" /\ next # "interviewer",
         next \in {"await", "evaluator"} => thread # NoThread,
         next = "evaluator" => HasAnswer(thread)
  PROVE  SessionInv'
<1>1. TypeOK
  BY KnownOf
<1>2. Table' /\ Others(r) /\ run'[r].step = "start" /\ run'[r].node = next
      /\ run'[r].thread = thread /\ UNCHANGED ckpt
  BY <1>1, FinishStep
<1>3. CarryOK(run[r])' /\ StepOK(r)'
  BY <1>1, <1>2 DEF CarryOK, StepOK, HasAnswer, db
<1>4. CkptFrom(r) /\ ckpt' \in Checkpoint /\ abandoning' \in BOOLEAN /\ faults' \in Nat
  BY <1>1, <1>2 DEF CkptFrom, TypeOK
<1> QED BY <1>2, <1>3, <1>4, QuietStep

\* Counting before the insert: only a request with an answer and a thread does.
LEMMA TakeAnswerKeeps ==
  ASSUME SessionInv, NEW r \in Requests, TakeAnswer(r)
  PROVE  SessionInv'
<1>1. TypeOK /\ CarryOK(run[r]) /\ run[r].thread \in Topics \cup {NoThread}
      /\ run[r].node = "interviewer"
  BY KnownOf DEF TakeAnswer, AtNode
<1>2. CASE run[r].pending /\ run[r].thread # NoThread
  <2>1. Len(msgs[run[r].thread]) \in Nat
    BY <1>1, <1>2 DEF TypeOK
  <2>2. CountThenGoto(r, "answer", Len(msgs[run[r].thread]))
        /\ UNCHANGED <<db, ckpt, abandoning, faults>>
    BY <1>2 DEF TakeAnswer
  <2>3. "answer" \in Steps
    BY DEF Steps
  <2>4. StepOK(r)'
    BY <1>1, <1>2, <2>1, <2>2, <2>3, CountStep DEF StepOK
  <2> QED BY <2>1, <2>2, <2>3, <2>4, GotoKeeps
<1>3. CASE ~(run[r].pending /\ run[r].thread # NoThread)
  <2>1. run[r].thread = NoThread
    BY <1>1, <1>3 DEF CarryOK
  <2>2. Goto(r, "decide") /\ UNCHANGED <<db, ckpt, abandoning, faults>>
    BY <1>3 DEF TakeAnswer
  <2>3. "decide" \in Steps
    BY DEF Steps
  <2>4. StepOK(r)'
    BY <1>1, <2>1, <2>2, <2>3, GotoStep DEF StepOK
  <2> QED BY <2>2, <2>3, <2>4, GotoKeeps
<1> QED BY <1>2, <1>3

\* A message appended to an existing thread keeps the properties of the rows.
LEMMA AppendRows ==
  ASSUME SessionInv, NEW t \in Topics, NEW m \in Utterance, tstatus[t] # "none",
         Append1(t, m), UNCHANGED <<status, tstatus, judged>>
  PROVE  /\ msgs' \in [Topics -> Seq(Utterance)] /\ Grows
         /\ (TopicsInOrder /\ CompleteMeansAllScored /\ ScoredAfterAnAnswer
                /\ MessagesHaveThread)'
<1>1. TypeOK
  BY DEF SessionInv
<1>2. msgs' \in [Topics -> Seq(Utterance)]
  BY <1>1 DEF TypeOK, Append1
<1>3. Grows
  BY <1>1, AnswersStay DEF Grows
<1>4. (TopicsInOrder /\ CompleteMeansAllScored)'
  BY DEF SessionInv, TopicsInOrder, CompleteMeansAllScored, AllScored
<1>5. ScoredAfterAnAnswer'
  BY <1>3 DEF SessionInv, ScoredAfterAnAnswer, Grows
<1>6. MessagesHaveThread'
  BY <1>1 DEF SessionInv, MessagesHaveThread, Append1, TypeOK
<1> QED BY <1>2, <1>3, <1>4, <1>5, <1>6

\* The three inserts of a message share one shape: append and move on.
LEMMA AppendKeeps ==
  ASSUME SessionInv, NEW r \in Requests, NEW t \in Topics, NEW m \in Utterance,
         NEW step \in Steps, tstatus[t] # "none", Append1(t, m), Goto(r, step),
         UNCHANGED <<status, tstatus, judged, ckpt, abandoning, faults>>, StepOK(r)'
  PROVE  SessionInv'
<1>1. TypeOK /\ CarryOK(run[r]) /\ run[r].thread \in Topics \cup {NoThread}
  BY KnownOf
<1>2. msgs' \in [Topics -> Seq(Utterance)] /\ Grows
      /\ (TopicsInOrder /\ CompleteMeansAllScored /\ ScoredAfterAnAnswer
            /\ MessagesHaveThread)'
  BY AppendRows
<1>3. Table' /\ Others(r) /\ run'[r].node = run[r].node /\ run'[r].thread = run[r].thread
      /\ run'[r].pending = run[r].pending
  BY <1>1, GotoStep
<1>4. CarryOK(run[r])'
  BY <1>1, <1>2, <1>3 DEF CarryOK, Grows
<1>5. TypeOK' /\ CkptFrom(r)
  BY <1>1, <1>2, <1>3 DEF TypeOK, Table, CkptFrom
<1> QED BY <1>2, <1>3, <1>4, <1>5, RequestStep

\* The candidate's message is recorded in the thread the request carries.
LEMMA PersistAnswerKeeps ==
  ASSUME SessionInv, NEW r \in Requests, PersistAnswer(r)
  PROVE  SessionInv'
<1> DEFINE t == run[r].thread
<1>1. TypeOK /\ run[r].node = "interviewer" /\ t \in Topics /\ tstatus[t] # "none"
  BY KnownOf DEF PersistAnswer, At, StepOK, CarryOK
<1>2. CASE SeqFree(t, run[r].seq)
  <2>1. Append1(t, "candidate") /\ Goto(r, "decide")
        /\ UNCHANGED <<status, tstatus, judged, ckpt, abandoning, faults>>
    BY <1>2 DEF PersistAnswer
  <2>2. "candidate" \in Utterance /\ "decide" \in Steps
    BY DEF Utterance, Steps
  <2>3. run'[r].step = "decide" /\ run'[r].node = "interviewer" /\ run'[r].thread = t
    BY <1>1, <2>1, <2>2, GotoStep
  <2>4. HasAnswer(t)'
    BY <1>1, <2>1, <2>3, AnswerRecorded
  <2>5. StepOK(r)'
    BY <2>3, <2>4 DEF StepOK
  <2> QED BY <1>1, <2>1, <2>2, <2>5, AppendKeeps
<1>3. CASE ~SeqFree(t, run[r].seq)
  <2>1. Stop(r) /\ UNCHANGED <<db, abandoning, faults>>
    BY <1>3 DEF PersistAnswer, db
  <2> QED BY <1>1, <2>1, StopKeeps DEF TypeOK
<1> QED BY <1>2, <1>3

\* A thread is opened at the number of closed ones, which is a free topic or
\* one another request is opening, with every earlier topic closed.
LEMMA OpenThreadKeeps ==
  ASSUME SessionInv, NEW r \in Requests, OpenThread(r)
  PROVE  SessionInv'
<1>1. TypeOK /\ TopicsInOrder /\ run[r].node = "interviewer" /\ run[r].thread = NoThread
  BY KnownOf DEF OpenThread, At, StepOK, SessionInv
<1>2. CASE status = "active" /\ CountClosed < NQuestions
  <2>1. CountClosed \in Nat /\ CountClosed \in Topics
        /\ \A u \in Topics : u < CountClosed => tstatus[u] = "closed"
    BY <1>1, <1>2, ClosedPrefix, SessionAssumption DEF Topics
  <2>2. CountThenGoto(r, "open", CountClosed) /\ UNCHANGED <<db, ckpt, abandoning, faults>>
    BY <1>2 DEF OpenThread
  <2>3. "open" \in Steps
    BY DEF Steps
  <2>4. run'[r].step = "open" /\ run'[r].seq = CountClosed /\ run'[r].node = "interviewer"
        /\ run'[r].thread = NoThread
    BY <1>1, <2>1, <2>2, <2>3, CountStep
  <2>5. StepOK(r)'
    BY <2>1, <2>2, <2>4 DEF StepOK, db
  <2> QED BY <2>1, <2>2, <2>3, <2>5, GotoKeeps
<1>3. CASE ~(status = "active" /\ CountClosed < NQuestions)
  <2>1. Stop(r) /\ UNCHANGED <<db, abandoning, faults>>
    BY <1>3 DEF OpenThread
  <2> QED BY <1>1, <2>1, StopKeeps DEF TypeOK
<1> QED BY <1>2, <1>3

\* The unique index keeps two requests from opening the same topic, and the
\* topics before it are closed for good.
LEMMA CreateThreadKeeps ==
  ASSUME SessionInv, NEW r \in Requests, CreateThread(r)
  PROVE  SessionInv'
<1> DEFINE t == run[r].seq
<1>1. /\ TypeOK /\ run[r].node = "interviewer" /\ run[r].thread = NoThread
      /\ t \in Topics /\ \A u \in Topics : u < t => tstatus[u] = "closed"
  BY KnownOf DEF CreateThread, At, StepOK
<1>2. CASE IndexFree(t)
  <2>1. /\ tstatus' = [tstatus EXCEPT ![t] = "open"] /\ Goto(r, "root")
        /\ UNCHANGED <<status, msgs, judged, ckpt, abandoning, faults>>
        /\ tstatus[t] = "none"
    BY <1>2 DEF CreateThread, IndexFree
  <2>2. "root" \in Steps
    BY DEF Steps
  <2>3. Table' /\ Others(r) /\ run'[r].step = "root" /\ run'[r].node = "interviewer"
        /\ run'[r].thread = NoThread /\ run'[r].seq = t
    BY <1>1, <2>1, <2>2, GotoStep
  <2>4. tstatus' \in [Topics -> {"none", "open", "closed"}] /\ tstatus'[t] = "open"
        /\ \A u \in Topics \ {t} : tstatus'[u] = tstatus[u]
    BY <1>1, <2>1 DEF TypeOK
  <2> HIDE DEF t
  <2>5. TypeOK' /\ CkptFrom(r)
    BY <1>1, <2>1, <2>3, <2>4 DEF TypeOK, Table, CkptFrom
  <2>6. Grows
    BY <2>1, <2>4 DEF Grows, HasAnswer
  <2>7. TopicsInOrder'
    BY <1>1, <2>1, <2>4 DEF SessionInv, TopicsInOrder, Topics
  <2>8. CompleteMeansAllScored'
    BY <1>1, <2>1, <2>4 DEF SessionInv, CompleteMeansAllScored, AllScored
  <2>9. ScoredAfterAnAnswer' /\ MessagesHaveThread'
    BY <2>1, <2>4 DEF SessionInv, ScoredAfterAnAnswer, MessagesHaveThread, HasAnswer
  <2>10. CarryOK(run[r])' /\ StepOK(r)'
    BY <1>1, <2>3, <2>4 DEF CarryOK, StepOK
  <2> QED BY <2>3, <2>5, <2>6, <2>7, <2>8, <2>9, <2>10, RequestStep
<1>3. CASE ~IndexFree(t)
  <2>1. Stop(r) /\ UNCHANGED <<db, abandoning, faults>>
    BY <1>3 DEF CreateThread, db
  <2> QED BY <1>1, <2>1, StopKeeps DEF TypeOK
<1> QED BY <1>2, <1>3

\* The root question is stored in the thread just created.
LEMMA AppendRootKeeps ==
  ASSUME SessionInv, NEW r \in Requests, AppendRoot(r)
  PROVE  SessionInv'
<1> DEFINE t == run[r].seq
<1>1. /\ TypeOK /\ run[r].node = "interviewer" /\ run[r].thread = NoThread
      /\ t \in Topics /\ tstatus[t] # "none"
  BY KnownOf DEF AppendRoot, At, StepOK
<1>2. CASE SeqFree(t, 0)
  <2>1. Append1(t, "question") /\ Goto(r, "said")
        /\ UNCHANGED <<status, tstatus, judged, ckpt, abandoning, faults>>
    BY <1>2 DEF AppendRoot
  <2>2. "question" \in Utterance /\ "said" \in Steps
    BY DEF Utterance, Steps
  <2>3. run'[r].step = "said" /\ run'[r].node = "interviewer"
        /\ run'[r].thread = NoThread /\ run'[r].seq = t
    BY <1>1, <2>1, <2>2, GotoStep
  <2>4. StepOK(r)'
    BY <1>1, <2>1, <2>3 DEF StepOK
  <2> QED BY <1>1, <2>1, <2>2, <2>4, AppendKeeps
<1>3. CASE ~SeqFree(t, 0)
  <2>1. Stop(r) /\ UNCHANGED <<db, abandoning, faults>>
    BY <1>3 DEF AppendRoot, db
  <2> QED BY <1>1, <2>1, StopKeeps DEF TypeOK
<1> QED BY <1>2, <1>3

\* A thread leaves for the evaluator with the answer its request recorded.
LEMMA AdvanceKeeps ==
  ASSUME SessionInv, NEW r \in Requests, At(r, "decide"), run[r].thread # NoThread,
         Advance(r), UNCHANGED <<db, abandoning, faults>>
  PROVE  SessionInv'
<1>1. /\ run[r].thread \in Topics /\ tstatus[run[r].thread] # "none"
      /\ HasAnswer(run[r].thread) /\ run[r].followups \in Nat
  BY KnownOf DEF StepOK, CarryOK, At
<1>2. FinishNode(r, "evaluator", run[r].thread, run[r].followups) /\ "evaluator" \in Nodes
  BY DEF Advance, Nodes
<1> QED BY <1>1, <1>2, FinishKeeps

\* The conductor advances the thread or chooses a move in it.
LEMMA ConductKeeps ==
  ASSUME SessionInv, NEW r \in Requests, ForceAdvance(r) \/ Conduct(r)
  PROVE  SessionInv'
<1>1. /\ TypeOK /\ run[r].node = "interviewer" /\ run[r].thread \in Topics
      /\ run[r].thread # NoThread /\ At(r, "decide")
      /\ HasAnswer(run[r].thread)
  BY KnownOf DEF ForceAdvance, Conduct, At, StepOK
<1>2. CASE Advance(r)
  BY <1>1, <1>2, AdvanceKeeps DEF ForceAdvance, Conduct
<1>3. CASE CountThenGoto(r, "move", Len(msgs[run[r].thread])) /\ UNCHANGED ckpt
           /\ UNCHANGED <<db, abandoning, faults>>
  <2>1. Len(msgs[run[r].thread]) \in Nat /\ "move" \in Steps
    BY <1>1 DEF TypeOK, Steps
  <2>2. run'[r].step = "move" /\ run'[r].node = "interviewer"
        /\ run'[r].thread = run[r].thread
    BY <1>1, <1>3, <2>1, CountStep
  <2>3. StepOK(r)'
    BY <1>1, <1>3, <2>2 DEF StepOK, HasAnswer, db
  <2> QED BY <1>3, <2>1, <2>3, GotoKeeps
<1> QED BY <1>2, <1>3 DEF ForceAdvance, Conduct

\* A follow-up is stored in the thread the request carries.
LEMMA PersistMoveKeeps ==
  ASSUME SessionInv, NEW r \in Requests, PersistMove(r)
  PROVE  SessionInv'
<1> DEFINE t == run[r].thread
<1>1. /\ TypeOK /\ run[r].node = "interviewer" /\ t \in Topics /\ t # NoThread
      /\ tstatus[t] # "none"
  BY KnownOf DEF PersistMove, At, StepOK, CarryOK
<1>2. CASE SeqFree(t, run[r].seq)
  <2>1. Append1(t, "followup") /\ Goto(r, "said")
        /\ UNCHANGED <<status, tstatus, judged, ckpt, abandoning, faults>>
    BY <1>2 DEF PersistMove
  <2>2. "followup" \in Utterance /\ "said" \in Steps
    BY DEF Utterance, Steps
  <2>3. run'[r].step = "said" /\ run'[r].node = "interviewer" /\ run'[r].thread = t
    BY <1>1, <2>1, <2>2, GotoStep
  <2>4. StepOK(r)'
    BY <1>1, <2>3 DEF StepOK
  <2> QED BY <1>1, <2>1, <2>2, <2>4, AppendKeeps
<1>3. CASE ~SeqFree(t, run[r].seq)
  <2>1. Stop(r) /\ UNCHANGED <<db, abandoning, faults>>
    BY <1>3 DEF PersistMove, db
  <2> QED BY <1>1, <2>1, StopKeeps DEF TypeOK
<1> QED BY <1>2, <1>3

\* After a move the request waits in the thread it opened or carried.
LEMMA FinishMoveKeeps ==
  ASSUME SessionInv, NEW r \in Requests, FinishMove(r)
  PROVE  SessionInv'
<1>1. "await" \in Nodes /\ 0 \in Nat /\ run[r].followups + 1 \in Nat
      /\ UNCHANGED <<db, abandoning, faults>>
  BY KnownOf DEF Nodes, FinishMove
<1>2. CASE run[r].thread = NoThread
  <2>1. run[r].seq \in Topics /\ tstatus[run[r].seq] # "none"
        /\ FinishNode(r, "await", run[r].seq, 0)
    BY <1>2, KnownOf DEF FinishMove, At, StepOK
  <2>2. run[r].seq # NoThread
    BY <2>1, SessionAssumption DEF Topics, NoThread
  <2> QED BY <1>1, <2>1, <2>2, FinishKeeps
<1>3. CASE run[r].thread # NoThread
  <2>1. run[r].thread \in Topics /\ tstatus[run[r].thread] # "none"
        /\ FinishNode(r, "await", run[r].thread, run[r].followups + 1)
    BY <1>3, KnownOf DEF FinishMove, CarryOK
  <2> QED BY <1>1, <1>3, <2>1, FinishKeeps
<1> QED BY <1>2, <1>3

\* The interrupt marks the checkpoint paused and frees the slot.
LEMMA PauseKeeps ==
  ASSUME SessionInv, NEW r \in Requests, Pause(r)
  PROVE  SessionInv'
<1>1. TypeOK /\ ckpt \in Checkpoint
  BY DEF SessionInv, TypeOK
<1>2. run' = [run EXCEPT ![r] = Idle] /\ ckpt' \in {ckpt, [ckpt EXCEPT !.paused = TRUE]}
      /\ UNCHANGED <<db, abandoning, faults>>
  BY DEF Pause
<1>3. Table' /\ Others(r) /\ run'[r] = Idle
  BY <1>1, <1>2, IdleRecord, Store
<1>4. CarryOK(run[r])' /\ StepOK(r)'
  BY <1>3 DEF CarryOK, StepOK, Idle, NoThread
<1>5. ckpt' \in Checkpoint /\ CkptFrom(r)
  BY <1>1, <1>2 DEF Checkpoint, CkptFrom
<1>6. abandoning' \in BOOLEAN /\ faults' \in Nat
  BY <1>1, <1>2 DEF TypeOK
<1> QED BY <1>2, <1>3, <1>4, <1>5, <1>6, QuietStep

-----------------------------------------------------------------------------
(* node_evaluator's steps, and what goes wrong. *)

\* The judge is called for an open thread that carries an answer.
LEMMA StartJudgingKeeps ==
  ASSUME SessionInv, NEW r \in Requests, StartJudging(r)
  PROVE  SessionInv'
<1> DEFINE t == run[r].thread
<1>1. TypeOK /\ run[r].node = "evaluator" /\ t \in Topics
      /\ UNCHANGED <<db, abandoning, faults>>
  BY KnownOf DEF StartJudging, AtNode, CarryOK
<1>2. CASE Judgeable(t)
  <2>1. CountThenGoto(r, "judge", Len(msgs[t])) /\ UNCHANGED ckpt
    BY <1>2 DEF StartJudging
  <2>2. Len(msgs[t]) \in Nat /\ "judge" \in Steps
    BY <1>1 DEF TypeOK, Steps
  <2>3. run'[r].step = "judge" /\ run'[r].node = "evaluator"
    BY <1>1, <2>1, <2>2, CountStep
  <2>4. StepOK(r)'
    BY <2>3 DEF StepOK
  <2> QED BY <1>1, <2>1, <2>2, <2>4, GotoKeeps
<1>3. CASE ~Judgeable(t)
  <2>1. Stop(r)
    BY <1>3 DEF StartJudging
  <2> QED BY <1>1, <2>1, StopKeeps DEF TypeOK
<1> QED BY <1>2, <1>3

\* Closing an answered thread: it exists, so all earlier topics are closed.
LEMMA CloseThreadKeeps ==
  ASSUME SessionInv, NEW r \in Requests, CloseThread(r)
  PROVE  SessionInv'
<1> DEFINE t == run[r].thread
<1>1. /\ TypeOK /\ run[r].node = "evaluator" /\ t \in Topics /\ HasAnswer(t)
      /\ tstatus[t] # "none" /\ run[r].seq \in Nat
  BY KnownOf DEF CloseThread, At, StepOK, CarryOK
<1>2. /\ tstatus' = [tstatus EXCEPT ![t] = "closed"] /\ Goto(r, "flip")
      /\ judged' = [judged EXCEPT ![t] = run[r].seq]
      /\ UNCHANGED <<status, msgs, ckpt, abandoning, faults>>
  BY DEF CloseThread
<1>3. "flip" \in Steps
  BY DEF Steps
<1>4. Table' /\ Others(r) /\ run'[r].step = "flip" /\ run'[r].node = "evaluator"
      /\ run'[r].thread = t
  BY <1>1, <1>2, <1>3, GotoStep
<1>5. tstatus' \in [Topics -> {"none", "open", "closed"}] /\ tstatus'[t] = "closed"
      /\ \A u \in Topics \ {t} : tstatus'[u] = tstatus[u]
  BY <1>1, <1>2 DEF TypeOK
<1>6. judged' \in [Topics -> Nat]
  BY <1>1, <1>2 DEF TypeOK
<1> HIDE DEF t
<1>7. TypeOK' /\ CkptFrom(r)
  BY <1>1, <1>2, <1>4, <1>5, <1>6 DEF TypeOK, Table, CkptFrom
<1>8. Grows
  BY <1>2, <1>5 DEF Grows, HasAnswer
<1>9. TopicsInOrder'
  BY <1>1, <1>5 DEF SessionInv, TopicsInOrder
<1>10. CompleteMeansAllScored'
  BY <1>2, <1>5 DEF SessionInv, CompleteMeansAllScored, AllScored
<1>11. ScoredAfterAnAnswer' /\ MessagesHaveThread'
  BY <1>1, <1>2, <1>5 DEF SessionInv, ScoredAfterAnAnswer, MessagesHaveThread, HasAnswer
<1>12. CarryOK(run[r])' /\ StepOK(r)'
  <2>1. run'[r].thread = t /\ tstatus'[t] # "none" /\ run'[r].node = "evaluator"
        /\ t # NoThread
    BY <1>1, <1>4, <1>5, SessionAssumption DEF Topics, NoThread
  <2>2. CarryOK(run[r])'
    BY <1>1, <1>2, <2>1 DEF CarryOK, HasAnswer
  <2>3. StepOK(r)'
    BY <1>4 DEF StepOK
  <2> QED BY <2>2, <2>3
<1> QED BY <1>4, <1>7, <1>8, <1>9, <1>10, <1>11, <1>12, RequestStep

\* The session is set complete only when the count of closed threads has
\* reached n_questions, that is when every topic is closed.
LEMMA FlipStatusKeeps ==
  ASSUME SessionInv, NEW r \in Requests, FlipStatus(r)
  PROVE  SessionInv'
<1>1. /\ TypeOK /\ TopicsInOrder /\ CarryOK(run[r]) /\ run[r].node = "evaluator"
      /\ run[r].thread \in Topics \cup {NoThread}
  BY KnownOf DEF FlipStatus, At, StepOK, SessionInv
<1>2. /\ CountThenGoto(r, "judged", CountClosed)
      /\ UNCHANGED <<tstatus, msgs, judged, ckpt, abandoning, faults>>
      /\ status' = IF IsLast THEN "complete" ELSE status
  BY DEF FlipStatus
<1>3. CountClosed \in Nat /\ "judged" \in Steps
  BY <1>1, ClosedPrefix DEF Steps
<1>4. Table' /\ Others(r) /\ run'[r].step = "judged" /\ run'[r].node = "evaluator"
      /\ run'[r].thread = run[r].thread
  BY <1>1, <1>2, <1>3, CountStep
<1>5. TypeOK' /\ CkptFrom(r)
  BY <1>1, <1>2, <1>4 DEF TypeOK, Table, CkptFrom
<1>6. Grows
  BY <1>2 DEF Grows, HasAnswer
<1>7. IsLast => AllScored
  BY <1>1, ClosedPrefix DEF IsLast
<1>8. CompleteMeansAllScored'
  BY <1>2, <1>7 DEF SessionInv, CompleteMeansAllScored, AllScored
<1>9. (TopicsInOrder /\ ScoredAfterAnAnswer /\ MessagesHaveThread)'
  BY <1>2 DEF SessionInv, TopicsInOrder, ScoredAfterAnAnswer, MessagesHaveThread, HasAnswer
<1>10. CarryOK(run[r])' /\ StepOK(r)'
  BY <1>1, <1>4, <1>6 DEF CarryOK, StepOK, Grows
<1> QED BY <1>4, <1>5, <1>6, <1>8, <1>9, <1>10, RequestStep

\* After a verdict the request carries no thread.
LEMMA FinishJudgingKeeps ==
  ASSUME SessionInv, NEW r \in Requests, FinishJudging(r)
  PROVE  SessionInv'
<1> DEFINE next == IF run[r].seq >= NQuestions THEN "end" ELSE "interviewer"
<1>1. next \in Nodes \ {"await", "evaluator"} /\ NoThread \in Topics \cup {NoThread} /\ 0 \in Nat
  BY DEF Nodes
<1>2. FinishNode(r, next, NoThread, 0) /\ UNCHANGED <<db, abandoning, faults>>
  BY DEF FinishJudging
<1> HIDE DEF next
<1> QED BY <1>1, <1>2, FinishKeeps

\* Requests that end, fail or are cut off only stop.
LEMMA EndingsKeep ==
  ASSUME SessionInv, NEW r \in Requests, EndRun(r) \/ ModelFails(r) \/ CutOff(r)
  PROVE  SessionInv'
<1>1. TypeOK
  BY DEF SessionInv
<1>2. Stop(r) /\ UNCHANGED <<db, abandoning>> /\ faults' \in Nat
  BY <1>1 DEF EndRun, ModelFails, CutOff, Fault, TypeOK
<1> QED BY <1>1, <1>2, StopKeeps DEF TypeOK

\* Abandoning writes the session's status and nothing else.
LEMMA AbandonKeeps ==
  ASSUME SessionInv, AbandonRead \/ AbandonWrite
  PROVE  SessionInv'
<1>1. /\ UNCHANGED <<tstatus, msgs, judged, ckpt, run, faults>>
      /\ abandoning' \in BOOLEAN
      /\ status' \in {status, "abandoned"}
  BY DEF AbandonRead, AbandonWrite, db
<1>2. TypeOK'
  BY <1>1 DEF SessionInv, TypeOK
<1>3. (TopicsInOrder /\ CompleteMeansAllScored /\ ScoredAfterAnAnswer /\ MessagesHaveThread)'
  BY <1>1 DEF SessionInv, TopicsInOrder, CompleteMeansAllScored, AllScored,
              ScoredAfterAnAnswer, MessagesHaveThread, HasAnswer
<1>4. CarryOK(ckpt)' /\ \A r \in Requests : CarryOK(run[r])' /\ StepOK(r)'
  BY <1>1 DEF SessionInv, CarryOK, StepOK, HasAnswer
<1> QED BY <1>2, <1>3, <1>4 DEF SessionInv

\* A crash forgets the requests and keeps both stores.
LEMMA CrashKeeps ==
  ASSUME SessionInv, Crash
  PROVE  SessionInv'
<1>1. TypeOK /\ CarryOK(ckpt)
  BY DEF SessionInv
<1>2. /\ run' = [r \in Requests |-> Idle] /\ abandoning' = FALSE
      /\ faults' \in Nat /\ UNCHANGED <<db, ckpt>>
  BY <1>1 DEF Crash, Fault, TypeOK
<1>3. TypeOK'
  BY <1>1, <1>2, IdleRecord DEF TypeOK, db
<1>4. (TopicsInOrder /\ CompleteMeansAllScored /\ ScoredAfterAnAnswer /\ MessagesHaveThread)'
  BY <1>2 DEF SessionInv, TopicsInOrder, CompleteMeansAllScored, AllScored,
              ScoredAfterAnAnswer, MessagesHaveThread, HasAnswer, db
<1>5. CarryOK(ckpt)'
  BY <1>1, <1>2 DEF CarryOK, HasAnswer, db
<1>6. \A r \in Requests : CarryOK(run[r])' /\ StepOK(r)'
  BY <1>2 DEF CarryOK, StepOK, Idle, NoThread
<1> QED BY <1>3, <1>4, <1>5, <1>6 DEF SessionInv

-----------------------------------------------------------------------------
(* The invariant. *)

\* No step of any request, fault or abandon breaks the invariant.
LEMMA SessionStep ==
  ASSUME SessionInv, [Next]_vars
  PROVE  SessionInv'
<1>1. ASSUME NEW r \in Requests, Serve(r)
      PROVE  SessionInv'
  BY <1>1, ReadCheckpointKeeps, ResumeStreamKeeps, FreshStreamKeeps, SaveCheckpointKeeps,
     TakeAnswerKeeps, PersistAnswerKeeps, OpenThreadKeeps, CreateThreadKeeps,
     AppendRootKeeps, ConductKeeps, PersistMoveKeeps, FinishMoveKeeps, PauseKeeps,
     StartJudgingKeeps, CloseThreadKeeps, FlipStatusKeeps,
     FinishJudgingKeeps, EndingsKeep DEF Serve
<1>2. ASSUME NEW r \in Requests, NEW answer \in BOOLEAN, Post(r, answer)
      PROVE  SessionInv'
  BY <1>2, PostKeeps
<1>3. ASSUME NEW r \in Requests, ModelFails(r) \/ CutOff(r)
      PROVE  SessionInv'
  BY <1>3, EndingsKeep
<1>4. CASE AbandonRead \/ AbandonWrite
  BY <1>4, AbandonKeeps
<1>5. CASE Crash
  BY <1>5, CrashKeeps
<1>6. CASE UNCHANGED vars
  <2>1. TypeOK'
    BY <1>6 DEF SessionInv, TypeOK, vars, db
  <2>2. (TopicsInOrder /\ CompleteMeansAllScored /\ ScoredAfterAnAnswer /\ MessagesHaveThread)'
    BY <1>6 DEF SessionInv, TopicsInOrder, CompleteMeansAllScored, AllScored,
                ScoredAfterAnAnswer, MessagesHaveThread, HasAnswer, vars, db
  <2>3. CarryOK(ckpt)' /\ \A r \in Requests : CarryOK(run[r])' /\ StepOK(r)'
    BY <1>6 DEF SessionInv, CarryOK, StepOK, HasAnswer, vars, db
  <2> QED BY <2>1, <2>2, <2>3 DEF SessionInv
<1> QED BY <1>1, <1>2, <1>3, <1>4, <1>5, <1>6 DEF Next

\* A session starts with nothing said and nothing in flight.
LEMMA SessionStart == Init => SessionInv
<1> SUFFICES ASSUME Init PROVE SessionInv
  OBVIOUS
<1>1. NoCheckpoint \in Checkpoint
  BY DEF NoCheckpoint, Checkpoint, Nodes
<1>2. TypeOK
  <2>1. msgs \in [Topics -> Seq(Utterance)]
    BY DEF Init
  <2>2. tstatus \in [Topics -> {"none", "open", "closed"}] /\ judged \in [Topics -> Nat]
    BY DEF Init
  <2>3. run \in [Requests -> RunState] /\ ckpt \in Checkpoint
    BY <1>1, IdleRecord DEF Init
  <2> QED BY <2>1, <2>2, <2>3 DEF Init, TypeOK
<1>3. TopicsInOrder /\ CompleteMeansAllScored /\ ScoredAfterAnAnswer /\ MessagesHaveThread
  BY DEF Init, TopicsInOrder, CompleteMeansAllScored, ScoredAfterAnAnswer, MessagesHaveThread
<1>4. CarryOK(ckpt) /\ \A r \in Requests : CarryOK(run[r]) /\ StepOK(r)
  BY DEF Init, CarryOK, StepOK, NoCheckpoint, Idle, NoThread
<1> QED BY <1>2, <1>3, <1>4 DEF SessionInv

\* The inductive invariant: types, the three properties of the rows, and what
\* every request and the checkpoint know about the thread they carry.
THEOREM SessionInvariant == Spec => []SessionInv
<1>1. Init => SessionInv
  BY SessionStart
<1>2. SessionInv /\ [Next]_vars => SessionInv'
  BY SessionStep
<1> QED BY <1>1, <1>2, PTL DEF Spec

\* Topics are opened in order and one at a time (create_thread at the index
\* count_closed_threads returned), however many requests overlap.
THEOREM TopicsStayInOrder == Spec => []TopicsInOrder
<1>1. SessionInv => TopicsInOrder
  BY DEF SessionInv
<1> QED BY <1>1, SessionInvariant, PTL

\* A complete session has all its n_questions threads scored.
THEOREM CompletionIsEarned == Spec => []CompleteMeansAllScored
<1>1. SessionInv => CompleteMeansAllScored
  BY DEF SessionInv
<1> QED BY <1>1, SessionInvariant, PTL

\* The evaluator never closes a thread the candidate has not spoken in.
THEOREM NoScoreWithoutAnswer == Spec => []ScoredAfterAnAnswer
<1>1. SessionInv => ScoredAfterAnAnswer
  BY DEF SessionInv
<1> QED BY <1>1, SessionInvariant, PTL

-----------------------------------------------------------------------------
(* The session implements the ledger. *)

\* The phase of a topic in terms of its rows.
LEMMA PhaseOfRows ==
  ASSUME TypeOK, NEW t \in Topics
  PROVE  /\ tstatus[t] = "none" => Phase(t) = "pending"
         /\ tstatus[t] = "closed" => Phase(t) = "scored"
         /\ tstatus[t] = "open" /\ HasAnswer(t) => Phase(t) = "answered"
         /\ tstatus[t] = "open" /\ ~HasAnswer(t) => Phase(t) = "opened"
         /\ tstatus[t] \in {"none", "open", "closed"}
BY DEF Phase, TypeOK

\* A topic whose row and answers do not change stays in its phase.
LEMMA SamePhase ==
  ASSUME TypeOK, TypeOK', NEW t \in Topics, tstatus'[t] = tstatus[t],
         HasAnswer(t)' <=> HasAnswer(t)
  PROVE  Phase(t)' = Phase(t)
BY DEF Phase

\* A step of the ledger that moves topic t, from the rows before and after.
LEMMA LedgerMove ==
  ASSUME NEW t \in Topics, NEW to,
         \A u \in Topics \ {t} : Phase(u)' = Phase(u), Phase(t)' = to
  PROVE  [p \in Topics |-> Phase(p)]' = [[p \in Topics |-> Phase(p)] EXCEPT ![t] = to]
<1>1. [p \in Topics |-> Phase(p)]' = [u \in Topics |-> Phase(u)']
  OBVIOUS
<1>2. [[p \in Topics |-> Phase(p)] EXCEPT ![t] = to]
        = [u \in Topics |-> IF u = t THEN to ELSE Phase(u)]
  OBVIOUS
<1> QED BY <1>1, <1>2

\* A message moves its topic from opened to answered, or nowhere.
LEMMA AppendLedger ==
  ASSUME SessionInv, TypeOK', NEW t \in Topics, NEW m \in Utterance, tstatus[t] # "none",
         Append1(t, m), UNCHANGED <<status, tstatus>>
  PROVE  Ledger!Answer(t) \/ UNCHANGED <<[p \in Topics |-> Phase(p)], status>>
<1>1. TypeOK /\ ScoredAfterAnAnswer
  BY DEF SessionInv
<1>2. ASSUME NEW u \in Topics \ {t} PROVE Phase(u)' = Phase(u)
  <2>1. msgs'[u] = msgs[u]
    BY <1>1, <1>2 DEF Append1, TypeOK
  <2>2. HasAnswer(u)' <=> HasAnswer(u)
    BY <2>1 DEF HasAnswer
  <2> QED BY <1>1, <1>2, <2>2, SamePhase
<1>3. CASE HasAnswer(t)' <=> HasAnswer(t)
  <2>1. \A u \in Topics : Phase(u)' = Phase(u)
    BY <1>1, <1>2, <1>3, SamePhase
  <2> QED BY <2>1
<1>4. CASE ~(HasAnswer(t)' <=> HasAnswer(t))
  <2>1. HasAnswer(t)' /\ ~HasAnswer(t)
    BY <1>1, <1>4, AnswersStay
  <2>2. tstatus[t] = "open" /\ Phase(t) = "opened" /\ Phase(t)' = "answered"
    BY <1>1, <2>1, PhaseOfRows DEF ScoredAfterAnAnswer, Phase
  <2>3. [p \in Topics |-> Phase(p)]' = [[p \in Topics |-> Phase(p)] EXCEPT ![t] = "answered"]
    BY <1>2, <2>2, LedgerMove
  <2> QED BY <2>2, <2>3 DEF Ledger!Answer, Ledger!Move
<1> QED BY <1>3, <1>4

\* A step that touches no row leaves the ledger as it was.
LEMMA QuietLedger ==
  ASSUME SessionInv, TypeOK', UNCHANGED <<status, tstatus, msgs>>
  PROVE  UNCHANGED <<[p \in Topics |-> Phase(p)], status>>
<1>1. \A u \in Topics : Phase(u)' = Phase(u)
  BY DEF Phase, HasAnswer
<1> QED BY <1>1

\* Creating the thread of a topic opens it in the ledger.
LEMMA CreateThreadLedger ==
  ASSUME SessionInv, TypeOK', NEW r \in Requests, CreateThread(r)
  PROVE  (\E t \in Topics : Ledger!Open(t))
         \/ UNCHANGED <<[p \in Topics |-> Phase(p)], status>>
<1>1. PICK t \in Topics : t = run[r].seq /\ \A u \in Topics : u < t => tstatus[u] = "closed"
  BY KnownOf DEF CreateThread, At, StepOK
<1>2. TypeOK /\ MessagesHaveThread
  BY DEF SessionInv
<1>3. CASE IndexFree(t)
  <2>1. tstatus' = [tstatus EXCEPT ![t] = "open"] /\ UNCHANGED <<status, msgs>>
        /\ tstatus[t] = "none"
    BY <1>1, <1>3 DEF CreateThread, IndexFree
  <2>2. tstatus'[t] = "open" /\ \A u \in Topics \ {t} : tstatus'[u] = tstatus[u]
    BY <1>2, <2>1 DEF TypeOK
  <2>3. \A u \in Topics : HasAnswer(u)' <=> HasAnswer(u)
    BY <2>1 DEF HasAnswer
  <2>4. \A u \in Topics \ {t} : Phase(u)' = Phase(u)
    BY <1>2, <2>2, <2>3, SamePhase
  <2>5. ~HasAnswer(t)
    BY <1>2, <2>1 DEF MessagesHaveThread, HasAnswer
  <2>6. Phase(t) = "pending" /\ Phase(t)' = "opened"
    BY <1>2, <2>1, <2>2, <2>3, <2>5 DEF Phase
  <2>7. [p \in Topics |-> Phase(p)]' = [[p \in Topics |-> Phase(p)] EXCEPT ![t] = "opened"]
    BY <2>4, <2>6, LedgerMove
  <2>8. \A u \in Topics : u < t => Phase(u) = "scored"
    BY <1>1, <1>2, PhaseOfRows
  <2> QED BY <2>1, <2>6, <2>7, <2>8 DEF Ledger!Open, Ledger!Move
<1>4. CASE ~IndexFree(t)
  <2>1. UNCHANGED <<status, tstatus, msgs>>
    BY <1>1, <1>4 DEF CreateThread
  <2> QED BY <2>1, QuietLedger
<1> QED BY <1>3, <1>4

\* Closing a thread scores its topic, unless another request already has.
LEMMA CloseThreadLedger ==
  ASSUME SessionInv, TypeOK', NEW r \in Requests, CloseThread(r)
  PROVE  (\E t \in Topics : Ledger!Score(t))
         \/ UNCHANGED <<[p \in Topics |-> Phase(p)], status>>
<1>1. PICK t \in Topics : t = run[r].thread /\ HasAnswer(t) /\ tstatus[t] # "none"
  BY KnownOf DEF CloseThread, At, StepOK, CarryOK
<1>2. TypeOK
  BY DEF SessionInv
<1>3. tstatus' = [tstatus EXCEPT ![t] = "closed"] /\ UNCHANGED <<status, msgs>>
  BY <1>1 DEF CloseThread
<1>4. tstatus'[t] = "closed" /\ \A u \in Topics \ {t} : tstatus'[u] = tstatus[u]
  BY <1>2, <1>3 DEF TypeOK
<1>5. \A u \in Topics : HasAnswer(u)' <=> HasAnswer(u)
  BY <1>3 DEF HasAnswer
<1>6. \A u \in Topics \ {t} : Phase(u)' = Phase(u)
  BY <1>2, <1>4, <1>5, SamePhase
<1>7. Phase(t)' = "scored"
  BY <1>4 DEF Phase
<1>8. [p \in Topics |-> Phase(p)]' = [[p \in Topics |-> Phase(p)] EXCEPT ![t] = "scored"]
  BY <1>6, <1>7, LedgerMove
<1>9. Phase(t) \in {"answered", "scored"}
  BY <1>1, <1>2, PhaseOfRows
<1>10. CASE Phase(t) = "answered"
  BY <1>3, <1>8, <1>10 DEF Ledger!Score, Ledger!Move
<1>11. CASE Phase(t) = "scored"
  <2>1. \A u \in Topics : Phase(u)' = Phase(u)
    BY <1>6, <1>7, <1>11
  <2> QED BY <1>3, <2>1
<1> QED BY <1>9, <1>10, <1>11

\* Flipping the status wraps the ledger: its topics are all scored by then.
LEMMA FlipStatusLedger ==
  ASSUME SessionInv, TypeOK', NEW r \in Requests, FlipStatus(r)
  PROVE  Ledger!Wrap \/ UNCHANGED <<[p \in Topics |-> Phase(p)], status>>
<1>1. TypeOK /\ TopicsInOrder
  BY DEF SessionInv
<1>2. UNCHANGED <<tstatus, msgs>> /\ status' = IF IsLast THEN "complete" ELSE status
  BY DEF FlipStatus
<1>3. \A u \in Topics : Phase(u)' = Phase(u)
  BY <1>2 DEF Phase, HasAnswer
<1>4. [p \in Topics |-> Phase(p)]' = [p \in Topics |-> Phase(p)]
  BY <1>3
<1>5. CASE IsLast
  <2>1. AllScored
    BY <1>1, <1>5, ClosedPrefix DEF IsLast
  <2>2. \A t \in Topics : [p \in Topics |-> Phase(p)][t] = "scored"
    BY <1>1, <2>1, PhaseOfRows DEF AllScored
  <2> QED BY <1>2, <1>4, <1>5, <2>2 DEF Ledger!Wrap
<1>6. CASE ~IsLast
  BY <1>2, <1>4, <1>6
<1> QED BY <1>5, <1>6

\* Whatever a step of the session does, the ledger takes a step or stutters.
LEMMA LedgerStep ==
  ASSUME SessionInv, SessionInv', [Next]_vars
  PROVE  [Ledger!Next]_<<[p \in Topics |-> Phase(p)], status>>
<1>1. TypeOK /\ TypeOK'
  BY DEF SessionInv
<1>2. ASSUME NEW r \in Requests, PersistAnswer(r) \/ AppendRoot(r) \/ PersistMove(r)
      PROVE  [Ledger!Next]_<<[p \in Topics |-> Phase(p)], status>>
  <2>1. \/ UNCHANGED <<status, tstatus, msgs>>
        \/ \E t \in Topics, m \in Utterance :
             tstatus[t] # "none" /\ Append1(t, m) /\ UNCHANGED <<status, tstatus>>
    <3>1. CASE PersistAnswer(r)
      BY <3>1, KnownOf DEF PersistAnswer, At, StepOK, CarryOK, Utterance
    <3>2. CASE AppendRoot(r)
      BY <3>2, KnownOf DEF AppendRoot, At, StepOK, Utterance
    <3>3. CASE PersistMove(r)
      BY <3>3, KnownOf DEF PersistMove, At, StepOK, CarryOK, Utterance
    <3> QED BY <1>2, <3>1, <3>2, <3>3
  <2> QED BY <1>1, <2>1, QuietLedger, AppendLedger DEF Ledger!Next
<1>3. ASSUME NEW r \in Requests, CreateThread(r) \/ CloseThread(r) \/ FlipStatus(r)
      PROVE  [Ledger!Next]_<<[p \in Topics |-> Phase(p)], status>>
  BY <1>1, <1>3, CreateThreadLedger, CloseThreadLedger, FlipStatusLedger DEF Ledger!Next
<1>4. CASE AbandonWrite
  <2>1. status' = "abandoned" /\ UNCHANGED <<tstatus, msgs>>
    BY <1>4 DEF AbandonWrite
  <2>2. \A u \in Topics : Phase(u)' = Phase(u)
    BY <2>1 DEF Phase, HasAnswer
  <2> QED BY <2>1, <2>2 DEF Ledger!Next, Ledger!Abandon
<1>5. CASE UNCHANGED <<status, tstatus, msgs>>
  BY <1>1, <1>5, QuietLedger
<1>6. ASSUME NEW r \in Requests,
             \/ ReadCheckpoint(r) \/ ResumeStream(r) \/ FreshStream(r) \/ SaveCheckpoint(r)
             \/ TakeAnswer(r) \/ OpenThread(r) \/ ForceAdvance(r) \/ Conduct(r)
             \/ FinishMove(r) \/ Pause(r) \/ StartJudging(r) \/ FinishJudging(r)
             \/ EndRun(r) \/ ModelFails(r) \/ CutOff(r) \/ \E answer \in BOOLEAN : Post(r, answer)
      PROVE  UNCHANGED <<status, tstatus, msgs>>
  BY <1>6 DEF ReadCheckpoint, ResumeStream, FreshStream, SaveCheckpoint, TakeAnswer,
     OpenThread, ForceAdvance, Conduct, FinishMove, Pause, StartJudging, FinishJudging,
     EndRun,
     ModelFails, CutOff, Post, db
<1>7. CASE AbandonRead \/ Crash \/ UNCHANGED vars
  <2>1. UNCHANGED <<status, tstatus, msgs>>
    BY <1>7 DEF AbandonRead, Crash, vars, db
  <2> QED BY <2>1, <1>5
<1> QED BY <1>2, <1>3, <1>4, <1>5, <1>6, <1>7 DEF Next, Serve

\* InterviewSession implements InterviewLedger: however requests overlap, are
\* cut off or crash, a topic is opened after all earlier ones are scored, is
\* answered before it is scored, and the session completes over scored topics.
THEOREM Refinement == Spec => ImplementsLedger
<1>1. Init => Ledger!Init
  <2> SUFFICES ASSUME Init PROVE Ledger!Init
    OBVIOUS
  <2>1. \A t \in Topics : Phase(t) = "pending"
    BY DEF Init, Phase
  <2> QED BY <2>1 DEF Init, Ledger!Init
<1>2. SessionInv /\ SessionInv' /\ [Next]_vars
        => [Ledger!Next]_<<[t \in Topics |-> Phase(t)], status>>
  BY LedgerStep
<1>3. Spec => Ledger!Init /\ [][Ledger!Next]_<<[t \in Topics |-> Phase(t)], status>>
  BY <1>1, <1>2, SessionInvariant, PTL DEF Spec
<1>4. Ledger!Init /\ [][Ledger!Next]_<<[t \in Topics |-> Phase(t)], status>> => Ledger!Spec
  BY PTL DEF Ledger!Spec
<1>5. Ledger!Spec => ImplementsLedger
  BY PTL DEF ImplementsLedger
<1> QED BY <1>3, <1>4, <1>5, PTL

-----------------------------------------------------------------------------
(* Requests that follow one another, with model failures, disconnects,     *)
(* crashes and unreadable checkpoints between and inside them.             *)

\* The newest open thread (repos.get_open_thread) is the only one.
LEMMA OneOpenThread ==
  ASSUME TopicsInOrder, NEW t \in Topics, tstatus[t] = "open"
  PROVE  OpenThreads = {t} /\ Adoptable = {t}
<1>1. OpenThreads = {t}
  <2> SUFFICES ASSUME NEW u \in Topics, tstatus[u] = "open" PROVE u = t
    BY DEF OpenThreads
  <2>1. ~(u < t) /\ ~(t < u)
    BY DEF TopicsInOrder
  <2> QED BY <2>1, SessionAssumption DEF Topics
<1>2. t <= t
  BY SessionAssumption DEF Topics
<1> QED BY <1>1, <1>2 DEF Adoptable

\* Nothing is adopted only when nothing is open.
LEMMA NothingToAdopt ==
  ASSUME TopicsInOrder, Adoptable = {}
  PROVE  OpenThreads = {}
<1> SUFFICES ASSUME NEW t \in OpenThreads PROVE FALSE
  OBVIOUS
<1> QED BY OneOpenThread DEF OpenThreads

\* The count of follow-ups is a number.
LEMMA FollowupsType ==
  ASSUME TypeOK, NEW t \in Topics
  PROVE  FollowupsIn(t) \in Nat
<1> DEFINE F == {k \in 1 .. Len(msgs[t]) : msgs[t][k] = "followup"}
<1>1. IsFiniteSet(1 .. Len(msgs[t])) /\ F \subseteq 1 .. Len(msgs[t])
  BY FS_Interval DEF TypeOK
<1>2. IsFiniteSet(F)
  BY <1>1, FS_Subset
<1> HIDE DEF F
<1>3. Cardinality(F) \in Nat
  BY <1>2, FS_CardinalityType
<1> QED BY <1>3 DEF FollowupsIn, F

\* A message adds one to the follow-ups of its thread, or nothing.
LEMMA FollowupsGrow ==
  ASSUME TypeOK, NEW t \in Topics, NEW m \in Utterance, Append1(t, m)
  PROVE  FollowupsIn(t)' = FollowupsIn(t) + IF m = "followup" THEN 1 ELSE 0
<1> DEFINE n == Len(msgs[t])
           F == {k \in 1 .. n : msgs[t][k] = "followup"}
<1>1. n \in Nat /\ msgs'[t] = Append(msgs[t], m) /\ msgs[t] \in Seq(Utterance)
  BY DEF TypeOK, Append1
<1>2. /\ Len(msgs'[t]) = n + 1 /\ msgs'[t][n + 1] = m
      /\ \A k \in 1 .. n : msgs'[t][k] = msgs[t][k]
  BY <1>1
<1>3. IsFiniteSet(F) /\ Cardinality(F) \in Nat
  <2>1. F \subseteq 1 .. n
    OBVIOUS
  <2> HIDE DEF n, F
  <2>2. IsFiniteSet(1 .. n)
    BY <1>1, FS_Interval
  <2> QED BY <2>1, <2>2, FS_Subset, FS_CardinalityType
<1>4. n + 1 \notin F
  BY <1>1
<1>5. {k \in 1 .. Len(msgs'[t]) : msgs'[t][k] = "followup"}
        = IF m = "followup" THEN F \cup {n + 1} ELSE F
  BY <1>1, <1>2
<1>6. FollowupsIn(t)' = Cardinality(IF m = "followup" THEN F \cup {n + 1} ELSE F)
  BY <1>5 DEF FollowupsIn
<1>7. FollowupsIn(t) = Cardinality(F)
  BY DEF FollowupsIn
<1>8. n + 1 \notin F => Cardinality(F \cup {n + 1}) = Cardinality(F) + 1
  BY <1>3, FS_AddElement
<1> HIDE DEF n, F
<1> QED BY <1>3, <1>4, <1>6, <1>7, <1>8

\* The count recovered from a transcript (followups_used of an adopted thread)
\* misses a follow-up only if the root question is missing.
LEMMA AdoptedBound ==
  ASSUME TypeOK, NEW t \in Topics, NEW lost \in Nat, HasRoot(t) \/ lost > 0
  PROVE  FollowupsIn(t) <= AdoptedFollowups(t) + lost
<1> DEFINE n == Len(msgs[t])
           F == {k \in 1 .. n : msgs[t][k] = "followup"}
           I == Interviewer(t)
<1>1. n \in Nat /\ msgs[t] \in Seq(Utterance)
  BY DEF TypeOK
<1>2. F \subseteq I /\ I \subseteq 1 .. n
  BY DEF Interviewer
<1>3. IsFiniteSet(I) /\ Cardinality(I) \in Nat /\ Cardinality(F) \in Nat
      /\ Cardinality(F) <= Cardinality(I)
  <2>1. IsFiniteSet(1 .. n)
    <3> HIDE DEF n
    <3> QED BY <1>1, FS_Interval
  <2> QED BY <1>2, <2>1, FS_Subset, FS_CardinalityType
<1>4. HasRoot(t) => Cardinality(F) <= Cardinality(I) - 1
  <2> SUFFICES ASSUME HasRoot(t) PROVE Cardinality(F) <= Cardinality(I) - 1
    OBVIOUS
  <2>1. 1 \in I /\ 1 \notin F
    BY <1>1 DEF HasRoot, Interviewer
  <2> HIDE DEF F, I
  <2>2. F \subseteq I \ {1}
    BY <1>2, <2>1
  <2>3. IsFiniteSet(I \ {1}) /\ Cardinality(I \ {1}) = Cardinality(I) - 1
    BY <1>3, <2>1, FS_RemoveElement
  <2> QED BY <2>2, <2>3, FS_Subset
<1>5. FollowupsIn(t) = Cardinality(F)
  BY DEF FollowupsIn
<1>6. AdoptedFollowups(t) = IF Cardinality(I) = 0 THEN 0 ELSE Cardinality(I) - 1
  BY DEF AdoptedFollowups
<1> HIDE DEF F, I, n
<1> QED BY <1>3, <1>4, <1>5, <1>6

\* What was lost is not found again.
LEMMA LostGrows ==
  ASSUME TypeOK, faults' \in {faults, faults + 1}
  PROVE  Lost \in Nat /\ Lost' \in Nat /\ Lost <= Lost'
BY DEF TypeOK, Lost

-----------------------------------------------------------------------------
(* What every step of the one request has in common. *)

\* A step between two states of the session, from one where TurnInv holds.
Turn == SessionInv /\ SessionInv' /\ TurnInv /\ SingleRequest

\* What TurnInv says of a paused checkpoint, and of a thread's root question.
PauseOK ==
  ckpt.paused =>
    /\ ckpt.node = "await" /\ OpenThreads = {ckpt.thread}
    /\ FollowupsIn(ckpt.thread) <= ckpt.followups + Lost
         + IF \E r \in Requests : At(r, "said") THEN 1 ELSE 0
RootOK ==
  \A t \in Topics : tstatus[t] # "none" =>
    HasRoot(t) \/ Lost > 0 \/ \E r \in Requests : At(r, "root") /\ run[r].seq = t
CapOK == \A t \in Topics : FollowupsIn(t) <= MaxFollowups + Lost

\* What the invariants say of the request that takes the step.
LEMMA TurnKnown ==
  ASSUME Turn, NEW r \in Requests
  PROVE  /\ TypeOK /\ TypeOK' /\ CarryOK(run[r]) /\ StepOK(r) /\ TurnOK(r) /\ BudgetOK(r)
         /\ run[r] \in RunState /\ run[r].thread \in Topics \cup {NoThread}
         /\ run[r].seq \in Nat /\ run[r].followups \in Nat
         /\ CarryOK(ckpt) /\ ckpt.thread \in Topics \cup {NoThread} /\ ckpt.followups \in Nat
         /\ TopicsInOrder /\ NoThread \notin Topics
         /\ InterviewerWaitsForAnswer /\ VerdictCoversTranscript
         /\ PauseOK /\ RootOK /\ CapOK
<1>1. SessionInv /\ TypeOK' /\ WordInv /\ BudgetInv
  BY DEF Turn, SessionInv, TurnInv
<1>2. NoThread \notin Topics
  BY SessionAssumption DEF NoThread, Topics
<1>3. ckpt.thread \in Topics \cup {NoThread} /\ ckpt.followups \in Nat
  BY <1>1 DEF SessionInv, TypeOK, Checkpoint
<1>4. CarryOK(ckpt) /\ TopicsInOrder
  BY <1>1 DEF SessionInv
<1>5. PauseOK /\ RootOK /\ CapOK
  BY <1>1 DEF WordInv, BudgetInv, PauseOK, RootOK, CapOK
<1>6. TurnOK(r) /\ BudgetOK(r) /\ InterviewerWaitsForAnswer /\ VerdictCoversTranscript
  BY <1>1 DEF WordInv, BudgetInv
<1> QED BY <1>1, <1>2, <1>3, <1>4, <1>5, <1>6, KnownOf

\* There is no other request whose knowledge the step could spoil.
LEMMA TurnStep ==
  ASSUME SingleRequest, NEW r \in Requests, TurnOK(r)', BudgetOK(r)',
         (InterviewerWaitsForAnswer /\ VerdictCoversTranscript /\ PauseOK /\ RootOK /\ CapOK)'
  PROVE  TurnInv'
<1>1. \A s \in Requests : s = r
  BY DEF SingleRequest
<1>2. \A s \in Requests : TurnOK(s)' /\ BudgetOK(s)'
  BY <1>1
<1>3. WordInv'
  BY <1>2 DEF WordInv, PauseOK
<1>4. BudgetInv'
  BY <1>2 DEF BudgetInv, PauseOK, RootOK, CapOK
<1> QED BY <1>3, <1>4 DEF TurnInv

\* What the properties say of rows that do not change.
LEMMA SameRows ==
  ASSUME UNCHANGED <<tstatus, msgs, judged>>
  PROVE  /\ \A t \in Topics : /\ FollowupsIn(t)' = FollowupsIn(t)
                              /\ HasRoot(t)' <=> HasRoot(t)
                              /\ CandidateSpokeLast(t)' <=> CandidateSpokeLast(t)
         /\ OpenThreads' = OpenThreads
         /\ InterviewerWaitsForAnswer => InterviewerWaitsForAnswer'
         /\ VerdictCoversTranscript => VerdictCoversTranscript'
BY DEF FollowupsIn, HasRoot, CandidateSpokeLast, OpenThreads,
       InterviewerWaitsForAnswer, VerdictCoversTranscript

\* A step that leaves threads and messages alone.
LEMMA QuietTurn ==
  ASSUME Turn, NEW r \in Requests, UNCHANGED <<tstatus, msgs, judged>>,
         faults' \in {faults, faults + 1},
         ~ckpt'.paused \/ (ckpt' = ckpt /\ (At(r, "said") => At(r, "said")')),
         At(r, "root") => Lost' > 0 \/ (At(r, "root")' /\ run'[r].seq = run[r].seq),
         TurnOK(r)', BudgetOK(r)'
  PROVE  TurnInv'
<1>1. /\ TypeOK /\ InterviewerWaitsForAnswer /\ VerdictCoversTranscript
      /\ PauseOK /\ RootOK /\ CapOK /\ CarryOK(ckpt)
      /\ ckpt.thread \in Topics \cup {NoThread} /\ ckpt.followups \in Nat
  BY TurnKnown
<1>2. Lost \in Nat /\ Lost' \in Nat /\ Lost <= Lost'
  BY <1>1, LostGrows
<1>3. \A t \in Topics : FollowupsIn(t) \in Nat
  BY <1>1, FollowupsType
<1>4. \A s \in Requests : s = r
  BY DEF Turn, SingleRequest
<1>5. CapOK'
  BY <1>1, <1>2, <1>3, SameRows, SessionAssumption DEF CapOK
<1>6. RootOK'
  <2> SUFFICES ASSUME NEW t \in Topics, tstatus[t] # "none", ~HasRoot(t), ~(Lost' > 0)
               PROVE  \E s \in Requests : At(s, "root")' /\ run'[s].seq = t
    BY SameRows DEF RootOK
  <2>1. At(r, "root") /\ run[r].seq = t
    BY <1>1, <1>2, <1>4 DEF RootOK
  <2> QED BY <2>1
<1>7. PauseOK'
  <2> SUFFICES ASSUME ckpt'.paused, ckpt' = ckpt, At(r, "said") => At(r, "said")'
               PROVE  PauseOK'
    BY DEF PauseOK
  <2>1. ckpt.thread \in Topics
    BY <1>1 DEF PauseOK, CarryOK
  <2>2. (\E s \in Requests : At(s, "said")) => (\E s \in Requests : At(s, "said")')
    BY <1>4
  <2> DEFINE d == IF \E s \in Requests : At(s, "said") THEN 1 ELSE 0
  <2>3. d \in Nat /\ d' \in Nat /\ d <= d'
    BY <2>2
  <2>4. FollowupsIn(ckpt.thread) <= ckpt.followups + Lost + d
    BY <1>1 DEF PauseOK
  <2> HIDE DEF d
  <2>5. FollowupsIn(ckpt.thread)' <= ckpt'.followups + Lost' + d'
    BY <1>1, <1>2, <1>3, <2>1, <2>3, <2>4, SameRows
  <2>6. ckpt'.node = "await" /\ OpenThreads' = {ckpt'.thread}
    BY <1>1, SameRows DEF PauseOK
  <2> QED BY <2>5, <2>6 DEF PauseOK, d
<1>8. (InterviewerWaitsForAnswer /\ VerdictCoversTranscript)'
  BY <1>1, SameRows
<1> QED BY <1>5, <1>6, <1>7, <1>8, TurnStep DEF Turn

\* A request that stops with the rows as they are leaves at most its queued
\* checkpoint behind, and that one is not paused.
LEMMA StopTurn ==
  ASSUME Turn, NEW r \in Requests, Stop(r), UNCHANGED <<tstatus, msgs, judged>>,
         faults' \in {faults, faults + 1}, At(r, "root") => Lost' > 0
  PROVE  TurnInv'
<1>1. TypeOK /\ TurnOK(r)
  BY TurnKnown
<1>2. run'[r] = Idle
  BY <1>1, StopStep
<1>3. ~ckpt'.paused \/ (ckpt' = ckpt /\ (At(r, "said") => At(r, "said")'))
  <2>1. CASE run[r].dirty
    BY <2>1 DEF Stop, SavedBy
  <2>2. CASE ~run[r].dirty
    BY <1>1, <2>2 DEF Stop, TurnOK, At
  <2> QED BY <2>1, <2>2
<1>4. TurnOK(r)'
  BY <1>2 DEF TurnOK, At, Idle
<1>5. BudgetOK(r)'
  BY <1>2 DEF BudgetOK, At, Idle
<1> QED BY <1>3, <1>4, <1>5, QuietTurn

-----------------------------------------------------------------------------
(* The route's steps. *)

\* Accepting a message.
LEMMA PostTurn ==
  ASSUME Turn, NEW r \in Requests, NEW answer \in BOOLEAN, Post(r, answer)
  PROVE  TurnInv'
<1> DEFINE q == [Idle EXCEPT !.step = "accepted", !.answer = answer]
<1>1. TypeOK
  BY TurnKnown
<1>2. q \in RunState /\ q.step = "accepted" /\ ~q.dirty
  BY IdleRecord DEF Idle, RunState, Steps
<1>3. run' = [run EXCEPT ![r] = q] /\ UNCHANGED <<db, ckpt, faults>> /\ At(r, "idle")
  BY DEF Post
<1> HIDE DEF q
<1>4. run'[r] = q
  BY <1>1, <1>2, <1>3, Store
<1>5. TurnOK(r)' /\ BudgetOK(r)'
  BY <1>2, <1>4 DEF TurnOK, BudgetOK, At, AtNode
<1> QED BY <1>3, <1>5, QuietTurn DEF db, At

\* Only a paused checkpoint is resumed.
LEMMA ReadCheckpointTurn ==
  ASSUME Turn, NEW r \in Requests, ReadCheckpoint(r)
  PROVE  TurnInv'
<1>1. TypeOK /\ At(r, "accepted") /\ UNCHANGED <<db, ckpt>> /\ faults' \in {faults, faults + 1}
  BY TurnKnown DEF ReadCheckpoint, Fault
<1>2. /\ ~run'[r].dirty
      /\ \/ run'[r].step = "resume" /\ ckpt.paused
         \/ run'[r].step \in {"fresh", "idle"}
  <2> "resume" \in Steps /\ "fresh" \in Steps
    BY DEF Steps
  <2> ~run[r].dirty
    BY <1>1, TurnKnown DEF TurnOK, At
  <2>1. CASE Goto(r, "resume") /\ ckpt.paused
    BY <1>1, <2>1, GotoStep
  <2>2. CASE Goto(r, "fresh")
    BY <1>1, <2>2, GotoStep
  <2>3. CASE run' = [run EXCEPT ![r] = Idle]
    <3>1. run'[r] = Idle
      BY <1>1, <2>3, IdleRecord, Store
    <3> QED BY <3>1 DEF Idle
  <2> QED BY <2>1, <2>2, <2>3 DEF ReadCheckpoint, IsPaused
<1>3. TurnOK(r)' /\ BudgetOK(r)'
  BY <1>1, <1>2 DEF TurnOK, BudgetOK, At, AtNode
<1> QED BY <1>1, <1>3, QuietTurn DEF db, At

\* A resumed request takes over the thread and the count of the pause.
LEMMA ResumeStreamTurn ==
  ASSUME Turn, NEW r \in Requests, ResumeStream(r)
  PROVE  TurnInv'
<1>1. /\ TypeOK /\ run[r] \in RunState /\ At(r, "resume") /\ TurnOK(r) /\ PauseOK
      /\ CarryOK(ckpt) /\ ckpt.thread \in Topics \cup {NoThread} /\ ckpt.followups \in Nat
      /\ ckpt \in Checkpoint
  BY TurnKnown DEF ResumeStream, TypeOK
<1>2. /\ ckpt.paused /\ ckpt.node = "await" /\ ckpt.thread # NoThread /\ ckpt.thread \in Topics
      /\ OpenThreads = {ckpt.thread}
  BY <1>1 DEF TurnOK, PauseOK, CarryOK
<1>3. FollowupsIn(ckpt.thread) <= ckpt.followups + Lost
  <2>1. \A s \in Requests : ~At(s, "said")
    BY <1>1 DEF Turn, SingleRequest, At
  <2>2. FollowupsIn(ckpt.thread) \in Nat /\ Lost \in Nat
    BY <1>1, <1>2, FollowupsType DEF Lost, TypeOK
  <2> QED BY <1>1, <1>2, <2>1, <2>2 DEF PauseOK
<1> DEFINE q == [run[r] EXCEPT !.step = "start", !.node = "interviewer",
                     !.thread = ckpt.thread, !.followups = ckpt.followups,
                     !.pending = TRUE, !.dirty = TRUE]
<1>4. run' = [run EXCEPT ![r] = q] /\ UNCHANGED <<db, ckpt, abandoning, faults>>
  <2>1. (ckpt.pending \/ ckpt.node = "await") = TRUE
    BY <1>2
  <2> QED BY <1>2, <2>1 DEF ResumeStream
<1>5. q \in RunState
  BY <1>1, <1>2 DEF RunState, Steps, Nodes
<1>6. q.step = "start" /\ q.node = "interviewer" /\ q.thread = ckpt.thread
      /\ q.followups = ckpt.followups /\ q.dirty
  BY <1>1 DEF RunState
<1> HIDE DEF q
<1>7. run'[r] = q
  BY <1>1, <1>4, <1>5, Store
<1>8. UNCHANGED <<tstatus, msgs, judged, ckpt, faults>>
  BY <1>4 DEF db
<1>9. TurnOK(r)'
  <2>1. Held(r)' = {ckpt.thread}
    BY <1>2, <1>6, <1>7 DEF Held
  <2> QED BY <1>2, <1>6, <1>7, <1>8, <2>1, SameRows DEF TurnOK, At, AtNode
<1>10. BudgetOK(r)'
  BY <1>2, <1>3, <1>6, <1>7, <1>8, SameRows DEF BudgetOK, At, Lost
<1> QED BY <1>1, <1>8, <1>9, <1>10, QuietTurn DEF At

\* A fresh request adopts the one open thread with a recovered count, or finds
\* none and then no pause either.
LEMMA FreshStreamTurn ==
  ASSUME Turn, NEW r \in Requests, FreshStream(r)
  PROVE  TurnInv'
<1>1. /\ TypeOK /\ run[r] \in RunState /\ At(r, "fresh") /\ PauseOK /\ RootOK
      /\ TopicsInOrder /\ NoThread \notin Topics
  BY TurnKnown DEF FreshStream
<1> DEFINE begin(thread, followups) ==
        [run[r] EXCEPT !.step = "start", !.node = "interviewer", !.thread = thread,
           !.followups = followups, !.pending = thread # NoThread, !.dirty = TRUE]
<1>2. ASSUME NEW thread \in Topics \cup {NoThread}, NEW n \in Nat
      PROVE  /\ begin(thread, n) \in RunState
             /\ begin(thread, n).step = "start" /\ begin(thread, n).thread = thread
             /\ begin(thread, n).node = "interviewer" /\ begin(thread, n).followups = n
             /\ begin(thread, n).dirty
  BY <1>1 DEF RunState, Steps, Nodes
<1>3. UNCHANGED <<tstatus, msgs, judged, ckpt, faults>>
  BY DEF FreshStream, db
<1>4. \/ Adoptable = {} /\ run' = [run EXCEPT ![r] = begin(NoThread, 0)]
      \/ \E t \in Adoptable : run' = [run EXCEPT ![r] = begin(t, AdoptedFollowups(t))]
      \/ run' = [run EXCEPT ![r] = Idle]
  BY DEF FreshStream
<1> HIDE DEF begin
<1>5. CASE Adoptable = {} /\ run' = [run EXCEPT ![r] = begin(NoThread, 0)]
  <2>1. OpenThreads = {} /\ ~ckpt.paused
    BY <1>1, <1>5, NothingToAdopt DEF PauseOK
  <2>2. run'[r] = begin(NoThread, 0)
    <3>1. begin(NoThread, 0) \in RunState
      BY <1>2
    <3> QED BY <1>1, <1>5, <3>1, Store
  <2>3. Held(r)' = {}
    BY <1>2, <2>2 DEF Held
  <2>4. run'[r].step = "start" /\ run'[r].thread = NoThread /\ run'[r].node = "interviewer"
    BY <1>2, <2>2
  <2>5. TurnOK(r)'
    <3>1. ~ckpt'.paused /\ OpenThreads' = {}
      BY <1>3, <2>1, SameRows
    <3> QED BY <2>3, <2>4, <3>1 DEF TurnOK, At, AtNode
  <2>6. BudgetOK(r)'
    BY <2>4 DEF BudgetOK, At
  <2> QED BY <1>1, <1>3, <2>5, <2>6, QuietTurn DEF At
<1>6. ASSUME NEW t \in Adoptable, run' = [run EXCEPT ![r] = begin(t, AdoptedFollowups(t))]
      PROVE  TurnInv'
  <2>1. t \in Topics /\ t # NoThread /\ tstatus[t] = "open" /\ AdoptedFollowups(t) \in Nat
    BY <1>1, AdoptedType DEF Adoptable, OpenThreads
  <2>2. OpenThreads = {t}
    BY <1>1, <2>1, OneOpenThread
  <2>3. PICK n \in Nat : n = AdoptedFollowups(t)
    BY <2>1
  <2>4. Lost \in Nat /\ (HasRoot(t) \/ Lost > 0)
    <3>1. \A s \in Requests : ~At(s, "root")
      BY <1>1 DEF Turn, SingleRequest, At
    <3> QED BY <1>1, <2>1, <3>1 DEF RootOK, Lost, TypeOK
  <2>5. FollowupsIn(t) <= n + Lost
    BY <1>1, <2>1, <2>3, <2>4, AdoptedBound
  <2>6. run' = [run EXCEPT ![r] = begin(t, n)]
    BY <1>6, <2>3
  <2>7. run'[r] = begin(t, n)
    <3>1. begin(t, n) \in RunState
      BY <1>2, <2>1
    <3> QED BY <1>1, <2>6, <3>1, Store
  <2>8. Held(r)' = {t}
    BY <1>2, <2>1, <2>7 DEF Held
  <2>9. TurnOK(r)'
    BY <1>1, <1>2, <1>3, <2>1, <2>2, <2>7, <2>8, SameRows DEF TurnOK, At, AtNode, PauseOK
  <2>10. BudgetOK(r)'
    BY <1>2, <1>3, <2>1, <2>5, <2>7, SameRows DEF BudgetOK, At, Lost
  <2> QED BY <1>1, <1>3, <2>9, <2>10, QuietTurn DEF At
<1>7. CASE run' = [run EXCEPT ![r] = Idle]
  <2>1. run'[r] = Idle
    BY <1>1, <1>7, IdleRecord, Store
  <2>2. TurnOK(r)' /\ BudgetOK(r)'
    BY <2>1 DEF TurnOK, BudgetOK, At, AtNode, Idle
  <2> QED BY <1>1, <1>3, <2>2, QuietTurn DEF At
<1> QED BY <1>4, <1>5, <1>6, <1>7

\* The checkpoint that is written replaces the pause.
LEMMA SaveCheckpointTurn ==
  ASSUME Turn, NEW r \in Requests, SaveCheckpoint(r)
  PROVE  TurnInv'
<1>1. TypeOK /\ run[r] \in RunState /\ TurnOK(r) /\ BudgetOK(r)
      /\ run[r].thread \in Topics \cup {NoThread}
  BY TurnKnown
<1> DEFINE q == [run[r] EXCEPT !.dirty = FALSE]
<1>2. q \in RunState /\ q.step = run[r].step /\ q.node = run[r].node /\ ~q.dirty
      /\ q.thread = run[r].thread /\ q.followups = run[r].followups /\ q.seq = run[r].seq
  BY <1>1 DEF RunState
<1>3. run' = [run EXCEPT ![r] = q] /\ ckpt' = SavedBy(r)
      /\ UNCHANGED <<tstatus, msgs, judged, faults>>
  BY DEF SaveCheckpoint, db
<1> HIDE DEF q
<1>4. run'[r] = q
  BY <1>1, <1>2, <1>3, Store
<1>5. ~ckpt'.paused /\ ckpt'.node = run[r].node /\ ckpt'.thread = run[r].thread
      /\ ckpt'.followups = run[r].followups
  BY <1>3 DEF SavedBy
<1>6. Held(r)' = Held(r)
  BY <1>2, <1>4 DEF Held
<1>7. run[r].step \notin {"idle", "accepted", "resume", "fresh"}
  BY <1>1 DEF SaveCheckpoint, TurnOK
<1>8. TurnOK(r)'
  BY <1>1, <1>2, <1>3, <1>4, <1>5, <1>6, <1>7, SameRows
     DEF TurnOK, At, AtNode, CandidateSpokeLast
<1>9. BudgetOK(r)'
  <2>1. At(r, "said") /\ run[r].thread = NoThread => run[r].seq \in Topics
    BY TurnKnown DEF StepOK, At
  <2>2. Lost' = Lost
    BY <1>3 DEF Lost
  <2> QED BY <1>1, <1>2, <1>3, <1>4, <2>1, <2>2, SameRows DEF BudgetOK, At
<1> QED BY <1>2, <1>3, <1>4, <1>5, <1>8, <1>9, QuietTurn DEF At

-----------------------------------------------------------------------------
(* node_interviewer's steps. *)

\* The steps of a request that is not in the graph.
Outside == {"idle", "accepted", "resume", "fresh"}

\* A quiet step within a node: what the request carries stays the same.
LEMMA WithinNode ==
  ASSUME Turn, NEW r \in Requests, NEW step \in Steps \ (Outside \cup {"start"}),
         Goto(r, step) \/ \E seq \in Nat : CountThenGoto(r, step, seq),
         run[r].step \notin Outside \cup {"root", "said"},
         UNCHANGED <<tstatus, msgs, judged, ckpt, faults>>, Held(r)' = Held(r),
         (step \in {"decide", "move"} /\ run[r].thread # NoThread) \/ step = "judge"
           => run[r].thread \in Topics /\ CandidateSpokeLast(run[r].thread),
         step = "judge" => run'[r].seq = Len(msgs[run[r].thread]),
         BudgetOK(r)'
  PROVE  TurnInv'
<1>1. TypeOK /\ TurnOK(r)
  BY TurnKnown
<1>2. /\ run'[r].step = step /\ run'[r].node = run[r].node /\ run'[r].thread = run[r].thread
      /\ run'[r].followups = run[r].followups /\ run'[r].dirty = run[r].dirty
  BY <1>1, GotoStep, CountStep
<1>3. TurnOK(r)'
  <2>1. OpenThreads = Held(r) /\ OpenThreads' = OpenThreads
    BY <1>1, SameRows DEF TurnOK, Outside
  <2>2. ckpt.paused => run[r].dirty /\ run[r].node = "interviewer" /\ run[r].thread = ckpt.thread
    BY <1>1 DEF TurnOK, Outside
  <2> QED BY <1>2, <2>1, <2>2, SameRows DEF TurnOK, At, AtNode, Outside
<1> QED BY <1>3, QuietTurn DEF At

\* Counting before the insert.
LEMMA TakeAnswerTurn ==
  ASSUME Turn, NEW r \in Requests, TakeAnswer(r)
  PROVE  TurnInv'
<1>1. /\ TypeOK /\ CarryOK(run[r]) /\ BudgetOK(r) /\ run[r].thread \in Topics \cup {NoThread}
      /\ run[r].step = "start" /\ run[r].node = "interviewer"
      /\ UNCHANGED <<tstatus, msgs, judged, ckpt, faults>>
  BY TurnKnown DEF TakeAnswer, AtNode, db
<1>2. PICK step \in {"answer", "decide"} :
        /\ Goto(r, step) \/ \E seq \in Nat : CountThenGoto(r, step, seq)
        /\ step = "decide" => run[r].thread = NoThread
  <2>1. run[r].thread # NoThread => Len(msgs[run[r].thread]) \in Nat
    BY <1>1 DEF TypeOK
  <2> QED BY <1>1, <2>1 DEF TakeAnswer, CarryOK
<1>3. step \in Steps \ (Outside \cup {"start"})
  BY DEF Steps, Outside
<1>4. run'[r].step = step /\ run'[r].thread = run[r].thread /\ run'[r].node = "interviewer"
      /\ run'[r].followups = run[r].followups
  BY <1>1, <1>2, <1>3, GotoStep, CountStep
<1>5. Held(r)' = Held(r)
  BY <1>1, <1>4 DEF Held
<1>6. BudgetOK(r)'
  BY <1>1, <1>2, <1>4, SameRows DEF BudgetOK, At, Lost
<1> QED BY <1>1, <1>2, <1>3, <1>5, <1>6, WithinNode DEF Outside

\* A message appended where nobody speaks out of turn.
LEMMA AppendTurn ==
  ASSUME TypeOK, InterviewerWaitsForAnswer, VerdictCoversTranscript, CapOK,
         NEW t \in Topics, NEW m \in Utterance, Append1(t, m), tstatus[t] # "closed",
         UNCHANGED <<tstatus, judged, faults>>,
         m = "candidate" \/ msgs[t] = <<>> \/ CandidateSpokeLast(t)
  PROVE  /\ (InterviewerWaitsForAnswer /\ VerdictCoversTranscript)'
         /\ OpenThreads' = OpenThreads /\ Lost' = Lost /\ Lost \in Nat
         /\ \A u \in Topics : HasRoot(u) => HasRoot(u)'
         /\ \A u \in Topics \ {t} : FollowupsIn(u)' = FollowupsIn(u)
         /\ FollowupsIn(t)' = FollowupsIn(t) + IF m = "followup" THEN 1 ELSE 0
         /\ m = "candidate" => CandidateSpokeLast(t)'
         /\ m = "question" /\ msgs[t] = <<>> => HasRoot(t)'
<1>1. /\ msgs[t] \in Seq(Utterance) /\ msgs'[t] = Append(msgs[t], m)
      /\ \A u \in Topics \ {t} : msgs'[u] = msgs[u]
  BY DEF TypeOK, Append1
<1>2. /\ Len(msgs[t]) \in Nat /\ Len(msgs'[t]) = Len(msgs[t]) + 1
      /\ msgs'[t][Len(msgs[t]) + 1] = m
      /\ \A k \in 1 .. Len(msgs[t]) : msgs'[t][k] = msgs[t][k]
      /\ msgs'[t] # <<>>
  BY <1>1
<1>3. InterviewerWaitsForAnswer'
  <2> SUFFICES ASSUME NEW u \in Topics, NEW k \in 1 .. Len(msgs'[u]) - 1,
                      msgs'[u][k] # "candidate"
               PROVE  msgs'[u][k + 1] = "candidate"
    BY DEF InterviewerWaitsForAnswer
  <2>1. CASE u # t
    BY <1>1, <2>1 DEF InterviewerWaitsForAnswer
  <2>2. CASE u = t /\ k < Len(msgs[t])
    <3>1. k \in 1 .. Len(msgs[t]) - 1 /\ k \in 1 .. Len(msgs[t]) /\ k + 1 \in 1 .. Len(msgs[t])
      BY <1>2, <2>2
    <3> QED BY <1>2, <2>2, <3>1 DEF InterviewerWaitsForAnswer
  <2>3. CASE u = t /\ k = Len(msgs[t])
    <3>1. k \in 1 .. Len(msgs[t]) /\ msgs[t] # <<>>
      BY <1>1, <1>2, <2>3
    <3>2. msgs[t][k] # "candidate" /\ ~CandidateSpokeLast(t)
      BY <1>2, <2>3, <3>1 DEF CandidateSpokeLast
    <3> QED BY <1>2, <2>3, <3>1, <3>2
  <2>4. u = t => k <= Len(msgs[t]) /\ k \in Nat
    BY <1>2
  <2> QED BY <1>2, <2>1, <2>2, <2>3, <2>4
<1>4. VerdictCoversTranscript'
  BY <1>1 DEF VerdictCoversTranscript
<1>5. OpenThreads' = OpenThreads /\ Lost' = Lost /\ Lost \in Nat
  BY DEF OpenThreads, Lost, TypeOK
<1>6. \A u \in Topics : HasRoot(u) => HasRoot(u)'
  <2> SUFFICES ASSUME NEW u \in Topics, HasRoot(u) PROVE HasRoot(u)'
    OBVIOUS
  <2>1. CASE u = t
    <3>1. 1 \in 1 .. Len(msgs[t])
      BY <1>1, <2>1 DEF HasRoot
    <3> QED BY <1>2, <2>1, <3>1 DEF HasRoot
  <2>2. CASE u # t
    BY <1>1, <2>2 DEF HasRoot
  <2> QED BY <2>1, <2>2
<1>7. \A u \in Topics \ {t} : FollowupsIn(u)' = FollowupsIn(u)
  BY <1>1 DEF FollowupsIn
<1>8. m = "candidate" => CandidateSpokeLast(t)'
  BY <1>2 DEF CandidateSpokeLast
<1>9. m = "question" /\ msgs[t] = <<>> => HasRoot(t)'
  BY <1>1, <1>2 DEF HasRoot
<1> QED BY <1>3, <1>4, <1>5, <1>6, <1>7, <1>8, <1>9, FollowupsGrow

\* The candidate speaks in the open thread.
LEMMA PersistAnswerTurn ==
  ASSUME Turn, NEW r \in Requests, PersistAnswer(r)
  PROVE  TurnInv'
<1>1. /\ TypeOK /\ TurnOK(r) /\ StepOK(r) /\ BudgetOK(r) /\ PauseOK /\ RootOK /\ CapOK
      /\ run[r].step = "answer" /\ run[r].thread \in Topics \cup {NoThread}
      /\ InterviewerWaitsForAnswer /\ VerdictCoversTranscript /\ NoThread \notin Topics
      /\ UNCHANGED <<tstatus, judged, faults>>
  BY TurnKnown DEF PersistAnswer, At
<1>2. PICK t \in Topics : t = run[r].thread /\ t # NoThread /\ run[r].node = "interviewer"
  BY <1>1 DEF StepOK
<1>3. OpenThreads = {t}
  BY <1>1, <1>2 DEF TurnOK, Held
<1>4. CASE SeqFree(t, run[r].seq)
  <2>1. Append1(t, "candidate") /\ Goto(r, "decide") /\ UNCHANGED ckpt
    BY <1>2, <1>4 DEF PersistAnswer
  <2>2. "candidate" \in Utterance /\ "decide" \in Steps /\ tstatus[t] # "closed"
    BY <1>2, <1>3 DEF Utterance, Steps, OpenThreads
  <2>3. run'[r].step = "decide" /\ run'[r].node = "interviewer" /\ run'[r].thread = t
        /\ run'[r].followups = run[r].followups /\ run'[r].dirty = run[r].dirty
    BY <1>1, <1>2, <2>1, <2>2, GotoStep
  <2>4. /\ (InterviewerWaitsForAnswer /\ VerdictCoversTranscript)'
        /\ OpenThreads' = OpenThreads /\ Lost' = Lost
        /\ \A u \in Topics : HasRoot(u) => HasRoot(u)'
        /\ \A u \in Topics : FollowupsIn(u)' = FollowupsIn(u)
        /\ CandidateSpokeLast(t)'
    <3>1. FollowupsIn(t) \in Nat
      BY <1>1, <1>2, FollowupsType
    <3> QED BY <1>1, <1>2, <2>1, <2>2, <3>1, AppendTurn
  <2>5. TurnOK(r)'
    <3>1. Held(r)' = {t}
      BY <1>2, <2>3 DEF Held
    <3> QED BY <1>1, <1>2, <1>3, <2>1, <2>3, <2>4, <3>1 DEF TurnOK, At, AtNode
  <2>6. BudgetOK(r)'
    BY <1>1, <1>2, <2>3, <2>4 DEF BudgetOK, At
  <2>7. \A s \in Requests : s = r
    BY DEF Turn, SingleRequest
  <2>8. RootOK'
    BY <1>1, <2>4, <2>7 DEF RootOK, At
  <2>9. CapOK'
    BY <1>1, <2>4 DEF CapOK
  <2>10. PauseOK'
    <3>1. ckpt.paused => ckpt.thread = t
      BY <1>1, <1>2 DEF TurnOK
    <3>2. \A s \in Requests : ~At(s, "said") /\ ~At(s, "said")'
      BY <1>1, <2>3, <2>7 DEF At
    <3> QED BY <1>1, <1>2, <2>1, <2>4, <3>1, <3>2 DEF PauseOK
  <2> QED BY <2>4, <2>5, <2>6, <2>8, <2>9, <2>10, TurnStep DEF Turn
<1>5. CASE ~SeqFree(t, run[r].seq)
  BY <1>1, <1>2, <1>5, StopTurn DEF PersistAnswer, At
<1> QED BY <1>4, <1>5

\* A request without a thread, in the graph, finds no pause in the checkpoint.
LEMMA NoPauseWithoutThread ==
  ASSUME Turn, NEW r \in Requests, run[r].step \notin Outside, run[r].thread = NoThread
  PROVE  ~ckpt.paused
<1>1. PauseOK /\ CarryOK(ckpt) /\ TurnOK(r)
  BY TurnKnown
<1> QED BY <1>1 DEF PauseOK, CarryOK, TurnOK, Outside

\* Deciding to open a thread: none is open.
LEMMA OpenThreadTurn ==
  ASSUME Turn, NEW r \in Requests, OpenThread(r)
  PROVE  TurnInv'
<1>1. /\ TypeOK /\ TopicsInOrder /\ BudgetOK(r) /\ run[r].step = "decide"
      /\ run[r].thread = NoThread /\ UNCHANGED <<tstatus, msgs, judged, faults>>
  BY TurnKnown DEF OpenThread, At, db
<1>2. CASE status = "active" /\ CountClosed < NQuestions
  <2>1. CountThenGoto(r, "open", CountClosed) /\ UNCHANGED ckpt /\ CountClosed \in Nat
    BY <1>1, <1>2, ClosedPrefix DEF OpenThread
  <2>2. "open" \in Steps \ (Outside \cup {"start"})
    BY DEF Steps, Outside
  <2>3. run'[r].step = "open" /\ run'[r].thread = NoThread
    BY <1>1, <2>1, <2>2, CountStep
  <2>4. Held(r)' = Held(r)
    BY <1>1, <2>3 DEF Held
  <2>5. BudgetOK(r)'
    BY <2>3 DEF BudgetOK, At
  <2> QED BY <1>1, <2>1, <2>2, <2>4, <2>5, WithinNode DEF Outside
<1>3. CASE ~(status = "active" /\ CountClosed < NQuestions)
  BY <1>1, <1>3, StopTurn DEF OpenThread, At
<1> QED BY <1>2, <1>3

\* The new row is the one open thread, with its root question to come.
LEMMA CreateThreadTurn ==
  ASSUME Turn, NEW r \in Requests, CreateThread(r)
  PROVE  TurnInv'
<1>1. /\ TypeOK /\ TurnOK(r) /\ StepOK(r) /\ RootOK /\ CapOK
      /\ run[r].step = "open" /\ InterviewerWaitsForAnswer /\ VerdictCoversTranscript
      /\ UNCHANGED <<msgs, judged, faults>>
  BY TurnKnown DEF CreateThread, At
<1>2. PICK t \in Topics : t = run[r].seq /\ run[r].thread = NoThread
  BY <1>1 DEF StepOK
<1>3. OpenThreads = {} /\ ~ckpt.paused
  BY <1>1, <1>2, NoPauseWithoutThread DEF TurnOK, Held, Outside
<1>4. CASE IndexFree(t)
  <2>1. /\ tstatus' = [tstatus EXCEPT ![t] = "open"] /\ Goto(r, "root") /\ UNCHANGED ckpt
        /\ tstatus[t] = "none"
    BY <1>2, <1>4 DEF CreateThread, IndexFree
  <2>2. tstatus'[t] = "open" /\ \A u \in Topics \ {t} : tstatus'[u] = tstatus[u]
    BY <1>1, <2>1 DEF TypeOK
  <2>3. "root" \in Steps
    BY DEF Steps
  <2>4. run'[r].step = "root" /\ run'[r].seq = t /\ run'[r].thread = NoThread
    BY <1>1, <1>2, <2>1, <2>3, GotoStep
  <2>5. OpenThreads' = {t}
    BY <1>3, <2>2 DEF OpenThreads
  <2>6. TurnOK(r)'
    <3>1. Held(r)' = {t}
      BY <2>4 DEF Held
    <3> QED BY <1>3, <2>1, <2>4, <2>5, <3>1 DEF TurnOK, At, AtNode
  <2>7. BudgetOK(r)'
    <3>1. msgs'[t] = <<>>
      BY <1>1, <2>1 DEF Turn, SessionInv, MessagesHaveThread
    <3> QED BY <2>4, <3>1 DEF BudgetOK, At
  <2>8. RootOK'
    <3>1. \A s \in Requests : s = r
      BY DEF Turn, SingleRequest
    <3>2. Lost' = Lost /\ \A u \in Topics : HasRoot(u)' <=> HasRoot(u)
      BY <1>1 DEF Lost, HasRoot
    <3> QED BY <1>1, <2>2, <2>4, <3>1, <3>2 DEF RootOK, At
  <2>9. CapOK' /\ InterviewerWaitsForAnswer'
    BY <1>1 DEF CapOK, FollowupsIn, Lost, InterviewerWaitsForAnswer
  <2>10. VerdictCoversTranscript'
    BY <1>1, <2>2 DEF VerdictCoversTranscript
  <2>11. PauseOK'
    BY <1>3, <2>1 DEF PauseOK
  <2> QED BY <2>6, <2>7, <2>8, <2>9, <2>10, <2>11, TurnStep DEF Turn
<1>5. CASE ~IndexFree(t)
  BY <1>1, <1>2, <1>5, StopTurn DEF CreateThread, At
<1> QED BY <1>4, <1>5

\* The root question is the first message of its thread.
LEMMA AppendRootTurn ==
  ASSUME Turn, NEW r \in Requests, AppendRoot(r)
  PROVE  TurnInv'
<1>1. /\ TypeOK /\ TurnOK(r) /\ StepOK(r) /\ BudgetOK(r) /\ RootOK /\ CapOK
      /\ run[r].step = "root" /\ InterviewerWaitsForAnswer /\ VerdictCoversTranscript
      /\ UNCHANGED <<tstatus, judged, faults>>
  BY TurnKnown DEF AppendRoot, At
<1>2. PICK t \in Topics : t = run[r].seq /\ run[r].thread = NoThread
  BY <1>1 DEF StepOK
<1>3. OpenThreads = {t} /\ ~ckpt.paused /\ msgs[t] = <<>>
  BY <1>1, <1>2, NoPauseWithoutThread DEF TurnOK, Held, Outside, BudgetOK, At
<1>4. Append1(t, "question") /\ Goto(r, "said") /\ UNCHANGED ckpt
  BY <1>2, <1>3 DEF AppendRoot, SeqFree
<1>5. "question" \in Utterance /\ "said" \in Steps /\ tstatus[t] # "closed"
  BY <1>3 DEF Utterance, Steps, OpenThreads
<1>6. run'[r].step = "said" /\ run'[r].seq = t /\ run'[r].thread = NoThread
  BY <1>1, <1>2, <1>4, <1>5, GotoStep
<1>7. FollowupsIn(t) = 0
  <2>1. {k \in 1 .. Len(msgs[t]) : msgs[t][k] = "followup"} = {}
    BY <1>3
  <2> QED BY <2>1, FS_EmptySet DEF FollowupsIn
<1>8. /\ (InterviewerWaitsForAnswer /\ VerdictCoversTranscript)'
      /\ OpenThreads' = OpenThreads /\ Lost' = Lost
      /\ \A u \in Topics : HasRoot(u) => HasRoot(u)'
      /\ \A u \in Topics : FollowupsIn(u)' = FollowupsIn(u)
      /\ HasRoot(t)'
  BY <1>1, <1>3, <1>4, <1>5, <1>7, AppendTurn
<1>9. TurnOK(r)'
  <2>1. Held(r)' = {t}
    BY <1>6 DEF Held
  <2> QED BY <1>3, <1>4, <1>6, <1>8, <2>1 DEF TurnOK, At, AtNode
<1>10. BudgetOK(r)'
  BY <1>6, <1>7, <1>8 DEF BudgetOK, At
<1>11. RootOK'
  <2>1. \A s \in Requests : s = r
    BY DEF Turn, SingleRequest
  <2> QED BY <1>1, <1>2, <1>8, <2>1 DEF RootOK, At
<1>12. CapOK'
  BY <1>1, <1>8 DEF CapOK
<1>13. PauseOK'
  BY <1>3, <1>4 DEF PauseOK
<1> QED BY <1>8, <1>9, <1>10, <1>11, <1>12, <1>13, TurnStep DEF Turn

\* A node that hands on a thread with a new count: the pause it came from has
\* been replaced, since no checkpoint of the request is waiting.
LEMMA HandOn ==
  ASSUME Turn, NEW r \in Requests, run[r].step \notin Outside \cup {"root"},
         NEW next \in Nodes, NEW thread \in Topics \cup {NoThread}, NEW n \in Nat,
         FinishNode(r, next, thread, n), UNCHANGED <<tstatus, msgs, judged, faults>>,
         OpenThreads = {thread} \ {NoThread},
         next = "evaluator" => thread # NoThread /\ CandidateSpokeLast(thread),
         next = "await" => FollowupsIn(thread) <= n + Lost,
         next = "interviewer" => thread = NoThread
  PROVE  TurnInv'
<1>1. TypeOK /\ TurnOK(r) /\ ~run[r].dirty
  BY TurnKnown DEF FinishNode
<1>2. run'[r].step = "start" /\ run'[r].node = next /\ run'[r].thread = thread
      /\ run'[r].followups = n /\ run'[r].dirty /\ UNCHANGED ckpt
  BY <1>1, FinishStep
<1>3. ~ckpt'.paused
  BY <1>1, <1>2 DEF TurnOK, Outside
<1>4. TurnOK(r)'
  <2>1. Held(r)' = {thread} \ {NoThread}
    BY <1>2 DEF Held
  <2>2. OpenThreads' = OpenThreads
    BY SameRows
  <2>3. next = "evaluator" => CandidateSpokeLast(thread)'
    BY DEF CandidateSpokeLast
  <2> QED BY <1>2, <1>3, <2>1, <2>2, <2>3 DEF TurnOK, At, AtNode
<1>5. BudgetOK(r)'
  <2>1. Lost' = Lost /\ FollowupsIn(thread)' = FollowupsIn(thread)
    BY DEF Lost, FollowupsIn
  <2> QED BY <1>2, <2>1 DEF BudgetOK, At
<1> QED BY <1>3, <1>4, <1>5, QuietTurn DEF At

\* The conductor acts on the candidate's word: it hands the thread to the
\* evaluator, or chooses a move within the budget.
LEMMA ConductTurn ==
  ASSUME Turn, NEW r \in Requests, ForceAdvance(r) \/ Conduct(r)
  PROVE  TurnInv'
<1>1. /\ TypeOK /\ TurnOK(r) /\ StepOK(r) /\ BudgetOK(r) /\ run[r].step = "decide"
      /\ run[r].thread # NoThread /\ run[r].thread \in Topics /\ run[r].followups \in Nat
      /\ UNCHANGED <<tstatus, msgs, judged, faults>>
  BY TurnKnown DEF ForceAdvance, Conduct, At, db
<1>2. run[r].node = "interviewer" /\ OpenThreads = {run[r].thread}
      /\ CandidateSpokeLast(run[r].thread)
  BY <1>1 DEF StepOK, TurnOK, Held
<1>3. CASE Advance(r)
  <2>1. FinishNode(r, "evaluator", run[r].thread, run[r].followups) /\ "evaluator" \in Nodes
    BY <1>3 DEF Advance, Nodes
  <2>2. OpenThreads = {run[r].thread} \ {NoThread}
    BY <1>1, <1>2
  <2> QED BY <1>1, <1>2, <2>1, <2>2, HandOn DEF Outside
<1>4. CASE /\ CountThenGoto(r, "move", Len(msgs[run[r].thread])) /\ UNCHANGED ckpt
           /\ ~BudgetSpent(run[r].followups)
  <2>1. Len(msgs[run[r].thread]) \in Nat /\ "move" \in Steps \ (Outside \cup {"start"})
    BY <1>1 DEF TypeOK, Steps, Outside
  <2>2. run'[r].step = "move" /\ run'[r].thread = run[r].thread
        /\ run'[r].followups = run[r].followups
    BY <1>1, <1>4, <2>1, CountStep
  <2>3. Held(r)' = Held(r)
    BY <1>1, <2>2 DEF Held
  <2>4. BudgetOK(r)'
    BY <1>1, <1>2, <1>4, <2>2, SameRows DEF BudgetOK, At, Lost, BudgetSpent
  <2> QED BY <1>1, <1>2, <1>4, <2>1, <2>3, <2>4, WithinNode DEF Outside
<1> QED BY <1>3, <1>4 DEF ForceAdvance, Conduct

\* A move follows the candidate's word and is within the budget.
LEMMA PersistMoveTurn ==
  ASSUME Turn, NEW r \in Requests, PersistMove(r)
  PROVE  TurnInv'
<1>1. /\ TypeOK /\ TurnOK(r) /\ StepOK(r) /\ BudgetOK(r) /\ PauseOK /\ RootOK /\ CapOK
      /\ run[r].step = "move" /\ run[r].thread \in Topics \cup {NoThread}
      /\ InterviewerWaitsForAnswer /\ VerdictCoversTranscript
      /\ run[r].followups \in Nat /\ ckpt.followups \in Nat
      /\ UNCHANGED <<tstatus, judged, faults>>
  BY TurnKnown DEF PersistMove, At
<1>2. PICK t \in Topics : t = run[r].thread /\ t # NoThread /\ run[r].node = "interviewer"
  BY <1>1 DEF StepOK
<1>3. OpenThreads = {t} /\ CandidateSpokeLast(t)
  BY <1>1, <1>2 DEF TurnOK, Held
<1>4. CASE SeqFree(t, run[r].seq)
  <2>1. Append1(t, "followup") /\ Goto(r, "said") /\ UNCHANGED ckpt
    BY <1>2, <1>4 DEF PersistMove
  <2>2. "followup" \in Utterance /\ "said" \in Steps /\ tstatus[t] # "closed"
    BY <1>3 DEF Utterance, Steps, OpenThreads
  <2>3. run'[r].step = "said" /\ run'[r].node = "interviewer" /\ run'[r].thread = t
        /\ run'[r].followups = run[r].followups /\ run'[r].dirty = run[r].dirty
    BY <1>1, <1>2, <2>1, <2>2, GotoStep
  <2>4. /\ (InterviewerWaitsForAnswer /\ VerdictCoversTranscript)'
        /\ OpenThreads' = OpenThreads /\ Lost' = Lost /\ Lost \in Nat
        /\ \A u \in Topics : HasRoot(u) => HasRoot(u)'
        /\ \A u \in Topics \ {t} : FollowupsIn(u)' = FollowupsIn(u)
        /\ FollowupsIn(t)' = FollowupsIn(t) + 1 /\ FollowupsIn(t) \in Nat
    BY <1>1, <1>3, <2>1, <2>2, FollowupsType, AppendTurn
  <2>5. FollowupsIn(t) <= run[r].followups + Lost /\ run[r].followups < MaxFollowups
    BY <1>1, <1>2, SessionAssumption DEF BudgetOK, At, BudgetSpent
  <2>6. TurnOK(r)'
    <3>1. Held(r)' = {t}
      BY <1>2, <2>3 DEF Held
    <3> QED BY <1>1, <1>2, <1>3, <2>1, <2>3, <2>4, <3>1 DEF TurnOK, At, AtNode
  <2>7. BudgetOK(r)'
    BY <1>1, <1>2, <2>3, <2>4, <2>5 DEF BudgetOK, At
  <2>8. \A s \in Requests : s = r
    BY DEF Turn, SingleRequest
  <2>9. RootOK'
    BY <1>1, <2>4, <2>8 DEF RootOK, At
  <2>10. CapOK'
    <3>1. FollowupsIn(t)' <= MaxFollowups + Lost'
      BY <1>1, <2>4, <2>5, SessionAssumption
    <3> QED BY <1>1, <2>4, <3>1 DEF CapOK
  <2>11. PauseOK'
    <3>1. ckpt.paused => ckpt.thread = t
      BY <1>1, <1>2 DEF TurnOK
    <3>2. /\ \A s \in Requests : ~At(s, "said")
          /\ \E s \in Requests : At(s, "said")'
      BY <1>1, <2>3, <2>8 DEF At
    <3>3. ckpt.paused => FollowupsIn(t) <= ckpt.followups + Lost
      BY <1>1, <2>4, <3>1, <3>2 DEF PauseOK
    <3>4. ckpt.paused => FollowupsIn(t)' <= ckpt.followups + Lost + 1
      BY <1>1, <2>4, <3>3
    <3> QED BY <1>1, <2>1, <2>4, <3>1, <3>2, <3>4 DEF PauseOK
  <2> QED BY <2>4, <2>6, <2>7, <2>9, <2>10, <2>11, TurnStep DEF Turn
<1>5. CASE ~SeqFree(t, run[r].seq)
  BY <1>1, <1>2, <1>5, StopTurn DEF PersistMove, At
<1> QED BY <1>4, <1>5

\* After a move the node hands on the thread with the move counted.
LEMMA FinishMoveTurn ==
  ASSUME Turn, NEW r \in Requests, FinishMove(r)
  PROVE  TurnInv'
<1>1. /\ TypeOK /\ TurnOK(r) /\ StepOK(r) /\ BudgetOK(r) /\ NoThread \notin Topics
      /\ run[r].step = "said" /\ run[r].thread \in Topics \cup {NoThread}
      /\ run[r].followups \in Nat /\ UNCHANGED <<tstatus, msgs, judged, faults>>
  BY TurnKnown DEF FinishMove, At, db
<1>2. "await" \in Nodes /\ Lost \in Nat
  BY <1>1 DEF Nodes, Lost, TypeOK
<1>3. CASE run[r].thread = NoThread
  <2>1. run[r].seq \in Topics /\ FollowupsIn(run[r].seq) = 0 /\ OpenThreads = {run[r].seq}
    BY <1>1, <1>3 DEF StepOK, BudgetOK, TurnOK, Held, At
  <2>2. FinishNode(r, "await", run[r].seq, 0)
    BY <1>3 DEF FinishMove
  <2>3. OpenThreads = {run[r].seq} \ {NoThread} /\ FollowupsIn(run[r].seq) <= 0 + Lost
    BY <1>1, <1>2, <2>1
  <2> QED BY <1>1, <1>2, <2>1, <2>2, <2>3, HandOn DEF Outside
<1>4. CASE run[r].thread # NoThread
  <2>1. run[r].thread \in Topics /\ OpenThreads = {run[r].thread}
        /\ FollowupsIn(run[r].thread) <= run[r].followups + 1 + Lost
    BY <1>1, <1>4 DEF BudgetOK, TurnOK, Held, At
  <2>2. FinishNode(r, "await", run[r].thread, run[r].followups + 1)
    BY <1>4 DEF FinishMove
  <2>3. OpenThreads = {run[r].thread} \ {NoThread} /\ run[r].followups + 1 \in Nat
    BY <1>1, <2>1
  <2> QED BY <1>1, <1>2, <2>1, <2>2, <2>3, HandOn DEF Outside
<1> QED BY <1>3, <1>4

\* The pause is recorded on the checkpoint of the request: its thread is the
\* open one and its count is the transcript's.
LEMMA PauseTurn ==
  ASSUME Turn, NEW r \in Requests, Pause(r)
  PROVE  TurnInv'
<1>1. /\ TypeOK /\ TurnOK(r) /\ BudgetOK(r) /\ CarryOK(run[r]) /\ CapOK /\ RootOK
      /\ InterviewerWaitsForAnswer /\ VerdictCoversTranscript
      /\ run[r].step = "start" /\ run[r].node = "await" /\ ~run[r].dirty
      /\ run[r].thread \in Topics \cup {NoThread}
      /\ ckpt \in Checkpoint /\ UNCHANGED <<tstatus, msgs, judged, faults>>
      /\ run' = [run EXCEPT ![r] = Idle]
  BY TurnKnown DEF Pause, AtNode, TypeOK, db
<1>2. PICK t \in Topics : t = run[r].thread /\ t # NoThread
  BY <1>1 DEF CarryOK
<1>3. /\ ckpt.node = "await" /\ ckpt.thread = t /\ ckpt.followups = run[r].followups
      /\ OpenThreads = {t} /\ FollowupsIn(t) <= run[r].followups + Lost
  BY <1>1, <1>2 DEF TurnOK, BudgetOK, AtNode, Held
<1>4. run'[r] = Idle
  BY <1>1, IdleRecord, Store
<1>5. TurnOK(r)' /\ BudgetOK(r)'
  BY <1>4 DEF TurnOK, BudgetOK, At, AtNode, Idle
<1>6. \A s \in Requests : s = r
  BY DEF Turn, SingleRequest
<1>7. /\ OpenThreads' = OpenThreads /\ Lost' = Lost
      /\ \A u \in Topics : FollowupsIn(u)' = FollowupsIn(u) /\ (HasRoot(u)' <=> HasRoot(u))
      /\ (InterviewerWaitsForAnswer /\ VerdictCoversTranscript)'
  BY <1>1, SameRows DEF Lost
<1>8. ckpt'.node = "await" /\ ckpt'.thread = t /\ ckpt'.followups = run[r].followups
  BY <1>1, <1>3 DEF Pause, Checkpoint
<1>9. PauseOK'
  <2>1. \A s \in Requests : ~At(s, "said")'
    BY <1>4, <1>6 DEF At, Idle
  <2>2. FollowupsIn(t) \in Nat /\ Lost \in Nat /\ run[r].followups \in Nat
    BY <1>1, FollowupsType, TurnKnown DEF Lost, TypeOK
  <2> QED BY <1>3, <1>7, <1>8, <2>1, <2>2 DEF PauseOK
<1>10. RootOK' /\ CapOK'
  BY <1>1, <1>6, <1>7 DEF RootOK, CapOK, At
<1> QED BY <1>5, <1>7, <1>9, <1>10, TurnStep DEF Turn

-----------------------------------------------------------------------------
(* node_evaluator's steps, and what goes wrong. *)

\* The judge reads the whole transcript of the open thread.
LEMMA StartJudgingTurn ==
  ASSUME Turn, NEW r \in Requests, StartJudging(r)
  PROVE  TurnInv'
<1>1. /\ TypeOK /\ TurnOK(r) /\ CarryOK(run[r]) /\ run[r].step = "start"
      /\ run[r].node = "evaluator" /\ run[r].thread \in Topics \cup {NoThread}
      /\ UNCHANGED <<tstatus, msgs, judged, faults>>
  BY TurnKnown DEF StartJudging, AtNode, db
<1>2. run[r].thread \in Topics /\ CandidateSpokeLast(run[r].thread)
  BY <1>1 DEF CarryOK, TurnOK, AtNode
<1>3. CASE Judgeable(run[r].thread)
  <2>1. CountThenGoto(r, "judge", Len(msgs[run[r].thread])) /\ UNCHANGED ckpt
    BY <1>3 DEF StartJudging
  <2>2. Len(msgs[run[r].thread]) \in Nat /\ "judge" \in Steps \ (Outside \cup {"start"})
    BY <1>1, <1>2 DEF TypeOK, Steps, Outside
  <2>3. run'[r].step = "judge" /\ run'[r].thread = run[r].thread
        /\ run'[r].seq = Len(msgs[run[r].thread])
    BY <1>1, <2>1, <2>2, CountStep
  <2>4. Held(r)' = Held(r)
    BY <1>1, <2>3 DEF Held
  <2>5. BudgetOK(r)'
    BY <2>3 DEF BudgetOK, At
  <2> QED BY <1>1, <1>2, <2>1, <2>2, <2>3, <2>4, <2>5, WithinNode DEF Outside
<1>4. CASE ~Judgeable(run[r].thread)
  BY <1>1, <1>4, StopTurn DEF StartJudging, At
<1> QED BY <1>3, <1>4

\* The verdict closes the one open thread over the transcript it was read from.
LEMMA CloseThreadTurn ==
  ASSUME Turn, NEW r \in Requests, CloseThread(r)
  PROVE  TurnInv'
<1>1. /\ TypeOK /\ TurnOK(r) /\ StepOK(r) /\ CarryOK(run[r]) /\ RootOK /\ CapOK
      /\ run[r].step = "judge" /\ run[r].thread \in Topics \cup {NoThread}
      /\ InterviewerWaitsForAnswer /\ VerdictCoversTranscript
      /\ UNCHANGED <<msgs, ckpt, faults>> /\ Goto(r, "flip")
  BY TurnKnown DEF CloseThread, At
<1>2. PICK t \in Topics : t = run[r].thread /\ t # NoThread /\ run[r].node = "evaluator"
  BY <1>1 DEF StepOK, CarryOK
<1>3. /\ OpenThreads = {t} /\ CandidateSpokeLast(t) /\ run[r].seq = Len(msgs[t])
      /\ ~ckpt.paused
  BY <1>1, <1>2 DEF TurnOK, Held, At
<1>4. /\ tstatus' = [tstatus EXCEPT ![t] = "closed"]
      /\ judged' = [judged EXCEPT ![t] = Len(msgs[t])]
  BY <1>2, <1>3 DEF CloseThread
<1>5. /\ tstatus'[t] = "closed" /\ judged'[t] = Len(msgs[t])
      /\ \A u \in Topics \ {t} : tstatus'[u] = tstatus[u] /\ judged'[u] = judged[u]
  BY <1>1, <1>4 DEF TypeOK
<1>6. run'[r].step = "flip"
  BY <1>1, GotoStep DEF Steps
<1>7. OpenThreads' = {}
  BY <1>3, <1>5 DEF OpenThreads
<1>8. TurnOK(r)'
  <2>1. Held(r)' = {}
    BY <1>6 DEF Held
  <2> QED BY <1>1, <1>3, <1>6, <1>7, <2>1 DEF TurnOK, At, AtNode
<1>9. BudgetOK(r)'
  BY <1>6 DEF BudgetOK, At
<1>10. VerdictCoversTranscript'
  BY <1>1, <1>3, <1>5 DEF VerdictCoversTranscript, CandidateSpokeLast
<1>11. InterviewerWaitsForAnswer' /\ CapOK'
  BY <1>1 DEF InterviewerWaitsForAnswer, CapOK, FollowupsIn, Lost
<1>12. RootOK'
  <2>1. \A s \in Requests : s = r
    BY DEF Turn, SingleRequest
  <2>2. Lost' = Lost /\ \A u \in Topics : HasRoot(u)' <=> HasRoot(u)
    BY <1>1 DEF Lost, HasRoot
  <2>3. tstatus[t] # "none"
    BY <1>3 DEF OpenThreads
  <2> QED BY <1>1, <1>5, <2>1, <2>2, <2>3 DEF RootOK, At
<1>13. PauseOK'
  BY <1>1, <1>3 DEF PauseOK
<1> QED BY <1>8, <1>9, <1>10, <1>11, <1>12, <1>13, TurnStep DEF Turn

\* Completing the session touches no thread.
LEMMA FlipStatusTurn ==
  ASSUME Turn, NEW r \in Requests, FlipStatus(r)
  PROVE  TurnInv'
<1>1. /\ TypeOK /\ TopicsInOrder /\ run[r].step = "flip"
      /\ UNCHANGED <<tstatus, msgs, judged, ckpt, faults>>
      /\ CountThenGoto(r, "judged", CountClosed)
  BY TurnKnown DEF FlipStatus, At
<1>2. CountClosed \in Nat /\ "judged" \in Steps \ (Outside \cup {"start"})
  BY <1>1, ClosedPrefix DEF Steps, Outside
<1>3. run'[r].step = "judged"
  BY <1>1, <1>2, CountStep
<1>4. Held(r)' = Held(r)
  BY <1>1, <1>3 DEF Held
<1>5. BudgetOK(r)'
  BY <1>3 DEF BudgetOK, At
<1> QED BY <1>1, <1>2, <1>4, <1>5, WithinNode DEF Outside

\* After the verdict nothing is open and nothing is carried.
LEMMA FinishJudgingTurn ==
  ASSUME Turn, NEW r \in Requests, FinishJudging(r)
  PROVE  TurnInv'
<1>1. TurnOK(r) /\ run[r].step = "judged" /\ UNCHANGED <<tstatus, msgs, judged, faults>>
  BY TurnKnown DEF FinishJudging, At, db
<1>2. OpenThreads = {NoThread} \ {NoThread}
  BY <1>1 DEF TurnOK, Held
<1>3. PICK next \in {"end", "interviewer"} : FinishNode(r, next, NoThread, 0)
  BY DEF FinishJudging
<1>4. next \in Nodes /\ next # "evaluator" /\ next # "await" /\ 0 \in Nat
      /\ NoThread \in Topics \cup {NoThread}
  BY DEF Nodes
<1> QED BY <1>1, <1>2, <1>3, <1>4, HandOn DEF Outside

\* A disconnect loses what StopTurn allows for.
LEMMA EndingsTurn ==
  ASSUME Turn, NEW r \in Requests, EndRun(r) \/ ModelFails(r) \/ CutOff(r)
  PROVE  TurnInv'
<1>1. TypeOK
  BY TurnKnown
<1>2. Stop(r) /\ UNCHANGED <<tstatus, msgs, judged>> /\ faults' \in {faults, faults + 1}
  BY DEF EndRun, ModelFails, CutOff, Fault, db
<1>3. At(r, "root") => Lost' > 0
  <2>1. At(r, "root") => CutOff(r)
    BY DEF EndRun, ModelFails, AtNode, At
  <2>2. CutOff(r) => Lost' > 0
    BY <1>1 DEF CutOff, Fault, Lost, TypeOK
  <2> QED BY <2>1, <2>2
<1> QED BY <1>2, <1>3, StopTurn

\* Abandoning leaves request, checkpoint, threads and messages alone, and so
\* does a stuttering step.
LEMMA AsideTurn ==
  ASSUME Turn, UNCHANGED <<tstatus, msgs, judged, ckpt, run, faults>>
  PROVE  TurnInv'
<1>1. TurnInv
  BY DEF Turn
<1>2. Lost' = Lost /\ OpenThreads' = OpenThreads
  BY DEF Lost, OpenThreads
<1>3. WordInv'
  <2>1. \A r \in Requests : TurnOK(r)'
    BY <1>1, <1>2 DEF TurnInv, WordInv, TurnOK, At, AtNode, Held, CandidateSpokeLast
  <2> QED BY <1>1, <1>2, <2>1, SameRows DEF TurnInv, WordInv
<1>4. BudgetInv'
  <2>1. \A r \in Requests : BudgetOK(r)'
    <3> SUFFICES ASSUME NEW r \in Requests PROVE BudgetOK(r)'
      OBVIOUS
    <3>1. /\ FollowupsIn(run[r].seq)' = FollowupsIn(run[r].seq)
          /\ FollowupsIn(run[r].thread)' = FollowupsIn(run[r].thread)
      BY DEF FollowupsIn
    <3> QED BY <1>1, <1>2, <3>1 DEF TurnInv, BudgetInv, BudgetOK, At
  <2>2. (\E r \in Requests : At(r, "said"))' <=> \E r \in Requests : At(r, "said")
    BY DEF At
  <2>3. ckpt.paused => FollowupsIn(ckpt.thread)' = FollowupsIn(ckpt.thread)
    BY DEF FollowupsIn
  <2> QED BY <1>1, <1>2, <2>1, <2>2, <2>3, SameRows DEF TurnInv, BudgetInv, At
<1> QED BY <1>3, <1>4 DEF TurnInv

\* A crash keeps the stores; the move it may leave uncounted is a loss.
LEMMA CrashTurn ==
  ASSUME Turn, Crash
  PROVE  TurnInv'
<1>1. /\ TypeOK /\ WordInv /\ BudgetInv /\ CarryOK(ckpt)
      /\ ckpt.thread \in Topics \cup {NoThread} /\ ckpt.followups \in Nat
  BY DEF Turn, SessionInv, TurnInv, TypeOK, Checkpoint
<1>2. /\ UNCHANGED <<tstatus, msgs, judged, ckpt>> /\ faults' = faults + 1
      /\ \A r \in Requests : run'[r] = Idle
  BY DEF Crash, Fault, db
<1>3. Lost \in Nat /\ Lost' = Lost + 1
  BY <1>1 DEF Crash, Fault, Lost, TypeOK
<1>4. \A r \in Requests : TurnOK(r)' /\ BudgetOK(r)'
  BY <1>2 DEF TurnOK, BudgetOK, At, AtNode, Idle
<1>5. \A t \in Topics : FollowupsIn(t) \in Nat
  BY <1>1, FollowupsType
<1>6. WordInv'
  BY <1>1, <1>2, <1>4, SameRows DEF WordInv
<1>7. ckpt.paused => FollowupsIn(ckpt.thread)' <= ckpt.followups + Lost'
  <2> SUFFICES ASSUME ckpt.paused PROVE FollowupsIn(ckpt.thread)' <= ckpt.followups + Lost'
    OBVIOUS
  <2>1. ckpt.thread \in Topics
    BY <1>1 DEF WordInv, CarryOK
  <2>2. FollowupsIn(ckpt.thread) <= ckpt.followups + Lost + 1
    BY <1>1, <1>3, <1>5, <2>1 DEF BudgetInv
  <2> QED BY <1>1, <1>2, <1>3, <1>5, <2>1, <2>2, SameRows
<1>8. (\E r \in Requests : At(r, "said"))' = FALSE
  BY <1>2 DEF At, Idle
<1>9. (ckpt.paused => FollowupsIn(ckpt.thread) <= ckpt.followups + Lost
         + IF \E r \in Requests : At(r, "said") THEN 1 ELSE 0)'
  <2>1. ckpt.paused => ckpt.thread \in Topics
    BY <1>1 DEF WordInv, CarryOK
  <2> QED BY <1>1, <1>2, <1>3, <1>5, <1>7, <1>8, <2>1, SameRows
<1>10. BudgetInv'
  <2>1. \A t \in Topics : FollowupsIn(t)' <= MaxFollowups + Lost'
    BY <1>1, <1>2, <1>3, <1>5, SameRows, SessionAssumption DEF BudgetInv
  <2> QED BY <1>3, <1>4, <1>9, <2>1 DEF BudgetInv
<1> QED BY <1>6, <1>10 DEF TurnInv

-----------------------------------------------------------------------------
(* The invariant, and what it says. *)

\* Nothing the one request does, and nothing that happens to it, breaks TurnInv.
LEMMA TurnKept ==
  ASSUME Turn, [Next]_vars
  PROVE  TurnInv'
<1>1. ASSUME NEW r \in Requests, Serve(r)
      PROVE  TurnInv'
  BY <1>1, ReadCheckpointTurn, ResumeStreamTurn, FreshStreamTurn, SaveCheckpointTurn,
     TakeAnswerTurn, PersistAnswerTurn, OpenThreadTurn, CreateThreadTurn,
     AppendRootTurn, ConductTurn, PersistMoveTurn, FinishMoveTurn, PauseTurn,
     StartJudgingTurn, CloseThreadTurn, FlipStatusTurn, FinishJudgingTurn,
     EndingsTurn DEF Serve
<1>2. ASSUME NEW r \in Requests, NEW answer \in BOOLEAN, Post(r, answer)
      PROVE  TurnInv'
  BY <1>2, PostTurn
<1>3. ASSUME NEW r \in Requests, ModelFails(r) \/ CutOff(r)
      PROVE  TurnInv'
  BY <1>3, EndingsTurn
<1>4. CASE AbandonRead \/ AbandonWrite \/ UNCHANGED vars
  <2>1. UNCHANGED <<tstatus, msgs, judged, ckpt, run, faults>>
    BY <1>4 DEF AbandonRead, AbandonWrite, vars, db
  <2> QED BY <2>1, AsideTurn
<1>5. CASE Crash
  BY <1>5, CrashTurn
<1> QED BY <1>1, <1>2, <1>3, <1>4, <1>5 DEF Next

\* A session starts with nothing said, nothing paused and nothing in flight.
LEMMA TurnStart == Init => TurnInv
<1> SUFFICES ASSUME Init PROVE TurnInv
  OBVIOUS
<1>1. TypeOK
  BY SessionStart DEF SessionInv
<1>2. \A t \in Topics : msgs[t] = <<>> /\ tstatus[t] = "none"
  BY DEF Init
<1>3. ~ckpt.paused /\ \A r \in Requests : run[r] = Idle
  BY DEF Init, NoCheckpoint
<1>4. \A r \in Requests : TurnOK(r) /\ BudgetOK(r)
  BY <1>3 DEF TurnOK, BudgetOK, At, AtNode, Idle
<1>5. WordInv
  <2>1. InterviewerWaitsForAnswer
    BY <1>2 DEF InterviewerWaitsForAnswer
  <2>2. VerdictCoversTranscript
    BY <1>2 DEF VerdictCoversTranscript
  <2> QED BY <1>3, <1>4, <2>1, <2>2 DEF WordInv
<1>6. BudgetInv
  <2>1. ASSUME NEW t \in Topics PROVE FollowupsIn(t) <= MaxFollowups + Lost
    <3>1. {k \in 1 .. Len(msgs[t]) : msgs[t][k] = "followup"} = {}
      BY <1>2
    <3>2. FollowupsIn(t) = 0
      BY <3>1, FS_EmptySet DEF FollowupsIn
    <3>3. Lost \in Nat
      BY <1>1 DEF Lost, TypeOK
    <3> QED BY <3>2, <3>3, SessionAssumption
  <2> QED BY <1>2, <1>3, <1>4, <2>1 DEF BudgetInv
<1> QED BY <1>5, <1>6 DEF TurnInv

\* The inductive invariant of requests that follow one another: whose turn it
\* is in both stores, and how far the count of follow-ups may be behind.
THEOREM TurnInvariant == ASSUME SingleRequest PROVE Spec => []TurnInv
<1>1. Init => TurnInv
  BY TurnStart
<1>2. SessionInv /\ SessionInv' /\ TurnInv /\ [Next]_vars => TurnInv'
  BY TurnKept DEF Turn
<1> QED BY <1>1, <1>2, SessionInvariant, PTL DEF Spec

\* The interviewer does not speak twice in a row: after any fault, the move the
\* next request makes follows the message it has stored.
THEOREM AnswersBetweenMoves == ASSUME SingleRequest PROVE Spec => []InterviewerWaitsForAnswer
<1>1. TurnInv => InterviewerWaitsForAnswer
  BY DEF TurnInv, WordInv
<1> QED BY <1>1, TurnInvariant, PTL

\* The persisted score is that of the whole transcript, candidate's word last.
THEOREM VerdictOfWhole == ASSUME SingleRequest PROVE Spec => []VerdictCoversTranscript
<1>1. TurnInv => VerdictCoversTranscript
  BY DEF TurnInv, WordInv
<1> QED BY <1>1, TurnInvariant, PTL

\* The checkpoint store and the database agree on the thread an answer is for,
\* whatever was lost between their commits.
THEOREM StoresAgree == ASSUME SingleRequest PROVE Spec => []PausedOnTheOpenThread
<1>1. TurnInv => PausedOnTheOpenThread
  BY DEF TurnInv, WordInv, PausedOnTheOpenThread
<1> QED BY <1>1, TurnInvariant, PTL

\* A follow-up beyond max_followups takes a fault that lost its count: there
\* are at most as many as there were faults.
THEOREM OverrunIsLost ==
  ASSUME SingleRequest
  PROVE  Spec => [](\A t \in Topics : FollowupsIn(t) <= MaxFollowups + faults)
<1>1. SessionInv /\ TurnInv => \A t \in Topics : FollowupsIn(t) <= MaxFollowups + faults
  <2> SUFFICES ASSUME SessionInv, TurnInv, NEW t \in Topics
               PROVE  FollowupsIn(t) <= MaxFollowups + faults
    OBVIOUS
  <2>1. FollowupsIn(t) <= MaxFollowups + Lost
    BY DEF TurnInv, BudgetInv
  <2>2. FollowupsIn(t) \in Nat /\ faults \in Nat /\ Lost \in Nat /\ Lost <= faults
    BY FollowupsType DEF SessionInv, TypeOK, Lost
  <2> QED BY <2>1, <2>2, SessionAssumption
<1> QED BY <1>1, SessionInvariant, TurnInvariant, PTL

\* max_followups is a hard cap as long as no stream is cut off and the process
\* does not die, model failures and unreadable checkpoints notwithstanding.
THEOREM CapHolds ==
  ASSUME SingleRequest, FaultKinds \cap {"cut", "crash"} = {}
  PROVE  Spec => []FollowupCap
<1>1. TurnInv => FollowupCap
  <2> SUFFICES ASSUME TurnInv PROVE FollowupCap
    OBVIOUS
  <2>1. Lost = 0
    BY DEF Lost
  <2>2. MaxFollowups + 0 = MaxFollowups
    BY SessionAssumption
  <2> QED BY <2>1, <2>2 DEF TurnInv, BudgetInv, FollowupCap
<1> QED BY <1>1, TurnInvariant, PTL

-----------------------------------------------------------------------------
(* A verdict is final. *)

\* Nobody writes to a closed thread.
Untouched ==
  \A t \in Topics : tstatus[t] = "closed" =>
    tstatus'[t] = "closed" /\ judged'[t] = judged[t] /\ msgs'[t] = msgs[t]

\* The five steps that write to a thread write to one that is not closed.
LEMMA VerdictKept ==
  ASSUME Turn, [Next]_vars
  PROVE  Untouched
<1>1. CASE UNCHANGED <<tstatus, msgs, judged>>
  BY <1>1 DEF Untouched
<1>2. ASSUME NEW r \in Requests, PersistAnswer(r) \/ PersistMove(r)
      PROVE  Untouched
  <2>1. /\ TypeOK /\ TurnOK(r) /\ StepOK(r) /\ run[r].step \in {"answer", "move"}
        /\ run[r].thread \in Topics \cup {NoThread} /\ UNCHANGED <<tstatus, judged>>
    BY <1>2, TurnKnown DEF PersistAnswer, PersistMove, At
  <2>2. PICK t \in Topics : t = run[r].thread /\ t # NoThread
    BY <2>1 DEF StepOK
  <2>3. tstatus[t] # "closed"
    BY <2>1, <2>2 DEF TurnOK, Held, OpenThreads
  <2>4. \A u \in Topics \ {t} : msgs'[u] = msgs[u]
    BY <1>2, <2>1, <2>2 DEF PersistAnswer, PersistMove, Append1, TypeOK
  <2> QED BY <2>1, <2>3, <2>4 DEF Untouched
<1>3. ASSUME NEW r \in Requests, CreateThread(r) \/ AppendRoot(r)
      PROVE  Untouched
  <2>1. /\ TypeOK /\ StepOK(r) /\ TurnOK(r) /\ run[r].step \in {"open", "root"}
        /\ UNCHANGED judged
    BY <1>3, TurnKnown DEF CreateThread, AppendRoot, At
  <2>2. PICK t \in Topics : t = run[r].seq
    <3>1. run[r].step = "open" => run[r].seq \in Topics
      BY <2>1 DEF StepOK
    <3>2. run[r].step = "root" => run[r].seq \in Topics
      BY <2>1 DEF StepOK
    <3> QED BY <2>1, <3>1, <3>2
  <2>3. CASE CreateThread(r)
    BY <2>1, <2>2, <2>3 DEF CreateThread, IndexFree, Untouched, TypeOK
  <2>4. CASE AppendRoot(r)
    <3>1. run[r].step = "root" /\ run[r].thread = NoThread
      BY <2>1, <2>4 DEF AppendRoot, At, StepOK
    <3>2. tstatus[t] # "closed"
      BY <2>1, <2>2, <3>1 DEF TurnOK, Held, OpenThreads
    <3> QED BY <2>1, <2>2, <2>4, <3>2 DEF AppendRoot, Append1, Untouched, TypeOK
  <2> QED BY <1>3, <2>3, <2>4
<1>4. ASSUME NEW r \in Requests, CloseThread(r)
      PROVE  Untouched
  <2>1. /\ TypeOK /\ TurnOK(r) /\ StepOK(r) /\ CarryOK(run[r]) /\ run[r].step = "judge"
        /\ run[r].thread \in Topics \cup {NoThread}
    BY <1>4, TurnKnown DEF CloseThread, At
  <2>2. PICK t \in Topics : t = run[r].thread /\ t # NoThread
    BY <2>1 DEF StepOK, CarryOK
  <2>3. tstatus[t] # "closed"
    BY <2>1, <2>2 DEF TurnOK, Held, OpenThreads
  <2> QED BY <1>4, <2>1, <2>2, <2>3 DEF CloseThread, Untouched, TypeOK
<1>5. ASSUME NEW r \in Requests,
             \/ ReadCheckpoint(r) \/ ResumeStream(r) \/ FreshStream(r) \/ SaveCheckpoint(r)
             \/ TakeAnswer(r) \/ OpenThread(r) \/ ForceAdvance(r) \/ Conduct(r)
             \/ FinishMove(r) \/ Pause(r) \/ StartJudging(r) \/ FlipStatus(r)
             \/ FinishJudging(r) \/ EndRun(r) \/ ModelFails(r) \/ CutOff(r)
             \/ \E answer \in BOOLEAN : Post(r, answer)
      PROVE  UNCHANGED <<tstatus, msgs, judged>>
  BY <1>5 DEF ReadCheckpoint, ResumeStream, FreshStream, SaveCheckpoint, TakeAnswer,
     OpenThread, ForceAdvance, Conduct, FinishMove, Pause, StartJudging, FlipStatus,
     FinishJudging, EndRun, ModelFails, CutOff, Post, db
<1>6. CASE AbandonRead \/ AbandonWrite \/ Crash \/ UNCHANGED vars
  BY <1>1, <1>6 DEF AbandonRead, AbandonWrite, Crash, vars, db
<1> QED BY <1>1, <1>2, <1>3, <1>4, <1>5, <1>6 DEF Next, Serve

\* Once a thread is closed, no retry, replay or adoption adds a message to it,
\* reopens it or scores it again.
THEOREM FinalVerdict == ASSUME SingleRequest PROVE Spec => VerdictIsFinal
<1>1. SessionInv /\ SessionInv' /\ TurnInv /\ [Next]_vars => [Untouched]_db
  BY VerdictKept DEF Turn
<1>2. Spec => [][Untouched]_db
  BY <1>1, SessionInvariant, TurnInvariant, PTL DEF Spec
<1>3. [][Untouched]_db => VerdictIsFinal
  BY PTL DEF VerdictIsFinal, Untouched
<1> QED BY <1>2, <1>3, PTL
=============================================================================
