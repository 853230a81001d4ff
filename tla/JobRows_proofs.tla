--------------------------- MODULE JobRows_proofs ---------------------------
(***************************************************************************)
(* The inductive invariant of the jobs, for any number of jobs, texts and  *)
(* overlapping requests, and the properties that follow from it.           *)
(***************************************************************************)
EXTENDS JobRows, TLAPS

-----------------------------------------------------------------------------
(* Steps of one request that leave the tables and the checkpoints alone. *)

LEMMA GotoOne ==
  ASSUME TypeOK, NEW r \in Requests, NEW q \in Request, Goto(r, q)
  PROVE  /\ req' \in [Requests -> Request]
         /\ req'[r] = q
         /\ \A s \in Requests \ {r} : req'[s] = req[s]
BY DEF TypeOK, Goto

\* What requests hold between two steps.
LEMMA HoldRequest ==
  ASSUME NEW step \in Steps, NEW j \in Jobs \cup {None}, NEW t \in Texts \cup {None}
  PROVE  Hold(step, j, t) \in Request /\ Hold(step, j, t).at = step
         /\ Hold(step, j, t).job = j /\ Hold(step, j, t).text = t
BY DEF Hold, Request, NoRow, Row

LEMMA IdleRequest == Idle \in Request /\ Idle.at = "idle"
BY HoldRequest DEF Idle, Steps

\* What such a step has to show: what the request now carries, and that it
\* neither starts to prepare, nor to edit a job someone prepares, uncrossed.
LEMMA RequestStep ==
  ASSUME JobInv, NEW r \in Requests, NEW q \in Request, Goto(r, q),
         UNCHANGED <<Tables, threads, torn>>,
         crossed \subseteq crossed', crossed' \subseteq Jobs,
         req[r].at \notin {"drop_snapshot", "drop_thread"},
         RequestOK(r)',
         q.at \in PrepSteps => req[r].at \in PrepSteps /\ q.job = req[r].job,
         \A j \in Jobs \ crossed' : Edits(r, j)' => Edits(r, j) \/ ~Preparing(j)
  PROVE  JobInv'
<1>1. /\ req' \in [Requests -> Request]
      /\ req'[r] = q
      /\ \A s \in Requests \ {r} : req'[s] = req[s]
  BY GotoOne DEF JobInv
<1>2. TypeOK'
  BY <1>1 DEF JobInv, TypeOK, Tables
<1>3. \A s \in Requests : RequestOK(s)'
  <2>. SUFFICES ASSUME NEW s \in Requests \ {r} PROVE RequestOK(s)'
    OBVIOUS
  <2>1. req'[s] = req[s]
    BY <1>1
  <2>. QED  BY <2>1 DEF JobInv, RequestOK, Tables, Live, Exists
<1>4. (HashIsOfText /\ OnePostingPerText /\ NoDanglingRows)'
  BY DEF JobInv, HashIsOfText, OnePostingPerText, NoDanglingRows, Tables, Live, Exists
<1>5. PrepsApart'
  <2>. SUFFICES ASSUME NEW p \in Requests, NEW e \in Requests, NEW j \in Jobs \ crossed',
                       Prepares(p, j)', Edits(e, j)'
                PROVE  FALSE
    BY DEF PrepsApart
  <2>1. Prepares(p, j)
    BY <1>1 DEF Prepares
  <2>2. Edits(e, j) \/ ~Preparing(j)
    BY <1>1 DEF Edits
  <2>. QED  BY <2>1, <2>2 DEF JobInv, PrepsApart, Preparing
<1>6. AnalysisOK'
  <2>. SUFFICES ASSUME NEW j \in Live \ crossed
                PROVE  /\ row[j].parsed \in {None, row[j].text}
                       /\ company[j] \in {None, row[j].text} \/ Dropping(j, "drop_snapshot")' \/ j \in torn
    BY DEF AnalysisOK, Tables, Live, Exists
  <2>1. Dropping(j, "drop_snapshot") => Dropping(j, "drop_snapshot")'
    BY <1>1 DEF Dropping
  <2>. QED  BY <2>1 DEF JobInv, AnalysisOK
<1>7. ThreadsOK'
  <2>. SUFFICES ASSUME NEW j \in threads \ crossed
                PROVE  Exists(j) \/ Dropping(j, "drop_thread")'
    BY DEF ThreadsOK, Tables, Exists
  <2>1. Dropping(j, "drop_thread") => Dropping(j, "drop_thread")'
    BY <1>1 DEF Dropping
  <2>. QED  BY <2>1 DEF JobInv, ThreadsOK
<1>. QED  BY <1>2, <1>3, <1>4, <1>5, <1>6, <1>7 DEF JobInv

\* A request that goes on to a step that is neither prep nor edit.
LEMMA PlainStep ==
  ASSUME JobInv, NEW r \in Requests, NEW q \in Request, Goto(r, q),
         UNCHANGED <<Tables, threads, crossed, torn>>,
         req[r].at \notin {"drop_snapshot", "drop_thread"},
         q.at \notin PrepSteps \cup EditSteps \cup {"wipe"},
         q.at \in StartSteps => q.job \in Jobs /\ life[q.job] # "unused"
  PROVE  JobInv'
<1>1. req'[r] = q
  BY GotoOne DEF JobInv
<1>2. RequestOK(r)'
  BY <1>1 DEF RequestOK, PrepSteps, EditSteps, StartSteps, Tables
<1>3. \A j \in Jobs : ~Edits(r, j)'
  BY <1>1 DEF Edits
<1>4. crossed \subseteq Jobs
  BY DEF JobInv, TypeOK
<1>. QED  BY <1>2, <1>3, <1>4, RequestStep

LEMMA FinishStep ==
  ASSUME JobInv, NEW r \in Requests, Finish(r), UNCHANGED <<Tables, threads, crossed, torn>>,
         req[r].at \notin {"drop_snapshot", "drop_thread"}
  PROVE  JobInv'
BY IdleRequest, PlainStep DEF Finish, PrepSteps, EditSteps, StartSteps

-----------------------------------------------------------------------------
(* POST /jobs. *)

LEMMA PostStep ==
  ASSUME JobInv, NEW r \in Requests,
         \/ \E t \in Texts : PostText(r, t)
         \/ PostUrl(r)
         \/ FetchPosted(r)
  PROVE  JobInv'
<1>. USE DEF PrepSteps, EditSteps, StartSteps
<1>1. CASE \E t \in Texts : PostText(r, t)
  <2>. PICK t \in Texts : PostText(r, t)
    BY <1>1
  <2>. DEFINE q == Hold("insert", None, t)
  <2>1. q \in Request /\ q.at = "insert"
    BY HoldRequest DEF Steps
  <2>2. req[r].at = "idle" /\ Goto(r, q) /\ UNCHANGED <<Tables, threads, crossed, torn>>
    BY IdleRequest DEF PostText
  <2>. HIDE DEF q
  <2>. QED  BY <2>1, <2>2, PlainStep
<1>2. CASE PostUrl(r)
  <2>. DEFINE q == Hold("fetch", None, None)
  <2>1. q \in Request /\ q.at = "fetch"
    BY HoldRequest DEF Steps
  <2>2. req[r].at = "idle" /\ Goto(r, q) /\ UNCHANGED <<Tables, threads, crossed, torn>>
    BY <1>2, IdleRequest DEF PostUrl
  <2>. HIDE DEF q
  <2>. QED  BY <2>1, <2>2, PlainStep
<1>3. CASE FetchPosted(r) /\ Finish(r)
  BY <1>3, FinishStep DEF FetchPosted
<1>4. CASE FetchPosted(r) /\ ~Finish(r)
  <2>. PICK t \in Texts : Goto(r, Hold("insert", None, t))
    BY <1>4 DEF FetchPosted
  <2>. DEFINE q == Hold("insert", None, t)
  <2>2. q \in Request /\ q.at = "insert"
    BY HoldRequest DEF Steps
  <2>3. req[r].at = "fetch" /\ Goto(r, q) /\ UNCHANGED <<Tables, threads, crossed, torn>>
    BY <1>4 DEF FetchPosted
  <2>. HIDE DEF q
  <2>. QED  BY <2>2, <2>3, PlainStep
<1>. QED  BY <1>1, <1>2, <1>3, <1>4

\* A new row: no request works on its job yet, and nothing refers to it.
LEMMA InsertStep ==
  ASSUME JobInv, NEW r \in Requests, InsertJob(r)
  PROVE  JobInv'
<1>1. CASE UNCHANGED Tables
  BY <1>1, FinishStep DEF InsertJob
<1>2. CASE ~UNCHANGED Tables
  <2>. DEFINE new == [text |-> req[r].text, hash |-> req[r].text,
                      parsed |-> None]
  <2>. PICK j \in Jobs : /\ life[j] = "unused"
                         /\ life' = [life EXCEPT ![j] = "row"]
                         /\ row' = [row EXCEPT ![j] = new]
    BY <1>2 DEF InsertJob
  <2>1. /\ req[r].at = "insert" /\ Goto(r, Idle) /\ ~HashTaken(req[r].text, None)
        /\ UNCHANGED <<company, session, profile, threads, crossed, torn>>
    BY <1>2 DEF InsertJob, Finish
  <2>2. /\ req' \in [Requests -> Request]
        /\ req'[r] = Idle
        /\ \A s \in Requests \ {r} : req'[s] = req[s]
    BY <2>1, IdleRequest, GotoOne DEF JobInv
  <2>3. TypeOK'
    BY <2>1, <2>2 DEF JobInv, TypeOK, Request, Row
  <2>4. j \notin Live /\ Live' = Live \cup {j} /\ company[j] = None
    BY DEF JobInv, TypeOK, NoDanglingRows, Live, Exists
  <2>5. row'[j] = new /\ \A k \in Live : row'[k] = row[k]
    BY <2>4 DEF JobInv, TypeOK, Live
  <2>6. \A s \in Requests : RequestOK(s)'
    <3>. SUFFICES ASSUME NEW s \in Requests PROVE RequestOK(s)'
      OBVIOUS
    <3>1. CASE s = r
      BY <2>2, <3>1, IdleRequest DEF RequestOK, PrepSteps, EditSteps, StartSteps
    <3>2. CASE s # r
      <4>1. req'[s] = req[s] /\ RequestOK(s)
        BY <2>2, <3>2 DEF JobInv
      <4>2. req[s].at \in PrepSteps \cup EditSteps \cup StartSteps =>
              req[s].job \in Jobs \ {j} /\ life'[req[s].job] = life[req[s].job]
        BY <4>1 DEF RequestOK, JobInv, TypeOK
      <4>3. j \notin threads \ crossed
        BY DEF JobInv, ThreadsOK, Dropping, Exists, RequestOK, EditSteps
      <4>. QED  BY <4>1, <4>2, <4>3, <2>1, <2>4, <2>5 DEF RequestOK, PrepSteps, EditSteps, StartSteps
    <3>. QED  BY <3>1, <3>2
  <2>7. (HashIsOfText /\ OnePostingPerText /\ NoDanglingRows)'
    <3>1. \A k \in Live : row[k].hash # new.hash
      BY <2>1, JobAssumption DEF HashTaken, WithHash, Live
    <3>2. HashIsOfText'
      BY <2>4, <2>5 DEF JobInv, HashIsOfText
    <3>3. OnePostingPerText'
      BY <2>4, <2>5, <3>1 DEF JobInv, HashIsOfText, OnePostingPerText
    <3>4. NoDanglingRows'
      BY <2>1, <2>4 DEF JobInv, NoDanglingRows, Live
    <3>. QED  BY <3>2, <3>3, <3>4
  <2>8. PrepsApart'
    BY <2>1, <2>2, IdleRequest DEF JobInv, PrepsApart, Prepares, Edits, PrepSteps, EditSteps
  <2>9. \A k \in Jobs, step \in {"drop_snapshot", "drop_thread"} :
          Dropping(k, step) => Dropping(k, step)'
    BY <2>1, <2>2 DEF Dropping
  <2>10. AnalysisOK'
    BY <2>1, <2>4, <2>5, <2>9 DEF JobInv, AnalysisOK, Live
  <2>11. ThreadsOK'
    <3>. SUFFICES ASSUME NEW k \in threads \ crossed
                  PROVE  Exists(k)' \/ Dropping(k, "drop_thread")'
      BY <2>1 DEF ThreadsOK
    <3>. QED  BY <2>4, <2>9 DEF JobInv, ThreadsOK, TypeOK, Live
  <2>. QED  BY <2>3, <2>6, <2>7, <2>8, <2>10, <2>11 DEF JobInv
<1>. QED  BY <1>1, <1>2

-----------------------------------------------------------------------------
(* PATCH /jobs/{id}. *)

LEMMA PatchReadStep ==
  ASSUME JobInv, NEW r \in Requests, NEW j \in Jobs, NEW t \in Texts,
         PatchRead(r, j, t)
  PROVE  JobInv'
<1>. DEFINE q == [Hold("patch", j, t) EXCEPT !.seen = row[j]]
<1>1. q \in Request /\ q.at = "patch" /\ q.job = j /\ q.seen = row[j]
  BY DEF Hold, Request, NoRow, Row, Steps, JobInv, TypeOK
<1>2. /\ req[r].at = "idle" /\ Exists(j) /\ Goto(r, q)
      /\ crossed' = IF Preparing(j) THEN crossed \cup {j} ELSE crossed
      /\ UNCHANGED <<Tables, threads, torn>>
  BY IdleRequest DEF PatchRead
<1>. HIDE DEF q
<1>3. req'[r] = q
  BY <1>1, <1>2, GotoOne DEF JobInv
<1>4. crossed \subseteq crossed' /\ crossed' \subseteq Jobs
  BY <1>2 DEF JobInv, TypeOK
<1>5. RequestOK(r)'
  BY <1>1, <1>2, <1>3 DEF RequestOK, HashIsOfText, JobInv, Live, Exists, Tables, PrepSteps,
     EditSteps, StartSteps
<1>6. \A k \in Jobs \ crossed' : Edits(r, k)' => ~Preparing(k)
  BY <1>1, <1>2, <1>3 DEF Edits
<1>. QED  BY <1>1, <1>2, <1>4, <1>5, <1>6, RequestStep DEF PrepSteps

\* A dropped or written posting is not prepared: it was crossed otherwise.
LEMMA EditedAlone ==
  ASSUME JobInv, NEW r \in Requests, NEW j \in Jobs \ crossed, Edits(r, j)
  PROVE  \A s \in Requests : ~Prepares(s, j)
BY DEF JobInv, PrepsApart

LEMMA PatchWriteStep ==
  ASSUME JobInv, NEW r \in Requests, PatchWrite(r)
  PROVE  JobInv'
<1>0. PICK j \in Jobs : j = req[r].job
  BY DEF PatchWrite, JobInv, RequestOK, EditSteps
<1>. DEFINE new == Flush(row[j], req[r].seen, Patched(req[r]))
            q == Hold("drop_snapshot", j, None)
<1>1. /\ req[r].at = "patch" /\ req[r].seen.hash = req[r].seen.text
      /\ req[r] \in Request /\ row[j] \in Row
      /\ UNCHANGED <<life, company, session, profile, threads, crossed, torn>>
  BY DEF PatchWrite, JobInv, RequestOK, TypeOK
<1>2. CASE UNCHANGED row /\ Finish(r)
  BY <1>1, <1>2, FinishStep DEF Tables
<1>3. CASE ~(UNCHANGED row /\ Finish(r))
  <2>1. /\ Exists(j) /\ ~HashTaken(new.hash, j)
        /\ row' = [row EXCEPT ![j] = new] /\ Goto(r, q)
    BY <1>0, <1>3 DEF PatchWrite
  <2>2. /\ new \in Row
        /\ row[j].hash = row[j].text => new.hash = new.text
        /\ new.parsed = IF req[r].seen.parsed # None THEN None ELSE row[j].parsed
    BY <1>1 DEF Flush, Patched, Row, Request
  <2>3. q \in Request /\ q.at = "drop_snapshot" /\ q.job = j
    BY HoldRequest DEF Steps
  <2>. HIDE DEF new, q
  <2>4. /\ req' \in [Requests -> Request]
        /\ req'[r] = q
        /\ \A s \in Requests \ {r} : req'[s] = req[s]
    BY <2>1, <2>3, GotoOne DEF JobInv
  <2>5. row'[j] = new /\ \A k \in Jobs \ {j} : row'[k] = row[k]
    BY <2>1 DEF JobInv, TypeOK
  <2>6. TypeOK'
    BY <1>1, <2>1, <2>2, <2>4 DEF JobInv, TypeOK
  <2>7. Live' = Live /\ j \in Live /\ \A k \in Jobs : Exists(k)' = Exists(k)
    BY <1>1, <2>1 DEF Live, Exists
  <2>8. j \notin crossed => new.parsed = None /\ \A s \in Requests : ~Prepares(s, j)
    BY <1>0, <1>1, <2>2, <2>7, EditedAlone DEF JobInv, RequestOK, Edits, EditSteps
  <2>9. \A s \in Requests : RequestOK(s)'
    <3>. SUFFICES ASSUME NEW s \in Requests PROVE RequestOK(s)'
      OBVIOUS
    <3>1. CASE s = r
      BY <1>1, <2>3, <2>4, <2>7, <3>1 DEF RequestOK, PrepSteps, EditSteps, StartSteps, Live, Exists
    <3>2. CASE s # r
      <4>1. req'[s] = req[s] /\ RequestOK(s)
        BY <2>4, <3>2 DEF JobInv
      <4>. QED  BY <1>1, <4>1, <2>5, <2>7, <2>8 DEF RequestOK, Prepares, PrepSteps, EditSteps
    <3>. QED  BY <3>1, <3>2
  <2>10. HashIsOfText'
    BY <2>2, <2>5, <2>7 DEF JobInv, HashIsOfText, Live
  <2>11. OnePostingPerText'
    <3>1. \A k \in Live \ {j} : row[k].hash # new.hash
      BY <2>1 DEF HashTaken, WithHash
    <3>2. new.hash = new.text
      BY <2>2, <2>7 DEF JobInv, HashIsOfText
    <3>. QED  BY <2>5, <2>7, <3>1, <3>2 DEF JobInv, HashIsOfText, OnePostingPerText, Live
  <2>12. NoDanglingRows'
    BY <1>1, <2>7 DEF JobInv, NoDanglingRows
  <2>13. PrepsApart'
    BY <1>0, <1>1, <2>3, <2>4 DEF JobInv, PrepsApart, Prepares, Edits, PrepSteps, EditSteps
  <2>14. AnalysisOK' /\ ThreadsOK'
    <3>1. \A k \in Jobs, step \in {"drop_snapshot", "drop_thread"} :
            Dropping(k, step) => Dropping(k, step)'
      BY <1>1, <2>4 DEF Dropping
    <3>2. Dropping(j, "drop_snapshot")'
      BY <2>3, <2>4 DEF Dropping
    <3>3. AnalysisOK'
      BY <1>1, <2>5, <2>7, <2>8, <3>1, <3>2 DEF JobInv, AnalysisOK, Live
    <3>4. ThreadsOK'
      BY <1>1, <2>7, <3>1 DEF JobInv, ThreadsOK, TypeOK
    <3>. QED  BY <3>3, <3>4
  <2>. QED  BY <2>6, <2>9, <2>10, <2>11, <2>12, <2>13, <2>14 DEF JobInv
<1>. QED  BY <1>2, <1>3

LEMMA DropSnapshotStep ==
  ASSUME JobInv, NEW r \in Requests, DropSnapshot(r)
  PROVE  JobInv'
<1>0. PICK j \in Jobs : j = req[r].job
  BY DEF DropSnapshot, JobInv, RequestOK, EditSteps
<1>1. /\ req[r].at = "drop_snapshot" /\ Goto(r, Idle)
      /\ company' = [company EXCEPT ![j] = None]
      /\ torn' = torn \ {j}
      /\ UNCHANGED <<life, row, session, profile, threads, crossed>>
  BY <1>0 DEF DropSnapshot, Finish
<1>2. /\ req' \in [Requests -> Request]
      /\ req'[r] = Idle
      /\ \A s \in Requests \ {r} : req'[s] = req[s]
  BY <1>1, IdleRequest, GotoOne DEF JobInv
<1>3. TypeOK'
  BY <1>1, <1>2 DEF JobInv, TypeOK
<1>4. company'[j] = None /\ \A k \in Jobs \ {j} : company'[k] = company[k]
  BY <1>1 DEF JobInv, TypeOK
<1>5. Live' = Live /\ \A k \in Jobs : Exists(k)' = Exists(k)
  BY <1>1 DEF Live, Exists
<1>6. \A s \in Requests : RequestOK(s)'
  <2>. SUFFICES ASSUME NEW s \in Requests PROVE RequestOK(s)'
    OBVIOUS
  <2>1. CASE s = r
    BY <1>2, <2>1, IdleRequest DEF RequestOK, PrepSteps, EditSteps, StartSteps
  <2>2. CASE s # r
    BY <1>1, <1>2, <1>5, <2>2 DEF RequestOK, JobInv
  <2>. QED  BY <2>1, <2>2
<1>7. (HashIsOfText /\ OnePostingPerText /\ NoDanglingRows)'
  BY <1>1, <1>4, <1>5 DEF JobInv, HashIsOfText, OnePostingPerText, NoDanglingRows
<1>8. PrepsApart'
  BY <1>1, <1>2, IdleRequest DEF JobInv, PrepsApart, Prepares, Edits, PrepSteps, EditSteps
<1>9. AnalysisOK' /\ ThreadsOK'
  <2>1. \A k \in Jobs \ {j} : Dropping(k, "drop_snapshot") => Dropping(k, "drop_snapshot")'
    BY <1>0, <1>1, <1>2 DEF Dropping
  <2>2. \A k \in Jobs : Dropping(k, "drop_thread") => Dropping(k, "drop_thread")'
    BY <1>1, <1>2 DEF Dropping
  <2>3. AnalysisOK'
    BY <1>1, <1>4, <1>5, <2>1 DEF JobInv, AnalysisOK, Live
  <2>4. ThreadsOK'
    BY <1>1, <1>5, <2>2 DEF JobInv, ThreadsOK, TypeOK
  <2>. QED  BY <2>3, <2>4
<1>. QED  BY <1>3, <1>6, <1>7, <1>8, <1>9 DEF JobInv

-----------------------------------------------------------------------------
(* DELETE /jobs/{id} and POST /auth/me/reset. *)

LEMMA DeleteReadStep ==
  ASSUME JobInv, NEW r \in Requests, NEW j \in Jobs, DeleteRead(r, j)
  PROVE  JobInv'
<1>. DEFINE q == Hold("delete", j, None)
<1>1. q \in Request /\ q.at = "delete" /\ q.job = j
  BY HoldRequest DEF Steps
<1>2. /\ req[r].at = "idle" /\ Exists(j) /\ Goto(r, q)
      /\ crossed' = IF Preparing(j) THEN crossed \cup {j} ELSE crossed
      /\ UNCHANGED <<Tables, threads, torn>>
  BY IdleRequest DEF DeleteRead
<1>. HIDE DEF q
<1>3. req'[r] = q
  BY <1>1, <1>2, GotoOne DEF JobInv
<1>4. crossed \subseteq crossed' /\ crossed' \subseteq Jobs
  BY <1>2 DEF JobInv, TypeOK
<1>5. RequestOK(r)'
  BY <1>1, <1>2, <1>3 DEF RequestOK, Exists, Tables, PrepSteps, EditSteps, StartSteps
<1>6. \A k \in Jobs \ crossed' : Edits(r, k)' => ~Preparing(k)
  BY <1>1, <1>2, <1>3 DEF Edits
<1>. QED  BY <1>1, <1>2, <1>4, <1>5, <1>6, RequestStep DEF PrepSteps

LEMMA ResetReadStep ==
  ASSUME JobInv, NEW r \in Requests, ResetRead(r)
  PROVE  JobInv'
<1>. DEFINE q == [Hold("wipe", None, None) EXCEPT !.todo = Live]
<1>1. q \in Request /\ q.at = "wipe" /\ q.todo = Live
  BY DEF Hold, Request, NoRow, Row, Steps, Live
<1>2. /\ req[r].at = "idle" /\ Goto(r, q)
      /\ crossed' = crossed \cup {j \in Jobs : Preparing(j)}
      /\ UNCHANGED <<Tables, threads, torn>>
  BY IdleRequest DEF ResetRead
<1>. HIDE DEF q
<1>3. req'[r] = q
  BY <1>1, <1>2, GotoOne DEF JobInv
<1>4. crossed \subseteq crossed' /\ crossed' \subseteq Jobs
  BY <1>2 DEF JobInv, TypeOK
<1>5. RequestOK(r)'
  BY <1>1, <1>2, <1>3 DEF RequestOK, Live, Exists, Tables, PrepSteps, EditSteps, StartSteps
<1>6. \A k \in Jobs \ crossed' : ~Preparing(k)
  BY <1>2
<1>. QED  BY <1>1, <1>2, <1>4, <1>5, <1>6, RequestStep DEF PrepSteps

\* Rows are removed with all that refers to them, by a request that edits them
\* and goes on to q.
LEMMA RemoveStep ==
  ASSUME JobInv, NEW r \in Requests, NEW gone \in SUBSET Live, Remove(gone),
         NEW q \in Request, Goto(r, q), profile' \in BOOLEAN, UNCHANGED <<threads, crossed>>,
         req[r].at \in {"delete", "wipe"},
         \A j \in gone : Edits(r, j),
         \/ q = Idle
         \/ q.at = "drop_thread" /\ q.job = req[r].job /\ req[r].at = "delete",
         \A j \in gone \cap (threads \ crossed) : q.at = "drop_thread" /\ q.job = j
  PROVE  JobInv'
<1>1. /\ req' \in [Requests -> Request]
      /\ req'[r] = q
      /\ \A s \in Requests \ {r} : req'[s] = req[s]
  BY GotoOne DEF JobInv
<1>2. gone \subseteq Jobs /\ Live \subseteq Jobs
  BY DEF Live
<1>3. /\ Live' = Live \ gone
      /\ \A j \in Jobs : life[j] # "unused" => life'[j] # "unused"
      /\ \A j \in Jobs \ gone : Exists(j)' = Exists(j) /\ row'[j] = row[j] /\ company'[j] = company[j]
      /\ \A j \in gone : company'[j] = None
      /\ torn' = torn \ gone
  BY <1>2 DEF Remove, Live, Exists
<1>4. TypeOK'
  <2>1. NoRow \in Row
    BY DEF NoRow, Row
  <2>. QED  BY <1>1, <1>2, <2>1 DEF JobInv, TypeOK, Remove
<1>5. \A s \in Requests : RequestOK(s)'
  <2>. SUFFICES ASSUME NEW s \in Requests PROVE RequestOK(s)'
    OBVIOUS
  <2>1. CASE s = r /\ q = Idle
    BY <1>1, <2>1, IdleRequest DEF RequestOK, PrepSteps, EditSteps, StartSteps
  <2>2. CASE s = r /\ q # Idle
    <3>1. req[r].job \in Jobs /\ life[req[r].job] # "unused"
      BY <2>2 DEF JobInv, RequestOK, EditSteps
    <3>. QED  BY <1>1, <1>3, <2>2, <3>1 DEF RequestOK, PrepSteps, EditSteps, StartSteps
  <2>3. CASE s # r
    <3>1. req'[s] = req[s] /\ RequestOK(s)
      BY <1>1, <2>3 DEF JobInv
    <3>2. req[s].at \in PrepSteps /\ req[s].job \notin crossed => req[s].job \notin gone
      BY <1>2, EditedAlone DEF Prepares
    <3>. QED  BY <1>2, <1>3, <3>1, <3>2 DEF RequestOK
  <2>. QED  BY <2>1, <2>2, <2>3
<1>6. (HashIsOfText /\ OnePostingPerText)'
  BY <1>2, <1>3 DEF JobInv, HashIsOfText, OnePostingPerText
<1>7. NoDanglingRows'
  <2>1. \A j \in Jobs : company'[j] # None => Exists(j)'
    BY <1>2, <1>3 DEF JobInv, NoDanglingRows
  <2>2. \A s \in Sessions : session'[s].status \in {"active", "over"} =>
          session[s].job \notin gone /\ session'[s] = session[s]
    BY DEF Remove
  <2>. QED  BY <1>3, <2>1, <2>2 DEF JobInv, NoDanglingRows
<1>8. PrepsApart'
  BY <1>1, IdleRequest DEF JobInv, PrepsApart, Prepares, Edits, PrepSteps, EditSteps
<1>9. AnalysisOK'
  <2>1. \A k \in Jobs : Dropping(k, "drop_snapshot") => Dropping(k, "drop_snapshot")'
    BY <1>1 DEF Dropping
  <2>. QED  BY <1>2, <1>3, <2>1 DEF JobInv, AnalysisOK
<1>10. ThreadsOK'
  <2>. SUFFICES ASSUME NEW j \in threads \ crossed
                PROVE  Exists(j)' \/ Dropping(j, "drop_thread")'
    BY DEF ThreadsOK
  <2>1. Dropping(j, "drop_thread") => Dropping(j, "drop_thread")'
    BY <1>1 DEF Dropping
  <2>2. CASE j \in gone
    BY <1>1, <2>2 DEF Dropping
  <2>3. CASE j \notin gone
    BY <1>3, <2>1, <2>3 DEF JobInv, ThreadsOK, TypeOK
  <2>. QED  BY <2>2, <2>3
<1>. QED  BY <1>4, <1>5, <1>6, <1>7, <1>8, <1>9, <1>10 DEF JobInv

LEMMA DeleteJobStep ==
  ASSUME JobInv, NEW r \in Requests, DeleteJob(r)
  PROVE  JobInv'
<1>0. PICK j \in Jobs : j = req[r].job
  BY DEF DeleteJob, JobInv, RequestOK, EditSteps
<1>1. CASE ~Exists(j)
  BY <1>0, <1>1, FinishStep DEF DeleteJob
<1>2. CASE Exists(j)
  <2>. DEFINE q == Hold("drop_thread", j, None)
  <2>1. q \in Request /\ q.at = "drop_thread" /\ q.job = j
    BY HoldRequest DEF Steps
  <2>2. /\ req[r].at = "delete" /\ Remove({j}) /\ Goto(r, q)
        /\ UNCHANGED <<profile, threads, crossed>>
    BY <1>0, <1>2 DEF DeleteJob
  <2>. HIDE DEF q
  <2>3. {j} \in SUBSET Live /\ Edits(r, j)
    BY <1>0, <1>2, <2>2 DEF Live, Edits, EditSteps
  <2>4. profile' \in BOOLEAN
    BY <2>2 DEF JobInv, TypeOK
  <2>. QED  BY <1>0, <2>1, <2>2, <2>3, <2>4, RemoveStep
<1>. QED  BY <1>1, <1>2

LEMMA WipeStep ==
  ASSUME JobInv, NEW r \in Requests, Wipe(r)
  PROVE  JobInv'
<1>1. /\ req[r].at = "wipe" /\ req[r].todo = {} /\ Remove(Live) /\ Goto(r, Idle)
      /\ profile' \in BOOLEAN /\ UNCHANGED <<threads, crossed>>
  BY DEF Wipe, Finish
<1>2. \A j \in Live : Edits(r, j) /\ j \notin threads \ crossed
  BY <1>1 DEF JobInv, RequestOK, Edits, Live
<1>. QED  BY <1>1, <1>2, IdleRequest, RemoveStep

\* A checkpoint is forgotten, or the saver fails; the request goes on.
LEMMA ForgetStep ==
  ASSUME JobInv, NEW r \in Requests, NEW j \in Jobs, ForgetThread(j), UNCHANGED <<Tables, torn>>,
         NEW q \in Request, Goto(r, q),
         \/ req[r].at = "drop_thread" /\ req[r].job = j /\ q = Idle
         \/ req[r].at = "wipe" /\ q.at = "wipe" /\ q.todo = req[r].todo \ {j}
  PROVE  JobInv'
<1>1. /\ req' \in [Requests -> Request]
      /\ req'[r] = q
      /\ \A s \in Requests \ {r} : req'[s] = req[s]
  BY GotoOne DEF JobInv
<1>2. /\ threads' \ crossed' = (threads \ crossed) \ {j}
      /\ crossed \subseteq crossed' /\ crossed' \subseteq Jobs /\ threads' \subseteq Jobs
  BY DEF ForgetThread, JobInv, TypeOK
<1>3. UNCHANGED <<life, row, company, session, profile, torn>>
      /\ Live' = Live /\ \A k \in Jobs : Exists(k)' = Exists(k)
  BY DEF Tables, Live, Exists
<1>4. TypeOK'
  BY <1>1, <1>2, <1>3 DEF JobInv, TypeOK
<1>5. \A s \in Requests : RequestOK(s)'
  <2>. SUFFICES ASSUME NEW s \in Requests PROVE RequestOK(s)'
    OBVIOUS
  <2>1. CASE s = r /\ q = Idle
    BY <1>1, <2>1, IdleRequest DEF RequestOK, PrepSteps, EditSteps, StartSteps
  <2>2. CASE s = r /\ q # Idle
    BY <1>1, <1>2, <1>3, <2>2 DEF JobInv, RequestOK, PrepSteps, EditSteps, StartSteps
  <2>3. CASE s # r
    <3>1. req'[s] = req[s] /\ RequestOK(s)
      BY <1>1, <2>3 DEF JobInv
    <3>. QED  BY <1>2, <1>3, <3>1 DEF RequestOK
  <2>. QED  BY <2>1, <2>2, <2>3
<1>6. (HashIsOfText /\ OnePostingPerText /\ NoDanglingRows)'
  BY <1>3 DEF JobInv, HashIsOfText, OnePostingPerText, NoDanglingRows
<1>7. PrepsApart'
  BY <1>1, <1>2, IdleRequest DEF JobInv, PrepsApart, Prepares, Edits, PrepSteps, EditSteps
<1>8. AnalysisOK' /\ ThreadsOK'
  <2>1. \A k \in Jobs : Dropping(k, "drop_snapshot") => Dropping(k, "drop_snapshot")'
    BY <1>1 DEF Dropping
  <2>2. \A k \in Jobs \ {j} : Dropping(k, "drop_thread") => Dropping(k, "drop_thread")'
    BY <1>1 DEF Dropping
  <2>3. AnalysisOK'
    BY <1>2, <1>3, <2>1 DEF JobInv, AnalysisOK, Live
  <2>4. ThreadsOK'
    BY <1>2, <1>3, <2>2 DEF JobInv, ThreadsOK, TypeOK
  <2>. QED  BY <2>3, <2>4
<1>. QED  BY <1>4, <1>5, <1>6, <1>7, <1>8 DEF JobInv

LEMMA DropThreadStep ==
  ASSUME JobInv, NEW r \in Requests, DropThread(r)
  PROVE  JobInv'
<1>1. req[r].job \in Jobs
  BY DEF DropThread, JobInv, RequestOK, EditSteps
<1>. QED  BY <1>1, IdleRequest, ForgetStep DEF DropThread, Finish

LEMMA WipeThreadStep ==
  ASSUME JobInv, NEW r \in Requests, WipeThread(r)
  PROVE  JobInv'
<1>1. PICK j \in req[r].todo : ForgetThread(j) /\ Goto(r, [req[r] EXCEPT !.todo = req[r].todo \ {j}])
  BY DEF WipeThread
<1>. DEFINE q == [req[r] EXCEPT !.todo = req[r].todo \ {j}]
<1>2. /\ j \in Jobs /\ q \in Request /\ q.at = "wipe" /\ q.todo = req[r].todo \ {j}
      /\ req[r].at = "wipe" /\ UNCHANGED <<Tables, torn>>
  BY DEF WipeThread, JobInv, TypeOK, Request
<1>3. ForgetThread(j) /\ Goto(r, q)
  BY <1>1
<1>. HIDE DEF q
<1>. QED  BY <1>2, <1>3, ForgetStep

-----------------------------------------------------------------------------
(* Prep streams. *)

LEMMA PrepareStep ==
  ASSUME JobInv, NEW r \in Requests, NEW j \in Jobs, Prepare(r, j)
  PROVE  JobInv'
<1>. DEFINE q == IF row[j].parsed # None THEN Hold("company", j, None)
                                         ELSE Hold("analyze", j, row[j].text)
<1>1. /\ q \in Request /\ q.at \in {"company", "analyze"} /\ q.job = j
      /\ q.at = "analyze" => q.text = row[j].text
  <2>1. row[j].text \in Texts \cup {None}
    BY DEF JobInv, TypeOK, Row
  <2>. QED  BY <2>1, HoldRequest DEF Steps
<1>2. /\ req[r].at = "idle" /\ Exists(j) /\ Goto(r, q)
      /\ threads' = threads \cup {j} /\ profile' = TRUE
      /\ crossed' = IF Editing(j) THEN crossed \cup {j} ELSE crossed
      /\ UNCHANGED <<life, row, company, session, torn>>
  BY IdleRequest DEF Prepare
<1>. HIDE DEF q
<1>3. /\ req' \in [Requests -> Request]
      /\ req'[r] = q
      /\ \A s \in Requests \ {r} : req'[s] = req[s]
  BY <1>1, <1>2, GotoOne DEF JobInv
<1>4. Live' = Live /\ j \in Live /\ \A k \in Jobs : Exists(k)' = Exists(k)
  BY <1>2 DEF Live, Exists
<1>5. TypeOK'
  BY <1>2, <1>3 DEF JobInv, TypeOK
<1>6. \A s \in Requests : RequestOK(s)'
  <2>. SUFFICES ASSUME NEW s \in Requests PROVE RequestOK(s)'
    OBVIOUS
  <2>1. CASE s = r
    BY <1>1, <1>2, <1>3, <1>4, <2>1 DEF RequestOK, Exists, PrepSteps, EditSteps, StartSteps
  <2>2. CASE s # r
    <3>1. req'[s] = req[s] /\ RequestOK(s)
      BY <1>3, <2>2 DEF JobInv
    <3>2. req[s].at = "wipe" => j \in crossed'
      BY <1>2 DEF Editing, Edits
    <3>. QED  BY <1>2, <1>4, <3>1, <3>2 DEF RequestOK
  <2>. QED  BY <2>1, <2>2
<1>7. (HashIsOfText /\ OnePostingPerText /\ NoDanglingRows)'
  BY <1>2, <1>4 DEF JobInv, HashIsOfText, OnePostingPerText, NoDanglingRows
<1>8. PrepsApart'
  <2>. SUFFICES ASSUME NEW p \in Requests, NEW e \in Requests, NEW k \in Jobs \ crossed',
                       Prepares(p, k)', Edits(e, k)'
                PROVE  FALSE
    BY DEF PrepsApart
  <2>1. e # r /\ Edits(e, k)
    BY <1>1, <1>3 DEF Edits, EditSteps
  <2>2. p = r
    BY <1>2, <1>3, <2>1 DEF JobInv, PrepsApart, Prepares
  <2>. QED  BY <1>1, <1>2, <1>3, <2>1, <2>2 DEF Prepares, Editing
<1>9. AnalysisOK' /\ ThreadsOK'
  <2>1. \A k \in Jobs, step \in {"drop_snapshot", "drop_thread"} :
          Dropping(k, step) => Dropping(k, step)'
    BY <1>2, <1>3 DEF Dropping
  <2>2. AnalysisOK'
    BY <1>2, <1>4, <2>1 DEF JobInv, AnalysisOK, Live
  <2>3. ThreadsOK'
    BY <1>2, <1>4, <2>1 DEF JobInv, ThreadsOK, TypeOK
  <2>. QED  BY <2>2, <2>3
<1>. QED  BY <1>5, <1>6, <1>7, <1>8, <1>9 DEF JobInv

LEMMA AnalyzeStep ==
  ASSUME JobInv, NEW r \in Requests, Analyze(r)
  PROVE  JobInv'
<1>0. PICK j \in Jobs : j = req[r].job
  BY DEF Analyze, JobInv, RequestOK, PrepSteps
<1>1. CASE Finish(r) /\ UNCHANGED <<row, threads>>
  BY <1>1, FinishStep DEF Analyze, Tables
<1>2. CASE ~(Finish(r) /\ UNCHANGED <<row, threads>>)
  <2>. DEFINE q == Hold("company", j, None)
              new == [row[j] EXCEPT !.parsed = req[r].text]
  <2>1. q \in Request /\ q.at = "company" /\ q.job = j
    BY HoldRequest DEF Steps
  <2>2. /\ req[r].at = "analyze" /\ Goto(r, q) /\ threads' = threads \cup {j}
        /\ row' = IF Exists(j) THEN [row EXCEPT ![j] = new] ELSE row
        /\ UNCHANGED <<life, company, session, profile, crossed, torn>>
    BY <1>0, <1>2 DEF Analyze
  <2>3. /\ new \in Row /\ new.text = row[j].text /\ new.hash = row[j].hash
        /\ new.parsed = req[r].text
    BY DEF JobInv, TypeOK, Row, Request
  <2>. HIDE DEF new, q
  <2>4. /\ req' \in [Requests -> Request]
        /\ req'[r] = q
        /\ \A s \in Requests \ {r} : req'[s] = req[s]
    BY <2>1, <2>2, GotoOne DEF JobInv
  <2>5. TypeOK'
    BY <2>2, <2>3, <2>4 DEF JobInv, TypeOK
  <2>6. Live' = Live /\ \A k \in Jobs : Exists(k)' = Exists(k)
    BY <2>2 DEF Live, Exists
  <2>7. /\ \A k \in Live : row'[k].text = row[k].text /\ row'[k].hash = row[k].hash
        /\ \A k \in Live \ {j} : row'[k] = row[k]
        /\ j \in Live => row'[j] = new
    BY <2>2, <2>3 DEF JobInv, TypeOK, Live, Exists
  <2>8. j \notin crossed => /\ \A s \in Requests : ~Edits(s, j)
                            /\ j \in Live => req[r].text = row[j].text
    BY <1>0, <2>2 DEF JobInv, PrepsApart, Prepares, PrepSteps, RequestOK
  <2>9. \A s \in Requests : RequestOK(s)'
    <3>. SUFFICES ASSUME NEW s \in Requests PROVE RequestOK(s)'
      OBVIOUS
    <3>1. CASE s = r
      <4>1. life'[j] # "unused" /\ (j \notin crossed' => j \in Live')
        BY <1>0, <2>2, <2>6 DEF JobInv, RequestOK, PrepSteps
      <4>. QED  BY <2>1, <2>4, <3>1, <4>1 DEF RequestOK, PrepSteps, EditSteps, StartSteps
    <3>2. CASE s # r
      <4>1. req'[s] = req[s] /\ RequestOK(s)
        BY <2>4, <3>2 DEF JobInv
      <4>2. CASE req[s].at = "patch" /\ req[s].job = j
        <5>0. Edits(s, j)
          BY <4>2 DEF Edits, EditSteps
        <5>1. j \in crossed'
          BY <2>2, <2>8, <5>0
        <5>. QED  BY <2>2, <4>1, <4>2, <5>1 DEF RequestOK, PrepSteps, EditSteps
      <4>3. CASE req[s].at = "wipe"
        <5>0. Edits(s, j)
          BY <4>3 DEF Edits
        <5>1. j \in crossed'
          BY <2>2, <2>8, <5>0
        <5>. QED  BY <2>2, <2>6, <4>1, <4>3, <5>1 DEF RequestOK, PrepSteps, EditSteps, StartSteps
      <4>4. CASE ~(req[s].at = "patch" /\ req[s].job = j) /\ req[s].at # "wipe"
        BY <2>2, <2>6, <2>7, <4>1, <4>4 DEF RequestOK
      <4>. QED  BY <4>2, <4>3, <4>4
    <3>. QED  BY <3>1, <3>2
  <2>10. (HashIsOfText /\ OnePostingPerText /\ NoDanglingRows)'
    BY <2>2, <2>6, <2>7 DEF JobInv, HashIsOfText, OnePostingPerText, NoDanglingRows
  <2>11. PrepsApart'
    BY <1>0, <2>1, <2>2, <2>4 DEF JobInv, PrepsApart, Prepares, Edits, PrepSteps, EditSteps
  <2>12. \A k \in Jobs, step \in {"drop_snapshot", "drop_thread"} :
          Dropping(k, step) => Dropping(k, step)'
    BY <2>2, <2>4 DEF Dropping
  <2>13. AnalysisOK'
    <3>. SUFFICES ASSUME NEW k \in Live \ crossed
                  PROVE  /\ row'[k].parsed \in {None, row'[k].text}
                         /\ company[k] \in {None, row'[k].text} \/ Dropping(k, "drop_snapshot")' \/ k \in torn
      BY <2>2, <2>6 DEF AnalysisOK
    <3>1. CASE k = j
      <4>1. company[j] \in {None, row[j].text} \/ Dropping(j, "drop_snapshot") \/ j \in torn
        BY <3>1 DEF JobInv, AnalysisOK
      <4>2. row'[j].parsed = row[j].text /\ row'[j].text = row[j].text
        BY <2>3, <2>7, <2>8, <3>1
      <4>. QED  BY <2>12, <3>1, <4>1, <4>2
    <3>2. CASE k # j
      BY <2>7, <2>12, <3>2 DEF JobInv, AnalysisOK, Live
    <3>. QED  BY <3>1, <3>2
  <2>14. ThreadsOK'
    <3>1. j \notin crossed => Exists(j)
      BY <1>0, <2>2 DEF JobInv, RequestOK, PrepSteps, Live
    <3>. QED  BY <2>2, <2>6, <2>12, <3>1 DEF JobInv, ThreadsOK, TypeOK
  <2>. QED  BY <2>5, <2>9, <2>10, <2>11, <2>13, <2>14 DEF JobInv
<1>. QED  BY <1>1, <1>2

LEMMA LookUpCompanyStep ==
  ASSUME JobInv, NEW r \in Requests, LookUpCompany(r)
  PROVE  JobInv'
<1>0. PICK j \in Jobs : j = req[r].job
  BY DEF LookUpCompany, JobInv, RequestOK, PrepSteps
<1>. DEFINE hit == ~(company[j] = None /\ Exists(j) /\ row[j].parsed # None)
            q == Hold("research", j, row[j].parsed)
<1>1. CASE hit
  BY <1>0, <1>1, FinishStep DEF LookUpCompany
<1>2. CASE ~hit
  <2>1. row[j].parsed \in Texts \cup {None}
    BY DEF JobInv, TypeOK, Row
  <2>2. q \in Request /\ q.at = "research" /\ q.job = j /\ q.text = row[j].parsed
    BY <2>1, HoldRequest DEF Steps
  <2>3. /\ req[r].at = "company" /\ Goto(r, q) /\ UNCHANGED <<Tables, threads, crossed, torn>>
        /\ row[j].parsed # None
    BY <1>0, <1>2 DEF LookUpCompany
  <2>. HIDE DEF q
  <2>4. req'[r] = q
    BY <2>2, <2>3, GotoOne DEF JobInv
  <2>5. RequestOK(r)'
    <3>1. life[j] # "unused" /\ (j \notin crossed => j \in Live)
      BY <1>0, <2>3 DEF JobInv, RequestOK, PrepSteps
    <3>2. j \in Live \ crossed => row[j].parsed = row[j].text
      BY <2>3 DEF JobInv, AnalysisOK
    <3>. QED  BY <2>2, <2>3, <2>4, <3>1, <3>2 DEF RequestOK, Tables, Live, Exists, PrepSteps,
                 EditSteps, StartSteps
  <2>6. \A k \in Jobs : ~Edits(r, k)'
    BY <2>2, <2>4 DEF Edits, EditSteps
  <2>7. crossed \subseteq Jobs
    BY DEF JobInv, TypeOK
  <2>. QED  BY <1>0, <2>2, <2>3, <2>5, <2>6, <2>7, RequestStep DEF PrepSteps
<1>. QED  BY <1>1, <1>2

LEMMA ResearchStep ==
  ASSUME JobInv, NEW r \in Requests, Research(r)
  PROVE  JobInv'
<1>0. PICK j \in Jobs : j = req[r].job
  BY DEF Research, JobInv, RequestOK, PrepSteps
<1>1. CASE UNCHANGED <<company, threads>>
  BY <1>1, FinishStep DEF Research, Tables
<1>2. CASE ~UNCHANGED <<company, threads>>
  <2>1. /\ req[r].at = "research" /\ Goto(r, Idle) /\ Exists(j)
        /\ company' = [company EXCEPT ![j] = req[r].text]
        /\ threads' = threads \cup {j}
        /\ UNCHANGED <<life, row, session, profile, crossed, torn>>
    BY <1>0, <1>2 DEF Research, Finish
  <2>2. /\ req' \in [Requests -> Request]
        /\ req'[r] = Idle
        /\ \A s \in Requests \ {r} : req'[s] = req[s]
    BY <2>1, IdleRequest, GotoOne DEF JobInv
  <2>3. TypeOK'
    BY <2>1, <2>2 DEF JobInv, TypeOK, Request
  <2>4. company'[j] = req[r].text /\ \A k \in Jobs \ {j} : company'[k] = company[k]
    BY <2>1 DEF JobInv, TypeOK
  <2>5. Live' = Live /\ j \in Live /\ \A k \in Jobs : Exists(k)' = Exists(k)
    BY <2>1 DEF Live, Exists
  <2>6. j \notin crossed => /\ \A s \in Requests : ~Edits(s, j)
                            /\ req[r].text = row[j].text
    BY <1>0, <2>1, <2>5 DEF JobInv, PrepsApart, Prepares, PrepSteps, RequestOK
  <2>7. \A s \in Requests : RequestOK(s)'
    <3>. SUFFICES ASSUME NEW s \in Requests PROVE RequestOK(s)'
      OBVIOUS
    <3>1. CASE s = r
      BY <2>2, <3>1, IdleRequest DEF RequestOK, PrepSteps, EditSteps, StartSteps
    <3>2. CASE s # r
      <4>1. req'[s] = req[s] /\ RequestOK(s)
        BY <2>2, <3>2 DEF JobInv
      <4>2. req[s].at = "wipe" => j \in crossed
        BY <2>6 DEF Edits
      <4>. QED  BY <2>1, <2>5, <4>1, <4>2 DEF RequestOK
    <3>. QED  BY <3>1, <3>2
  <2>8. (HashIsOfText /\ OnePostingPerText /\ NoDanglingRows)'
    BY <2>1, <2>4, <2>5 DEF JobInv, HashIsOfText, OnePostingPerText, NoDanglingRows
  <2>9. PrepsApart'
    BY <2>1, <2>2, IdleRequest DEF JobInv, PrepsApart, Prepares, Edits, PrepSteps, EditSteps
  <2>10. \A k \in Jobs, step \in {"drop_snapshot", "drop_thread"} :
           Dropping(k, step) => Dropping(k, step)'
    BY <2>1, <2>2 DEF Dropping
  <2>11. AnalysisOK'
    BY <2>1, <2>4, <2>5, <2>6, <2>10 DEF JobInv, AnalysisOK, Live
  <2>12. ThreadsOK'
    BY <2>1, <2>5, <2>10 DEF JobInv, ThreadsOK, TypeOK
  <2>. QED  BY <2>3, <2>7, <2>8, <2>9, <2>11, <2>12 DEF JobInv
<1>. QED  BY <1>1, <1>2

-----------------------------------------------------------------------------
(* POST /sessions. *)

LEMMA StartStep ==
  ASSUME JobInv, NEW r \in Requests,
         \/ \E j \in Jobs : StartSession(r, j)
         \/ CheckProfile(r)
         \/ CheckCompany(r)
  PROVE  JobInv'
<1>1. CASE \E j \in Jobs : StartSession(r, j)
  <2>. PICK j \in Jobs : StartSession(r, j)
    BY <1>1
  <2>. DEFINE q == Hold("check_profile", j, None)
  <2>1. q \in Request /\ q.at = "check_profile" /\ q.job = j
    BY HoldRequest DEF Steps
  <2>2. /\ req[r].at = "idle" /\ Goto(r, q) /\ UNCHANGED <<Tables, threads, crossed, torn>>
        /\ life[j] = "row"
    BY IdleRequest DEF StartSession, Exists
  <2>. HIDE DEF q
  <2>. QED  BY <2>1, <2>2, PlainStep DEF PrepSteps, EditSteps
<1>2. CASE (CheckProfile(r) \/ CheckCompany(r)) /\ Finish(r)
  BY <1>2, FinishStep DEF CheckProfile, CheckCompany
<1>3. CASE (CheckProfile(r) \/ CheckCompany(r)) /\ ~Finish(r)
  <2>1. PICK j \in Jobs : j = req[r].job /\ life[j] # "unused"
    BY <1>3 DEF CheckProfile, CheckCompany, JobInv, RequestOK, StartSteps
  <2>2. PICK step \in {"check_company", "open"} : Goto(r, Hold(step, j, None))
    BY <1>3, <2>1 DEF CheckProfile, CheckCompany
  <2>. DEFINE q == Hold(step, j, None)
  <2>3. q \in Request /\ q.at = step /\ q.job = j
    BY HoldRequest DEF Steps
  <2>4. /\ Goto(r, q) /\ UNCHANGED <<Tables, threads, crossed, torn>>
        /\ req[r].at \in {"check_profile", "check_company"}
    BY <1>3, <2>2 DEF CheckProfile, CheckCompany
  <2>. HIDE DEF q
  <2>. QED  BY <2>1, <2>3, <2>4, PlainStep DEF PrepSteps, EditSteps
<1>. QED  BY <1>1, <1>2, <1>3

\* Steps that change sessions or the profile, and leave all else to finish.
LEMMA NeighbourStep ==
  ASSUME JobInv, UNCHANGED <<life, row, company, threads, crossed, torn>>, profile' \in BOOLEAN,
         \/ UNCHANGED req
         \/ \E r \in Requests : Finish(r) /\ req[r].at \notin {"drop_snapshot", "drop_thread"},
         session' \in [Sessions -> [job : Jobs \cup {None},
                                    status : {"unused", "active", "over", "deleted"}]],
         \A s \in Sessions : session'[s].status \in {"active", "over"} => session'[s].job \in Live
  PROVE  JobInv'
<1>1. /\ req' \in [Requests -> Request]
      /\ \A s \in Requests : req'[s] = req[s] \/ req'[s] = Idle
      /\ \A s \in Requests : req[s].at \in {"drop_snapshot", "drop_thread"} => req'[s] = req[s]
  <2>1. CASE UNCHANGED req
    BY <2>1 DEF JobInv, TypeOK
  <2>2. CASE \E r \in Requests : Finish(r) /\ req[r].at \notin {"drop_snapshot", "drop_thread"}
    BY <2>2, GotoOne, IdleRequest DEF JobInv, Finish
  <2>. QED  BY <2>1, <2>2
<1>2. TypeOK'
  BY <1>1 DEF JobInv, TypeOK
<1>3. Live' = Live /\ \A k \in Jobs : Exists(k)' = Exists(k)
  BY DEF Live, Exists
<1>4. \A s \in Requests : RequestOK(s)'
  <2>. SUFFICES ASSUME NEW s \in Requests PROVE RequestOK(s)'
    OBVIOUS
  <2>1. CASE req'[s] = Idle
    BY <2>1, IdleRequest DEF RequestOK, PrepSteps, EditSteps, StartSteps
  <2>2. CASE req'[s] = req[s]
    BY <1>3, <2>2 DEF RequestOK, JobInv
  <2>. QED  BY <1>1, <2>1, <2>2
<1>5. (HashIsOfText /\ OnePostingPerText /\ NoDanglingRows)'
  BY <1>3 DEF JobInv, HashIsOfText, OnePostingPerText, NoDanglingRows
<1>6. PrepsApart'
  BY <1>1, IdleRequest DEF JobInv, PrepsApart, Prepares, Edits, PrepSteps, EditSteps
<1>7. \A k \in Jobs, step \in {"drop_snapshot", "drop_thread"} :
        Dropping(k, step) => Dropping(k, step)'
  BY <1>1 DEF Dropping
<1>8. AnalysisOK' /\ ThreadsOK'
  BY <1>3, <1>7 DEF JobInv, AnalysisOK, ThreadsOK, TypeOK, Live
<1>. QED  BY <1>2, <1>4, <1>5, <1>6, <1>8 DEF JobInv

LEMMA OpenSessionStep ==
  ASSUME JobInv, NEW r \in Requests, OpenSession(r)
  PROVE  JobInv'
<1>1. /\ req[r].at = "open" /\ Finish(r)
      /\ UNCHANGED <<life, row, company, profile, threads, crossed, torn>>
      /\ req[r].job \in Jobs
  BY DEF OpenSession, JobInv, RequestOK, StartSteps
<1>2. /\ session' \in [Sessions -> [job : Jobs \cup {None},
                                    status : {"unused", "active", "over", "deleted"}]]
      /\ \A s \in Sessions : session'[s].status \in {"active", "over"} => session'[s].job \in Live
  BY <1>1, SMTT(30) DEF OpenSession, JobInv, TypeOK, NoDanglingRows, Live
<1>3. profile' \in BOOLEAN
  BY <1>1 DEF JobInv, TypeOK
<1>. QED  BY <1>1, <1>2, <1>3, NeighbourStep

LEMMA SessionOverStep ==
  ASSUME JobInv, NEW s \in Sessions, SessionOver(s)
  PROVE  JobInv'
<1>1. /\ session' \in [Sessions -> [job : Jobs \cup {None},
                                    status : {"unused", "active", "over", "deleted"}]]
      /\ \A t \in Sessions : session'[t].status \in {"active", "over"} => session'[t].job \in Live
  <2>1. session' = [session EXCEPT ![s] = [session[s] EXCEPT !.status = "over"]]
        /\ session[s].status = "active"
    BY DEF SessionOver
  <2>. QED  BY <2>1 DEF JobInv, TypeOK, NoDanglingRows
<1>2. /\ UNCHANGED <<life, row, company, threads, crossed, torn, req>> /\ profile' \in BOOLEAN
  BY DEF SessionOver, JobInv, TypeOK
<1>. QED  BY <1>1, <1>2, NeighbourStep

LEMMA ProfileDroppedStep ==
  ASSUME JobInv, ProfileDropped
  PROVE  JobInv'
<1>1. /\ UNCHANGED <<life, row, company, session, threads, crossed, torn, req>> /\ profile' \in BOOLEAN
  BY DEF ProfileDropped
<1>. QED  BY <1>1, NeighbourStep DEF JobInv, TypeOK, NoDanglingRows

-----------------------------------------------------------------------------
(* A request cut off: only between its two commits does it leave something. *)

LEMMA CutOffStep ==
  ASSUME JobInv, NEW r \in Requests, CutOff(r)
  PROVE  JobInv'
<1>1. CASE req[r].at \notin {"drop_snapshot", "drop_thread"}
  <2>1. UNCHANGED <<Tables, threads, crossed, torn>>
    BY <1>1 DEF CutOff
  <2>. QED  BY <1>1, <2>1, FinishStep DEF CutOff
<1>2. CASE req[r].at \in {"drop_snapshot", "drop_thread"}
  <2>0. PICK j \in Jobs : j = req[r].job
    BY <1>2 DEF JobInv, RequestOK, EditSteps
  <2>1. /\ Goto(r, Idle) /\ UNCHANGED <<life, row, company, session, profile, threads>>
        /\ torn \subseteq torn' /\ torn' \subseteq Jobs
        /\ crossed \subseteq crossed' /\ crossed' \subseteq Jobs
        /\ req[r].at = "drop_snapshot" /\ j \in Live /\ company[j] # None => j \in torn'
        /\ req[r].at = "drop_thread" /\ j \in threads => j \in crossed'
    BY <2>0 DEF CutOff, Finish, Tables, JobInv, TypeOK, Live
  <2>2. /\ req' \in [Requests -> Request]
        /\ req'[r] = Idle
        /\ \A s \in Requests \ {r} : req'[s] = req[s]
    BY <2>1, IdleRequest, GotoOne DEF JobInv
  <2>3. TypeOK'
    BY <2>1, <2>2 DEF JobInv, TypeOK
  <2>4. Live' = Live /\ \A k \in Jobs : Exists(k)' = Exists(k)
    BY <2>1 DEF Live, Exists
  <2>5. \A s \in Requests : RequestOK(s)'
    <3>. SUFFICES ASSUME NEW s \in Requests PROVE RequestOK(s)'
      OBVIOUS
    <3>1. CASE s = r
      BY <2>2, <3>1, IdleRequest DEF RequestOK, PrepSteps, EditSteps, StartSteps
    <3>2. CASE s # r
      BY <2>1, <2>2, <2>4, <3>2 DEF RequestOK, JobInv
    <3>. QED  BY <3>1, <3>2
  <2>6. (HashIsOfText /\ OnePostingPerText /\ NoDanglingRows)'
    BY <2>1, <2>4 DEF JobInv, HashIsOfText, OnePostingPerText, NoDanglingRows
  <2>7. PrepsApart'
    BY <2>1, <2>2, IdleRequest DEF JobInv, PrepsApart, Prepares, Edits, PrepSteps, EditSteps
  <2>8. \A k \in Jobs, step \in {"drop_snapshot", "drop_thread"} :
          Dropping(k, step) => Dropping(k, step)' \/ (req[r].at = step /\ k = j)
    BY <2>0, <2>2 DEF Dropping
  <2>9. AnalysisOK'
    BY <2>1, <2>4, <2>8 DEF JobInv, AnalysisOK, Live
  <2>10. ThreadsOK'
    BY <2>1, <2>4, <2>8 DEF JobInv, ThreadsOK, TypeOK
  <2>. QED  BY <2>3, <2>5, <2>6, <2>7, <2>9, <2>10 DEF JobInv
<1>. QED  BY <1>1, <1>2

-----------------------------------------------------------------------------
(* The theorems. *)

LEMMA InitStep ==
  ASSUME Init
  PROVE  JobInv
<1>1. TypeOK
  <2>1. NoRow \in Row
    BY DEF NoRow, Row
  <2>. QED  BY <2>1, IdleRequest DEF Init, TypeOK
<1>2. Live = {} /\ \A r \in Requests : req[r].at = "idle"
  BY IdleRequest DEF Init, Live, Exists
<1>. QED  BY <1>1, <1>2 DEF Init, JobInv, RequestOK, HashIsOfText, OnePostingPerText,
             NoDanglingRows, PrepsApart, Prepares, AnalysisOK, ThreadsOK, PrepSteps, EditSteps,
             StartSteps

LEMMA NextStep ==
  ASSUME JobInv, Next
  PROVE  JobInv'
<1>1. ASSUME NEW r \in Requests, Begin(r)
      PROVE  JobInv'
  BY <1>1, PostStep, PatchReadStep, DeleteReadStep, PrepareStep, StartStep, ResetReadStep DEF Begin
<1>2. ASSUME NEW r \in Requests, Continue(r)
      PROVE  JobInv'
  BY <1>2, PostStep, InsertStep, PatchWriteStep, DropSnapshotStep, DeleteJobStep, DropThreadStep,
     WipeThreadStep, WipeStep, AnalyzeStep, LookUpCompanyStep, ResearchStep, StartStep,
     OpenSessionStep, CutOffStep DEF Continue
<1>. QED  BY <1>1, <1>2, SessionOverStep, ProfileDroppedStep DEF Next

LEMMA StutterStep ==
  ASSUME JobInv, UNCHANGED vars
  PROVE  JobInv'
BY NeighbourStep DEF vars, JobInv, TypeOK, NoDanglingRows

\* JobInv holds in every reachable state: whatever requests overlap, the rows,
\* the checkpoints and what each request carries stay in step.
THEOREM JobInvariant == Spec => []JobInv
<1>1. Init => JobInv
  BY InitStep
<1>2. JobInv /\ [Next]_vars => JobInv'
  BY NextStep, StutterStep
<1>. QED  BY <1>1, <1>2, PTL DEF Spec

\* No two stored postings have the same text, however many requests submit it
\* or patch to it at the same time.
THEOREM PostedOnce == Spec => []OnePostingPerText
BY JobInvariant, PTL DEF JobInv

\* The digest POST /jobs looks for is that of the text in the row.
THEOREM DigestOfText == Spec => []HashIsOfText
BY JobInvariant, PTL DEF JobInv

\* No snapshot and no session outlives its job.
THEOREM NothingDangles == Spec => []NoDanglingRows
BY JobInvariant, PTL DEF JobInv

\* A job has the analysis and the company of its text, once a PATCH has ended
\* that no prep stream crossed; the company, unless the PATCH was cut off before
\* it dropped the snapshot.
THEOREM AnalysisOfText == Spec => []AnalysedAsItReads
<1>1. JobInv => AnalysedAsItReads
  BY DEF JobInv, AnalysisOK, AnalysedAsItReads, Dropping, Editing, Edits, EditSteps
<1>. QED  BY <1>1, JobInvariant, PTL

\* A job deleted by its user, or with the account, leaves no checkpoint, but for
\* a saver that failed, a prep stream in flight meanwhile, or a DELETE cut off
\* before it came to the checkpoint.
THEOREM ThreadsForgotten == Spec => []NoThreadLeftBehind
<1>1. JobInv => NoThreadLeftBehind
  BY DEF JobInv, ThreadsOK, NoThreadLeftBehind, Dropping, Editing, Edits, EditSteps
<1>. QED  BY <1>1, JobInvariant, PTL
=============================================================================
