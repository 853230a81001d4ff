------------------------------ MODULE JobRows ------------------------------
(***************************************************************************)
(* One user's postings: created from a text or a URL, patched, deleted,    *)
(* wiped with the account (api/jobs/routes.py, api/auth/routes.py), while  *)
(* prep streams analyze them and sessions are started on them              *)
(* (agents/nodes/job_analyzer.py, company_researcher.py,                   *)
(* api/sessions/routes.py).  Requests overlap at every await that reads or *)
(* writes a row they share.                                                *)
(***************************************************************************)
EXTENDS Integers, FiniteSets

CONSTANTS
  Jobs,       \* job ids; an id is never used twice
  Sessions,   \* session ids, likewise
  Texts,      \* contents of postings
  Requests,   \* bound: requests in flight at once
  None        \* NULL

ASSUME JobAssumption == None \notin Texts \cup Jobs \cup Sessions

VARIABLES
  life,      \* a job id: "unused", "row", "deleted"
  row,       \* the jobs table
  company,   \* company_snapshots by job_id: the text it was researched from
  session,   \* the sessions table
  profile,   \* is there a profile row
  threads,   \* jobs with a prep checkpoint
  req,       \* the requests in flight
  crossed,   \* history: jobs that a prep stream and a request editing or
             \* removing them have had in flight together, or whose
             \* checkpoint the saver failed, or a DELETE cut off did not
             \* come, to delete
  torn       \* history: jobs whose snapshot a PATCH, cut off after its
             \* first commit, did not come to drop

vars == <<life, row, company, session, profile, threads, req, crossed, torn>>

\* content_hash holds a digest; it stands here as the text it was taken of.
Row == [text : Texts \cup {None}, hash : Texts \cup {None}, parsed : Texts \cup {None}]
NoRow == [text |-> None, hash |-> None, parsed |-> None]

Steps == {"idle", "fetch", "insert", "patch", "drop_snapshot", "delete", "drop_thread",
          "wipe", "analyze", "company", "research", "check_profile", "check_company", "open"}
Hold(step, j, t) ==
  [at |-> step, job |-> j, text |-> t, seen |-> NoRow, todo |-> {}]
Idle == Hold("idle", None, None)
Request == [at : Steps, job : Jobs \cup {None}, text : Texts \cup {None},
            seen : Row, todo : SUBSET Jobs]

Init ==
  /\ life = [j \in Jobs |-> "unused"]
  /\ row = [j \in Jobs |-> NoRow]
  /\ company = [j \in Jobs |-> None]
  /\ session = [s \in Sessions |-> [job |-> None, status |-> "unused"]]
  /\ profile = FALSE
  /\ threads = {}
  /\ req = [r \in Requests |-> Idle]
  /\ crossed = {}
  /\ torn = {}

-----------------------------------------------------------------------------
Exists(j) == life[j] = "row"
Live == {j \in Jobs : Exists(j)}
WithHash(t) == {j \in Live : row[j].hash = t}
ActiveSessions(j) == {s \in Sessions : session[s] = [job |-> j, status |-> "active"]}

PrepSteps == {"analyze", "company", "research"}
StartSteps == {"check_profile", "check_company", "open"}
EditSteps == {"patch", "drop_snapshot", "delete", "drop_thread"}
Prepares(r, j) == req[r].at \in PrepSteps /\ req[r].job = j
Edits(r, j) == \/ req[r].at = "wipe"
               \/ req[r].at \in EditSteps /\ req[r].job = j
Preparing(j) == \E r \in Requests : Prepares(r, j)
Editing(j) == \E r \in Requests : Edits(r, j)

Goto(r, q) == req' = [req EXCEPT ![r] = q]
Finish(r) == Goto(r, Idle)
Tables == <<life, row, company, session, profile>>

\* ON DELETE CASCADE: the snapshot and the sessions go with the job.
Remove(gone) ==
  /\ life' = [j \in Jobs |-> IF j \in gone THEN "deleted" ELSE life[j]]
  /\ row' = [j \in Jobs |-> IF j \in gone THEN NoRow ELSE row[j]]
  /\ company' = [j \in Jobs |-> IF j \in gone THEN None ELSE company[j]]
  /\ session' = [s \in Sessions |-> IF session[s].job \in gone
                                    THEN [job |-> None, status |-> "deleted"]
                                    ELSE session[s]]
  /\ torn' = torn \ gone

-----------------------------------------------------------------------------
(* POST /jobs *)

\* A text that is there already is answered with its row.
PostText(r, t) ==
  /\ req[r] = Idle
  /\ WithHash(t) = {}
  /\ Goto(r, Hold("insert", None, t))
  /\ UNCHANGED <<Tables, threads, crossed, torn>>

\* A row of that URL answers, or the page is fetched.  No property tells URLs
\* apart, so which rows have this one is left open.
PostUrl(r) ==
  /\ req[r] = Idle
  /\ Goto(r, Hold("fetch", None, None))
  /\ UNCHANGED <<Tables, threads, crossed, torn>>

\* The page holds any text, or cannot be fetched; then by its hash.
FetchPosted(r) ==
  /\ req[r].at = "fetch"
  /\ \/ Finish(r)
     \/ \E t \in Texts : /\ WithHash(t) = {}
                         /\ Goto(r, Hold("insert", None, t))
  /\ UNCHANGED <<Tables, threads, crossed, torn>>

\* Variant: no unique index.
HashFree(t, j) == FALSE
\* uq_jobs_user_content_hash
HashTaken(t, j) == WithHash(t) \ {j} # {}

InsertJob(r) ==
  /\ req[r].at = "insert"
  /\ \/ /\ HashTaken(req[r].text, None)
        /\ UNCHANGED Tables
     \/ /\ ~HashTaken(req[r].text, None)
        /\ \E j \in Jobs :
             /\ life[j] = "unused"
             /\ life' = [life EXCEPT ![j] = "row"]
             /\ row' = [row EXCEPT ![j] = [text |-> req[r].text, hash |-> req[r].text, parsed |-> None]]
        /\ UNCHANGED <<company, session, profile>>
  /\ Finish(r)
  /\ UNCHANGED <<threads, crossed, torn>>

-----------------------------------------------------------------------------
(* PATCH /jobs/{id} *)

\* The row is loaded into the request's database session before the page
\* of a URL is fetched.
PatchRead(r, j, t) ==
  /\ req[r] = Idle
  /\ Exists(j)
  /\ Goto(r, [Hold("patch", j, t) EXCEPT !.seen = row[j]])
  /\ crossed' = IF Preparing(j) THEN crossed \cup {j} ELSE crossed
  /\ UNCHANGED <<Tables, threads, torn>>

\* What update_job_raw_text assigns to the loaded row ...
\* Variant: the digest is forgotten.
PatchedTextOnly(q) ==
  [q.seen EXCEPT !.text = q.text, !.parsed = None]
\* Variant: the analysis is kept.
PatchedKeepingAnalysis(q) ==
  [q.seen EXCEPT !.text = q.text, !.hash = q.text]
Patched(q) ==
  [q.seen EXCEPT !.text = q.text, !.hash = q.text, !.parsed = None]

\* ... and what the flush writes of it: the columns that differ from the
\* loaded row.  The second get_job of the same database session does not
\* load them again.
Flush(stored, seen, new) ==
  [c \in DOMAIN stored |-> IF new[c] # seen[c] THEN new[c] ELSE stored[c]]

PatchWrite(r) ==
  LET q == req[r]
      new == Flush(row[q.job], q.seen, Patched(q))
  IN /\ q.at = "patch"
     /\ \/ /\ ~Exists(q.job) \/ HashTaken(new.hash, q.job)
           /\ Finish(r)
           /\ UNCHANGED row
        \/ /\ Exists(q.job)
           /\ ~HashTaken(new.hash, q.job)
           /\ row' = [row EXCEPT ![q.job] = new]
           /\ Goto(r, Hold("drop_snapshot", q.job, None))
     /\ UNCHANGED <<life, company, session, profile, threads, crossed, torn>>

\* Variant: the snapshot is kept.
KeepSnapshot(r) ==
  /\ req[r].at = "drop_snapshot"
  /\ Finish(r)
  /\ UNCHANGED <<Tables, threads, crossed, torn>>
DropSnapshot(r) ==
  /\ req[r].at = "drop_snapshot"
  /\ company' = [company EXCEPT ![req[r].job] = None]
  /\ torn' = torn \ {req[r].job}
  /\ Finish(r)
  /\ UNCHANGED <<life, row, session, profile, threads, crossed>>

-----------------------------------------------------------------------------
(* DELETE /jobs/{id} *)

DeleteRead(r, j) ==
  /\ req[r] = Idle
  /\ Exists(j)
  /\ ActiveSessions(j) = {}
  /\ Goto(r, Hold("delete", j, None))
  /\ crossed' = IF Preparing(j) THEN crossed \cup {j} ELSE crossed
  /\ UNCHANGED <<Tables, threads, torn>>

DeleteJob(r) ==
  LET j == req[r].job
  IN /\ req[r].at = "delete"
     /\ \/ ~Exists(j) /\ Finish(r) /\ UNCHANGED <<Tables, torn>>
        \/ /\ Exists(j)
           /\ Remove({j})
           /\ Goto(r, Hold("drop_thread", j, None))
           /\ UNCHANGED profile
     /\ UNCHANGED <<threads, crossed>>

\* adelete_thread: a failure is logged and swallowed.
ForgetThread(j) ==
  \/ threads' = threads \ {j} /\ UNCHANGED crossed
  \/ UNCHANGED threads /\ crossed' = crossed \cup {j}

DropThread(r) ==
  /\ req[r].at = "drop_thread"
  /\ ForgetThread(req[r].job)
  /\ Finish(r)
  /\ UNCHANGED <<Tables, torn>>

-----------------------------------------------------------------------------
(* POST /auth/me/reset *)

\* Variant: the ids are enumerated when the rows are gone.
ResetReadLate(r) ==
  /\ req[r] = Idle
  /\ Goto(r, Hold("wipe", None, None))
  /\ crossed' = crossed \cup {j \in Jobs : Preparing(j)}
  /\ UNCHANGED <<Tables, threads, torn>>
ResetRead(r) ==
  /\ req[r] = Idle
  /\ Goto(r, [Hold("wipe", None, None) EXCEPT !.todo = Live])
  /\ crossed' = crossed \cup {j \in Jobs : Preparing(j)}
  /\ UNCHANGED <<Tables, threads, torn>>

WipeThread(r) ==
  /\ req[r].at = "wipe"
  /\ \E j \in req[r].todo :
       /\ ForgetThread(j)
       /\ Goto(r, [req[r] EXCEPT !.todo = @ \ {j}])
  /\ UNCHANGED <<Tables, torn>>

\* reset_user_data: one transaction.
Wipe(r) ==
  /\ req[r].at = "wipe"
  /\ req[r].todo = {}
  /\ Remove(Live)
  /\ profile' = FALSE
  /\ Finish(r)
  /\ UNCHANGED <<threads, crossed>>

-----------------------------------------------------------------------------
(* A prep stream, as far as it touches the job.  It leaves a checkpoint    *)
(* after every node.                                                       *)

Prepare(r, j) ==
  /\ req[r] = Idle
  /\ Exists(j)
  /\ Goto(r, IF row[j].parsed # None
             THEN Hold("company", j, None)
             ELSE Hold("analyze", j, row[j].text))
  /\ threads' = threads \cup {j}
  /\ profile' = TRUE
  /\ crossed' = IF Editing(j) THEN crossed \cup {j} ELSE crossed
  /\ UNCHANGED <<life, row, company, session, torn>>

\* analyze_job: the row is written if it is still there.
Analyze(r) ==
  LET j == req[r].job
  IN /\ req[r].at = "analyze"
     /\ \/ /\ row' = IF Exists(j) THEN [row EXCEPT ![j].parsed = req[r].text] ELSE row
           /\ threads' = threads \cup {j}
           /\ Goto(r, Hold("company", j, None))
        \/ Finish(r) /\ UNCHANGED <<row, threads>>
     /\ UNCHANGED <<life, company, session, profile, crossed, torn>>

\* node_company_researcher up to the research: a snapshot is a hit, no
\* analysis an error.
LookUpCompany(r) ==
  LET j == req[r].job
  IN /\ req[r].at = "company"
     /\ IF company[j] = None /\ Exists(j) /\ row[j].parsed # None
        THEN Goto(r, Hold("research", j, row[j].parsed))
        ELSE Finish(r)
     /\ UNCHANGED <<Tables, threads, crossed, torn>>

\* upsert_company_snapshot: job_id references a job.
\* Variant: the reference is not checked.
ResearchUnchecked(r) ==
  /\ req[r].at = "research"
  /\ company' = [company EXCEPT ![req[r].job] = req[r].text]
  /\ threads' = threads \cup {req[r].job}
  /\ Finish(r)
  /\ UNCHANGED <<life, row, session, profile, crossed, torn>>
Research(r) ==
  LET j == req[r].job
  IN /\ req[r].at = "research"
     /\ \/ /\ Exists(j)
           /\ company' = [company EXCEPT ![j] = req[r].text]
           /\ threads' = threads \cup {j}
        \/ UNCHANGED <<company, threads>>
     /\ Finish(r)
     /\ UNCHANGED <<life, row, session, profile, crossed, torn>>

-----------------------------------------------------------------------------
(* POST /sessions: three checks, then the insert. *)

StartSession(r, j) ==
  /\ req[r] = Idle
  /\ Exists(j)
  /\ row[j].parsed # None
  /\ Goto(r, Hold("check_profile", j, None))
  /\ UNCHANGED <<Tables, threads, crossed, torn>>

CheckProfile(r) ==
  /\ req[r].at = "check_profile"
  /\ IF profile THEN Goto(r, Hold("check_company", req[r].job, None)) ELSE Finish(r)
  /\ UNCHANGED <<Tables, threads, crossed, torn>>

CheckCompany(r) ==
  /\ req[r].at = "check_company"
  /\ IF company[req[r].job] # None THEN Goto(r, Hold("open", req[r].job, None)) ELSE Finish(r)
  /\ UNCHANGED <<Tables, threads, crossed, torn>>

OpenSession(r) ==
  /\ req[r].at = "open"
  /\ \/ /\ Exists(req[r].job)
        /\ \E s \in Sessions :
             /\ session[s].status = "unused"
             /\ session' = [session EXCEPT ![s] = [job |-> req[r].job, status |-> "active"]]
     \/ /\ ~Exists(req[r].job)
        /\ UNCHANGED session
  /\ Finish(r)
  /\ UNCHANGED <<life, row, company, profile, threads, crossed, torn>>

-----------------------------------------------------------------------------
\* A request or a stream ends where it waits: the process dies, the client is
\* gone, or the database fails.  What it has committed stays; between the two
\* commits of a PATCH or of a DELETE, the second never comes.
CutOff(r) ==
  LET q == req[r]
  IN /\ q # Idle
     /\ Finish(r)
     /\ torn' = torn \cup {j \in Live : q.at = "drop_snapshot" /\ q.job = j /\ company[j] # None}
     /\ crossed' = crossed \cup {j \in threads : q.at = "drop_thread" /\ q.job = j}
     /\ UNCHANGED <<Tables, threads>>

-----------------------------------------------------------------------------
(* Neighbours: an interview completes or is abandoned (InterviewSession);   *)
(* the profile is dropped with its CV (ProfileLibrary).                     *)

SessionOver(s) ==
  /\ session[s].status = "active"
  /\ session' = [session EXCEPT ![s].status = "over"]
  /\ UNCHANGED <<life, row, company, profile, threads, req, crossed, torn>>

ProfileDropped ==
  /\ profile
  /\ profile' = FALSE
  /\ UNCHANGED <<life, row, company, session, threads, req, crossed, torn>>

Begin(r) ==
  \/ \E t \in Texts : PostText(r, t)
  \/ PostUrl(r)
  \/ \E j \in Jobs, t \in Texts : PatchRead(r, j, t)
  \/ \E j \in Jobs : DeleteRead(r, j) \/ Prepare(r, j) \/ StartSession(r, j)
  \/ ResetRead(r)

Continue(r) ==
  \/ FetchPosted(r) \/ InsertJob(r)
  \/ PatchWrite(r) \/ DropSnapshot(r)
  \/ DeleteJob(r) \/ DropThread(r)
  \/ WipeThread(r) \/ Wipe(r)
  \/ Analyze(r) \/ LookUpCompany(r) \/ Research(r)
  \/ CheckProfile(r) \/ CheckCompany(r) \/ OpenSession(r)
  \/ CutOff(r)

Next ==
  \/ \E r \in Requests : Begin(r) \/ Continue(r)
  \/ \E s \in Sessions : SessionOver(s)
  \/ ProfileDropped

Spec == Init /\ [][Next]_vars

-----------------------------------------------------------------------------
TypeOK ==
  /\ life \in [Jobs -> {"unused", "row", "deleted"}]
  /\ row \in [Jobs -> Row]
  /\ company \in [Jobs -> Texts \cup {None}]
  /\ session \in [Sessions -> [job : Jobs \cup {None},
                               status : {"unused", "active", "over", "deleted"}]]
  /\ profile \in BOOLEAN
  /\ threads \subseteq Jobs
  /\ req \in [Requests -> Request]
  /\ crossed \subseteq Jobs
  /\ torn \subseteq Jobs

\* A posting is stored once, however many requests submit or patch it at the
\* same time: the checks of POST and PATCH /jobs are no protection, the index is.
OnePostingPerText ==
  \A j, k \in Live : row[j].text = row[k].text => j = k

\* The digest that POST /jobs looks for is that of the text in the row, also
\* when two PATCHes write what each of them has changed of a row both loaded.
HashIsOfText == \A j \in Live : row[j].hash = row[j].text

\* No snapshot and no session of a job that is gone: not by a researcher or
\* a POST /sessions that finishes after the deletion.
NoDanglingRows ==
  /\ \A j \in Jobs : company[j] # None => Exists(j)
  /\ \A s \in Sessions : session[s].status \in {"active", "over"} => session[s].job \in Live

\* What PATCH /jobs promises ("clear both the parsed analysis and the company
\* snapshot"): a job no prep stream was preparing meanwhile has the analysis and
\* the company of the text it has, once the PATCH has ended.  The exception is a
\* PATCH cut off between the two: the analysis is gone, and the company stays that
\* of the old text until another PATCH of the job gets through.
AnalysedAsItReads ==
  \A j \in Live \ crossed :
    /\ row[j].parsed \in {None, row[j].text}
    /\ Editing(j) \/ j \in torn \/ company[j] \in {None, row[j].text}

\* A deleted job leaves no prep checkpoint, but for a saver that failed, a prep
\* stream in flight while it was deleted, or a DELETE cut off after its first
\* commit: no request asks for the checkpoint of a job without a row again.
NoThreadLeftBehind ==
  \A j \in threads \ crossed : Exists(j) \/ Editing(j)

\* The inductive invariant: what the properties above rest on.
Dropping(j, step) == \E r \in Requests : req[r].at = step /\ req[r].job = j

\* What a request carries from the rows it has read.
RequestOK(r) ==
  LET q == req[r]
  IN /\ q.at \in PrepSteps \cup EditSteps \cup StartSteps =>
          q.job \in Jobs /\ life[q.job] # "unused"
     /\ q.at = "patch" => q.seen.hash = q.seen.text
     /\ q.at \in PrepSteps /\ q.job \notin crossed => q.job \in Live
     /\ q.at \in {"analyze", "research"} /\ q.job \in Live \ crossed =>
          q.text = row[q.job].text
     /\ q.at = "patch" /\ q.job \in Live \ crossed /\ q.seen.parsed = None =>
          row[q.job].parsed = None
     /\ q.at = "wipe" => (threads \ crossed) \cap Live \subseteq q.todo

\* A prep stream and an edit of the job are in flight together only if crossed.
PrepsApart ==
  \A p, e \in Requests, j \in Jobs \ crossed : ~(Prepares(p, j) /\ Edits(e, j))

AnalysisOK ==
  \A j \in Live \ crossed :
    /\ row[j].parsed \in {None, row[j].text}
    /\ company[j] \in {None, row[j].text} \/ Dropping(j, "drop_snapshot") \/ j \in torn

ThreadsOK == \A j \in threads \ crossed : Exists(j) \/ Dropping(j, "drop_thread")

JobInv ==
  /\ TypeOK
  /\ \A r \in Requests : RequestOK(r)
  /\ HashIsOfText /\ OnePostingPerText /\ NoDanglingRows
  /\ PrepsApart /\ AnalysisOK /\ ThreadsOK
=============================================================================
