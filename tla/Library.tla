------------------------------ MODULE Library ------------------------------
(***************************************************************************)
(* One book in the library of the head: its upload, the extraction of its  *)
(* table of contents, the jobs launched for its lessons, singly and as a   *)
(* batch, and its deletion (api/v1/books.py, services/toc_extractor.py,    *)
(* api/v1/jobs.py, api/v1/batch.py).                                       *)
(*                                                                         *)
(* A request is a transaction: it takes the lock of the book, shared, or   *)
(* exclusive to delete it, reads, and later commits what it decided from   *)
(* what it read.  An insert or delete that a foreign key forbids rolls the *)
(* transaction back.                                                       *)
(*                                                                         *)
(* Jobs and requests have one transport and one language here, and a       *)
(* launch with phases or prompts of its own counts as forced; the memory   *)
(* cache of Idempotency-Key is left out.  What a job does from its claim   *)
(* to its end is in JobLease; regeneration targets, which block the routes *)
(* that remove sections in the same way as jobs do, are in Campaign.       *)
(***************************************************************************)
EXTENDS Naturals

CONSTANTS
  Requests,        \* requests the head may be serving at once
  Lessons,         \* lessons an extraction finds in the book
  MaxExtractions,  \* bound of the model: extraction tasks
  MaxJobs,         \* bound of the model: job rows
  MaxRestarts      \* bound of the model: restarts of the head

Extractions == 1 .. MaxExtractions
Jobs        == 1 .. MaxJobs

ASSUME LibraryAssumption ==
  MaxExtractions \in Nat /\ MaxJobs \in Nat /\ MaxRestarts \in Nat

\* A toc_entries row: a re-extraction writes new rows.
Sections == Extractions \X Lessons

Ingesting  == {"uploading", "toc_extracting"}
BookStatus == {"none", "failed", "toc_review", "toc_ready", "deleted"} \cup Ingesting

Active    == {"pending", "running", "cancelling"}
Findable  == {"pending", "running", "done"}
Saved     == {"failed", "cancelled"}
JobStatus == {"unborn", "deleted", "done"} \cup Active \cup Saved

\* Where a request stands, and an extraction task.
Pc == {"idle", "store", "generate", "create", "upsert", "launch", "revive",
       "retryToc", "accept", "dropSection", "dropBook"}
TaskPc == {"unborn", "start", "agent", "delete", "insert", "fail", "over"}

VARIABLES
  status,     \* the book
  pdf,        \* its file is on disk
  entries,    \* its toc_entries
  task,       \* the extraction tasks: [pc, old], old the rows they delete
  job,        \* the jobs of the book: [st, sec, again], again if forced or put back
  req,        \* the requests: [pc, force, left, held, jobs, fresh]
  stranded,   \* history: who should have ended the ingestion, and has not, could not write
  restarts

vars == <<status, pdf, entries, task, job, req, stranded, restarts>>

\* left: lessons a launch has yet to look at; held: section locks; jobs, fresh: jobs
\* to be put back, lessons to get a new one.
Request == [pc : Pc, force : BOOLEAN, left : SUBSET Sections, held : SUBSET Sections,
            jobs : SUBSET Jobs, fresh : SUBSET Sections]

Idle == [pc |-> "idle", force |-> FALSE, left |-> {}, held |-> {},
         jobs |-> {}, fresh |-> {}]

Init ==
  /\ status = "none" /\ pdf = FALSE /\ entries = {}
  /\ task = [n \in Extractions |-> [pc |-> "unborn", old |-> {}]]
  /\ job = [j \in Jobs |-> [st |-> "unborn", sec |-> {}, again |-> FALSE]]
  /\ req = [r \in Requests |-> Idle]
  /\ stranded = FALSE /\ restarts = 0

-----------------------------------------------------------------------------
(* Locks and lookups.                                                      *)

\* Mutant of Sharing: retry and resume do not take the lock of the book.
SharingButRevive(r) == req[r].pc \notin {"idle", "store", "dropBook", "revive"}

\* lock_book_shared and lock_book_exclusive, held to the end of the transaction.
Sharing(r) == req[r].pc \notin {"idle", "store", "dropBook"}
Deleting   == \E r \in Requests : req[r].pc = "dropBook"

Serve(r) == req[r] = Idle /\ ~Deleting

\* lock_section_for_generate.
SectionFree(r, s) == \A q \in Requests \ {r} : s \notin req[q].held

Exists(j)   == job[j].st \notin {"unborn", "deleted"}
JobsOf(s)   == {j \in Jobs : Exists(j) /\ job[j].sec = {s}}
InFlight(j) == job[j].st \in Active

\* Mutant of Found: done jobs only.
FoundDone(s) == {j \in JobsOf(s) : job[j].st = "done"}

\* find_active_for_section.
Found(s) == {j \in JobsOf(s) : job[j].st \in Findable}

\* latest_for_section.
Latest(s) == {j \in JobsOf(s) : \A i \in JobsOf(s) : i <= j}

\* A task has deleted these rows and not committed: who needs one waits.
Replaced(S) == \E n \in Extractions : task[n].pc = "insert" /\ task[n].old \cap S # {}

Answer(r) == req' = [req EXCEPT ![r] = Idle]

\* _start_toc_extraction.
Begin(n) ==
  /\ task[n].pc = "unborn" /\ \A m \in 1 .. n - 1 : task[m].pc # "unborn"
  /\ task' = [task EXCEPT ![n].pc = "start"]

Deleted(J) ==
  [j \in Jobs |-> IF j \in J /\ Exists(j) THEN [st |-> "deleted", sec |-> {}, again |-> FALSE]
                                         ELSE job[j]]

\* reset_for_retry of the jobs of R, and new jobs for the sections of F in some order.
Changed(R, F, force) ==
  \E row \in [F -> {j \in Jobs : job[j].st = "unborn"}] :
    LET new == {row[s] : s \in F} IN
    /\ \A s, t \in F : row[s] = row[t] => s = t
    /\ \A i \in Jobs, j \in new : i < j /\ job[i].st = "unborn" => i \in new
    /\ job' = [j \in Jobs |->
         IF j \in new
           THEN [st |-> "pending", sec |-> {s \in F : row[s] = j}, again |-> force]
         ELSE IF j \in R THEN [job[j] EXCEPT !.st = "pending", !.again = TRUE]
         ELSE job[j]]

-----------------------------------------------------------------------------
(* ingest_pdf and the routes of a table of contents.                       *)

Upload(r) ==
  /\ req[r] = Idle /\ status = "none"
  /\ status' = "uploading"
  /\ req' = [req EXCEPT ![r].pc = "store"]
  /\ UNCHANGED <<pdf, entries, task, job, stranded, restarts>>

StoreFile(r) ==
  /\ req[r].pc = "store"
  /\ pdf' = TRUE
  /\ \E n \in Extractions : Begin(n)
  /\ Answer(r)
  /\ UNCHANGED <<status, entries, job, stranded, restarts>>

\* The disk is full, or the commit was not answered: the row is there, and no task
\* will look at the book.
StoreFails(r) ==
  /\ req[r].pc = "store"
  /\ pdf' \in BOOLEAN /\ stranded' = TRUE
  /\ Answer(r)
  /\ UNCHANGED <<status, entries, task, job, restarts>>

\* retry_toc_extraction: not over jobs of any kind.
RetryToc(r) ==
  /\ Serve(r) /\ pdf
  /\ status \in {"failed", "toc_extracting", "toc_review", "toc_ready"}
  /\ \A j \in Jobs : ~Exists(j)
  /\ req' = [req EXCEPT ![r].pc = "retryToc"]
  /\ UNCHANGED <<status, pdf, entries, task, job, stranded, restarts>>

\* The task starts after the commit, or does not if the commit was not answered.
RetryTocCommit(r) ==
  /\ req[r].pc = "retryToc"
  /\ status' = "toc_extracting"
  /\ \/ (\E n \in Extractions : Begin(n)) /\ stranded' = FALSE
     \/ UNCHANGED task /\ stranded' = TRUE
  /\ Answer(r)
  /\ UNCHANGED <<pdf, entries, job, restarts>>

\* accept_toc.
Accept(r) ==
  /\ Serve(r) /\ status = "toc_review"
  /\ req' = [req EXCEPT ![r].pc = "accept"]
  /\ UNCHANGED <<status, pdf, entries, task, job, stranded, restarts>>

AcceptCommit(r) ==
  /\ req[r].pc = "accept"
  /\ status' = "toc_ready" /\ stranded' = FALSE
  /\ Answer(r)
  /\ UNCHANGED <<pdf, entries, task, job, restarts>>

\* delete_toc_entry.
DropSection(r, s) ==
  /\ Serve(r) /\ s \in entries
  /\ \A j \in JobsOf(s) : ~InFlight(j)
  /\ req' = [req EXCEPT ![r].pc = "dropSection", ![r].left = {s}]
  /\ UNCHANGED <<status, pdf, entries, task, job, stranded, restarts>>

\* ... whatever has become of the jobs since.
DropSectionCommit(r) ==
  /\ req[r].pc = "dropSection" /\ ~Replaced(req[r].left)
  /\ entries' = entries \ req[r].left
  /\ job' = Deleted({j \in Jobs : job[j].sec = req[r].left})
  /\ Answer(r)
  /\ UNCHANGED <<status, pdf, task, stranded, restarts>>

\* delete_book, under the exclusive lock.
DropBook(r) ==
  /\ req[r] = Idle /\ ~Deleting /\ \A q \in Requests : ~Sharing(q)
  /\ status \in {"failed", "toc_review", "toc_ready"}
  /\ \A j \in Jobs : ~InFlight(j)
  /\ req' = [req EXCEPT ![r].pc = "dropBook"]
  /\ UNCHANGED <<status, pdf, entries, task, job, stranded, restarts>>

\* The rows go in one commit, the directory after it.
DropBookCommit(r) ==
  /\ req[r].pc = "dropBook" /\ ~Replaced(entries)
  /\ status' = "deleted" /\ entries' = {} /\ pdf' = FALSE /\ stranded' = FALSE
  /\ job' = Deleted(Jobs)
  /\ Answer(r)
  /\ UNCHANGED <<task, restarts>>

-----------------------------------------------------------------------------
(* toc_extractor.run, a task of the head that takes no lock of the book.   *)

There == status \notin {"none", "deleted"}

\* set_status ignores a book that is gone.
SetStatus(s) == status' = IF There THEN s ELSE status

TaskStart(n) ==
  /\ task[n].pc = "start"
  /\ SetStatus("toc_extracting")
  /\ task' = [task EXCEPT ![n].pc = "agent"]
  /\ UNCHANGED <<pdf, entries, job, req, stranded, restarts>>

\* The agent has found lessons: the final transaction takes its snapshot.
TaskExtracted(n) ==
  /\ task[n].pc = "agent"
  /\ task' = [task EXCEPT ![n] = [pc |-> "delete", old |-> entries]]
  /\ UNCHANGED <<status, pdf, entries, job, req, stranded, restarts>>

\* delete_for_book: rows of the snapshot that are still there; a job of one of
\* them fails it.
TaskDelete(n) ==
  LET old == task[n].old \cap entries IN
  /\ task[n].pc = "delete" /\ ~Replaced(old)
  /\ task' = [task EXCEPT ![n] = IF \E s \in old : JobsOf(s) # {}
                                   THEN [pc |-> "fail", old |-> {}]
                                   ELSE [pc |-> "insert", old |-> old]]
  /\ UNCHANGED <<status, pdf, entries, job, req, stranded, restarts>>

\* bulk_create and the status: review on a mismatch.
TaskCommit(n) ==
  /\ task[n].pc = "insert"
  /\ IF There
       THEN /\ entries' = (entries \ task[n].old) \cup ({n} \X Lessons)
            /\ status' \in {"toc_ready", "toc_review"} /\ stranded' = FALSE
            /\ task' = [task EXCEPT ![n] = [pc |-> "over", old |-> {}]]
       ELSE /\ task' = [task EXCEPT ![n] = [pc |-> "fail", old |-> {}]]
            /\ UNCHANGED <<entries, status, stranded>>
  /\ UNCHANGED <<pdf, job, req, restarts>>

\* A transaction is rolled back, or the agent fails or finds no lesson.
TaskBreaks(n) ==
  /\ task[n].pc \in {"start", "agent", "delete", "insert"}
  /\ task' = [task EXCEPT ![n] = [pc |-> "fail", old |-> {}]]
  /\ UNCHANGED <<status, pdf, entries, job, req, stranded, restarts>>

\* The except block; nothing catches a failure of its own write.
TaskFail(n) ==
  /\ task[n].pc = "fail"
  /\ \/ SetStatus("failed") /\ stranded' = FALSE
     \/ UNCHANGED status /\ stranded' = (stranded \/ status \in Ingesting)
  /\ task' = [task EXCEPT ![n].pc = "over"]
  /\ UNCHANGED <<pdf, entries, job, req, restarts>>

-----------------------------------------------------------------------------
(* generate, launch_batch, retry_job, resume_batch, and the cancels.       *)

Generate(r, s, force) ==
  /\ Serve(r) /\ status = "toc_ready" /\ s \in entries
  /\ req' = [req EXCEPT ![r].pc = "generate", ![r].force = force, ![r].left = {s}]
  /\ UNCHANGED <<status, pdf, entries, task, job, stranded, restarts>>

\* Mutant of GenerateLook: a double click is not made to wait.
GenerateLookUnlocked(r) ==
  /\ req[r].pc = "generate"
  /\ \E s \in req[r].left :
       IF ~req[r].force /\ Found(s) # {}
         THEN Answer(r)
         ELSE req' = [req EXCEPT ![r].pc = "create", ![r].held = {s}, ![r].fresh = {s}]
  /\ UNCHANGED <<status, pdf, entries, task, job, stranded, restarts>>

\* Under the lock of the section: the job that is found is the answer.
GenerateLook(r) ==
  /\ req[r].pc = "generate"
  /\ \E s \in req[r].left :
       /\ SectionFree(r, s)
       /\ IF ~req[r].force /\ Found(s) # {}
            THEN Answer(r)
            ELSE req' = [req EXCEPT ![r].pc = "create", ![r].held = {s}, ![r].fresh = {s}]
  /\ UNCHANGED <<status, pdf, entries, task, job, stranded, restarts>>

\* launch_batch, for some lessons; the row of the batch is locked by the upsert.
Launch(r, T, force) ==
  /\ Serve(r) /\ status = "toc_ready" /\ T # {} /\ T \subseteq entries
  /\ req' = [req EXCEPT ![r].pc = "upsert", ![r].force = force, ![r].left = T]
  /\ UNCHANGED <<status, pdf, entries, task, job, stranded, restarts>>

Upsert(r) ==
  /\ req[r].pc = "upsert" /\ \A q \in Requests : req[q].pc # "launch"
  /\ req' = [req EXCEPT ![r].pc = "launch"]
  /\ UNCHANGED <<status, pdf, entries, task, job, stranded, restarts>>

\* One lesson: leave alone a job that is found (the batch may adopt it), else put the
\* latest back if it failed or was cancelled and may be resumed, else create one.
LaunchLesson(r, s) ==
  LET found == IF req[r].force THEN {} ELSE Found(s)
      saved == {j \in Latest(s) : job[j].st \in Saved}
      looked == [req[r] EXCEPT !.left = @ \ {s}, !.held = @ \cup {s}]
  IN
  /\ req[r].pc = "launch" /\ s \in req[r].left /\ SectionFree(r, s)
  /\ \/ /\ found # {}
        /\ req' = [req EXCEPT ![r] = looked]
     \/ /\ found = {} /\ saved # {}
        /\ req' = [req EXCEPT ![r] = [looked EXCEPT !.jobs = @ \cup saved]]
     \/ /\ found = {}
        /\ req' = [req EXCEPT ![r] = [looked EXCEPT !.fresh = @ \cup {s}]]
  /\ UNCHANGED <<status, pdf, entries, task, job, stranded, restarts>>

\* retry_job, which has fetched the job again under the lock, and resume_batch; which
\* jobs belong to the batch is left open.
Revive(r, R) ==
  /\ Serve(r) /\ R # {}
  /\ \A j \in R : job[j].st \in Saved
  /\ req' = [req EXCEPT ![r].pc = "revive", ![r].jobs = R]
  /\ UNCHANGED <<status, pdf, entries, task, job, stranded, restarts>>

\* What a generate, launch, retry or resume decided is written; a section or job
\* that is gone by then rolls it back.
Commit(r) ==
  LET q == req[r] IN
  /\ q.pc \in {"create", "launch", "revive"} /\ q.left \ q.held = {}
  /\ ~Replaced(q.fresh)
  /\ IF q.fresh \subseteq entries /\ \A j \in q.jobs : Exists(j)
       THEN Changed(q.jobs, q.fresh, q.force)
       ELSE UNCHANGED job
  /\ Answer(r)
  /\ UNCHANGED <<status, pdf, entries, task, stranded, restarts>>

\* A request is refused after its reads: retired models, a full queue, an error.
Refuse(r) ==
  /\ req[r].pc \notin {"idle", "store"}
  /\ Answer(r)
  /\ UNCHANGED <<status, pdf, entries, task, job, stranded, restarts>>

\* cancel_job and cancel_batch, without the lock of the book.
Cancel(C) ==
  /\ \E j \in C : job[j].st \in {"pending", "running"}
  /\ job' = [j \in Jobs |->
       IF j \in C /\ job[j].st = "pending" THEN [job[j] EXCEPT !.st = "cancelled"]
       ELSE IF j \in C /\ job[j].st = "running" THEN [job[j] EXCEPT !.st = "cancelling"]
       ELSE job[j]]
  /\ UNCHANGED <<status, pdf, entries, task, req, stranded, restarts>>

-----------------------------------------------------------------------------
(* The workers, as far as a book sees them, and the head's restart.        *)

JobMoves == {<<"pending", "running">>, <<"pending", "failed">>,
             <<"running", "pending">>, <<"running", "failed">>,
             <<"running", "done">>, <<"cancelling", "cancelled">>}

Work(j) ==
  /\ \E m \in JobMoves : job[j].st = m[1] /\ job' = [job EXCEPT ![j].st = m[2]]
  /\ UNCHANGED <<status, pdf, entries, task, req, stranded, restarts>>

\* Mutant of Swept: uploads are forgotten.
SweptExtractions(s) == IF s = "toc_extracting" THEN "failed" ELSE s

Swept(s) == IF s \in Ingesting THEN "failed" ELSE s

\* Tasks and requests die, in the middle of a file maybe; the sweep of _reconcile_on_startup comes before any
\* other request.  A restart that finds nothing to do is left out.
Restart ==
  /\ restarts < MaxRestarts /\ restarts' = restarts + 1
  /\ status' = Swept(status) /\ stranded' = FALSE
  /\ task' = [n \in Extractions |->
       IF task[n].pc = "unborn" THEN task[n] ELSE [pc |-> "over", old |-> {}]]
  /\ req' = [r \in Requests |-> Idle]
  /\ <<status, task, req>>' # <<status, task, req>>
  /\ pdf' \in IF \E r \in Requests : req[r].pc = "store" THEN BOOLEAN ELSE {pdf}
  /\ UNCHANGED <<entries, job>>

-----------------------------------------------------------------------------

RequestStep(r) ==
  \/ Upload(r) \/ StoreFile(r) \/ StoreFails(r)
  \/ RetryToc(r) \/ RetryTocCommit(r) \/ Accept(r) \/ AcceptCommit(r)
  \/ \E s \in Sections : DropSection(r, s) \/ Generate(r, s, TRUE) \/ Generate(r, s, FALSE)
  \/ DropSectionCommit(r) \/ DropBook(r) \/ DropBookCommit(r)
  \/ GenerateLook(r)
  \/ \E T \in SUBSET Sections : Launch(r, T, TRUE) \/ Launch(r, T, FALSE)
  \/ Upsert(r)
  \/ \E s \in Sections : LaunchLesson(r, s)
  \/ \E R \in SUBSET Jobs : Revive(r, R)
  \/ Commit(r) \/ Refuse(r)

TaskStep(n) ==
  \/ TaskStart(n) \/ TaskExtracted(n) \/ TaskDelete(n) \/ TaskCommit(n)
  \/ TaskBreaks(n) \/ TaskFail(n)

Next ==
  \/ \E r \in Requests : RequestStep(r)
  \/ \E n \in Extractions : TaskStep(n)
  \/ \E C \in SUBSET Jobs : Cancel(C)
  \/ \E j \in Jobs : Work(j)
  \/ Restart

Spec == Init /\ [][Next]_vars

-----------------------------------------------------------------------------
(* Properties.                                                             *)

TypeOK ==
  /\ status \in BookStatus /\ pdf \in BOOLEAN
  /\ entries \subseteq Sections
  /\ task \in [Extractions -> [pc : TaskPc, old : SUBSET Sections]]
  /\ job \in [Jobs -> [st : JobStatus, sec : SUBSET Sections, again : BOOLEAN]]
  /\ req \in [Requests -> Request]
  /\ stranded \in BOOLEAN /\ restarts \in 0 .. MaxRestarts

\* Clicks and launches that overlap generate a lesson once: a second job that runs
\* or is done beside another was forced, or put back by a retry.
LaunchedOnce ==
  \A i, j \in Jobs :
    job[i].st \in Findable /\ job[j].st \in Findable /\ job[i].sec = job[j].sec =>
      i = j \/ job[i].again \/ job[j].again

\* A book is never deleted under a job in flight: neither a launch that looked
\* before the delete nor a retry of an old job gets in between.
BookDeletedAtRest ==
  [][status # "deleted" /\ status' = "deleted" => \A j \in Jobs : ~InFlight(j)]_vars

\* Whatever died or overlapped, a book in ingestion has a request or task at work that
\* will take it out, unless the one that should could not write (the file of the
\* upload, or `failed` at the end of an extraction).  A book that is stuck extracting
\* so has its file: retry_toc_extraction is not refused for want of it.
IngestionAttended ==
  /\ status \in Ingesting =>
       \/ stranded
       \/ \E r \in Requests : req[r].pc = "store"
       \/ \E n \in Extractions : task[n].pc \notin {"unborn", "over"}
  /\ status = "toc_extracting" => pdf
=============================================================================
