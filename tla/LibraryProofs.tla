---------------------------- MODULE LibraryProofs ----------------------------
(***************************************************************************)
(* The locks of the library, for any number of requests, lessons, jobs,    *)
(* extractions and restarts.  The lock of a book keeps what delete_book    *)
(* has counted true until it commits; the lock of a section keeps what     *)
(* generate and launch_batch have looked up true until they commit.  Last, *)
(* the locks under which the hosts fetch the file of a book (BookFetch).   *)
(***************************************************************************)
EXTENDS Library, BookFetch, FiniteSetTheorems, TLAPS

\* Who deletes the book holds its lock alone.
DeleterAlone ==
  \A r, q \in Requests :
    req[r].pc = "dropBook" /\ q # r => ~Sharing(q) /\ req[q].pc # "dropBook"

\* What delete_book has counted is still so when it commits.
StillAtRest ==
  \A r \in Requests, j \in Jobs : req[r].pc = "dropBook" => ~InFlight(j)

\* A section is locked by one request, and who creates a job for it locks it.
LocksApart ==
  /\ \A r, q \in Requests : r # q => req[r].held \cap req[q].held = {}
  /\ \A r \in Requests : req[r].fresh \subseteq req[r].held

\* A job that exists is of one section.
OneSection ==
  \A j \in Jobs : Exists(j) => \E s \in Sections : job[j].sec = {s}

\* What a request has looked up is still so when it creates a job: there is no
\* other that anybody made without force.
StillUnmade ==
  \A r \in Requests, j \in Jobs :
    ~req[r].force /\ job[j].st \in Findable /\ job[j].sec \cap req[r].fresh # {} =>
      job[j].again

LibraryInv ==
  /\ TypeOK /\ DeleterAlone /\ StillAtRest
  /\ LocksApart /\ OneSection /\ StillUnmade /\ LaunchedOnce

-----------------------------------------------------------------------------
(* Types.                                                                  *)

\* A function whose values are of a type.
LEMMA FunctionType ==
  ASSUME NEW S, NEW T, NEW f, f = [x \in S |-> f[x]], \A x \in S : f[x] \in T
  PROVE  f \in [S -> T]
  OBVIOUS

\* No request is served and there is no job.
LEMMA InitTypes == Init => TypeOK
<1> SUFFICES ASSUME Init PROVE TypeOK
  OBVIOUS
<1> USE DEF Init
<1>1. req \in [Requests -> Request]
  BY DEF Request, Pc, Idle
<1>2. task \in [Extractions -> [pc : TaskPc, old : SUBSET Sections]]
  BY DEF TaskPc
<1>3. job \in [Jobs -> [st : JobStatus, sec : SUBSET Sections, again : BOOLEAN]]
  BY DEF JobStatus
<1>4. restarts \in 0 .. MaxRestarts
  BY LibraryAssumption
<1> QED BY <1>1, <1>2, <1>3, <1>4 DEF TypeOK, BookStatus

\* A request that has been answered is idle.
LEMMA AnswerType == ASSUME TypeOK, NEW r \in Requests, Answer(r)
                    PROVE  req' \in [Requests -> Request]
  BY DEF Answer, TypeOK, Idle, Request, Pc

\* A request that moves on is one still.
LEMMA MoveType == ASSUME TypeOK, NEW r \in Requests, NEW p \in Pc
                  PROVE  [req EXCEPT ![r].pc = p] \in [Requests -> Request]
<1>1. req[r] \in Request
  BY DEF TypeOK
<1>2. [req[r] EXCEPT !.pc = p] \in Request
  BY <1>1 DEF Request
<1> QED BY <1>2 DEF TypeOK

\* A request takes up, reads, and ends; jobs come and go with it.
LEMMA RequestTypes == ASSUME TypeOK, NEW r \in Requests, RequestStep(r) PROVE TypeOK'
<1> USE DEF TypeOK
<1>1. CASE Upload(r)
  <2>1. req' \in [Requests -> Request]
    BY <1>1, MoveType DEF Upload, Pc
  <2> QED BY <1>1, <2>1 DEF Upload, BookStatus, Ingesting
<1>2. CASE StoreFile(r)
  BY <1>2, AnswerType DEF StoreFile, Begin, TaskPc
<1>3. CASE StoreFails(r)
  BY <1>3, AnswerType DEF StoreFails
<1>4. CASE RetryToc(r)
  <2>1. req' \in [Requests -> Request]
    BY <1>4, MoveType DEF RetryToc, Pc
  <2> QED BY <1>4, <2>1 DEF RetryToc
<1>5. CASE RetryTocCommit(r)
  BY <1>5, AnswerType DEF RetryTocCommit, Begin, TaskPc, BookStatus, Ingesting
<1>6. CASE Accept(r)
  <2>1. req' \in [Requests -> Request]
    BY <1>6, MoveType DEF Accept, Pc
  <2> QED BY <1>6, <2>1 DEF Accept
<1>7. CASE AcceptCommit(r)
  BY <1>7, AnswerType DEF AcceptCommit, BookStatus
<1>8. CASE \E s \in Sections : DropSection(r, s)
  <2>1. PICK s \in Sections : DropSection(r, s)
    BY <1>8
  <2> DEFINE q == [req[r] EXCEPT !.pc = "dropSection", !.left = {s}]
  <2>2. q \in Request
    BY DEF Request, Pc
  <2>3. req' = [req EXCEPT ![r] = q]
    BY <2>1 DEF DropSection
  <2> QED BY <2>1, <2>2, <2>3 DEF DropSection
<1>9. CASE \E s \in Sections : Generate(r, s, TRUE) \/ Generate(r, s, FALSE)
  <2>1. PICK s \in Sections, force \in BOOLEAN : Generate(r, s, force)
    BY <1>9
  <2> DEFINE q == [req[r] EXCEPT !.pc = "generate", !.force = force, !.left = {s}]
  <2>2. q \in Request
    BY DEF Request, Pc
  <2>3. req' = [req EXCEPT ![r] = q]
    BY <2>1 DEF Generate
  <2> QED BY <2>1, <2>2, <2>3 DEF Generate
<1>10. CASE DropSectionCommit(r)
  BY <1>10, AnswerType DEF DropSectionCommit, Deleted, JobStatus
<1>11. CASE DropBook(r)
  <2>1. req' \in [Requests -> Request]
    BY <1>11, MoveType DEF DropBook, Pc
  <2> QED BY <1>11, <2>1 DEF DropBook
<1>12. CASE DropBookCommit(r)
  BY <1>12, AnswerType DEF DropBookCommit, Deleted, JobStatus, BookStatus
<1>13. CASE GenerateLook(r)
  <2>1. req' \in [Requests -> Request]
    <3>1. PICK s \in req[r].left :
            \/ Answer(r)
            \/ req' = [req EXCEPT ![r].pc = "create", ![r].held = {s}, ![r].fresh = {s}]
      BY <1>13 DEF GenerateLook
    <3> DEFINE q == [req[r] EXCEPT !.pc = "create", !.held = {s}, !.fresh = {s}]
    <3>2. q \in Request
      BY DEF Request, Pc
    <3>3. CASE req' = [req EXCEPT ![r].pc = "create", ![r].held = {s}, ![r].fresh = {s}]
      <4>1. req' = [req EXCEPT ![r] = q]
        BY <3>3
      <4> QED BY <3>2, <4>1
    <3> QED BY <3>1, <3>3, AnswerType
  <2> QED BY <1>13, <2>1 DEF GenerateLook
<1>14. CASE \E T \in SUBSET Sections : Launch(r, T, TRUE) \/ Launch(r, T, FALSE)
  <2>1. PICK T \in SUBSET Sections, force \in BOOLEAN : Launch(r, T, force)
    BY <1>14
  <2> DEFINE q == [req[r] EXCEPT !.pc = "upsert", !.force = force, !.left = T]
  <2>2. q \in Request
    BY DEF Request, Pc
  <2>3. req' = [req EXCEPT ![r] = q]
    BY <2>1 DEF Launch
  <2> QED BY <2>1, <2>2, <2>3 DEF Launch
<1>15. CASE Upsert(r)
  BY <1>15 DEF Upsert, Request, Pc
<1>16. CASE \E s \in Sections : LaunchLesson(r, s)
  <2>1. PICK s \in Sections : LaunchLesson(r, s)
    BY <1>16
  <2>2. req' \in [Requests -> Request]
    <3> DEFINE saved  == {j \in Latest(s) : job[j].st \in Saved}
               looked == [req[r] EXCEPT !.left = @ \ {s}, !.held = @ \cup {s}]
               back   == [looked EXCEPT !.jobs = @ \cup saved]
               new    == [looked EXCEPT !.fresh = @ \cup {s}]
    <3>1. looked \in Request
      BY DEF Request
    <3>2. saved \subseteq Jobs
      BY DEF Latest, JobsOf
    <3>3. back \in Request /\ new \in Request
      BY <3>1, <3>2 DEF Request
    <3>4. \E q \in {looked, back, new} : req' = [req EXCEPT ![r] = q]
      BY <2>1 DEF LaunchLesson
    <3> QED BY <3>1, <3>3, <3>4
  <2> QED BY <2>1, <2>2 DEF LaunchLesson
<1>17. CASE \E R \in SUBSET Jobs : Revive(r, R)
  <2>1. PICK R \in SUBSET Jobs : Revive(r, R)
    BY <1>17
  <2> DEFINE q == [req[r] EXCEPT !.pc = "revive", !.jobs = R]
  <2>2. q \in Request
    BY DEF Request, Pc
  <2>3. req' = [req EXCEPT ![r] = q]
    BY <2>1 DEF Revive
  <2> QED BY <2>1, <2>2, <2>3 DEF Revive
<1>18. CASE Commit(r)
  <2>1. job' \in [Jobs -> [st : JobStatus, sec : SUBSET Sections, again : BOOLEAN]]
    <3>1. CASE UNCHANGED job
      BY <3>1
    <3>2. CASE Changed(req[r].jobs, req[r].fresh, req[r].force)
      <4> DEFINE q == req[r]
      <4>1. q.force \in BOOLEAN /\ q.fresh \subseteq Sections
        BY DEF Request
      <4>2. PICK row \in [q.fresh -> {j \in Jobs : job[j].st = "unborn"}] :
              job' = [j \in Jobs |->
                IF j \in {row[s] : s \in q.fresh}
                  THEN [st |-> "pending", sec |-> {s \in q.fresh : row[s] = j},
                        again |-> q.force]
                ELSE IF j \in q.jobs
                  THEN [job[j] EXCEPT !.st = "pending", !.again = TRUE]
                ELSE job[j]]
        BY <3>2 DEF Changed
      <4>3. "pending" \in JobStatus
        BY DEF JobStatus, Active
      <4> DEFINE Row == [st : JobStatus, sec : SUBSET Sections, again : BOOLEAN]
      <4>4. ASSUME NEW j \in Jobs PROVE job'[j] \in Row
        <5>1. [st |-> "pending", sec |-> {s \in q.fresh : row[s] = j}, again |-> q.force] \in Row
          BY <4>1, <4>3
        <5>2. [job[j] EXCEPT !.st = "pending", !.again = TRUE] \in Row
          BY <4>3
        <5> QED BY <4>2, <5>1, <5>2
      <4>5. job' = [j \in Jobs |-> job'[j]]
        BY <4>2
      <4> HIDE DEF Row
      <4>6. \A j \in Jobs : job'[j] \in Row
        BY <4>4
      <4>7. job' \in [Jobs -> Row]
        BY <4>5, <4>6, FunctionType
      <4> QED BY <4>7 DEF Row
    <3> QED BY <1>18, <3>1, <3>2 DEF Commit
  <2> QED BY <1>18, <2>1, AnswerType DEF Commit
<1>19. CASE Refuse(r)
  BY <1>19, AnswerType DEF Refuse
<1> QED
  BY <1>1, <1>2, <1>3, <1>4, <1>5, <1>6, <1>7, <1>8, <1>9, <1>10, <1>11, <1>12,
     <1>13, <1>14, <1>15, <1>16, <1>17, <1>18, <1>19
  DEF RequestStep

\* An extraction changes the sections and the status of the book.
LEMMA TaskTypes == ASSUME TypeOK, NEW n \in Extractions, TaskStep(n) PROVE TypeOK'
<1> USE DEF TypeOK, TaskPc, BookStatus, Ingesting
<1>1. CASE TaskStart(n)
  BY <1>1 DEF TaskStart, SetStatus
<1>2. CASE TaskExtracted(n)
  BY <1>2 DEF TaskExtracted
<1>3. CASE TaskDelete(n)
  BY <1>3 DEF TaskDelete
<1>4. CASE TaskCommit(n)
  <2>1. {n} \X Lessons \subseteq Sections
    BY DEF Sections
  <2>2. entries' \subseteq Sections /\ status' \in BookStatus /\ stranded' \in BOOLEAN
    BY <1>4, <2>1 DEF TaskCommit
  <2>3. task' \in [Extractions -> [pc : TaskPc, old : SUBSET Sections]]
    BY <1>4 DEF TaskCommit
  <2> QED BY <1>4, <2>2, <2>3 DEF TaskCommit
<1>5. CASE TaskBreaks(n)
  BY <1>5 DEF TaskBreaks
<1>6. CASE TaskFail(n)
  BY <1>6 DEF TaskFail, SetStatus
<1> QED BY <1>1, <1>2, <1>3, <1>4, <1>5, <1>6 DEF TaskStep

\* Cancels, workers and the start of the head.
LEMMA OtherTypes ==
  ASSUME TypeOK,
         (\E C \in SUBSET Jobs : Cancel(C)) \/ (\E j \in Jobs : Work(j)) \/ Restart
  PROVE  TypeOK'
<1> USE DEF TypeOK
<1>1. CASE \E C \in SUBSET Jobs : Cancel(C)
  <2> DEFINE Row == [st : JobStatus, sec : SUBSET Sections, again : BOOLEAN]
  <2>1. {"cancelled", "cancelling"} \subseteq JobStatus
    BY DEF JobStatus, Active, Saved
  <2>2. PICK C \in SUBSET Jobs : Cancel(C)
    BY <1>1
  <2>3. ASSUME NEW j \in Jobs PROVE job'[j] \in Row
    <3>1. job[j] \in Row
      OBVIOUS
    <3>2. \/ job'[j] = job[j]
          \/ job'[j] = [job[j] EXCEPT !.st = "cancelled"]
          \/ job'[j] = [job[j] EXCEPT !.st = "cancelling"]
      BY <2>2 DEF Cancel
    <3> QED BY <2>1, <3>1, <3>2
  <2>4. job' = [j \in Jobs |-> job'[j]]
    BY <2>2 DEF Cancel
  <2>5. job' \in [Jobs -> Row]
    <3> HIDE DEF Row
    <3> QED BY <2>3, <2>4, FunctionType
  <2> QED BY <2>2, <2>5 DEF Cancel
<1>2. CASE \E j \in Jobs : Work(j)
  BY <1>2 DEF Work, JobMoves, JobStatus, Active, Saved
<1>3. CASE Restart
  <2>1. req' \in [Requests -> Request]
    BY <1>3 DEF Restart, Request, Pc, Idle
  <2>2. task' \in [Extractions -> [pc : TaskPc, old : SUBSET Sections]]
    BY <1>3 DEF Restart, TaskPc
  <2>3. status' \in BookStatus /\ pdf' \in BOOLEAN
    BY <1>3 DEF Restart, Swept, BookStatus
  <2>4. restarts' \in 0 .. MaxRestarts
    BY <1>3, LibraryAssumption DEF Restart
  <2> QED BY <1>3, <2>1, <2>2, <2>3, <2>4 DEF Restart
<1> QED BY <1>1, <1>2, <1>3

\* Every step keeps the types.
LEMMA NextTypes == ASSUME TypeOK, [Next]_vars PROVE TypeOK'
<1>1. CASE UNCHANGED vars
  BY <1>1 DEF vars, TypeOK
<1> QED BY <1>1, RequestTypes, TaskTypes, OtherTypes DEF Next

-----------------------------------------------------------------------------
(* Locks and lookups.                                                      *)

\* What depends on requests and jobs alone.
Locked ==
  /\ DeleterAlone /\ StillAtRest
  /\ LocksApart /\ OneSection /\ StillUnmade /\ LaunchedOnce

\* Nobody holds a lock and no job exists at the start.
LEMMA InitLocked == Init => Locked
  BY DEF Init, Locked, DeleterAlone, StillAtRest, LocksApart, OneSection,
         StillUnmade, LaunchedOnce, Idle, Exists, InFlight, Active, Findable

\* An extraction task leaves requests and jobs alone.
LEMMA TaskLocked == ASSUME Locked, NEW n \in Extractions, TaskStep(n) PROVE Locked'
<1>1. UNCHANGED <<req, job>>
  BY DEF TaskStep, TaskStart, TaskExtracted, TaskDelete, TaskCommit, TaskBreaks, TaskFail
<1> QED
  BY <1>1 DEF Locked, DeleterAlone, StillAtRest, LocksApart, OneSection, StillUnmade,
              LaunchedOnce, Sharing, Exists, InFlight

\* A request that ends without a change to the jobs lets go of its locks.
LEMMA AnswerLocked ==
  ASSUME TypeOK, Locked, NEW r \in Requests, Answer(r), UNCHANGED job
  PROVE  Locked'
<1>1. req' = [req EXCEPT ![r] = Idle]
  BY DEF Answer
<1>2. /\ req'[r] = Idle
      /\ \A q \in Requests \ {r} : req'[q] = req[q]
  BY <1>1 DEF TypeOK
<1> USE DEF Locked, Idle
<1>3. DeleterAlone' /\ StillAtRest'
  BY <1>2 DEF DeleterAlone, StillAtRest, Sharing, InFlight
<1>4. LocksApart'
  BY <1>2 DEF LocksApart
<1>5. OneSection' /\ LaunchedOnce'
  BY DEF OneSection, LaunchedOnce, Exists
<1>6. StillUnmade'
  BY <1>2 DEF StillUnmade
<1> QED BY <1>3, <1>4, <1>5, <1>6

\* A request that begins has no lock of a section; one that shares the lock of the
\* book waits for a delete to end.
LEMMA BeginLocked ==
  ASSUME TypeOK, Locked, NEW r \in Requests, NEW q \in Request,
         req' = [req EXCEPT ![r] = q], UNCHANGED job,
         q.held = {}, q.fresh = {}, q.pc # "dropBook",
         q.pc = "store" \/ ~Deleting
  PROVE  Locked'
<1>1. /\ req'[r] = q
      /\ \A p \in Requests \ {r} : req'[p] = req[p]
  BY DEF TypeOK
<1> USE DEF Locked
<1>2. DeleterAlone' /\ StillAtRest'
  BY <1>1 DEF DeleterAlone, StillAtRest, Sharing, InFlight, Deleting
<1>3. LocksApart'
  BY <1>1 DEF LocksApart
<1>4. OneSection' /\ LaunchedOnce'
  BY DEF OneSection, LaunchedOnce, Exists
<1>5. StillUnmade'
  BY <1>1 DEF StillUnmade
<1> QED BY <1>2, <1>3, <1>4, <1>5

\* The deletion of a book begins when nobody shares the lock and no job is active.
LEMMA DropBookLocked ==
  ASSUME TypeOK, Locked, NEW r \in Requests, DropBook(r) PROVE Locked'
<1>1. /\ req'[r] = [Idle EXCEPT !.pc = "dropBook"]
      /\ \A p \in Requests \ {r} : req'[p] = req[p]
      /\ job' = job
  BY DEF DropBook, TypeOK
<1> USE DEF Locked, Idle
<1>2. DeleterAlone' /\ StillAtRest'
  BY <1>1 DEF DropBook, DeleterAlone, StillAtRest, Sharing, InFlight, Deleting
<1>3. LocksApart'
  BY <1>1 DEF LocksApart
<1>4. OneSection' /\ LaunchedOnce'
  BY <1>1 DEF OneSection, LaunchedOnce, Exists
<1>5. StillUnmade'
  BY <1>1 DEF StillUnmade
<1> QED BY <1>2, <1>3, <1>4, <1>5

\* A request that goes on, sharing the lock of the book, may take the free lock of a
\* section and decide to create a job for it if it has found none or was forced.
LEMMA GoOnLocked ==
  ASSUME TypeOK, Locked, NEW r \in Requests, NEW q \in Request,
         req' = [req EXCEPT ![r] = q], UNCHANGED job,
         Sharing(r), q.pc # "dropBook", q.force = req[r].force,
         \A s \in q.held : s \in req[r].held \/ SectionFree(r, s),
         \A s \in q.fresh : s \in req[r].fresh \/ q.force \/ Found(s) = {},
         q.fresh \subseteq q.held
  PROVE  Locked'
<1>1. /\ req'[r] = q
      /\ \A p \in Requests \ {r} : req'[p] = req[p]
  BY DEF TypeOK
<1> USE DEF Locked
<1>2. DeleterAlone' /\ StillAtRest'
  BY <1>1 DEF DeleterAlone, StillAtRest, Sharing, InFlight
<1>3. LocksApart'
  BY <1>1 DEF LocksApart, SectionFree
<1>4. OneSection' /\ LaunchedOnce'
  BY DEF OneSection, LaunchedOnce, Exists
<1>5. ASSUME NEW j \in Jobs, ~q.force, job[j].st \in Findable,
             job[j].sec \cap q.fresh # {}
      PROVE  job[j].again
  <2>1. PICK s \in job[j].sec : s \in q.fresh
    BY <1>5
  <2>2. CASE s \in req[r].fresh
    BY <1>5, <2>2, <2>1 DEF StillUnmade
  <2>3. CASE Found(s) = {}
    <3>1. job[j].sec = {s}
      BY <1>5, <2>1 DEF OneSection, Exists, Findable
    <3> QED BY <1>5, <2>3, <3>1 DEF Found, JobsOf, Exists, Findable
  <2> QED BY <1>5, <2>1, <2>2, <2>3
<1>6. StillUnmade'
  BY <1>1, <1>5 DEF StillUnmade
<1> QED BY <1>2, <1>3, <1>4, <1>6

\* Jobs only leave, or leave activity: what was at rest stays so.
LEMMA RestLocked ==
  ASSUME TypeOK, Locked, UNCHANGED req,
         job' = [j \in Jobs |-> job'[j]],
         \A j \in Jobs :
           /\ job'[j].sec = job[j].sec /\ job'[j].again = job[j].again
           /\ InFlight(j)' => InFlight(j)
           /\ job'[j].st \in Findable => job[j].st \in Findable
           /\ Exists(j)' => Exists(j)
  PROVE  Locked'
<1> USE DEF Locked
<1>1. DeleterAlone' /\ StillAtRest' /\ LocksApart'
  BY DEF DeleterAlone, StillAtRest, Sharing, LocksApart
<1>2. OneSection' /\ StillUnmade' /\ LaunchedOnce'
  BY DEF OneSection, StillUnmade, LaunchedOnce
<1> QED BY <1>1, <1>2

\* Cancels and workers leave jobs at rest alone.
LEMMA JobLocked ==
  ASSUME TypeOK, Locked, (\E C \in SUBSET Jobs : Cancel(C)) \/ (\E j \in Jobs : Work(j))
  PROVE  Locked'
<1> USE DEF Active, Findable, Saved, InFlight, Exists
<1>1. CASE \E C \in SUBSET Jobs : Cancel(C)
  <2>1. PICK C \in SUBSET Jobs : Cancel(C)
    BY <1>1
  <2>2. ASSUME NEW j \in Jobs
        PROVE  \/ job'[j] = job[j]
               \/ /\ job[j].st = "pending"
                  /\ job'[j] = [job[j] EXCEPT !.st = "cancelled"]
               \/ /\ job[j].st = "running"
                  /\ job'[j] = [job[j] EXCEPT !.st = "cancelling"]
    BY <2>1 DEF Cancel
  <2>3. \A j \in Jobs : job[j] \in [st : JobStatus, sec : SUBSET Sections, again : BOOLEAN]
    BY DEF TypeOK
  <2>4. UNCHANGED req /\ job' = [j \in Jobs |-> job'[j]]
    BY <2>1 DEF Cancel
  <2>5. ASSUME NEW j \in Jobs
        PROVE  /\ job'[j].sec = job[j].sec /\ job'[j].again = job[j].again
               /\ InFlight(j)' => InFlight(j)
               /\ job'[j].st \in Findable => job[j].st \in Findable
               /\ Exists(j)' => Exists(j)
    BY <2>2, <2>3
  <2> QED BY <2>4, <2>5, RestLocked
<1>2. CASE \E j \in Jobs : Work(j)
  <2>1. PICK i \in Jobs, m \in JobMoves :
          job[i].st = m[1] /\ job' = [job EXCEPT ![i].st = m[2]] /\ UNCHANGED req
    BY <1>2 DEF Work
  <2>2. \/ m[1] \in {"pending", "running"} /\ m[2] \in {"pending", "running", "failed", "done"}
        \/ m[1] = "cancelling" /\ m[2] = "cancelled"
    BY DEF JobMoves
  <2>3. ASSUME NEW j \in Jobs
        PROVE  /\ job'[j].sec = job[j].sec /\ job'[j].again = job[j].again
               /\ InFlight(j)' => InFlight(j)
               /\ job'[j].st \in Findable => job[j].st \in Findable
               /\ Exists(j)' => Exists(j)
    <3>1. job[j] \in [st : JobStatus, sec : SUBSET Sections, again : BOOLEAN]
      BY DEF TypeOK
    <3>2. CASE j = i
      <4>1. job'[j] = [job[j] EXCEPT !.st = m[2]]
        BY <2>1, <3>2 DEF TypeOK
      <4> QED BY <2>1, <2>2, <3>1, <3>2, <4>1
    <3>3. CASE j # i
      BY <2>1, <3>3 DEF TypeOK
    <3> QED BY <3>2, <3>3
  <2>4. job' = [j \in Jobs |-> job'[j]]
    BY <2>1 DEF TypeOK
  <2> QED BY <2>1, <2>3, <2>4, RestLocked
<1> QED BY <1>1, <1>2

\* A start of the head finds no request.
LEMMA RestartLocked == ASSUME TypeOK, Locked, Restart PROVE Locked'
<1>1. job' = job /\ \A r \in Requests : req'[r] = Idle
  BY DEF Restart
<1> USE <1>1 DEF Locked, Idle
<1>2. DeleterAlone' /\ StillAtRest' /\ LocksApart' /\ StillUnmade'
  BY DEF DeleterAlone, StillAtRest, LocksApart, StillUnmade
<1>3. OneSection' /\ LaunchedOnce'
  BY DEF OneSection, LaunchedOnce, Exists
<1> QED BY <1>2, <1>3

\* Jobs that are deleted leave the others as they were.
LEMMA DeletedLocked ==
  ASSUME TypeOK, Locked, NEW r \in Requests, NEW J \in SUBSET Jobs,
         job' = Deleted(J), Answer(r)
  PROVE  Locked'
<1>1. /\ req'[r] = Idle
      /\ \A p \in Requests \ {r} : req'[p] = req[p]
  BY DEF Answer, TypeOK
<1>2. \A j \in Jobs :
        \/ job'[j] = job[j]
        \/ job'[j] = [st |-> "deleted", sec |-> {}, again |-> FALSE]
  BY DEF Deleted
<1> USE DEF Locked, Idle, Active, Findable, InFlight, Exists
<1>3. DeleterAlone' /\ StillAtRest'
  BY <1>1, <1>2 DEF DeleterAlone, StillAtRest, Sharing
<1>4. LocksApart'
  BY <1>1 DEF LocksApart
<1>5. OneSection'
  BY <1>2 DEF OneSection
<1>6. StillUnmade'
  BY <1>1, <1>2 DEF StillUnmade
<1>7. LaunchedOnce'
  BY <1>2 DEF LaunchedOnce
<1> QED BY <1>3, <1>4, <1>5, <1>6, <1>7

\* What a request decided is written: a new job is for a section that it has locked
\* and found free, one that is put back is marked so, and the book is not being
\* deleted.
LEMMA CommitLocked ==
  ASSUME TypeOK, Locked, NEW r \in Requests, Commit(r) PROVE Locked'
<1> DEFINE q == req[r]
           F == q.fresh
<1>1. CASE UNCHANGED job
  BY <1>1, AnswerLocked DEF Commit
<1>2. CASE ~UNCHANGED job
  <2>1. /\ req'[r] = Idle
        /\ \A p \in Requests \ {r} : req'[p] = req[p]
    BY DEF Commit, Answer, TypeOK
  <2>2. /\ \A j \in q.jobs : Exists(j)
        /\ Changed(q.jobs, F, q.force)
    BY <1>2 DEF Commit
  <2>3. PICK row \in [F -> {j \in Jobs : job[j].st = "unborn"}] :
          /\ \A s, t \in F : row[s] = row[t] => s = t
          /\ job' = [j \in Jobs |->
               IF j \in {row[s] : s \in F}
                 THEN [st |-> "pending", sec |-> {s \in F : row[s] = j}, again |-> q.force]
               ELSE IF j \in q.jobs THEN [job[j] EXCEPT !.st = "pending", !.again = TRUE]
               ELSE job[j]]
    BY <2>2 DEF Changed
  <2> DEFINE New(j)  == /\ job[j].st = "unborn"
                        /\ job'[j].again = q.force
                        /\ \E s \in F : job'[j].sec = {s} /\ row[s] = j
             Back(j) == Exists(j) /\ job'[j].sec = job[j].sec /\ job'[j].again = TRUE
             Same(j) == job'[j] = job[j]
  <2>4. ASSUME NEW j \in Jobs PROVE New(j) \/ Back(j) \/ Same(j)
    <3>1. CASE j \in {row[s] : s \in F}
      <4>1. PICK s \in F : row[s] = j
        BY <3>1
      <4>2. {t \in F : row[t] = j} = {s}
        BY <4>1, <2>3
      <4>3. job'[j] = [st |-> "pending", sec |-> {s}, again |-> q.force]
        BY <2>3, <3>1, <4>2
      <4>4. job[j].st = "unborn"
        BY <4>1, <2>3
      <4> QED BY <4>1, <4>3, <4>4
    <3>2. CASE j \notin {row[s] : s \in F} /\ j \in q.jobs
      <4>1. job'[j] = [job[j] EXCEPT !.st = "pending", !.again = TRUE]
        BY <2>3, <3>2
      <4>2. job[j] \in [st : JobStatus, sec : SUBSET Sections, again : BOOLEAN]
        BY DEF TypeOK
      <4> QED BY <4>1, <4>2, <3>2, <2>2
    <3>3. CASE j \notin {row[s] : s \in F} /\ j \notin q.jobs
      BY <2>3, <3>3
    <3> QED BY <3>1, <3>2, <3>3
  <2>5. F \subseteq q.held /\ F \subseteq Sections
    BY DEF Locked, LocksApart, TypeOK, Request
  <2>6. DeleterAlone' /\ LocksApart'
    BY <2>1 DEF Locked, DeleterAlone, LocksApart, Sharing, Idle
  <2>7. StillAtRest'
    <3>1. \A p \in Requests : req[p].pc # "dropBook"
      BY DEF Locked, DeleterAlone, Sharing, Commit
    <3> QED BY <2>1, <3>1 DEF StillAtRest, Idle
  <2>8. OneSection'
    <3> SUFFICES ASSUME NEW j \in Jobs, Exists(j)'
                 PROVE  \E s \in Sections : job'[j].sec = {s}
      BY DEF OneSection
    <3> HIDE DEF New, Back, Same
    <3>1. CASE New(j)
      BY <3>1, <2>5 DEF New
    <3>2. CASE Back(j)
      BY <3>2 DEF Back, Locked, OneSection
    <3>3. CASE Same(j)
      BY <3>3 DEF Same, Locked, OneSection, Exists
    <3> QED BY <2>4, <3>1, <3>2, <3>3
  <2>9. StillUnmade'
    <3> SUFFICES ASSUME NEW p \in Requests, NEW j \in Jobs, ~req'[p].force,
                        job'[j].st \in Findable, job'[j].sec \cap req'[p].fresh # {}
                 PROVE  job'[j].again
      BY DEF StillUnmade
    <3>1. p # r /\ req'[p] = req[p]
      BY <2>1 DEF Idle
    <3> HIDE DEF New, Back, Same
    <3>2. CASE New(j)
      <4>1. job'[j].sec \subseteq req[r].held
        BY <3>2, <2>5 DEF New
      <4>2. req[p].fresh \subseteq req[p].held /\ req[p].held \cap req[r].held = {}
        BY <3>1 DEF Locked, LocksApart
      <4> QED BY <3>1, <4>1, <4>2
    <3>3. CASE Back(j)
      BY <3>3 DEF Back
    <3>4. CASE Same(j)
      BY <3>1, <3>4 DEF Same, Locked, StillUnmade
    <3> QED BY <2>4, <3>2, <3>3, <3>4
  <2>10. LaunchedOnce'
    <3> SUFFICES ASSUME NEW i \in Jobs, NEW j \in Jobs, job'[i].st \in Findable,
                        job'[j].st \in Findable, job'[i].sec = job'[j].sec,
                        ~job'[i].again, ~job'[j].again
                 PROVE  i = j
      BY DEF LaunchedOnce
    <3>1. ASSUME NEW k \in Jobs, NEW l \in Jobs, New(k), Same(l), ~job'[l].again,
                 ~job'[k].again, job'[l].st \in Findable, job'[k].sec = job'[l].sec
          PROVE  FALSE
      <4>1. ~q.force /\ job[l].st \in Findable /\ ~job[l].again
        BY <3>1
      <4>2. job[l].sec \cap F # {}
        BY <3>1
      <4> QED BY <4>1, <4>2 DEF Locked, StillUnmade
    <3> HIDE DEF New, Back, Same
    <3>2. CASE New(i) /\ New(j)
      BY <3>2 DEF New
    <3>3. CASE Same(i) /\ Same(j)
      BY <3>3 DEF Same, Locked, LaunchedOnce
    <3>4. ~Back(i) /\ ~Back(j)
      BY DEF Back
    <3> QED BY <2>4, <3>1, <3>2, <3>3, <3>4
  <2> QED BY <2>6, <2>7, <2>8, <2>9, <2>10 DEF Locked
<1> QED BY <1>1, <1>2

\* Every step of a request is one of the kinds above.
LEMMA RequestLocked ==
  ASSUME TypeOK, Locked, NEW r \in Requests, RequestStep(r) PROVE Locked'
<1> DEFINE Begins(q) == /\ req' = [req EXCEPT ![r] = q] /\ UNCHANGED job
                        /\ q \in Request /\ q.held = {} /\ q.fresh = {}
                        /\ q.pc # "dropBook" /\ (q.pc = "store" \/ ~Deleting)
<1>1. CASE StoreFile(r) \/ StoreFails(r) \/ RetryTocCommit(r) \/ AcceptCommit(r) \/ Refuse(r)
  BY <1>1, AnswerLocked
  DEF StoreFile, StoreFails, RetryTocCommit, AcceptCommit, Refuse
<1>2. ASSUME NEW q, Begins(q) PROVE Locked'
  BY <1>2, BeginLocked
<1>3. CASE Upload(r)
  <2>1. Begins([Idle EXCEPT !.pc = "store"])
    BY <1>3 DEF Upload, Idle, Request, Pc, TypeOK
  <2> QED BY <2>1, <1>2
<1>4. CASE RetryToc(r)
  <2>1. Begins([Idle EXCEPT !.pc = "retryToc"])
    BY <1>4 DEF RetryToc, Serve, Idle, Request, Pc, TypeOK
  <2> QED BY <2>1, <1>2
<1>5. CASE Accept(r)
  <2>1. Begins([Idle EXCEPT !.pc = "accept"])
    BY <1>5 DEF Accept, Serve, Idle, Request, Pc, TypeOK
  <2> QED BY <2>1, <1>2
<1>6. CASE \E s \in Sections : DropSection(r, s)
  <2>1. PICK s \in Sections : DropSection(r, s)
    BY <1>6
  <2>2. Begins([Idle EXCEPT !.pc = "dropSection", !.left = {s}])
    BY <2>1 DEF DropSection, Serve, Idle, Request, Pc, TypeOK
  <2> QED BY <2>2, <1>2
<1>7. CASE \E s \in Sections : Generate(r, s, TRUE) \/ Generate(r, s, FALSE)
  <2>1. PICK s \in Sections, f \in BOOLEAN : Generate(r, s, f)
    BY <1>7
  <2>2. Begins([Idle EXCEPT !.pc = "generate", !.force = f, !.left = {s}])
    BY <2>1 DEF Generate, Serve, Idle, Request, Pc, TypeOK
  <2> QED BY <2>2, <1>2
<1>8. CASE \E T \in SUBSET Sections : Launch(r, T, TRUE) \/ Launch(r, T, FALSE)
  <2>1. PICK T \in SUBSET Sections, f \in BOOLEAN : Launch(r, T, f)
    BY <1>8
  <2>2. Begins([Idle EXCEPT !.pc = "upsert", !.force = f, !.left = T])
    BY <2>1 DEF Launch, Serve, Idle, Request, Pc, TypeOK
  <2> QED BY <2>2, <1>2
<1>9. CASE \E R \in SUBSET Jobs : Revive(r, R)
  <2>1. PICK R \in SUBSET Jobs : Revive(r, R)
    BY <1>9
  <2>2. Begins([Idle EXCEPT !.pc = "revive", !.jobs = R])
    BY <2>1 DEF Revive, Serve, Idle, Request, Pc, TypeOK
  <2> QED BY <2>2, <1>2
<1>10. CASE DropBook(r)
  BY <1>10, DropBookLocked
<1>11. CASE DropSectionCommit(r) \/ DropBookCommit(r)
  <2>1. \E J \in SUBSET Jobs : job' = Deleted(J) /\ Answer(r)
    BY <1>11 DEF DropSectionCommit, DropBookCommit
  <2> QED BY <2>1, DeletedLocked
<1>12. CASE Commit(r)
  BY <1>12, CommitLocked
<1>13. CASE Upsert(r)
  <2> DEFINE q == [req[r] EXCEPT !.pc = "launch"]
  <2>1. q \in Request /\ req' = [req EXCEPT ![r] = q] /\ UNCHANGED job
    BY <1>13 DEF Upsert, Request, Pc, TypeOK
  <2>2. Sharing(r) /\ req[r] \in Request
    BY <1>13 DEF Upsert, Sharing, TypeOK
  <2>3. /\ q.pc = "launch" /\ q.force = req[r].force
        /\ q.held = req[r].held /\ q.fresh = req[r].fresh
    BY <2>2 DEF Request
  <2>4. q.fresh \subseteq q.held
    BY <2>3 DEF Locked, LocksApart
  <2> HIDE DEF q
  <2> QED BY <2>1, <2>2, <2>3, <2>4, GoOnLocked
<1>14. CASE GenerateLook(r)
  <2>1. PICK s \in req[r].left :
          /\ SectionFree(r, s)
          /\ IF ~req[r].force /\ Found(s) # {}
               THEN Answer(r)
               ELSE req' = [req EXCEPT ![r].pc = "create", ![r].held = {s}, ![r].fresh = {s}]
    BY <1>14 DEF GenerateLook
  <2>2. UNCHANGED job /\ Sharing(r)
    BY <1>14 DEF GenerateLook, Sharing
  <2>3. CASE Answer(r)
    BY <2>2, <2>3, AnswerLocked
  <2>4. CASE ~Answer(r)
    <3> DEFINE q == [req[r] EXCEPT !.pc = "create", !.held = {s}, !.fresh = {s}]
    <3>1. req[r] \in Request /\ s \in Sections
      BY DEF TypeOK, Request
    <3>2. q \in Request
      BY <3>1 DEF Request, Pc
    <3>3. q.pc = "create" /\ q.force = req[r].force /\ q.held = {s} /\ q.fresh = {s}
      BY <3>1 DEF Request
    <3>4. req' = [req EXCEPT ![r] = q] /\ (req[r].force \/ Found(s) = {})
      <4>1. req' = [req EXCEPT ![r].pc = "create", ![r].held = {s}, ![r].fresh = {s}]
        BY <2>1, <2>4
      <4>2. req[r].force \/ Found(s) = {}
        BY <2>1, <2>4
      <4> QED BY <4>1, <4>2, <3>1 DEF TypeOK, Request
    <3> HIDE DEF q
    <3> QED BY <2>1, <2>2, <3>1, <3>2, <3>3, <3>4, GoOnLocked
  <2> QED BY <2>3, <2>4
<1>15. CASE \E s \in Sections : LaunchLesson(r, s)
  <2>1. PICK s \in Sections : LaunchLesson(r, s)
    BY <1>15
  <2> DEFINE saved  == {j \in Latest(s) : job[j].st \in Saved}
             looked == [req[r] EXCEPT !.left = @ \ {s}, !.held = @ \cup {s}]
             back   == [looked EXCEPT !.jobs = @ \cup saved]
             new    == [looked EXCEPT !.fresh = @ \cup {s}]
  <2>2. /\ UNCHANGED job /\ Sharing(r) /\ SectionFree(r, s) /\ req[r].pc = "launch"
        /\ \/ req' = [req EXCEPT ![r] = looked]
           \/ req' = [req EXCEPT ![r] = back]
           \/ /\ req[r].force \/ Found(s) = {}
              /\ req' = [req EXCEPT ![r] = new]
    BY <2>1 DEF LaunchLesson, Sharing
  <2>3. req[r] \in Request /\ saved \subseteq Jobs
    BY DEF TypeOK, Latest, JobsOf
  <2> HIDE DEF saved
  <2>4. /\ looked \in Request /\ looked.pc = "launch" /\ looked.force = req[r].force
        /\ looked.held = req[r].held \cup {s} /\ looked.fresh = req[r].fresh
    BY <2>2, <2>3 DEF Request
  <2>5. /\ back \in Request /\ back.pc = "launch" /\ back.force = req[r].force
        /\ back.held = req[r].held \cup {s} /\ back.fresh = req[r].fresh
    BY <2>2, <2>3 DEF Request
  <2>6. /\ new \in Request /\ new.pc = "launch" /\ new.force = req[r].force
        /\ new.held = req[r].held \cup {s} /\ new.fresh = req[r].fresh \cup {s}
    BY <2>2, <2>3 DEF Request
  <2>7. req[r].fresh \subseteq req[r].held
    BY DEF Locked, LocksApart
  <2> HIDE DEF looked, back, new
  <2>8. CASE req' = [req EXCEPT ![r] = looked]
    BY <2>2, <2>4, <2>7, <2>8, GoOnLocked
  <2>9. CASE req' = [req EXCEPT ![r] = back]
    BY <2>2, <2>5, <2>7, <2>9, GoOnLocked
  <2>10. CASE req' = [req EXCEPT ![r] = new] /\ (req[r].force \/ Found(s) = {})
    BY <2>2, <2>6, <2>7, <2>10, GoOnLocked
  <2> QED BY <2>2, <2>8, <2>9, <2>10
<1> QED
  BY <1>1, <1>3, <1>4, <1>5, <1>6, <1>7, <1>8, <1>9, <1>10, <1>11, <1>12, <1>13,
     <1>14, <1>15
  DEF RequestStep

-----------------------------------------------------------------------------
(* Theorems.                                                               *)

\* The inductive invariant: types, the locks of the book and of its sections, and
\* what was read under them.
THEOREM LibraryInvariant == Spec => []LibraryInv
<1>1. Init => LibraryInv
  BY InitTypes, InitLocked DEF LibraryInv, Locked
<1>2. LibraryInv /\ [Next]_vars => LibraryInv'
  <2> SUFFICES ASSUME TypeOK, Locked, [Next]_vars PROVE Locked'
    BY NextTypes DEF LibraryInv, Locked
  <2>1. CASE UNCHANGED vars
    BY <2>1 DEF vars, Locked, DeleterAlone, StillAtRest, LocksApart, OneSection,
                StillUnmade, LaunchedOnce, Sharing, Exists, InFlight
  <2> QED
    BY <2>1, RequestLocked, TaskLocked, JobLocked, RestartLocked DEF Next
<1> QED BY <1>1, <1>2, PTL DEF Spec

\* generate and launch_batch: overlapping requests make one job of a lesson, unless
\* it is forced or put back.
THEOREM OneJobPerLesson == Spec => []LaunchedOnce
<1>1. LibraryInv => LaunchedOnce
  BY DEF LibraryInv
<1> QED BY <1>1, LibraryInvariant, PTL

\* delete_book: no retry, resume or launch puts a job under a book that is deleted.
THEOREM DeletedAtRest == Spec => BookDeletedAtRest
<1>1. ASSUME LibraryInv, Next, status # "deleted", status' = "deleted", NEW j \in Jobs
      PROVE  ~InFlight(j)
  <2>1. \E r \in Requests : DropBookCommit(r)
    <3>1. CASE \E r \in Requests : RequestStep(r)
      <4>1. PICK r \in Requests : RequestStep(r)
        BY <3>1
      <4>2. \/ status' = status \/ status' \in {"uploading", "toc_extracting", "toc_ready"}
            \/ DropBookCommit(r)
        BY <4>1
        DEF RequestStep, Upload, StoreFile, StoreFails, RetryToc, RetryTocCommit, Accept,
            AcceptCommit, DropSection, DropSectionCommit, DropBook, Generate,
            GenerateLook, Launch, Upsert, LaunchLesson, Revive, Commit, Refuse
      <4> QED BY <1>1, <4>2
    <3>2. CASE \E n \in Extractions : TaskStep(n)
      BY <1>1, <3>2
      DEF TaskStep, TaskStart, TaskExtracted, TaskDelete, TaskCommit, TaskBreaks, TaskFail,
          SetStatus
    <3>3. CASE (\E C \in SUBSET Jobs : Cancel(C)) \/ (\E i \in Jobs : Work(i)) \/ Restart
      BY <1>1, <3>3 DEF Cancel, Work, Restart, Swept
    <3> QED BY <1>1, <3>1, <3>2, <3>3 DEF Next
  <2> QED BY <1>1, <2>1 DEF DropBookCommit, LibraryInv, StillAtRest
<1>2. LibraryInv /\ [Next]_vars =>
        [status # "deleted" /\ status' = "deleted" => \A j \in Jobs : ~InFlight(j)]_vars
  BY <1>1
<1> QED BY <1>2, LibraryInvariant, PTL DEF Spec, BookDeletedAtRest

-----------------------------------------------------------------------------
(* A book in ingestion, and its file.                                      *)

Live(n) == task[n].pc \notin {"unborn", "over"}

\* Requests that will write the status of the book, or its file.
Writers == {"store", "retryToc", "accept", "dropBook"}

\* Where the file is: an upload is alone with the book until it is written, and
\* what extracts has it.
FileKept ==
  /\ \A n \in Extractions : Live(n) => status # "none" /\ (There => pdf)
  /\ \A r \in Requests : req[r].pc \in Writers => status # "none"
  /\ \A r \in Requests : req[r].pc \in {"retryToc", "accept"} => There
  /\ \A r \in Requests : req[r].pc = "retryToc" => pdf
  /\ \A r \in Requests : req[r].pc = "store" =>
       /\ status = "uploading"
       /\ \A n \in Extractions : ~Live(n)
       /\ \A q \in Requests : req[q].pc \in Writers => q = r

IngestInv == FileKept /\ IngestionAttended

\* A request that writes neither the book nor a task, and does not become a writer.
LEMMA AsideIngests ==
  ASSUME TypeOK, IngestInv, NEW r \in Requests,
         UNCHANGED <<status, pdf, task, stranded>>, req[r].pc # "store",
         req'[r].pc \notin Writers, \A q \in Requests \ {r} : req'[q] = req[q]
  PROVE  IngestInv'
<1>1. FileKept'
  BY DEF IngestInv, FileKept, Live, There, Writers
<1>2. IngestionAttended'
  BY DEF IngestInv, IngestionAttended
<1> QED BY <1>1, <1>2 DEF IngestInv

\* The upload and its file.
LEMMA UploadIngests ==
  ASSUME TypeOK, IngestInv, NEW r \in Requests,
         Upload(r) \/ StoreFile(r) \/ StoreFails(r)
  PROVE  IngestInv'
<1> USE DEF TypeOK, IngestInv, Live, There, Writers
<1>1. CASE Upload(r)
  <2>1. /\ req'[r].pc = "store" /\ status = "none" /\ status' = "uploading"
        /\ \A q \in Requests \ {r} : req'[q] = req[q]
        /\ UNCHANGED <<pdf, task, stranded>>
    BY <1>1 DEF Upload, Request
  <2>2. FileKept'
    BY <2>1 DEF FileKept
  <2>3. IngestionAttended'
    BY <2>1 DEF IngestionAttended
  <2> QED BY <2>2, <2>3
<1>2. CASE StoreFile(r)
  <2>1. PICK n \in Extractions : Begin(n)
    BY <1>2 DEF StoreFile
  <2>2. /\ task'[n].pc = "start" /\ pdf' = TRUE /\ UNCHANGED status
        /\ req'[r].pc = "idle" /\ \A q \in Requests \ {r} : req'[q] = req[q]
    BY <1>2, <2>1 DEF StoreFile, Begin, Answer, Idle
  <2>3. FileKept'
    BY <1>2, <2>2 DEF FileKept, StoreFile
  <2>4. IngestionAttended'
    BY <2>2 DEF IngestionAttended
  <2> QED BY <2>3, <2>4
<1>3. CASE StoreFails(r)
  <2>1. /\ req[r].pc = "store" /\ stranded' = TRUE /\ UNCHANGED <<status, task>>
        /\ req'[r].pc = "idle" /\ \A q \in Requests \ {r} : req'[q] = req[q]
    BY <1>3 DEF StoreFails, Answer, Idle
  <2>2. FileKept'
    BY <2>1 DEF FileKept
  <2>3. IngestionAttended'
    BY <2>1 DEF FileKept, IngestionAttended
  <2> QED BY <2>2, <2>3
<1> QED BY <1>1, <1>2, <1>3

\* A new extraction, an accepted table of contents, a book that goes.
LEMMA WriterIngests ==
  ASSUME TypeOK, IngestInv, DeleterAlone, NEW r \in Requests,
         RetryTocCommit(r) \/ AcceptCommit(r) \/ DropBookCommit(r)
  PROVE  IngestInv'
<1> USE DEF TypeOK, IngestInv, Live, There, Writers
<1>1. /\ req'[r].pc = "idle" /\ \A q \in Requests \ {r} : req'[q] = req[q]
  BY DEF RetryTocCommit, AcceptCommit, DropBookCommit, Answer, Idle
<1>2. CASE RetryTocCommit(r)
  <2>1. /\ req[r].pc = "retryToc" /\ status' = "toc_extracting" /\ UNCHANGED pdf
        /\ \/ UNCHANGED task /\ stranded' = TRUE
           \/ \E n \in Extractions : task'[n].pc = "start"
    BY <1>2 DEF RetryTocCommit, Begin
  <2>2. pdf /\ \A q \in Requests : req[q].pc # "store"
    BY <2>1 DEF FileKept
  <2>3. FileKept'
    BY <1>1, <2>1, <2>2 DEF FileKept
  <2>4. IngestionAttended'
    BY <2>1, <2>2 DEF IngestionAttended
  <2> QED BY <2>3, <2>4
<1>3. CASE AcceptCommit(r)
  <2>1. /\ req[r].pc = "accept" /\ status' = "toc_ready" /\ UNCHANGED <<pdf, task>>
    BY <1>3 DEF AcceptCommit
  <2>2. status # "none" /\ \A q \in Requests : req[q].pc # "store"
    BY <2>1 DEF FileKept
  <2>3. There /\ There'
    BY <2>1 DEF FileKept
  <2>4. FileKept'
    BY <1>1, <2>1, <2>2, <2>3 DEF FileKept
  <2>5. IngestionAttended'
    BY <2>1 DEF IngestionAttended, Ingesting
  <2> QED BY <2>4, <2>5
<1>4. CASE DropBookCommit(r)
  <2>1. req[r].pc = "dropBook" /\ status' = "deleted" /\ UNCHANGED task
    BY <1>4 DEF DropBookCommit
  <2>2. \A q \in Requests : req[q].pc # "store"
    BY <2>1 DEF FileKept
  <2>3. \A q \in Requests \ {r} : req[q].pc \notin {"retryToc", "accept"}
    BY <2>1 DEF DeleterAlone, Sharing
  <2>4. FileKept'
    BY <1>1, <2>1, <2>2, <2>3 DEF FileKept
  <2>5. IngestionAttended'
    BY <2>1 DEF IngestionAttended, Ingesting
  <2> QED BY <2>4, <2>5
<1> QED BY <1>2, <1>3, <1>4

\* The request that attends to the book goes on, or takes it out.
LEMMA RequestIngests ==
  ASSUME TypeOK, IngestInv, DeleterAlone, NEW r \in Requests, RequestStep(r)
  PROVE  IngestInv'
<1> DEFINE Aside == /\ UNCHANGED <<status, pdf, task, stranded>> /\ req[r].pc # "store"
                    /\ req'[r].pc \notin Writers
                    /\ \A q \in Requests \ {r} : req'[q] = req[q]
<1>1. CASE RetryToc(r) \/ Accept(r) \/ DropBook(r)
  <2>1. /\ req'[r].pc \in {"retryToc", "accept", "dropBook"}
        /\ req'[r].pc = "retryToc" => pdf
        /\ status \notin {"none", "uploading", "deleted"}
        /\ \A q \in Requests \ {r} : req'[q] = req[q]
        /\ req[r].pc = "idle" /\ UNCHANGED <<status, pdf, task, stranded>>
    BY <1>1 DEF RetryToc, Accept, DropBook, Serve, Idle, TypeOK
  <2>2. FileKept'
    BY <2>1 DEF IngestInv, FileKept, Live, There, Writers
  <2>3. IngestionAttended'
    BY <2>1 DEF IngestInv, IngestionAttended
  <2> QED BY <2>2, <2>3 DEF IngestInv
<1> USE DEF TypeOK, Writers
<1>2. ASSUME Upsert(r) \/ Commit(r) \/ DropSectionCommit(r) \/ Refuse(r) PROVE Aside
  <2>1. Refuse(r) => Aside
    BY DEF Refuse, Answer, Idle
  <2>2. DropSectionCommit(r) => Aside
    BY DEF DropSectionCommit, Answer, Idle
  <2>3. Commit(r) => Aside
    BY DEF Commit, Answer, Idle
  <2>4. Upsert(r) => Aside
    BY DEF Upsert
  <2> QED BY <1>2, <2>1, <2>2, <2>3, <2>4
<1>8. ASSUME GenerateLook(r) PROVE Aside
  <2>1. /\ UNCHANGED <<status, pdf, task, stranded>> /\ req[r].pc = "generate"
        /\ \/ Answer(r)
           \/ \E s \in req[r].left :
                req' = [req EXCEPT ![r].pc = "create", ![r].held = {s}, ![r].fresh = {s}]
    BY <1>8 DEF GenerateLook
  <2>2. CASE Answer(r)
    BY <2>1, <2>2 DEF Answer, Idle
  <2>3. CASE \E s \in req[r].left :
               req' = [req EXCEPT ![r].pc = "create", ![r].held = {s}, ![r].fresh = {s}]
    <3>1. PICK s \in req[r].left :
            req' = [req EXCEPT ![r].pc = "create", ![r].held = {s}, ![r].fresh = {s}]
      BY <2>3
    <3>2. req'[r].pc = "create" /\ \A q \in Requests \ {r} : req'[q] = req[q]
      BY <3>1 DEF Request
    <3> QED BY <2>1, <3>2
  <2> QED BY <2>1, <2>2, <2>3
<1>3. ASSUME NEW s \in Sections,
             DropSection(r, s) \/ Generate(r, s, TRUE) \/ Generate(r, s, FALSE)
      PROVE  Aside
  BY <1>3 DEF DropSection, Generate, Serve, Idle
<1>4. ASSUME NEW T, Launch(r, T, TRUE) \/ Launch(r, T, FALSE) PROVE Aside
  BY <1>4 DEF Launch, Serve, Idle
<1>5. ASSUME NEW s \in Sections, LaunchLesson(r, s) PROVE Aside
  <2> DEFINE saved  == {j \in Latest(s) : job[j].st \in Saved}
             looked == [req[r] EXCEPT !.left = @ \ {s}, !.held = @ \cup {s}]
             back   == [looked EXCEPT !.jobs = @ \cup saved]
             new    == [looked EXCEPT !.fresh = @ \cup {s}]
  <2>1. /\ req[r].pc = "launch" /\ UNCHANGED <<status, pdf, task, stranded>>
        /\ \E q \in {looked, back, new} : req' = [req EXCEPT ![r] = q]
    BY <1>5 DEF LaunchLesson
  <2>2. \A q \in {looked, back, new} : q.pc = req[r].pc
    BY DEF Request
  <2> HIDE DEF looked, back, new
  <2> QED BY <2>1, <2>2
<1>6. ASSUME NEW R, Revive(r, R) PROVE Aside
  BY <1>6 DEF Revive, Serve, Idle
<1>7. CASE Aside
  BY <1>7, AsideIngests
<1> HIDE DEF TypeOK, Writers, Aside
<1> QED
  BY <1>1, <1>2, <1>3, <1>4, <1>5, <1>6, <1>7, <1>8, UploadIngests, WriterIngests
  DEF RequestStep

\* A task at work is one that will end: its last write says how, or is lost.
LEMMA TaskIngests ==
  ASSUME TypeOK, IngestInv, NEW n \in Extractions, TaskStep(n)
  PROVE  IngestInv'
<1> USE DEF TypeOK, IngestInv, Live, There
<1>1. /\ Live(n) /\ UNCHANGED <<req, pdf>>
      /\ \A m \in Extractions \ {n} : task'[m] = task[m]
  BY DEF TaskStep, TaskStart, TaskExtracted, TaskDelete, TaskCommit, TaskBreaks, TaskFail
<1>2. There <=> There'
  BY <1>1 DEF TaskStep, TaskStart, TaskExtracted, TaskDelete, TaskCommit, TaskBreaks,
              TaskFail, SetStatus, FileKept
<1>3. status = "none" <=> status' = "none"
  BY <1>1 DEF TaskStep, TaskStart, TaskExtracted, TaskDelete, TaskCommit, TaskBreaks,
              TaskFail, SetStatus, FileKept
<1>4. FileKept'
  BY <1>1, <1>2, <1>3 DEF FileKept
<1>5. IngestionAttended'
  <2>1. CASE TaskStart(n) \/ TaskExtracted(n) \/ TaskDelete(n) \/ TaskBreaks(n)
    <3>1. task'[n].pc \in {"agent", "fail", "delete", "insert"}
      BY <2>1 DEF TaskStart, TaskExtracted, TaskDelete, TaskBreaks
    <3>2. status' = "toc_extracting" => pdf
      BY <1>1, <2>1 DEF TaskStart, TaskExtracted, TaskDelete, TaskBreaks, SetStatus,
                        FileKept, IngestionAttended
    <3> QED BY <1>1, <3>1, <3>2 DEF IngestionAttended
  <2>2. CASE TaskCommit(n)
    <3>1. CASE There
      BY <1>1, <2>2, <3>1 DEF TaskCommit, IngestionAttended, Ingesting
    <3>2. CASE ~There
      BY <1>1, <2>2, <3>2 DEF TaskCommit, IngestionAttended, Ingesting
    <3> QED BY <3>1, <3>2
  <2>3. CASE TaskFail(n)
    <3>1. CASE SetStatus("failed")
      BY <1>1, <3>1 DEF SetStatus, IngestionAttended, Ingesting
    <3>2. CASE UNCHANGED status /\ stranded' = (stranded \/ status \in Ingesting)
      BY <1>1, <3>2 DEF IngestionAttended
    <3> QED BY <2>3, <3>1, <3>2 DEF TaskFail
  <2> QED BY <2>1, <2>2, <2>3 DEF TaskStep
<1> QED BY <1>4, <1>5

\* ingest_pdf, retry_toc_extraction, toc_extractor.run and the sweep at the start
\* of the head: whatever of them dies, fails or overlaps, a book in ingestion has
\* somebody to take it out, unless the one that should could not write; and one that
\* is stuck extracting has its file.
THEOREM IngestionIsAttended == Spec => []IngestionAttended
<1>1. Init => IngestInv
  BY DEF Init, IngestInv, FileKept, Live, Writers, There, Idle, IngestionAttended, Ingesting
<1>2. LibraryInv /\ IngestInv /\ [Next]_vars => IngestInv'
  <2> SUFFICES ASSUME TypeOK, DeleterAlone, IngestInv, [Next]_vars PROVE IngestInv'
    BY DEF LibraryInv
  <2>1. CASE (\E C \in SUBSET Jobs : Cancel(C)) \/ (\E j \in Jobs : Work(j)) \/ UNCHANGED vars
    BY <2>1 DEF Cancel, Work, vars, IngestInv, FileKept, Live, There, IngestionAttended
  <2>2. CASE Restart
    BY <2>2 DEF Restart, Swept, IngestInv, FileKept, Live, There, Writers, Idle,
                IngestionAttended, Ingesting
  <2> QED BY <2>1, <2>2, RequestIngests, TaskIngests DEF Next
<1>3. IngestInv => IngestionAttended
  BY DEF IngestInv
<1> QED BY <1>1, <1>2, <1>3, LibraryInvariant, PTL DEF Spec

-----------------------------------------------------------------------------
(* The file of a book on a host (BookFetch): the locks of a fetch.         *)

FetchPlaces == {"none", "start", "book_lock", "book_recheck", "host_lock",
           "host_recheck", "transfer", "ok", "error"}

FetchTyped ==
  /\ cache \in {"none", "short", "whole"}
  /\ fetch \in [Fetches -> {"idle", "waiting", "fetching", "returned", "failed"}]
  /\ thread \in [Fetches -> FetchPlaces]
  /\ loopLock \in [Processes -> Fetches \cup {Nobody}]
  /\ bookLock \in [Processes -> Fetches \cup {Nobody}]
  /\ hostLock \in Fetches \cup {Nobody}

UnderBook == {"book_recheck", "host_lock", "host_recheck", "transfer"}
UnderHost == {"host_recheck", "transfer"}

\* A lock is held by whoever stands inside it.
LocksMatch ==
  \A j \in Fetches :
    /\ bookLock[ProcessOf[j]] = j <=> thread[j] \in UnderBook
    /\ hostLock = j <=> thread[j] \in UnderHost
    /\ loopLock[ProcessOf[j]] = j <=> fetch[j] = "fetching"
    /\ fetch[j] = "waiting" => thread[j] = "none"

\* What a thread knows of the file: no transfer of a good one, and a good one
\* behind a good answer.
FileMatches ==
  \A j \in Fetches :
    /\ thread[j] = "transfer" => ~CachedOk
    /\ SizeKnown => (thread[j] = "ok" \/ fetch[j] = "returned" => cache = "whole")

FetchInv == FetchTyped /\ LocksMatch /\ FileMatches

LEMMA InitFetch == ASSUME FetchInit PROVE FetchInv
<1>1. FetchTyped
  BY DEF FetchInit, FetchTyped, FetchPlaces
<1>2. LocksMatch
  BY FetchAssumptions DEF FetchAssumptions, FetchInit, LocksMatch, UnderBook, UnderHost
<1>3. FileMatches
  BY DEF FetchInit, FileMatches
<1> QED BY <1>1, <1>2, <1>3 DEF FetchInv

\* Steps of the coroutine.
LEMMA CoroutineFetch ==
  ASSUME FetchInv, NEW j \in Fetches, Ask(j) \/ AcquireLoop(j) \/ RunOut(j)
  PROVE  FetchInv'
<1> USE FetchAssumptions DEF FetchAssumptions, FetchInv, FetchTyped
<1>1. CASE Ask(j)
  <2>1. FetchTyped'
    BY <1>1 DEF Ask
  <2>2. LocksMatch'
    BY <1>1 DEF Ask, LocksMatch
  <2>3. FileMatches'
    BY <1>1 DEF Ask, FileMatches, CachedOk
  <2> QED BY <2>1, <2>2, <2>3
<1>2. CASE AcquireLoop(j)
  <2>1. FetchTyped'
    BY <1>2 DEF AcquireLoop, FetchPlaces
  <2>2. LocksMatch'
    BY <1>2 DEF AcquireLoop, LocksMatch, UnderBook, UnderHost
  <2>3. FileMatches'
    BY <1>2 DEF AcquireLoop, FileMatches, CachedOk
  <2> QED BY <2>1, <2>2, <2>3
<1>3. CASE RunOut(j)
  <2>1. FetchTyped'
    BY <1>3 DEF RunOut, Leave
  <2>2. LocksMatch'
    BY <1>3 DEF RunOut, Leave, LocksMatch
  <2>3. FileMatches'
    BY <1>3 DEF RunOut, Leave, FileMatches, CachedOk
  <2> QED BY <2>1, <2>2, <2>3
<1> QED BY <1>1, <1>2, <1>3

\* Steps of the thread that leave the cache alone.
LEMMA LookingFetch ==
  ASSUME FetchInv, NEW j \in Fetches,
         FastPath(j) \/ AcquireBook(j) \/ RecheckBook(j) \/ AcquireHost(j) \/ Deliver(j)
  PROVE  FetchInv'
<1> USE FetchAssumptions DEF FetchAssumptions, FetchInv, FetchTyped
<1>1. CASE FastPath(j)
  <2>1. FetchTyped'
    BY <1>1 DEF FastPath, Step, Goto, FetchPlaces
  <2>2. LocksMatch'
    BY <1>1 DEF FastPath, Step, Goto, LocksMatch, UnderBook, UnderHost
  <2>3. FileMatches'
    BY <1>1 DEF FastPath, Step, Goto, FileMatches, CachedOk
  <2> QED BY <2>1, <2>2, <2>3
<1>2. CASE AcquireBook(j)
  <2>1. FetchTyped'
    BY <1>2 DEF AcquireBook, Step, Goto, FetchPlaces
  <2>2. LocksMatch'
    BY <1>2 DEF AcquireBook, Step, Goto, LocksMatch, UnderBook, UnderHost
  <2>3. FileMatches'
    BY <1>2 DEF AcquireBook, Step, Goto, FileMatches, CachedOk
  <2> QED BY <2>1, <2>2, <2>3
<1>3. CASE RecheckBook(j)
  <2>1. FetchTyped'
    BY <1>3 DEF RecheckBook, EndThread, LetGo, Step, Goto, FetchPlaces
  <2>2. LocksMatch'
    BY <1>3 DEF RecheckBook, EndThread, LetGo, Step, Goto,
                LocksMatch, UnderBook, UnderHost
  <2>3. FileMatches'
    BY <1>3 DEF RecheckBook, EndThread, LetGo, Step, Goto,
                FileMatches, CachedOk
  <2> QED BY <2>1, <2>2, <2>3
<1>4. CASE AcquireHost(j)
  <2>1. FetchTyped'
    BY <1>4 DEF AcquireHost, HostLockFree, EndThread, LetGo, Step,
                Goto, FetchPlaces
  <2>2. LocksMatch'
    BY <1>4 DEF AcquireHost, HostLockFree, EndThread, LetGo, Step,
                Goto, LocksMatch,
                UnderBook, UnderHost
  <2>3. FileMatches'
    BY <1>4 DEF AcquireHost, HostLockFree, EndThread, LetGo, Step,
                Goto, FileMatches, CachedOk
  <2> QED BY <2>1, <2>2, <2>3
<1>5. CASE Deliver(j)
  <2>1. FetchTyped'
    BY <1>5 DEF Deliver, Leave, FetchPlaces
  <2>2. LocksMatch'
    BY <1>5 DEF Deliver, Leave, LocksMatch, UnderBook, UnderHost
  <2>3. FileMatches'
    BY <1>5 DEF Deliver, Leave, FileMatches, CachedOk
  <2> QED BY <2>1, <2>2, <2>3
<1> QED BY <1>1, <1>2, <1>3, <1>4, <1>5

\* Only the holder of the host's lock writes the cache, and only a bad one.
LEMMA WritingFetch ==
  ASSUME FetchInv, NEW j \in Fetches, RecheckHost(j) \/ Transfer(j)
  PROVE  FetchInv'
<1> USE FetchAssumptions DEF FetchAssumptions, FetchInv, FetchTyped
<1>1. \A k \in Fetches \ {j} : thread[k] \notin UnderHost
  BY DEF LocksMatch, RecheckHost, Transfer, Step, UnderHost
<1>2. CASE RecheckHost(j)
  <2>1. FetchTyped'
    BY <1>2 DEF RecheckHost, AfterHostLock, EndThread, LetGo, Step,
                Goto, FetchPlaces
  <2>2. LocksMatch'
    BY <1>2 DEF RecheckHost, AfterHostLock, EndThread, LetGo, Step,
                Goto, LocksMatch,
                UnderBook, UnderHost
  <2>3. FileMatches'
    BY <1>1, <1>2 DEF RecheckHost, AfterHostLock, EndThread, LetGo,
                      Step, Goto, FileMatches,
                      CachedOk, UnderHost
  <2> QED BY <2>1, <2>2, <2>3
<1>3. CASE Transfer(j)
  <2>1. FetchTyped'
    BY <1>3 DEF Transfer, Acceptable, EndThread, LetGo, Step,
                Goto, FetchPlaces
  <2>2. LocksMatch'
    BY <1>3 DEF Transfer, Acceptable, EndThread, LetGo, Step,
                Goto, LocksMatch,
                UnderBook, UnderHost
  <2>3. FileMatches'
    BY <1>1, <1>3 DEF Transfer, Acceptable, EndThread, LetGo, Step,
                      Goto, FileMatches,
                      CachedOk, UnderHost
  <2> QED BY <2>1, <2>2, <2>3
<1> QED BY <1>2, <1>3

LEMMA KillFetch == ASSUME FetchInv, NEW p \in Processes, Kill(p) PROVE FetchInv'
<1> USE FetchAssumptions DEF FetchAssumptions, FetchInv, FetchTyped
<1>1. FetchTyped'
  BY DEF Kill, FreedByDeath, FetchPlaces
<1>2. LocksMatch'
  BY DEF Kill, FreedByDeath, LocksMatch, UnderBook, UnderHost
<1>3. FileMatches'
  BY DEF Kill, FileMatches, CachedOk
<1> QED BY <1>1, <1>2, <1>3

\* The locks of a fetch are where its threads are, and files are what their
\* readers take them for, in every behaviour.
THEOREM FetchInvariant == FetchSpec => []FetchInv
<1>1. ASSUME FetchInv, [FetchNext]_fetchVars PROVE FetchInv'
  <2>1. CASE UNCHANGED fetchVars
    BY <1>1, <2>1 DEF fetchVars, FetchInv, FetchTyped, LocksMatch, FileMatches, CachedOk
  <2>2. CASE FetchNext
    BY <1>1, <2>2, CoroutineFetch, LookingFetch, WritingFetch, KillFetch DEF FetchNext,
    Thread
  <2> QED BY <1>1, <2>1, <2>2
<1> QED BY InitFetch, <1>1, PTL DEF FetchSpec

\* The host pulls the book once at a time and never a good one (the lock on
\* source.pdf.lock and the look under it in ensure_book_pdf_sync).
THEOREM TransfersOnce == FetchSpec => []OneTransfer
<1>1. ASSUME FetchInv PROVE OneTransfer
  <2>1. FetchTypeOK
    BY <1>1 DEF FetchInv, FetchTyped, LocksMatch, FetchTypeOK, UnderBook
  <2>2. Transferring \subseteq {hostLock}
    BY <1>1 DEF FetchInv, LocksMatch, Transferring, UnderHost
  <2>3. Cardinality(Transferring) <= 1
    <3>1. IsFiniteSet({hostLock}) /\ Cardinality({hostLock}) = 1
      BY FS_Singleton
    <3>2. Cardinality(Transferring) <= Cardinality({hostLock})
      BY <2>2, <3>1, FS_Subset
    <3> QED BY <3>1, <3>2
  <2>4. Transferring # {} => ~CachedOk
    BY <1>1 DEF FetchInv, FileMatches, Transferring
  <2>5. Cardinality(Transferring) = Cardinality(Transferring)
    BY DEF Cardinality, Cardinality
  <2> QED BY <2>1, <2>3, <2>4, <2>5 DEF OneTransfer
<1> QED BY <1>1, FetchInvariant, PTL

\* A job whose fetch returned reads the whole book and goes on reading it.
THEOREM WholeFiles == FetchSpec => []ReturnedIsWhole
<1>1. FetchInv => ReturnedIsWhole
  BY DEF FetchInv, FileMatches, ReturnedIsWhole
<1> QED BY <1>1, FetchInvariant, PTL
=============================================================================
