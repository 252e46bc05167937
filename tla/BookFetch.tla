----------------------------- MODULE BookFetch -----------------------------
(***************************************************************************)
(* The fetch of one book's source.pdf by the worker processes of a host    *)
(* (services/book_fetch.py): a cache file guarded by three locks, each for *)
(* contenders that the one inside it cannot see.  A fetch is a coroutine   *)
(* that runs a thread; when its budget ends the coroutine fails and lets   *)
(* go of its lock, but the thread goes on.  Time is abstracted: a wait may *)
(* run out whenever it has to wait.                                        *)
(***************************************************************************)
EXTENDS Naturals, FiniteSets

CONSTANTS
  Processes,  \* worker processes of the host
  Fetches,    \* the fetches of the book, one of each job
  ProcessOf,  \* the process that runs the job of each
  SizeKnown,  \* the book row has file_size_bytes
  MaxTries,   \* bound: fetches of each job
  MaxDeaths,  \* bound: kills
  Nobody

ASSUME FetchAssumptions ==
  /\ ProcessOf \in [Fetches -> Processes] /\ SizeKnown \in BOOLEAN
  /\ MaxTries \in Nat /\ MaxDeaths \in Nat /\ Nobody \notin Fetches

VARIABLES
  cache,     \* source.pdf: "none", "short" (of another size) or "whole"
  fetch,     \* per job: where its coroutine is
  thread,    \* per job: where its thread is
  loopLock,  \* per process: the job that holds the asyncio.Lock
  bookLock,  \* per process: the job whose thread holds the threading.Lock
  hostLock,  \* the job whose thread holds the lock on source.pdf.lock
  tries, deaths  \* bounds

fetchVars == <<cache, fetch, thread, loopLock, bookLock, hostLock, tries, deaths>>

FetchInit ==
  /\ cache \in {"none", "short", "whole"}
  /\ fetch = [j \in Fetches |-> "idle"] /\ thread = [j \in Fetches |-> "none"]
  /\ loopLock = [p \in Processes |-> Nobody] /\ bookLock = [p \in Processes |-> Nobody]
  /\ hostLock = Nobody
  /\ tries = [j \in Fetches |-> 0] /\ deaths = 0

-----------------------------------------------------------------------------
(* The coroutine: ensure_book_pdf.                                         *)

\* A job fetches when it has no thread of an earlier attempt, whose own fetch
\* would be another thread of the same kind.
Ask(j) ==
  /\ fetch[j] \in {"idle", "failed"} /\ thread[j] = "none" /\ tries[j] < MaxTries
  /\ fetch' = [fetch EXCEPT ![j] = "waiting"] /\ tries' = [tries EXCEPT ![j] = @ + 1]
  /\ UNCHANGED <<cache, thread, loopLock, bookLock, hostLock, deaths>>

AcquireLoop(j) ==
  /\ fetch[j] = "waiting" /\ loopLock[ProcessOf[j]] = Nobody
  /\ loopLock' = [loopLock EXCEPT ![ProcessOf[j]] = j]
  /\ fetch' = [fetch EXCEPT ![j] = "fetching"] /\ thread' = [thread EXCEPT ![j] = "start"]
  /\ UNCHANGED <<cache, bookLock, hostLock, tries, deaths>>

\* The coroutine ends; it lets go of the asyncio.Lock if it had acquired it.
Leave(j, how) ==
  /\ fetch' = [fetch EXCEPT ![j] = how]
  /\ loopLock' = [loopLock EXCEPT ![ProcessOf[j]] = IF @ = j THEN Nobody ELSE @]

\* asyncio.timeout, or the job is cancelled: the thread cannot be.
RunOut(j) ==
  /\ fetch[j] \in {"waiting", "fetching"} /\ Leave(j, "failed")
  /\ UNCHANGED <<cache, thread, bookLock, hostLock, tries, deaths>>

\* The thread's result, for whoever still waits for it.
Deliver(j) ==
  /\ thread[j] \in {"ok", "error"} /\ thread' = [thread EXCEPT ![j] = "none"]
  /\ IF fetch[j] = "fetching" THEN Leave(j, IF thread[j] = "ok" THEN "returned" ELSE "failed")
     ELSE UNCHANGED <<fetch, loopLock>>
  /\ UNCHANGED <<cache, bookLock, hostLock, tries, deaths>>

-----------------------------------------------------------------------------
(* The thread: ensure_book_pdf_sync on a worker with a head.               *)

\* _cached_ok.
CachedOk == cache = "whole" \/ (cache = "short" /\ ~SizeKnown)

Goto(j, pc) == thread' = [thread EXCEPT ![j] = pc]
Step(j, pc) == thread[j] = pc /\ UNCHANGED <<fetch, loopLock, tries, deaths>>

FastPath(j) ==
  /\ Step(j, "start") /\ Goto(j, IF CachedOk THEN "ok" ELSE "book_lock")
  /\ UNCHANGED <<cache, bookLock, hostLock>>

\* _book_lock, or its budget.
AcquireBook(j) ==
  /\ Step(j, "book_lock") /\ UNCHANGED <<cache, hostLock>>
  /\ \/ /\ bookLock[ProcessOf[j]] = Nobody
        /\ bookLock' = [bookLock EXCEPT ![ProcessOf[j]] = j] /\ Goto(j, "book_recheck")
     \/ bookLock[ProcessOf[j]] # Nobody /\ Goto(j, "error") /\ UNCHANGED bookLock

\* Mutant of LetGo: the inner lock outlives an error under the outer one.
LetGoOfHost(j) ==
  /\ hostLock' = IF hostLock = j THEN Nobody ELSE hostLock
  /\ UNCHANGED bookLock

\* The context managers of the locks that the thread holds.
LetGo(j) ==
  /\ hostLock' = IF hostLock = j THEN Nobody ELSE hostLock
  /\ bookLock' = [bookLock EXCEPT ![ProcessOf[j]] = IF @ = j THEN Nobody ELSE @]

EndThread(j, how) == Goto(j, how) /\ LetGo(j)

RecheckBook(j) ==
  /\ Step(j, "book_recheck") /\ UNCHANGED cache
  /\ IF CachedOk THEN EndThread(j, "ok")
     ELSE Goto(j, "host_lock") /\ UNCHANGED <<bookLock, hostLock>>

\* Mutant of HostLockFree: a process that finds the lock file goes on.
HostLockIgnored == TRUE

\* _try_lock succeeds.
HostLockFree == hostLock = Nobody

\* _host_lock, or what its budget has left.
AcquireHost(j) ==
  /\ Step(j, "host_lock") /\ UNCHANGED cache
  /\ \/ HostLockFree /\ hostLock' = j /\ Goto(j, "host_recheck") /\ UNCHANGED bookLock
     \/ ~HostLockFree /\ EndThread(j, "error")

\* Mutant of AfterHostLock: a waiter never looks again.
AfterHostLockBlind(j) == Goto(j, "transfer") /\ UNCHANGED <<cache, bookLock, hostLock>>

\* The second look; a file of another size is dropped before the transfer.
AfterHostLock(j) ==
  IF CachedOk THEN EndThread(j, "ok") /\ UNCHANGED cache
  ELSE /\ cache' = "none" /\ Goto(j, "transfer") /\ UNCHANGED <<bookLock, hostLock>>

RecheckHost(j) == Step(j, "host_recheck") /\ AfterHostLock(j)

\* Mutant of Acceptable: whatever arrived is promoted.
AcceptableAnyhow(file) == TRUE

\* A short body is refused when the size is known.
Acceptable(file) == file = "whole" \/ ~SizeKnown

\* _fetch_to_temp into a name of its own and the atomic rename; or an error, a
\* refusal or the end of the budget, which drop the temporary file.
Transfer(j) ==
  /\ Step(j, "transfer")
  /\ \/ \E file \in {"short", "whole"} :
          IF Acceptable(file) THEN cache' = file /\ EndThread(j, "ok")
          ELSE UNCHANGED cache /\ EndThread(j, "error")
     \/ UNCHANGED cache /\ EndThread(j, "error")

-----------------------------------------------------------------------------
\* Mutant of FreedByDeath: the lock file itself is the lock.
FreedByNobody(p) == hostLock

\* The kernel drops a dead process's lock.
FreedByDeath(p) ==
  IF hostLock # Nobody /\ ProcessOf[hostLock] = p THEN Nobody ELSE hostLock

Kill(p) ==
  /\ deaths < MaxDeaths /\ deaths' = deaths + 1
  /\ fetch' = [j \in Fetches |-> IF ProcessOf[j] = p THEN "failed" ELSE fetch[j]]
  /\ thread' = [j \in Fetches |-> IF ProcessOf[j] = p THEN "none" ELSE thread[j]]
  /\ loopLock' = [loopLock EXCEPT ![p] = Nobody] /\ bookLock' = [bookLock EXCEPT ![p] = Nobody]
  /\ hostLock' = FreedByDeath(p)
  /\ UNCHANGED <<cache, tries>>

Thread(j) ==
  \/ FastPath(j) \/ AcquireBook(j) \/ RecheckBook(j) \/ AcquireHost(j)
  \/ RecheckHost(j) \/ Transfer(j) \/ Deliver(j)

FetchNext ==
  \/ \E j \in Fetches : Ask(j) \/ AcquireLoop(j) \/ RunOut(j) \/ Thread(j)
  \/ \E p \in Processes : Kill(p)

FetchSpec == FetchInit /\ [][FetchNext]_fetchVars

\* Threads go on, every transfer and every wait being bounded; so do the loops.
FairFetchSpec ==
  FetchSpec /\ \A j \in Fetches :
    WF_fetchVars(Thread(j)) /\ WF_fetchVars(AcquireLoop(j) \/ RunOut(j))

-----------------------------------------------------------------------------
(* Properties.                                                             *)

\* Besides the types: a thread or a coroutine holds exactly the lock
\* of the place it is at.
FetchTypeOK ==
  /\ cache \in {"none", "short", "whole"}
  /\ \A j \in Fetches :
       /\ fetch[j] \in {"idle", "waiting", "fetching", "returned", "failed"}
       /\ bookLock[ProcessOf[j]] = j <=>
            thread[j] \in {"book_recheck", "host_lock", "host_recheck", "transfer"}
       /\ loopLock[ProcessOf[j]] = j <=> fetch[j] = "fetching"

Transferring == {j \in Fetches : thread[j] = "transfer"}

\* The host pulls the book once at a time, whatever processes, abandoned threads
\* and kills there are, and no waiter that wakes up after the winner's promotion
\* opens a connection (and every lock is held by whoever stands inside it).
OneTransfer ==
  FetchTypeOK /\ Cardinality(Transferring) <= 1 /\ (Transferring # {} => ~CachedOk)

\* A job whose fetch returned reads the whole book, and goes on reading it: a
\* truncated download or cache is never handed out, and nobody drops the file.
ReturnedIsWhole ==
  SizeKnown => \A j \in Fetches : fetch[j] = "returned" => cache = "whole"

\* No lock is held for ever: a wedged, abandoned or killed holder does not
\* strand the book.
LocksComeFree ==
  /\ hostLock # Nobody ~> hostLock = Nobody
  /\ \A p \in Processes : bookLock[p] # Nobody ~> bookLock[p] = Nobody
  /\ \A p \in Processes : loopLock[p] # Nobody ~> loopLock[p] = Nobody
=============================================================================
