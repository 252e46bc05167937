# Homework content generation: a TLA+ model of the fleet

The program generates homework from textbook sections. A head process serves an
HTTP API and a fleet of worker processes on many hosts takes jobs from a Postgres
table, runs each through a sequence of phases (calls of language models), and
writes the results back. Nothing but the database connects the processes: they
claim, renew, lose, reclaim, cancel and retry jobs by writing rows, and the
difficult part of the program is what happens when these writes interleave,
arrive late, or are cut short by a crash. This project models that part.

Paths below are relative to `src/app/` unless they say otherwise.

## 1. The system

### Components, their state and their operations

| component | state | operations | source |
|---|---|---|---|
| job queue and leases | `homework_jobs` (status, claim_token, claimed_by, attempts, reclaims, current_phase), `job_lease_events` | claim, fenced status writes, release on done or failure, requeue with and without refund, reclaim of stale and of hanging jobs, end of stale cancels, failure of exhausted jobs, cancel, retry | `repositories/jobs.py`, `repositories/lease_events.py`, `services/lease.py` |
| phase rows | `phase_outputs` (status, claim_token, output) | create or reset under the job's lease, fenced status writes, reset of abandoned rows | `repositories/phase_outputs.py` |
| pipeline | in memory: pending phases, tasks in flight, outputs so far | resume from done phases, start what is ready, take up results and errors, done write | `services/pipeline.py`, `services/flows.py` |
| worker | `RUNNING_JOBS`, slots, leases | main loop, execution with all its handlers, heartbeat of a lease, sweep, drain, shutdown | `services/worker.py` |
| job endpoints | none | generate, cancel, retry (download and events are not modelled) | `api/v1/jobs.py` |
| worker registry | `workers` (status, last_heartbeat) | beat, drain, undrain, mark offline, prune, deregister | `repositories/workers.py`, `api/v1/workers.py` |
| host key | `sa_key_assignments`; active.json, .env and os.environ of a host; an advisory lock | assign, unassign, scrub; live apply; scrub when idle | `repositories/sa_keys.py`, `services/sa_key_apply.py`, `api/v1/sa_keys.py` |
| batches | `batches` (paused, reason, provenance of a cap pause) | pause, cap pause, unpause; launch, cancel and resume of a whole batch | `repositories/batches.py`, `api/v1/batch.py` |
| budget | `budget_state`, the spend ledger | fleet pause, and who may lift a cap pause | `repositories/budget.py`, `services/worker.py` (`_budget_monitor`) |
| credential slots | `credential_slots`, a limit cache and a semaphore per process | resolve, claim, wait, release, stale takeover, sweep | `services/credential_limiter.py`, `services/agent.py` |
| generation of a phase | local variables of `_execute_phase` | provider chain, retries, judge and regeneration, solver and repair, done or failed write | `services/pipeline.py`, `services/phase_judge.py`, `services/solver.py`, `services/failure_classifier.py`, `services/errors.py` |
| model calls | per process: a semaphore, child processes, files of attachments and last messages; `agent_usages` | phase call, extraction and check of contents, extract with verification, regeneration and coverage; call, retry, cancel, kill | `services/agent.py`, `services/providers/`, `services/api_transport.py`, `services/proc_tree.py`, `services/pipeline.py` |
| planning of campaigns | none but the rows it inserts; what its scans read of Notion | check of the destinations, draft (plan of phases, contract, sources, digest of what was shown), first launch | `services/regeneration_planner.py`, `services/regeneration_discovery.py`, `services/regeneration_executability.py`, `services/regeneration_destination.py`, `repositories/regeneration_sources.py`, `schemas/regeneration_contract.py`, `api/v1/regeneration.py` |
| regeneration campaigns | campaign and target rows, a revision job per target | create, launch, approve, reject, cancel, abandon, retry, carry the end of a job | `services/regeneration_campaign.py`, `services/regeneration_states.py`, `services/regeneration_job_state.py`, `services/worker.py` |
| publisher | claim token, attempts, version and page of a target; pages of an external service | claim, reserve a version, find or create the page, clear, fill, stamp, resolve | `services/regeneration_publisher.py`, `repositories/regeneration_targets.py`, `services/notion_versioned_homework.py` |
| book fetch | cached PDFs; an asyncio lock, a thread lock and a lock file | de-duplicated download | `services/book_fetch.py` |
| library | `books` (status), `toc_entries`, the PDF of the head; an advisory lock per book and per section | upload, extraction and its retry, review, deletion of sections and of the book | `api/v1/books.py`, `services/toc_extractor.py`, `repositories/books.py` |
| key vault | `sa_keys`, key files and their quarantine copies | upload, delete, reconciliation of a starting head | `services/sa_key_vault.py`, `api/v1/sa_keys.py`, `main.py` |
| event bus | subscribers' queues, a LISTEN connection | publish, subscribe, close, reconnect (not modelled) | `services/events_bus.py` |
| prompts, rendering, console, migrations, scripts | none shared, or files of one host | not modelled, see section 6 | |

### How they interact

A claim is one `UPDATE ... WHERE id = (SELECT ... FOR UPDATE SKIP LOCKED)` that
mints a fresh `claim_token`, the *fence*. The execution carries it through the
pipeline; most of its writes name it and find no row once the lease is lost. The
heartbeat task of the same execution renews the lease and cancels the task when
the lease is gone. Every worker also runs the sweep, which takes jobs back from
owners that look dead, from owners that look alive but have exceeded the longest
run a job may have, and from cancels that nobody finished. Whether an owner looks
alive is read from the registry, which the worker's own registry beat keeps fresh.
The operator's cancel writes a status that the execution notices at its next beat
or write; the retry puts a failed or cancelled job back. The worker's main loop
applies the host's service-account key between claims; a claim takes the host's
advisory lock shared, a scrub and the endpoints take it exclusively.

Inside an execution each phase is generated, judged, solved and written; an API
call of it runs under a permit of its process, and takes a credential slot first, and the book it reads is fetched once for
the host. The claim is gated by the pauses of the batch and of the fleet, which the
budget monitor of every worker sets and lifts. A regeneration campaign creates a
target and a revision job per lesson; the queue runs the job like any other, workers
and the sweep carry its end onto the target, an operator approves, and a publisher
delivers the target to Notion. Before that, the campaign is planned: the operator has the
destinations in Notion checked, sends a draft with the digest of what was shown, and launches
what was made of it; each of these requests reads the lessons, the workers and Notion anew.

Jobs come from the library: the head reads the table of contents of an uploaded book in
a task of its own, and requests for a lesson or for the whole book create jobs under the
locks of the book and of the section, beside deletes of both. The keys that hosts are
assigned live in a vault directory of the head, one file per row of `sa_keys`.

### What is hard

* Two executions of the same job run at once, as long as the older one has not
  noticed that its lease is lost, possibly in the same process.
* Every transaction of an execution can be the last one: the process crashes, the
  database is out of reach, the task is cancelled, the job times out.
* Several writes are read-then-write over two statements or two transactions:
  retry, the finalizing write of a cancel, the registry beat, the key apply.
* The counters `attempts` and `reclaims` are incremented, refunded and reset by
  different actors, and decide whether a job is ever claimed again.
* The credential files belong to the host, the idle test to a process.
* A regeneration or a repair replaces the artifact while verdicts, producer and JSON
  column of the old one are still in local variables.
* A model call can be cancelled while it waits for a permit, in its child process, between
  two tries and while its answer is booked, by a deadline of whoever asked.
* Caps differ from host to host, and a pause that one host decided may be met, kept,
  overwritten or lifted by another.
* A job and its target are two rows of different writers; an operator's request runs
  over several transactions and may stop after each.
* A campaign is planned over several requests, each of several transactions with scans of
  Notion between them that hold no lock; lessons, pages, keys and other campaigns move
  meanwhile, and what was frozen is used weeks later.
* A page is written in several remote calls, any of which may be lost, take effect
  without an answer, or outlive the lease.
* A thread cannot be cancelled: it goes on downloading when its coroutine has failed.
* A key is a row and a file, and no transaction covers both: the head may die between the
  two, and the outcome of a commit may stay unknown.
* A request decides from what it read; the job it put back or the book it is about to
  delete may have changed by the time it commits.

### What makes each component correct

Queue, pipeline, worker: a done job is complete; a lost lease writes nothing; a
lease is settled once; terminal states and finished phases persist; dependencies
come first; counters neither wedge a job nor let it cycle for ever; no job is stuck.
Registry: who left is gone, who works is listed, who must drain drains. Host key: no
scrub under a job, no claim under a scrub, a revoked key disappears, an assigned one
arrives. Slots: an admitted call is counted until it is over, no claim exceeds its
limit, a lowered limit takes hold. Phase: what ships is one artifact, judged and
solved as its row says; validation takes no job down. Model calls: permit, process and
files end with the call, every answer is given to the ledger, which is best-effort, an extract
passes its gate however often it was made, every ask ends. Caps: the strictest host wins,
and a gate that a cap closed opens again. Regeneration: nothing is released that was
not approved and produced, a status tells the truth, a stop converges, a target lives
the life the state machine allows. Planning: what a campaign freezes serves as long as its
rows live, from its payment on also as the newest of its lesson, and nothing is paid for but what
was shown and can be run. Publisher: one page, written once, found again
after any crash. Books: one transfer, whole files, locks that come free. Library: one job per
lesson whatever is clicked, no book deleted under a job, no ingestion left to nobody unless
the database was out of reach when it was to end.
Vault: no key is lost, a key in use has its file, the head comes up again.

## 2. Modules

| module | what it is |
|---|---|
| `JobLease` | queue, phase rows, pipeline, worker execution, sweep, cancel and retry |
| `MCJobLease` | small phase sequences and the symmetry for TLC |
| `JobLeaseProofs` | type correctness step by step, then the inductive invariant of a done job, and its theorems |
| `JobLeaseFence` | the ledger, the fence, pending jobs and done phases, proved from that invariant |
| `WorkerRegistry` | the `workers` table, beats, drain, shutdown and restart, the peers' sweep |
| `KeyVault` | the keys of the head: rows, files and quarantine |
| `FleetProofs` | theorems about `KeyVault` and `WorkerRegistry` |
| `HostKey` | assignment, files, environments and the host lock |
| `CredentialSlots` (`MC...`) | the ceiling on concurrent API calls of one credential |
| `CostCaps` (`MC...`) | the two spending gates, the monitors, operators and claims |
| `HostProofs` | theorems about `CredentialSlots`, `CostCaps` and `HostKey` |
| `PhaseRun` | one phase from its row to its done write |
| `AgentCall` | the model calls of a process: what is read, asked, retried, killed, believed and booked |
| `Generation` (`MC...`) | `PhaseRun` and `AgentCall` side by side, for any constants |
| `GenerationProofs` | theorems about `Generation` |
| `TargetLife` | the abstract life of regeneration targets: status edges, one live target per lineage, versions used once |
| `Campaign` | a campaign, its targets and jobs; implements `TargetLife` |
| `PhasePlan` | which phases a revision regenerates and copies; when phase rows are a whole snapshot |
| `Executability` | the launch contract, the check of the workers' keys, and the gate of the claim query |
| `Destination` | the scan that decides where in Notion a revision goes |
| `Planning` | the requests that check, draft and launch campaigns, built from these three |
| `Regeneration` (`MC...`) | `Planning` and `Campaign` side by side, for any constants |
| `CampaignProofs` | theorems about `Campaign`, the refinement among them, and about `Planning` |
| `Publication` (`MC...`) | the delivery of targets to pages; implements `TargetLife` |
| `RegenerationProofs` | theorems about `Publication`, the refinement among them, and about `TargetLife` |
| `BookFetch` (`MC...`) | the fetch of one book by the processes of a host |
| `Library` (`MC...`) | one book: ingestion, its jobs, deletion |
| `LibraryProofs` | theorems about `Library` and `BookFetch` |

Components whose theorems share a module have specifications with names of their own:
`ListSpec` (`WorkerRegistry`), `KeySpec` (`HostKey`), `GateSpec` (`CostCaps`), `FetchSpec`
(`BookFetch`), `GenSpec` (`Generation`), `PlanSpec` (`Planning`) and `RegSpec`
(`Regeneration`; `RegFairSpec` with the fairness of `Campaign`).

`TargetLife` is refined twice: `Campaign` moves targets up to their release and takes
the publisher as one step per edge, `Publication` takes the way to release as one step
per edge and details the delivery. Each names the substitution as `Life == INSTANCE
TargetLife WITH ...`; `LifeSpec == Life!Spec` is a property of its run and a theorem.

A definition named as the mutant of another (`HoldsStatus` of `Holds`, for example)
is not part of the specification. It is the same operation with a plausible mistake;
with it in place the property it belongs to fails, which shows that the property
depends on that piece of the code.

### JobLease and the code

A token names one execution, because every claim mints one: tokens are the numbers
1, 2, ... and 0 is NULL, and `exec[t]` is the execution that got token `t`.

| state | code |
|---|---|
| `job[j]` | the `homework_jobs` row; `phase` is `current_phase IS NOT NULL`; `owner` stands for claimed_by and claimed_at, always written together |
| `phase[j][p]` | the `phase_outputs` row: status and claim_token |
| `ledger[t]` | the events logged for a token |
| `exec[t]` | where the execution stands (`pc`), the scheduler's pending set (`left`), tasks in flight (`busy`), outputs (`seen`) and failed tasks not yet taken up (`errs`), and whether its heartbeat lives |
| `running[w][j]` | `RUNNING_JOBS` of a process, keyed by the job as in the code |
| `alive`, `fresh` | the process is up; its registry row is within the liveness window |
| `retries` | retry requests between their read and their write, with the row they read |

An action is one transaction, or one step of an event loop between two. `StartRun`,
`StartPhase`, `FinishPhase`, `FailJob`, `CompleteJob` and `Crash` are the fenced
writes of the pipeline; each includes the miss, where the lease is lost or a cancel
has won (`MissedWrite`). `PhaseError` and `Unwind` are the two halves of a failed
phase: its own task, then the scheduler that cancels the siblings and resets their
rows. `MarkFailedWithRetry` and `RequeueRefunded` are what the worker writes after
the pipeline raised. `Heartbeat`, `StopScheduler`, `ReadCancelling`, `MarkCancelled`
and `Die` are a cancelled task on its way out, one await at a time. `Sweep` is the
single transaction of the queue's part of `_sweep_stuck_jobs`: the three updates in
their order. `RetryRead` and `RetryWrite` are the two statements of the retry
endpoint; the ORM writes only the columns that differ from the row it read.

Abstracted: time. A host can be suspended and an event loop blocked, so any deadline
may be found passed in any state, and the age tests of the sweep are
nondeterministic. What a phase produces is an outcome of `PhaseError` or
`FinishPhase`. One advisory write is left out: the pipeline's coverage warning
(`services/pipeline.py:613-624`) rewrites the extract row without a token, with the
status it read. Which pending job a claim takes (priorities, lanes, capabilities,
pauses) is left open, so every job may be taken next.

### WorkerRegistry and the code

`listed` is the table, `mode` the life of a process, `beat` a beat between its read and
its upsert, `tasks` and `owns` the two views of a job in progress (the process has a
task; the database has a claim). The order to stop may come while the loop is claiming; that
job is its last (`LastClaim`). Ages are three values: within the liveness window,
past the offline horizon, past the delete horizon. A restarted container has the same
host name and pid, so `Restart` keeps the pc_id.

### HostKey and the code

`file`, `dotenv` and `env` are the three places of a key, `applied` the sha a process
remembers, `assigned` the row, `claimed` whether a process has a job. A process is a program counter over the statements of
`_sync_sa_key`, `_scrub_if_idle` and `_claim_one`. The lock is not a variable: who
holds it follows from the program counters. A crash may fall between the two file
writes, and the restarted process reads its environment from the .env file.

### CredentialSlots and the code

`rows` is the table by slot_index, `cache` the limit cache of a process, `call` the
place of each call in `acquire`, in its provider call or in its `finally`. The claim is
one SQL statement and two steps, because its snapshot and its INSERT may see different
rows. The id of a row is modelled by who can name it: the call that was given it, or a
release task that outlived a cancelled call (`detached`). A row ages only when nobody
is in its provider call (`RowAges`): `STALE_TTL` is twice the attempt timeout, which is to bound
the call. Retries inside a provider's SDK that outlast it would break this supposition.

### PhaseRun and the code

An artifact is a number, the generation that made it: `doc` is what the local variables
hold (whose text, whose JSON, which producer), `row` what was written, `review` the
counters and verdicts. Every provider call ends with an artifact or one of ten failures,
which stand for the classes that `failure_classifier.py` and `errors.py` tell apart and
the messages that fall between them. `made` and `answers` are kept for the properties.
Which model reviews, prompts and lint are left out.

### AgentCall and the code

`call[c]` is what an ask awaits: its stage (which call of which function), its round, its
tries, what it has got and whether an accepted extract is held (`kept`); `line` and `free`
are the semaphore, `child` the processes, `scratch` the last-message files. `Route`,
`TocWindow` and `SectionWindow` compute what of the book is read or attached. A provider's
reply is one of seven kinds, and each provider has its own function from the reply to what
the caller takes it for (`ClaudeReads`, ..., `ClodexApi`), because the envelopes differ. A
call settles in one step: its row, or a write of the row that fails and is swallowed
(`Booked`: `_record_usage` is best-effort, `services/agent.py:796-830`), then what the ask does
next (`After`). `Cancel` is a
deadline or a cancel of whoever asked and may fall on any await.

### CostCaps and the code

A monitor's check is one READ COMMITTED transaction of several statements: `tx` is what
it has written and not committed, which also locks the row. A pause carries its
provenance (cap and host), from which `Entitled` decides who may lift it. `spend` grows
with running jobs and shrinks when the 24-hour window moves on. A claim reads the fleet
gate and then picks a job, in two steps. `late` counts claims for `OneLateClaim`.

### Campaign and the code

Rows of campaign, targets and jobs; a request of an operator is a `clerk` with what is
left of it, one transaction per step, and may die after each. `Carry` is the
reconciliation of a job's end by the worker that ended it (which may use the status it
read before) or by the sweep. `Derived` is `derive_campaign_status`, `Desired` the status
a job's end means for its target. `hollow` is a job done without a usable snapshot.

### Planning and the code

`lessons[l]` is what the database and Notion have of a lesson: its ordinary jobs, the phase
rows of the source (`shots`), the remembered pages (`place.mark`) and the pages that are there
(`place.pages`). `fleet` is the workers with their keys, the budget pause and the settings;
`drafts` and `rows` are the campaigns and their targets; `desks[k]` is a request with what it
has read so far. `shown` and `receipt` of a draft are kept for the properties.

| actions | code |
|---|---|
| `Check`, `Show` | `POST /destinations`: the sources in one transaction, then the scan |
| `Prepare`, `Prove` | `POST /campaigns`: `prepare_campaign`, the scan |
| `Relist`, `Unclaimed`, `Clear`, `Insert` | `insert_prepared_campaign`, one read after the other: the sources, the live rows, the versions and workers, then the write |
| `Reload`, `Reprove`, `Pay` | `POST /campaigns/{id}/canary`: `_launch_canary_reviewed` up to the first paid jobs |
| `Leave` | a refusal, a failure of Notion or a crash at any of these points |
| `Accept`, `Close`, `Reserve`, `Conclude` | what `Campaign` and `Publication` do to the rows, as far as versions and ends go |
| `Renew`, `Disturb`, `Refit` | a further ordinary job, changed phase rows or pages, workers and settings |

The algorithms are operators: `Plan` and `Readable` (`build_phase_plan`, `from_json`),
`ResolvedContract` and `CanExecute` against `ClaimGate` (the Python check and the SQL gate),
`Destined` (`_scan_destinations`). Lists in canonical order are sets.

Abstracted: one flow of phases for all subjects; a tree of pages per lesson, so that two
lessons never share one; titles match or do not; requests, and campaigns that are not made yet,
are interchangeable, so that the next unused one is taken (`Spare`, `Fresh`).
Transactions run under READ COMMITTED, each statement with its own snapshot. Those of
`insert_prepared_campaign` are therefore steps of their own, and at its write nothing is enforced
but the partial unique index on live rows. `Check`, `Prepare` and `Reload` stay one step each,
with the few statements of their lists of sources: later transactions read the same facts again,
and nothing relies on what these reads say together. The first transaction of a launch is merged
with the reload for that reason. The last one, `Pay`, locks campaign and rows and is one step.
Left out: the estimate, the session-limit
strategy, the choice of canaries (`Campaign` has it), the purge of sources (the delete routes
refuse a lesson with a regeneration history), and the launch of campaigns without a version
(`services/regeneration_campaign.py:1564`), which the API cannot create.

### Publication and the code

`row` has the columns of a target, `pages` what Notion has under the lesson, with their
marker, version, number of copies of the content and stamp; a page of a person has no
marker. Each database transaction and each remote call of `RegenerationPublisher` is a
step; a remote call fails with or without its effect, a process dies between any two,
and a lease may end while its publisher goes on (`overrun`).

### BookFetch and the code

`fetch` is the coroutine `ensure_book_pdf` of each job, `thread` its thread `ensure_book_pdf_sync`,
with the asyncio lock, the threading lock and the lock file each a variable. `RunOut` is
the coroutine's timeout, which leaves the thread behind; `Kill` takes a process with all
its locks and leaves the file as it is, because a transfer writes to a part file that is
promoted by a rename.

### KeyVault and the code

`row` is what exists of a row in its table, `blob` its digest, `canonical` the keys with a
file, `quarantined` how many copies a delete has set aside, `linked` the moment of a restore
in which both names are one file. A request is the program counter of an upload, a delete
or an assignment; which row it locks follows from it (`Locked`, `Shared`). A commit whose
answer is lost leaves a transaction in `doubt` that takes effect later or never
(`SettleOne`). The head is down, reconciling or up: `Start` reads the rows, `Reconcile`
settles one quarantine after the other, `Verify` lets the head come up or finds it
`Blocked`. Faults of the file system fail the operation they meet, before its effect or
after.

### Library and the code

`status`, `pdf`, `entries` are the book, its file and its rows of `toc_entries`; a section
is named by the extraction that wrote it. `req[r]` is a request between its reads and its
commit, with the lessons still to look at, the section locks held and what it has decided;
the lock of the book is no variable, it follows from the program counters (`Sharing`,
`Deleting`). `task[n]` is a run of the extractor, which takes no lock of the book and
whose delete of rows waits, or makes others wait, for a commit (`Replaced`). A foreign key
that forbids an insert rolls a request back (`Commit`) or fails an extraction
(`TaskDelete`). `TaskBreaks` is any transaction of the extractor that is rolled back, and an
agent that fails; then `TaskFail` writes `failed`, in a transaction that nothing catches, so that
it may fail as well (`services/toc_extractor.py:222-229`). `stranded` remembers that the one who
was to end an ingestion could not write: the upload its file or the commit after it, the retry its
answer, the extractor its `failed`. Workers and cancels move jobs along the edges of `JobLease`.

Left out: a final transaction of the extractor that commits although its answer is lost, upon
which the `except` block writes `failed` over the new sections. It ends the ingestion like any
other failure, and the retry of the extraction starts from it.

## 3. Runs

| run | instance | distinct states | what it shows |
|---|---|---|---|
| `fencing` | 2 workers, 1 job, 3 phases in a chain, 2 claims | 999 000 | nothing an execution does after it lost its lease changes a row that is not its own; terminal states and done phases stay; the inductive invariant of the proof (completeness and types among it) |
| `retry` | 1 process with 2 slots, 1 phase, 2 claims, 1 attempt, 1 refund, 1 operator | 385 000 | with old and new execution in one process and a retry that is not atomic: a lease is settled once; a pending job can be claimed afresh; no job stays running or cancelling |
| `registry` | 2 workers | 40 000 | a worker that left is not listed, one at work is; a live worker returns to online; an order to drain that stays in its row is obeyed |
| `hostkey` | 2 processes, 2 keys, 1 crash | 30 000 | scrubs and jobs exclude each other, a revoked key leaves, an assigned key arrives |
| `ceiling` | 3 calls of a process with 2 permits, limits 1 and 2 | 174 000 | an admitted call is counted; a lowered limit takes hold |
| `content` | phases: 6 plans, 3 providers, 1 regeneration, 1 repair, 2 executions; calls: 2 asks, 1 permit, 6 kinds of ask, 7 books, 1 retry | 333 000 | one whole artifact ships, reviewed as its row says; providers do not mix; checks do no harm; nothing outlives its call; every answer is given to the ledger; every execution and every ask ends |
| `gates` | 2 hosts, caps 1 and 2 dollars or none, 3 dollars spent, 1 operator action | 813 000 | one late claim at most; the strictest cap wins; gates open again |
| `delivery` | 2 publishers, 2 targets of one lineage, 2 attempts, 2 faults | 452 000 | the published page is the target's own, complete and written once; lost claims and foreign pages are left alone; the rows implement `TargetLife`; a delivery ends |
| `campaign` | campaigns: 3 lessons, 2 canaries, 3 requests, 2 executions; planning: 1 lesson, 2 requests at a time, 2 drafts, 4 events, 3 moves | 287 000 | release is earned, the status is honest, the rows implement `TargetLife`, a stop converges, ends of jobs are carried over; what a draft freezes serves, what is paid for was shown and is of the newest version |
| `fetch` | 2 processes, 3 jobs, 2 tries each, 1 kill | 114 000 | one transfer, whole files, locks come free |
| `vault` | 2 requests, 2 contents, 3 keys, 2 crashes, 2 faults | 1 840 000 | the bytes of a listed key survive; an assigned key is served; the head comes up but for what it must leave to the operator |
| `shelf` | 2 requests, 1 lesson, 2 extractions, 2 jobs, 1 restart | 2 100 000 | clicks that overlap make one job; a book is deleted at rest; a book in ingestion is attended, or its end could not be written |

**Bounds and why they are enough.** Jobs do not interact except through a worker's
slots and the sweep, whose updates are row by row; one job with several executions is
where the races are. Two claims give an old and a new execution, which is what every
race over a lease needs; a third would race with one of them in the same way. One attempt and one refund
bring the counters to their limits within two claims. Two phases give one done and one unfinished, three a chain. The
registry's rows depend on each other through the sweep only, so two workers show every
effect of one on another. In `HostKey` two processes and two keys are what it takes for
a stale apply. In `ceiling` two permits let two calls race while a third waits in its
process; limits 1 and 2 are a ceiling that is met and one that is lowered. In `content` each
plan differs from a plain one in a few respects, one regeneration and one repair are
enough for each to be followed by a recheck, and two executions for a row that an earlier one
left. Its initial state chooses between a phase and the calls of a process, which share no
state; two asks and one permit are every pair that can wait for each other. `gates` needs a strict and a loose host, and a dollar more than the loose one allows. `delivery` has two targets of one
lineage, so that versions can collide, and two faults, so that a retry can fail as well.
`campaign` has a wave before the approval and one after it, and two canaries so that one
can fail alone. Its initial state chooses between the life of a campaign and the planning of
campaigns, which share no state. The planning has two requests and two drafts, which is every
pair that competes for a lesson or a version; two offers, of which one is a version later and
names its page; five places that a page may be found in; and four events, which count the
requests and the moves of the surroundings, with moves among the first three only (`MaxMoves`):
a draft that is inserted around the publication of another, and its launch after that; a check, a
draft and its launch with a move between two of them. The insertion itself is no event: it may
stop between any two of its reads while the events of another request go on. `fetch` has two jobs in one process and one in the other, one pair for
each lock. `vault` has two requests that may meet on one key, bytes that both bring and
bytes of another key, a second crash in the start after the first, and a fault on top of
another. `shelf` has one lesson, which two extractions write twice, and two jobs, so that a
second one can be born beside the first; two requests are every pair of a read and a commit. `Max...` constants named as bounds in the modules are bounds of the model;
the others are settings of the code. Every run checks deadlock but those of `PhaseRun`, `AgentCall`,
`Publication`, `Campaign`, `BookFetch`, `KeyVault` and `Library`, whose systems come to an
end: the phase is over, everything is delivered, the campaign is terminal, the book is
there, the vault is at rest or blocked with its crashes used up, the library is at rest.

`NothingIsUndone` is checked without the retry endpoint: it promises something only until
an operator retries, who reopens the job and lets a phase be generated again.
`PendingIsClaimable` is checked with one operator: two retries that overlap can leave the
token of a claim on a pending row (`api/v1/jobs.py:421`, `448`), see section 4. The theorem about
it has no such bound and names that write as the only exception, see section 5.

**Fairness.** `JobLease`: every execution keeps taking steps while it can (the event
loop runs it and `wait_for` bounds it), a supervisor restarts a dead worker, and a
sweep that comes round for ever finds the deadline of a given job passed (strong
fairness, as a fresh registry row may spare the job now and then; the forced reclaim
does not look at the registry). The finalizing write of a cancel is a step of the
execution, no assumption is made about operators or claims. `WorkerRegistry`: the
heartbeat task and the main loop come round, jobs end at their timeout, and of
infinitely many upserts one gets through. `HostKey`: transactions end, the lock is
granted in the end (Postgres queues the waiters), jobs end. `AssignedKeyArrives` has
a hypothesis more, `IdleSyncs`, which the code does not guarantee: the key swap waits
for a sync at which the process is idle, and a process whose queue never runs dry
claims right after a slot became free, with the sync before that wait
(`services/worker.py:602-612`). Under full load a new key may thus wait for ever, so
the property supposes an idle sync now and then, and that a repeated pull succeeds.

`CredentialSlots`: event loops run, rows of nobody age, cache entries expire; nothing is
assumed of callers or operators. `PhaseRun`: every call ends, by an answer, an error or
its timeout. `AgentCall`: the event loop runs what is ready, the semaphore is first in, first
out, and a call that runs returns or is ended by a deadline. The code has such a deadline for
every ask but the extraction of contents and their check, whose CLI is supposed to end.
`CostCaps`: the idle loop calls the monitor again and again. `GatesReopen`
supposes that every host is within its cap from some time on and keeps one cap, because
a host without caps leaves its check at once. `Publication`: publishers go on and claim
what is claimable (faults are bounded events). `Campaign`: jobs, publishers and the sweep
go on; a clerk need not finish its request nor a worker survive to carry an end over, so
`TargetsFollow` rests on the sweep alone. `BookFetch`: threads go on,
as every transfer and every wait is bounded. `KeyVault`: a head that is down is started,
its reconciliation goes on, and a commit in doubt is decided in the end; nothing is
assumed of requests. `Library` assumes none: its properties are safety properties,
`IngestionAttended` among them, which names who will end an ingestion: a request, a task, or
the next retry or start if the database was out of reach.

## 4. Observations

Seen while modelling. Each is in the model as the code has it unless a line says that it
was only read.

*Queue, worker, registry, key*

* A retry checks the status it has read and writes without a condition; of two retries
  the second resets a running job (`api/v1/jobs.py:390`, `421`, `448`; the docstring at
  369-370 says others are refused).
* `services/worker.py:879-881` says that every worker-owned write is fenced, but
  `mark_cancelled` (`services/worker.py:941`, `repositories/jobs.py:1650-1671`) names the job
  id only and may land on a job that another execution owns by then.
* The heartbeat of an old lease cancels whatever `RUNNING_JOBS` names, also the new
  execution in the same process (`services/worker.py:863-865`; compare 902-904).
* An order to drain that falls between the read at `services/worker.py:1338` and the upsert
  at 1346 is overwritten (compare 1373-1375).
* The idle test of a key swap sees one process, the file is the host's
  (`services/worker.py:1525`, `1531`; compare 1484-1486).
* `models/homework_job.py:142-144` says that `reclaims` is reset once a claim executes; the
  requeues for a session limit and for a saturated slot (`repositories/jobs.py:1455-1464`,
  `1521-1587`) keep it.
* `repositories/jobs.py:1261` says that a terminal job has terminal rows; the sweep of
  stale cancels (`repositories/jobs.py:1807-1826`) leaves running ones.

*Credential slots*

* After a ceiling was lowered, claims that resolved the old limit still use it, and two
  claims that race may together exceed the new one for a while
  (`services/credential_limiter.py:131-136`); `LimitTakesHold` says that this ends.
* The first cancellation that arrives while a slot is being released is swallowed
  (`services/agent.py:632-635`); the call keeps the outcome it had.

*Generation of a phase*

* An error is requeued by its words (`services/errors.py:87-91`, `services/pipeline.py:1785-1793`):
  a persistent solver mismatch whose quoted text contains 503, 429 or a timeout puts the
  job back instead of failing it.
* After a failover the judge may grade a text of its own model
  (`services/model_tiers.py:62-66`); only read.
* The judge's second try leaves out `contract_override`; only read.
* `services/pipeline.py:1942-1943` says of the repair of an extract that any problem keeps the
  original; the second summary at 1957 is not guarded, so its failure loses an accepted extract.
* `services/agent.py:10` promises a usage row per call, and 2633 one also on failure; an
  extract whose call raises or is cancelled leaves none (2651, 2664), nor does any cancelled
  call. And the row itself is written at best: a write that fails is logged and swallowed
  (796-797, 829-830), the ask goes on and its spend is seen by no cap. `EveryCallIsBooked` says
  that these are the only ways to lose a row (`owed = "lost"`).
* The last-message file of a CLI call that is cancelled while it waits for its permit stays in
  the temp directory (`services/agent.py:641-666`; `scratch`).
* With an even `extract_window_max_pages`, a section of exactly that many pages loses its last
  one (`services/agent.py:2262-2264`), although the comment at 2260-2262 speaks of a lesson that
  spans more than the cap; `EvenCapClips` proves it. The default, 25 (`config.py:270`), is odd, and
  `ChecksAreHarmless` holds for every odd cap.
* A session limit in the vision lane or in a solver's recheck does not take the way of the
  pause strategy.

*Spending gates*

* `pause_batch` is unconditional: a monitor's cap pause overwrites an operator's manual
  pause and is then lifted without the operator (`repositories/batches.py:351`; the comment
  at `services/worker.py:1116-1121` says other reasons are never touched).
* A host that disables both caps leaves its check at once (`services/worker.py:1130-1134`)
  and never lifts what it had decided (compare 417-419).
* The fleet's pause has no route for an operator; only read.

*Regeneration*

* A target can be abandoned although its page is already complete, when the publisher
  crashed or lost the last answer (`services/regeneration_publisher.py:41-49`).
* A publisher that dies in every claim never uses up the attempts of its target: the
  attempts count failures it lived to record.
* A delivery that overruns its lease and the one that took over can both fill the page;
  `PublishedOnce` promises one copy only while no lease is overrun.
* A launch asks for every reviewed page that is not the remembered one by an override
  (`services/regeneration_campaign.py:1441-1456`). For a lineage that is proved by its
  published homework, overrides are refused with a ValueError
  (`services/regeneration_destination.py:472-476`), which `_campaign_action`
  (`api/v1/regeneration.py:1372-1389`) does not translate: if the parent of the homework is not
  the page that the archive remembers, the campaign cannot be launched (`Reprove` is disabled).
* For a lineage that was published and is not proved, the operator has to choose the page. If
  the chosen page is the remembered one, the launch makes no override of it and the scan is
  ambiguous again (`services/regeneration_destination.py:359-370`): this campaign cannot be
  launched either.
* The statements of `insert_prepared_campaign` have a snapshot each. A revision that is
  published between its list of sources and its look for active lineages leaves a draft whose
  source is not the newest, and whose version may be one that is taken, although the docstring
  says that mutable facts are rechecked (`services/regeneration_campaign.py:1073`, 1102-1134). The
  model has this draft (`Relist`, then `Unclaimed`). It is live and blocks its lesson until it is
  cancelled, but is never paid: the launch reads sources and conflicts again while the row is
  live, and from then on nobody else can take a version of the lesson. `FrozenServes` says so.
* Between the two transactions of `retry_generation` the target can end; its job is then
  requeued and runs for nothing (`services/regeneration_campaign.py:1816`).
* A sweep that carries a status read earlier can put a target back to `generation_failed`
  while its requeued job runs; the next carry repairs it.
* The roll-up of a campaign whose canaries were all abandoned gives another status when it
  is repeated.
* A late reconciliation can move `publication_failed` to `publication_pending`, which the
  docstring of the roll-up leaves to the operator's retry.

*Books*

* `services/book_fetch.py:117-121` says that one thread per book is outstanding in a process;
  after a coroutine's timeout there can be two, and the inner locks keep the transfer single.

*Library*

* A retry of an extraction and a generate both hold the lock of the book shared. A job that
  is created between the look for jobs and the extractor's delete makes the delete fail on
  its foreign key: the book is `failed` with jobs, against `services/toc_extractor.py:150-156`,
  and the retry is refused until the sections are deleted.
* `delete_toc_entry` looks for active jobs and deletes later; a retry or a launch in between
  is deleted in flight, against `api/v1/books.py:828-829`.
* Two extractions that overlap can leave two sets of entries
  (`services/toc_extractor.py:150-152`).
* An upload whose file, or the commit after it, cannot be written stays `uploading` until the
  head restarts, and may be neither retried nor deleted (`stranded`).
* An extraction writes `failed` in its `except` block, in a transaction that nothing guards
  (`services/toc_extractor.py:222-229`). If that fails too, as in an outage of the database that
  failed the extraction, the book stays `toc_extracting` with a live head and nobody at it, and
  cannot be deleted, until somebody retries the extraction (`api/v1/books.py:462`, 492) or the
  head restarts. The same holds of a retry whose commit got no answer.
* The retry of an old failed job takes no lock of its section: beside a newer job two are
  live.

*Key vault*

* The temporary file of an atomic write, with the bytes of a key, stays when the head dies
  in it; only read.
* An upload that fails to commit, or dies, after its write leaves a file without a row, and
  later starts refuse until it is resolved by hand; the comments call this failing closed.
  Two deletes of one key that are both cut short block the start as well.

## 5. Proofs

The theorems hold for every value of the constants, under the assumptions the
modules declare: in `JobLease`, extract is a phase, dependencies are phases, the
bounds are naturals with at least one attempt and one slot, and `Nobody` is neither
a worker nor a job; in `HostKey`, `NoKey` is not a key; `BookFetch` names a process for
every job and a `Nobody` that is not a job; `TargetLife` has a lineage for every target. In `PhasePlan` the extraction is no
content phase; in `Planning` pages have ids, and offers ask for a version beyond the first of
at least one lesson.
Limits, caps and counts are naturals, and a value that stands for NULL is no other value.

Every safety property that a run checks, invariant, action property or refinement, is
stated by a theorem. Most are not inductive; the strengthening is the content of the proof.

### Queue and leases

**`DoneIsComplete`: a done job has every phase done.** The job is marked done from the
scheduler's memory, so one must know that the memory agrees with the rows. `DoneInv`
adds to the type invariant

* `LeaseNamesExecution`: a token on a job row belongs to an execution of that job
  that was minted earlier, so a new claim never shares a lease;
* `SchedulerKeepsPhases`: every phase is pending, in flight, seen or failed, and one
  that left the pending set does not return; with nothing pending, in flight or
  failed, every phase was seen;
* `SeenStaysDone`: while the execution holds the lease, what it has seen done is
  done in the database. This is where the fence matters: only the holder of the lease
  can start a phase, hence reset a done row;
* `DoneLeftPipeline`: the execution that completed a job has left its pipeline, so
  it starts no further phase under a lease that the row still carries.

`JobLeaseProofs` proves types for every action, then the parts for the simple actions,
with lemmas about `ResetRows`, `MissedWrite` and the fence, then the actions that touch
several parts. `DoneInv` is also an invariant of the run `fencing`.

**`LeasesSettledOnce`.** A lease is given back once. `LedgerInv` adds to `DoneInv`
that a token has one settlement at most and none before it is minted (`OneSettlement`),
and that a row which still carries a settled token is over and its pipeline gone
(`SettledIsOver`): a settlement needs a live row, and a live row has an open token.

**`LostLeaseIsFenced`.** The action property `LostLeaseWritesNothing` follows from
`DoneInv` step by step: each fenced write names its token, and a token names one execution.

**`PendingCanBeClaimed`.** With two operators `PendingIsClaimable` is not an invariant of the
code: the second of two retries writes over the claim that followed the first (section 4). The
theorem supposes nothing about operators and says what is true of any number of them:
the property holds at first, and a step that ends it is the write of a retry whose job has
changed since the request read it (`Overtaken`), never a claim, a refund, a reclaim, a cancel, a
late write or the retry of an unchanged job. `StepTame` proves that every other step keeps the
property, `RetryWriteResets` that a write over an unchanged row does. `ClaimInvariant` is the
consequence for one operator (`LoneOperator`), which is what the run `retry` checks.

**`NothingUndone`.** `NothingIsUndone` promises that done phases and ended jobs persist. Its
hypothesis is `NoRetries`, no operator, since to undo is what a retry is for. `OutputInv` adds
that a phase which its scheduler runs under its token has a running row, or a cancelled job
(`BusyOwns`), that what an owner has still to start has no output (`LeftNotDone`), and that a
worker which finalizes a cancel finds a job that is cancelled or is to be (`FinalizeKnows`).

### Hosts, credentials, money

**`ScrubsAndClaims`: scrubs and claims exclude each other.**
`LockInv` says that the exclusive holder is alone, that a claim past its gate still
finds no tombstone (the endpoints need the exclusive lock) and that a scrub past its
count still finds no job (a claim needs the shared one). The action property
follows from it in one step.

**`CallsAreCounted`.** `SlotInv` adds to `AdmittedIsCounted` that the id of a row is known
to one call or to one release task, never to two (`OneKnower`), so that a release that comes
late removes no row but its own; that a claim is of an index (`ClaimsIndex`); and that only a
call in progress holds a slot (`HoldsInCall`).

**`LateClaims`.** `GateInv` is the types of gates, transactions and monitors, one open
transaction that has written a gate (`OneWriter`), and `LateOnce`: a claim counts as late
from a committed pause on, and a worker whose claim is still to be made has made none.

**`ListTells` and `TypesKept` of the registry.** `ListInv` adds to the types that a
worker which left has no row, and that a process which is gone has no beat on its way
(`RowsFollow`). The deletion of rows by another worker's sweep spares owners of claims, and
a worker leaves only after its loop has ended.

**`BytesKept` and `AssignedKeyThere` of the vault.** `VaultInv` adds to
`NoKeyLost` that copies are set aside of rows that were once committed only (`Parked`), what
a request and a transaction in doubt know of their key (`InService`, `InDoubt`), that at most
one of them may change a row or its files (`OneWriter`), that a starting head which read no
row for a copy reads so still (`Reading`), and that no delete is on its way to the key of the
host (`Bound`). The file of a key goes aside before its row goes, and comes back before its
row is used, so one of the two has the bytes in every state.

### Generation

`GenerationProofs` proves `PhaseInv /\ CallInv` of `GenSpec`. The two halves share no
variable, so each step of one leaves the other as it is.

**`WholeShipments`, `HonestReviews`, `ProvidersApart`.** `PhaseInv` has, besides the types,

* `OneDocument`: text, JSON and producer of the document in hand and of the row are of one
  generation, and a document exists from the first generation on;
* `ReviewsKnown`: what judge and solver have said of which text, at each place of the phase:
  a mismatch that was once found is answered by an acceptance of the present text before
  the write; a verdict is of the present text, or of one that was repaired since;
* `FailuresKnown`: what is raised is worth a requeue, or no document was made, or a mismatch
  or an authentication of the api lane excuses it;
* `ProvidersKnown`: whoever is asked is the job's provider or in the order; nobody else has
  made anything.

A provider's place in the fallback chain is a position in the order, so that the proof needs
no induction over sequences.

**`NothingIsLeft`, `CallsBooked`.** `CallInv` counts permits (free and running ones are all,
`PermitsCounted`) and says of each call that its attached pages are there until it has landed
(`PagesThere`), that a summary is kept from its gate on, after which only a regeneration
raises (`ExtractKept`), and that a row is owed from the landing to the ledger (`RowOwed`), where
it is written or lost to a failed write; nothing else ends the debt of an ask that goes on.

**`ChecksAreHarmless`.** It needs the window of a check to contain the pages of a section
that fits the cap. This holds when the cap is odd, and the theorem says so: `MaxPages % 2 =
1`. `EvenCapClips` shows that an even one loses the last page of a section that just fits
(section 4). The rest follows from `PhaseInv` and `ExtractKept`.

### Regeneration

**`LifeInvariant`, `FinalEnds`, `ConsumedVersions`: the abstract life.** `LifeInv` is
types, one live target per lineage (`OneLiveRow`), and versions used once in a lineage
(`VersionsOnce`); ends are final and a version once reserved stays. `CampaignIsLife` and
`DeliveryIsLife` prove that `Campaign` and `Publication` implement `TargetLife`: initial
states map to initial states, and each action moves the targets along their edges or leaves
them. So both inherit the three theorems.

**`OwnWritesOnly`, `PagesOnce`: the delivery.** `DeliveryInv` has the claims apart
(`ClaimsApart`: a token is of one publisher), one live target (`OneLive`), versions apart
(`VersionsApart`), a pass that works on the version its target has reserved and on a page
of its target (`WorksOnOwn`), and pages that carry their target's version, a complete one
behind every published row (`PagesMatch`). `OwnWritesOnly` follows. `PublishedOnce`
promises a single copy while no delivery has overrun its lease; so does `InTime`: every
publisher at work holds its claim, a target has one page at most, and none when its publisher
is about to create one, and a page is stamped when the content is on it once.

**`ReleasesAreEarned`, `HonestStatus`: the campaign.** `CampaignInv` strengthens
`ReleaseIsEarned` to failed publications, which count as released because they are retried
without a review (`Earned`). It adds that an approved campaign was never rejected and is past
its canaries (`Reviewed`), that what a clerk has still to do was driven by its earlier
transactions (`ClerksKnow`), that a `done` which a carrier has read was produced (`Whole`),
that a target marked for its end waits for a job or a delivery only (`AbandonsEnd`), and
that all targets come with the campaign (`AllThere`). The status follows because each
transaction that moves a target repeats the roll-up over what it leaves.

**`PlansReadBack`, `NothingSilentlyStale`, `GateIsTheCheck`, `DestinationsAreSafe`: the
algorithms of planning.** A plan that is made is read back, for every flow and request; what
follows a regenerated phase is regenerated, or was left out and acknowledged. The check in
Python and the gate in SQL admit the same workers, for every contract with nothing left open:
`GradersAgree` is the case that matters, a judge or a solver that falls back from grading its
own text. A scan that decides gives a review that the table accepts, of pages that are there
and do not have the version yet. Reachability in a plan is written as the least closed set,
not by recursion, so that these hold without an induction.

**`PlansServe`, `PaymentsAreShown`.** `PlanInv` says of a row what holds for good: it belongs
to a made draft, consumes no version but its draft's and only after the approval, has a plan
that reads back and a whole destination, the one that was shown (`RowHolds`). Of a live row it says that it is the only
one (`LiveHolds`), of a paid draft that the launch found its destinations again and that its
sources and versions stand (`PaidHolds`, `Stands`), of the newest version of a lesson that none published is
newer (`IsNewest`), and of a request what its reads have established that nobody can undo
(`DeskHolds`): that the plan can be made, that the proof covers the sources or the rows, and, in a
launch, that the sources stand. Nothing is said of the sources of a draft before its launch: what
the reads of its insertion have found may be gone at its write. The launch reads them while the
row is live, and as long as it is, nobody else in the lesson is, hence nobody publishes or
consumes a version of it (`MarkStands` is the lemma for the row itself). `ChaptersApart`: `Regeneration` implements both of its parts, so that
the theorems about each hold of it.

### Books

**`TransfersOnce` and `WholeFiles`: the book is transferred by one thread, and what is
returned is whole.** `FetchInv` says that each of the three locks is held by whoever stands
inside it (`LocksMatch`), and what a thread knows of the file (`FileMatches`): one that is
in its transfer has found no good file, and a good answer has a whole file behind it where
the expected size is known. The second needs the first: only the holder of the host's lock
writes, so no other thread can make the answer stale. A kill frees the locks of a process
and its threads at once, which keeps the match.

**`OneJobPerLesson` and `DeletedAtRest` of the library.** `LibraryInv` has two lines. A
request that deletes the book shares it with nobody (`DeleterAlone`), and no job becomes
active meanwhile (`StillAtRest`), as retries and launches need the shared lock. Two
requests hold no section in common (`LocksApart`), and a section that a request will
create a job for still has none (`StillUnmade`), which with `OneSection` keeps
`LaunchedOnce`.

**`IngestionIsAttended`.** `IngestInv` adds to the property that the file of a book stays while
an extraction or a retry counts on it, and that an upload which is writing its file is alone with
its book (`FileKept`). Every step that puts a book into ingestion leaves a request or a run of the
extractor with it, and every end of one takes the book out, or could not write (`stranded`). The
second clause is worth its proof: a book that is stuck in extraction has its file, so that the
retry, which refuses a book without one, can take it up.

### What proving changed, and what is left to TLC

The proofs led to changes of form that leave behaviours as they were: the fallback chain of
`PhaseRun` is a set of positions and no longer a filtered sequence; `Generation` is a module of
its own with its constants open; the arms of `Publication.Requested` are disjoint; nested
`@` in `AgentCall.Answer` is written out.

Only model-checked are the liveness properties `NoJobStuck`, `RowAndWorkerAgree`,
`KeyFollowsAssignment`, `LimitTakesHold`, `GenerationEnds`, `GatesFollowSpend`,
`DeliveryEnds`, `TargetsFollow`, `HeadComesUp` and `LocksComeFree`. They rest on fairness, and
fairness on ENABLED, which is out of the prover's reach.

## 6. Not modelled, and the plan

Not modelled for good: what language models answer and the text processing around them
(prompts, lint, rendering, teacher deck, offline audits), the file-system hardening of the
key vault and its Windows restore, read-only views and single-row settings, the estimate of a
campaign's cost, the web console, migrations and scripts. The event
bus is a best-effort fan-out that promises no delivery: a stream that subscribes after its
snapshot (`api/v1/jobs.py:603-690`) can miss events, and the viewer reads the state again.

Parts of modelled components that are still left out: the order in which claims take
pending jobs (lanes, capabilities, schedules, version floor), the copy of phase rows for a
revision, and the automatic archive of first versions to Notion.

Next, in this order:

1. `Archive`: the copy of finished homework to Notion, its appends, stamps and repairs,
   attached to the run `shelf`.
2. `JobLife`, the abstract life of a job, with `JobLease` shown to implement it, and a
   composition of `JobLease` with `WorkerRegistry`, so that the freshness of an owner is the
   registry's row.
3. `Admission`: the gates and the order of claims.
