--------------------------- MODULE CredentialSlots ---------------------------
(***************************************************************************)
(* The fleet-wide ceiling on concurrent API calls of one credential        *)
(* (services/credential_limiter.py) as the callers use it                  *)
(* (services/agent.py: _spawn and _spawn_once).                            *)
(*                                                                         *)
(* A slot is a row of credential_slots, unique by index.  One claim is one *)
(* SQL statement, but two steps here: the snapshot that picks a free index *)
(* and the INSERT ... ON CONFLICT that meets the rows of that moment.      *)
(*                                                                         *)
(* A row ages past STALE_TTL, twice the per-attempt timeout, only when its *)
(* holder is not in its provider call: the SDK clients are built with that *)
(* timeout, and a process is not stopped for longer than one timeout.      *)
(***************************************************************************)
EXTENDS Naturals, FiniteSets

CONSTANTS
  Calls,       \* callers of _spawn; an attempt of one is a run of the model,
               \* and between two attempts it holds nothing
  Processes,   \* worker processes: a local semaphore and a limit cache each
  Home,        \* the process of each call
  Permits,     \* settings.agent_max_concurrency
  Limits,      \* values of sa_keys.max_concurrent_calls
  Default,     \* settings.credential_max_concurrent_<provider>; 0: no cap
  RaceRetries, \* _RACE_RETRIES_PER_POLL
  NoLimit      \* no entry in the limit cache

ASSUME Assumptions ==
  /\ Home \in [Calls -> Processes]
  /\ Limits \subseteq Nat /\ Default \in Nat
  /\ Permits \in Nat \ {0} /\ RaceRetries \in Nat
  /\ NoLimit \notin Nat /\ Calls \cap Processes = {}
  /\ IsFiniteSet(Limits)

VARIABLES
  limit,    \* the configured limit
  cache,    \* _LIMIT_CACHE of each process
  rows,     \* credential_slots: the rows, by slot_index
  call,     \* the calls
  detached  \* processes with a release task that outlived its call (the
            \* model has at most one at a time in a process)

vars == <<limit, cache, rows, call, detached>>

AllLimits == Limits \cup {Default}
Ceiling   == CHOOSE n \in AllLimits : \A k \in AllLimits : k <= n
Indexes   == 0 .. Ceiling - 1

\* The id of a row is a UUID, modelled by who can name it: the call that was
\* given it, or the release task that this call left behind in its process.
Knowers == Calls \cup Processes
Row     == [known : SUBSET Knowers, fresh : BOOLEAN]

\* queued: for a permit of the local semaphore; resolve, poll, claim, wait:
\* in acquire; calling; releasing: in the finally.
Pc == {"idle", "queued", "resolve", "poll", "claim", "wait", "calling",
       "releasing"}
Permitted == {"resolve", "poll", "claim", "wait", "calling", "releasing"}

Call == [pc      : Pc,
         lim     : AllLimits \cup {0},     \* what resolve_limit returned
         cand    : Indexes \cup {0},       \* the index its snapshot picked
         held    : BOOLEAN,                \* has a slot; FALSE: BYPASS
         races   : 0 .. RaceRetries]

Idle == [pc |-> "idle", lim |-> 0, cand |-> 0, held |-> FALSE, races |-> 0]

Init ==
  /\ limit \in AllLimits
  /\ cache = [h \in Processes |-> NoLimit]
  /\ rows = [i \in {} |-> {}]
  /\ call = [c \in Calls |-> Idle]
  /\ detached = {}

-----------------------------------------------------------------------------
Stored    == DOMAIN rows
FreshRows == {i \in Stored : rows[i].fresh}

At(pc) == [Idle EXCEPT !.pc = pc]

\* Mutant of FreeIndexes: every index that was ever configured is offered.
FreeUnderAnyLimit(n) ==
  IF n > 0 /\ Cardinality(FreshRows) < n THEN Indexes \ FreshRows ELSE {}
\* Mutant of FreeIndexes: the series of indexes includes its end.
FreeOneTooMany(n) ==
  IF Cardinality(FreshRows) < n THEN (0 .. n) \ FreshRows ELSE {}

FreeIndexes(n) ==
  IF Cardinality(FreshRows) < n THEN {i \in Indexes : i < n} \ FreshRows ELSE {}

\* Mutant of Taken: the takeover keeps the id of the row.
TakenOver(i, knower) ==
  [known |-> knower \cup IF i \in Stored THEN rows[i].known ELSE {}, fresh |-> TRUE]

\* INSERT, or the takeover of a stale row: the id is new either way.
Taken(i, knower) == [known |-> knower, fresh |-> TRUE]

Kept(is) == [i \in is |-> rows[i]]

\* DELETE by id.
Deleted(k) == Kept({i \in Stored : k \notin rows[i].known})

\* The knowers `gone` forget their ids, which `heirs` know from now on.
Renamed(gone, heirs) ==
  [i \in Stored |->
     IF rows[i].known \cap gone = {} THEN rows[i]
     ELSE [rows[i] EXCEPT !.known = (@ \ gone) \cup heirs]]

-----------------------------------------------------------------------------
(* One attempt.                                                            *)

Start(c) ==
  /\ call[c].pc = "idle"
  /\ call' = [call EXCEPT ![c] = At("queued")]
  /\ UNCHANGED <<limit, cache, rows, detached>>

\* The local semaphore is entered before any slot is asked for.
Enter(c) ==
  LET inside == {d \in Calls : Home[d] = Home[c] /\ call[d].pc \in Permitted} IN
  /\ call[c].pc = "queued" /\ Cardinality(inside) < Permits
  /\ call' = [call EXCEPT ![c].pc = "resolve"]
  /\ UNCHANGED <<limit, cache, rows, detached>>

Resolved(c, n) ==
  call' = [call EXCEPT ![c] = IF n = 0 THEN At("calling")
                              ELSE [@ EXCEPT !.pc = "poll", !.lim = n]]

\* resolve_limit: the cache, else the table; an error of the SELECT is the
\* default and is not cached, any other database error bypasses the limiter.
ResolveLimit(c) ==
  LET h == Home[c] IN
  /\ call[c].pc = "resolve"
  /\ \/ cache[h] # NoLimit /\ Resolved(c, cache[h]) /\ UNCHANGED cache
     \/ /\ cache[h] = NoLimit /\ Resolved(c, limit)
        /\ cache' = [cache EXCEPT ![h] = limit]
     \/ cache[h] = NoLimit /\ Resolved(c, Default) /\ UNCHANGED cache
     \/ call' = [call EXCEPT ![c].pc = "calling"] /\ UNCHANGED cache
  /\ UNCHANGED <<limit, rows, detached>>

\* The candidate of the claim statement, from its snapshot.
Snapshot(c) ==
  LET free == FreeIndexes(call[c].lim) IN
  /\ call[c].pc = "poll"
  /\ \/ free = {} /\ call' = [call EXCEPT ![c].pc = "wait", ![c].races = 0]
     \/ \E i \in free : call' = [call EXCEPT ![c].pc = "claim", ![c].cand = i]
  /\ UNCHANGED <<limit, cache, rows, detached>>

Put(i, knower) ==
  rows' = [k \in Stored \cup {i} |-> IF k = i THEN Taken(i, knower) ELSE rows[k]]

\* The index is gone: try another at once, RaceRetries times, then sleep.
LostRace(c) ==
  call' = IF call[c].races < RaceRetries
          THEN [call EXCEPT ![c].pc = "poll", ![c].cand = 0, ![c].races = @ + 1]
          ELSE [call EXCEPT ![c].pc = "wait", ![c].cand = 0, ![c].races = 0]

\* Its INSERT: a fresh row that came in between is a lost race.
Claim(c) ==
  LET i == call[c].cand IN
  /\ call[c].pc = "claim"
  /\ \/ /\ i \notin FreshRows /\ Put(i, {c})
        /\ call' = [call EXCEPT ![c] = [At("calling") EXCEPT !.held = TRUE]]
     \/ i \in FreshRows /\ LostRace(c) /\ UNCHANGED rows
  /\ UNCHANGED <<limit, cache, detached>>

\* The statement's effect when its caller never gets the answer.
ClaimUnheard(c) ==
  \/ UNCHANGED rows
  \/ call[c].cand \notin FreshRows /\ Put(call[c].cand, {})

\* A database error in acquire: the call goes ahead without a slot.
ClaimFails(c) ==
  /\ call[c].pc = "claim" /\ ClaimUnheard(c)
  /\ call' = [call EXCEPT ![c] = At("calling")]
  /\ UNCHANGED <<limit, cache, detached>>

PollAgain(c) ==
  /\ call[c].pc = "wait"
  /\ call' = [call EXCEPT ![c].pc = "poll"]
  /\ UNCHANGED <<limit, cache, rows, detached>>

\* The wait budget is spent: the saturation is returned without a retry.
GiveUp(c) ==
  /\ call[c].pc = "wait"
  /\ call' = [call EXCEPT ![c] = Idle]
  /\ UNCHANGED <<limit, cache, rows, detached>>

\* The provider answers, or fails.
EndCall(c) ==
  /\ call[c].pc = "calling"
  /\ call' = [call EXCEPT ![c].pc = "releasing"]
  /\ UNCHANGED <<limit, cache, rows, detached>>

\* The release ends; an error of the database is logged, and the row stays.
Release(c) ==
  /\ call[c].pc = "releasing"
  /\ call' = [call EXCEPT ![c] = Idle]
  /\ rows' = Deleted(c) \/ rows' = Renamed({c}, {})
  /\ UNCHANGED <<limit, cache, detached>>

-----------------------------------------------------------------------------
(* What interrupts an attempt.                                             *)

\* A cancelled call unwinds.  In the provider call it releases first; in the
\* release it leaves the release task behind and keeps the outcome it had.
Cancel(c) ==
  \/ /\ call[c].pc \in {"queued", "resolve", "poll", "wait"}
     /\ call' = [call EXCEPT ![c] = Idle]
     /\ UNCHANGED <<limit, cache, rows, detached>>
  \/ /\ call[c].pc = "claim" /\ ClaimUnheard(c)
     /\ call' = [call EXCEPT ![c] = Idle]
     /\ UNCHANGED <<limit, cache, detached>>
  \/ EndCall(c)
  \/ /\ call[c].pc = "releasing"
     /\ Home[c] \notin detached
     /\ call' = [call EXCEPT ![c] = Idle]
     /\ detached' = detached \cup {Home[c]}
     /\ rows' = Renamed({c}, {Home[c]})
     /\ UNCHANGED <<limit, cache>>

ReleaseDetached(h) ==
  /\ h \in detached
  /\ detached' = detached \ {h}
  /\ rows' = Deleted(h) \/ rows' = Renamed({h}, {})
  /\ UNCHANGED <<limit, cache, call>>

\* The process dies: its calls and release tasks end, their rows stay.
HostCrash(h) ==
  /\ call' = [c \in Calls |-> IF Home[c] = h THEN Idle ELSE call[c]]
  /\ cache' = [cache EXCEPT ![h] = NoLimit]
  /\ detached' = detached \ {h}
  /\ rows' = Renamed({h} \cup {c \in Calls : Home[c] = h}, {})
  /\ UNCHANGED limit

-----------------------------------------------------------------------------
(* Time, the sweep and the operator.                                       *)

RowAges(i) ==
  /\ i \in FreshRows
  /\ \A c \in Calls : call[c].pc = "calling" => c \notin rows[i].known
  /\ rows' = [rows EXCEPT ![i].fresh = FALSE]
  /\ UNCHANGED <<limit, cache, call, detached>>

Sweep ==
  /\ Stored # FreshRows
  /\ rows' = Kept(FreshRows)
  /\ UNCHANGED <<limit, cache, call, detached>>

CacheExpires(h) ==
  /\ cache[h] # NoLimit
  /\ cache' = [cache EXCEPT ![h] = NoLimit]
  /\ UNCHANGED <<limit, rows, call, detached>>

\* patch_sa_key: only the cache of the process that serves it is evicted.
SetLimit(n, evicted) ==
  /\ n # limit /\ limit' = n
  /\ cache' = [h \in Processes |-> IF h \in evicted THEN NoLimit ELSE cache[h]]
  /\ UNCHANGED <<rows, call, detached>>

-----------------------------------------------------------------------------
Step(c) ==
  \/ Enter(c) \/ ResolveLimit(c) \/ Snapshot(c) \/ Claim(c) \/ ClaimFails(c)
  \/ PollAgain(c) \/ EndCall(c) \/ Release(c)

Next ==
  \/ \E c \in Calls : Start(c) \/ Step(c) \/ GiveUp(c) \/ Cancel(c)
  \/ \E h \in Processes : HostCrash(h) \/ CacheExpires(h) \/ ReleaseDetached(h)
  \/ \E i \in Indexes : RowAges(i)
  \/ Sweep
  \/ \E n \in AllLimits, evicted \in {{}} \cup {{h} : h \in Processes} : SetLimit(n, evicted)

Spec == Init /\ [][Next]_vars

\* Event loops run, rows that nobody uses age, cache entries expire.
Fairness ==
  /\ \A c \in Calls : WF_vars(Step(c))
  /\ \A i \in Indexes : SF_vars(RowAges(i))
  /\ \A h \in Processes : WF_vars(CacheExpires(h))

FairSpec == Spec /\ Fairness

-----------------------------------------------------------------------------
(* Properties.                                                             *)

TypeOK ==
  /\ limit \in AllLimits
  /\ cache \in [Processes -> AllLimits \cup {NoLimit}]
  /\ Stored \subseteq Indexes /\ rows \in [Stored -> Row]
  /\ call \in [Calls -> Call]
  /\ detached \subseteq Processes

\* A call that was admitted is counted until it is over: no late release of
\* another call and no takeover removes its row (and everything keeps its type).
AdmittedIsCounted ==
  /\ TypeOK
  /\ \A c \in Calls : call[c].pc = "calling" /\ call[c].held =>
       \E i \in FreshRows : c \in rows[i].known

\* A limit that is set back to the default takes hold in the fleet, although
\* caches lag and rows beyond it are in use.
LimitTakesHold ==
  <>[](limit = Default) => <>[](Cardinality(FreshRows) <= Default)
=============================================================================
