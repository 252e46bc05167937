------------------------------ MODULE CostCaps ------------------------------
(***************************************************************************)
(* The two spending gates: the pause of a batch (repositories/batches.py)  *)
(* and the fleet's api pause (repositories/budget.py), as the budget       *)
(* monitor of every worker sets and lifts them from the caps of its own    *)
(* host (services/worker.py: _budget_monitor), as operators do, and as the *)
(* claims read them.                                                       *)
(*                                                                         *)
(* A monitor's check is one READ COMMITTED transaction: each statement     *)
(* reads what is committed by then, a row it has updated is locked to the  *)
(* commit, and an update that waited for the lock tests its WHERE again.   *)
(***************************************************************************)
EXTENDS Naturals, FiniteSets

CONSTANTS
  Hosts,      \* hosts, with one worker each
  Caps,       \* cost_cap_batch_usd and cost_cap_fleet_daily_usd: pairs of
              \* whole dollars, 0 for no cap
  MaxSpend,   \* bound: dollars spent
  MaxJobs,    \* bound: jobs that run at once
  MaxEvents,  \* bound: operator actions and failed checks
  Open, Unwritten

ASSUME GateAssumptions ==
  /\ Caps \subseteq Nat \X Nat /\ Caps # {}
  /\ MaxSpend \in Nat /\ MaxJobs \in Nat \ {0} /\ MaxEvents \in Nat

VARIABLES
  cap,     \* the settings of each host's worker
  gate,    \* the committed pauses: gate.batch and gate.fleet
  tx,      \* what a monitor's open transaction has written
  mon,     \* the monitors
  spend,   \* spend.batch, and the last 24 hours of the fleet
  claim,   \* the claim of each worker: "idle", or "open" once it has read the
           \* fleet gate open
  running, \* api jobs of the batch that run
  events,  \* bound: events so far
  late     \* checking only: what each worker claimed under the present pause

gateVars == <<cap, gate, tx, mon, spend, claim, running, events, late>>

Gates == {"batch", "fleet"}
CapOf(h, g) == IF g = "batch" THEN cap[h][1] ELSE cap[h][2]

\* A pause and its provenance (paused_cap_usd, paused_by).
Pause(reason, dollars, host) == [reason |-> reason, cap |-> dollars, by |-> host]
CapPauses == {Pause("cap", n, h) : n \in (UNION {{p[1], p[2]} : p \in Caps}) \ {0}, h \in Hosts}
Manual    == Pause("manual", 0, Open)

Asleep == [pc |-> "idle", may |-> FALSE]
Nothing == [g \in Gates |-> Unwritten]

GateInit ==
  /\ cap \in [Hosts -> Caps]
  /\ gate = [g \in Gates |-> Open]
  /\ tx = [h \in Hosts |-> Nothing]
  /\ mon = [h \in Hosts |-> Asleep]
  /\ spend = [g \in Gates |-> 0]
  /\ claim = [h \in Hosts |-> "idle"] /\ running = 0
  /\ events = 0 /\ late = [h \in Hosts |-> 0]

-----------------------------------------------------------------------------
\* What h sees of a gate, and what an update of h meets once it has the lock.
View(h, g) == IF tx[h][g] = Unwritten THEN gate[g] ELSE tx[h][g]

Locked(h, g) == \E k \in Hosts \ {h} : tx[k][g] # Unwritten
Write(h, g, record) == ~Locked(h, g) /\ tx' = [tx EXCEPT ![h][g] = record]

MonitorAt(h, pc, may) == mon' = [mon EXCEPT ![h] = [pc |-> pc, may |-> may]]
Rest == UNCHANGED <<cap, gate, spend, claim, running, events, late>>

Capped(h, g) == CapOf(h, g) > 0
Over(h, g)   == Capped(h, g) /\ spend[g] > CapOf(h, g)

\* Mutant of Entitled: whoever is under its own cap may lift the pause.
EntitledWhoever(h, g, record) == TRUE
\* Mutant of Entitled: the deciding host has no right of its own.
EntitledByCap(h, g, record) == Capped(h, g) /\ record.cap >= CapOf(h, g)

\* _may_lift_cap_pause, and the WHERE of the clearing updates.
Entitled(h, g, record) ==
  record.by = h \/ (Capped(h, g) /\ record.cap >= CapOf(h, g))

ByCap(record) == record # Open /\ record.reason = "cap"

-----------------------------------------------------------------------------
(* The budget monitor of host h.                                           *)

\* The list of active batches.  A host without any cap does not check at all.
ReadActive(h) ==
  /\ mon[h].pc = "idle" /\ (Capped(h, "batch") \/ Capped(h, "fleet"))
  /\ MonitorAt(h, "trip", gate["batch"] = Open) /\ UNCHANGED tx /\ Rest

\* Mutant of Decision: the pause is stamped without its cap.
DecisionOnly(h, g) == Pause("cap", 0, h)

Decision(h, g) == Pause("cap", CapOf(h, g), h)

\* pause_batch, of a batch that was active a moment ago: unconditional.
Trip(h) ==
  /\ mon[h].pc = "trip" /\ MonitorAt(h, "read", FALSE) /\ Rest
  /\ IF mon[h].may /\ Over(h, "batch") THEN Write(h, "batch", Decision(h, "batch"))
     ELSE UNCHANGED tx

\* paused_cap_records, the right to lift and the batch's cost.
ReadPaused(h) ==
  LET record == View(h, "batch") IN
  /\ mon[h].pc = "read"
  /\ MonitorAt(h, "lift", ByCap(record) /\ Entitled(h, "batch", record) /\ ~Over(h, "batch"))
  /\ UNCHANGED tx /\ Rest

\* clear_cap_pause and clear_api_pause_if_entitled.
ClearIfEntitled(h, g) ==
  /\ ~Locked(h, g)
  /\ IF ByCap(View(h, g)) /\ Entitled(h, g, View(h, g)) THEN Write(h, g, Open)
     ELSE UNCHANGED tx

Lift(h) ==
  /\ mon[h].pc = "lift" /\ MonitorAt(h, "fleet", FALSE) /\ Rest
  /\ IF mon[h].may THEN ClearIfEntitled(h, "batch") ELSE UNCHANGED tx

\* The fleet's spend and its gate.
ReadFleet(h) ==
  LET record == View(h, "fleet") IN
  /\ mon[h].pc = "fleet" /\ UNCHANGED tx /\ Rest
  /\ CASE Over(h, "fleet") -> MonitorAt(h, "set", FALSE)
       [] ~Over(h, "fleet") /\ ByCap(record) /\ Entitled(h, "fleet", record) ->
            MonitorAt(h, "clear", FALSE)
       [] OTHER -> MonitorAt(h, "commit", FALSE)

\* set_api_paused: the strictest claimant keeps the record.
SetFleet(h) ==
  LET record == View(h, "fleet") IN
  /\ mon[h].pc = "set" /\ MonitorAt(h, "commit", FALSE) /\ Rest
  /\ IF ByCap(record) /\ record.cap <= CapOf(h, "fleet") THEN Write(h, "fleet", record)
     ELSE Write(h, "fleet", Decision(h, "fleet"))

ClearFleet(h) ==
  mon[h].pc = "clear" /\ MonitorAt(h, "commit", FALSE) /\ Rest /\ ClearIfEntitled(h, "fleet")

Commit(h) ==
  /\ mon[h].pc = "commit" /\ mon' = [mon EXCEPT ![h] = Asleep]
  /\ gate' = [g \in Gates |-> View(h, g)] /\ tx' = [tx EXCEPT ![h] = Nothing]
  /\ late' = IF gate'["fleet"] = Open THEN [k \in Hosts |-> 0] ELSE late
  /\ UNCHANGED <<cap, spend, claim, running, events>>

Event == events < MaxEvents /\ events' = events + 1

\* The check fails, or its process dies: the transaction is rolled back.
Abort(h) ==
  /\ mon[h].pc # "idle" /\ Event
  /\ mon' = [mon EXCEPT ![h] = Asleep] /\ tx' = [tx EXCEPT ![h] = Nothing]
  /\ UNCHANGED <<cap, gate, spend, claim, running, late>>

-----------------------------------------------------------------------------
(* Operators.                                                              *)

\* POST .../pause and .../unpause, each a transaction of its own.
Operate(record) ==
  /\ Event /\ \A h \in Hosts : tx[h]["batch"] = Unwritten
  /\ gate' = [gate EXCEPT !["batch"] = record]
  /\ UNCHANGED <<cap, tx, mon, spend, claim, running, late>>

\* The caps of a host change when its worker restarts.
SetCaps(h, caps) ==
  /\ Event /\ mon[h].pc = "idle" /\ caps # cap[h] /\ cap' = [cap EXCEPT ![h] = caps]
  /\ UNCHANGED <<gate, tx, mon, spend, claim, running, late>>

-----------------------------------------------------------------------------
(* Claims and spending.                                                    *)

\* get_state, in the claim's transaction.
ReadGate(h) ==
  /\ claim[h] = "idle" /\ gate["fleet"] = Open
  /\ claim' = [claim EXCEPT ![h] = "open"]
  /\ UNCHANGED <<cap, gate, tx, mon, spend, running, events, late>>

\* Mutant of NextClaim: the flag that was read is kept for the next claim.
NextClaimKeepsFlag == "open"

\* The flag is read anew for every claim.
NextClaim == "idle"

\* claim_next_job: an api job of the batch, unless the batch is paused.
Pick(h) ==
  /\ claim[h] = "open" /\ claim' = [claim EXCEPT ![h] = NextClaim]
  /\ \/ /\ gate["batch"] = Open /\ running < MaxJobs /\ running' = running + 1
        /\ late' = IF gate["fleet"] = Open THEN late ELSE [late EXCEPT ![h] = @ + 1]
     \/ UNCHANGED <<running, late>>
  /\ UNCHANGED <<cap, gate, tx, mon, spend, events>>

\* A running job spends, paused or not: paid work is never cancelled.
Spend ==
  /\ running > 0 /\ \A g \in Gates : spend[g] < MaxSpend
  /\ spend' = [g \in Gates |-> spend[g] + 1]
  /\ UNCHANGED <<cap, gate, tx, mon, claim, running, events, late>>

JobEnds ==
  /\ running > 0 /\ running' = running - 1
  /\ UNCHANGED <<cap, gate, tx, mon, spend, claim, events, late>>

\* The 24-hour window moves on.
WindowMoves ==
  /\ spend["fleet"] > 0 /\ spend' = [spend EXCEPT !["fleet"] = @ - 1]
  /\ UNCHANGED <<cap, gate, tx, mon, claim, running, events, late>>

-----------------------------------------------------------------------------
Check(h) ==
  \/ ReadActive(h) \/ Trip(h) \/ ReadPaused(h) \/ Lift(h) \/ ReadFleet(h)
  \/ SetFleet(h) \/ ClearFleet(h) \/ Commit(h)

GateNext ==
  \/ \E h \in Hosts : Check(h) \/ Abort(h) \/ ReadGate(h) \/ Pick(h)
                      \/ \E caps \in Caps : SetCaps(h, caps)
  \/ Operate(Manual) \/ Operate(Open)
  \/ Spend \/ JobEnds \/ WindowMoves

GateSpec == GateInit /\ [][GateNext]_gateVars

\* The idle loop of every worker calls its monitor again and again.
FairGateSpec == GateSpec /\ \A h \in Hosts : WF_gateVars(Check(h))

-----------------------------------------------------------------------------
(* Properties.                                                             *)

Records == CapPauses \cup {Open, Manual}

\* Every pause by cap carries the cap and the host that decided it.
GateTypeOK ==
  /\ cap \in [Hosts -> Caps]
  /\ gate \in [Gates -> Records]
  /\ tx \in [Hosts -> [Gates -> CapPauses \cup {Open, Manual, Unwritten}]]
  /\ \A g \in Gates : Cardinality({h \in Hosts : tx[h][g] # Unwritten}) <= 1
  /\ \A h \in Hosts : mon[h].pc = "idle" => mon[h] = Asleep /\ tx[h] = Nothing
  /\ spend \in [Gates -> 0 .. MaxSpend] /\ running \in 0 .. MaxJobs
  /\ claim \in [Hosts -> {"idle", "open"}] /\ late \in [Hosts -> Nat]

\* Under the fleet's pause a worker claims at most the one job whose claim had
\* begun before it (and everything keeps its type).
OneLateClaim == GateTypeOK /\ \A h \in Hosts : late[h] <= 1

\* The strictest cap of the fleet wins: spend that stays above the cap of any
\* one host keeps the gate closed, whatever looser hosts and claims do.
StrictestCapWins ==
  \A g \in Gates :
    (\E h \in Hosts : <>[]Over(h, g)) => <>[](gate[g] # Open)

\* A gate that a cap had closed opens again once every host is within its cap
\* or has none, as long as each still runs its monitor.
GatesReopen ==
  \A g \in Gates :
    <>[](\A h \in Hosts : ~Over(h, g) /\ (Capped(h, "batch") \/ Capped(h, "fleet")))
      => <>[]~ByCap(gate[g])

\* A gate comes to follow the spend, closed and open, however the hosts' caps differ.
GatesFollowSpend == StrictestCapWins /\ GatesReopen
=============================================================================
