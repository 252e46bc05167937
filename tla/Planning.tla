------------------------------ MODULE Planning ------------------------------
(***************************************************************************)
(* How a regeneration campaign comes to be, and to spend: the operator has *)
(* the destinations checked, sends a draft with the digest of what was     *)
(* shown, and launches the campaign that was made of it                    *)
(* (api/v1/regeneration.py, services/regeneration_campaign.py,             *)
(* services/regeneration_discovery.py, repositories/regeneration_sources.py *)
(* and regeneration_targets.py).                                           *)
(*                                                                         *)
(* A request is several transactions with scans of Notion between them,    *)
(* which hold no lock: each transaction and each scan is a step, and       *)
(* lessons, pages, workers, settings and other campaigns move in between.  *)
(* What becomes of a campaign afterwards is the matter of Campaign; here   *)
(* its rows only reserve their version and end.                            *)
(***************************************************************************)
EXTENDS Integers, FiniteSetsExt, PhasePlan, Executability, Destination

CONSTANTS
  Lineages,    \* lessons, each in one of its languages
  Drafts,      \* the campaigns that may be made
  Desks,       \* requests in progress
  Offers,      \* what operators ask for: [lineages, version, ask, contract, overrides]
  Snapshots,   \* what the phase rows of a source job may be
  Places,      \* what is known of a lesson in Notion, and is there: [mark, pages]
  Fleets,      \* workers and settings: [workers, paused, defaults, retired, notion]
  Openings,    \* bound: how things stand when we start to look: [shots, place, fleet]
  MaxTargets,  \* regeneration_max_campaign_targets
  MaxV1,       \* bound: ordinary jobs of a lesson
  MaxEvents,   \* bound: requests and moves of the surroundings
  MaxMoves     \* bound: of these, the surroundings move among the first only

\* A campaign asks for a version beyond the first, of some lessons
\* (CampaignSelectionIn, require_bounded_selection); and pages have ids.
ASSUME PlanningAssumptions ==
  /\ MaxTargets \in Nat /\ MaxV1 \in Nat /\ MaxEvents \in Nat /\ MaxMoves \in Nat
  /\ \A p \in Places \cup {o.place : o \in Openings} : \A page \in p.pages : page.id # NoPage
  /\ \A o \in Offers : /\ o.version \in Nat /\ o.version >= 2
                       /\ o.lineages \subseteq Lineages /\ o.lineages # {}
                       /\ o.ask \in PhaseAsks

VARIABLES
  lessons,  \* per lineage: ordinary jobs, snapshot of the source, mark and pages
  fleet,
  drafts,   \* the campaign rows; shown and receipt are for checking only
  rows,     \* their target rows
  desks,    \* what a request in progress has read
  events    \* bound: requests and moves so far

planVars == <<lessons, fleet, drafts, rows, desks, events>>

NoDraft == [made |-> FALSE]
NoRow   == [status |-> "none", consumed |-> 0]
Idle    == [pc |-> "idle"]

RowsOf(d)    == {l \in Lineages : rows[d][l].status # "none"}
Live(d, l) == rows[d][l].status = "planned"

PlanInit ==
  /\ \E o \in Openings :
       /\ lessons = [l \in Lineages |-> [v1 |-> 1, shots |-> o.shots, place |-> o.place]]
       /\ fleet = o.fleet
  /\ drafts = [d \in Drafts |-> NoDraft]
  /\ rows = [d \in Drafts |-> [l \in Lineages |-> NoRow]]
  /\ desks = [k \in Desks |-> Idle]
  /\ events = 0

-----------------------------------------------------------------------------
(* What a lesson is regenerated from.                                      *)

\* The versions of a lineage that were published from campaigns.
PublishedVersions(l) ==
  {rows[d][l].consumed : d \in {e \in Drafts : rows[e][l].status = "published"}}

\* latest_published_target; the ordinary homework is version 1.
Newest(l) == Max(PublishedVersions(l) \cup {1})

\* _pick_source_job: the latest published revision, else the latest ordinary job.
SourceJob(l) == <<Newest(l), IF Newest(l) = 1 THEN lessons[l].v1 ELSE 1>>

Eligible(l) == SourceJob(l)[2] > 0 /\ WholeSnapshot(lessons[l].shots)

\* EligibleRegenerationSource: a revision was published whatever the marks say.
SourceOf(l) ==
  LET mark == lessons[l].place.mark IN
  [job       |-> SourceJob(l),
   title     |-> mark.title, subject |-> mark.subject,
   hint      |-> mark.hint,  home    |-> mark.home, verified |-> mark.verified,
   published |-> mark.published \/ Newest(l) > 1]

\* list_source_candidates: lineages without a whole source are passed over.
Sources(ls) == [l \in {m \in ls : Eligible(m)} |-> SourceOf(l)]

Jobs(sources) == [l \in DOMAIN sources |-> sources[l].job]

\* publication_version_conflicts.
Conflicts(sources, version) ==
  {l \in DOMAIN sources : \/ sources[l].job[1] >= version
                          \/ \E d \in Drafts : rows[d][l].consumed = version}

\* require_selection_within_cap, and NoEligibleTargets.
Manageable(sources) == DOMAIN sources # {} /\ Cardinality(DOMAIN sources) <= MaxTargets

\* Mutant of Active: a draft that nothing was spent on holds no lesson.
ActiveOncePaid(ls) == \E d \in Drafts, l \in ls : Live(d, l) /\ drafts[d].paid

\* active_targets_for_lineages.
Active(ls) == \E d \in Drafts, l \in ls : Live(d, l)

-----------------------------------------------------------------------------
(* The Notion destinations.                                                *)

\* resolve_destinations: nothing is scanned without Notion, nor with an override
\* for a lineage that is proved.  Notion may fail as well (Leave).
Scannable(sources, overrides) ==
  fleet.notion /\ \A l \in DOMAIN sources : Overridable(sources[l], overrides[l])

Scan(sources, version, overrides) ==
  [l \in DOMAIN sources |->
     Destined(sources[l], version, overrides[l], lessons[l].place.pages)]

AllDecided(proof) == \A l \in DOMAIN proof : Decided(proof[l])

\* Mutant of Digest: which lesson page was shown does not count.
DigestOfPolicies(version, proof) ==
  <<version, [l \in DOMAIN proof |-> [proof[l] EXCEPT !.topic = NoPage]]>>

\* destination_digest, of which SHA-256 is taken to tell all values apart.
Digest(version, proof) == <<version, proof>>

\* The columns of the reviewed destination.
Frozen(decision) ==
  [title           |-> decision.title,
   containerPolicy |-> decision.containerPolicy, container |-> decision.container,
   topicPolicy     |-> decision.topicPolicy,     topic     |-> decision.topic]

-----------------------------------------------------------------------------
(* The check of the destinations, and a draft.                             *)

Turn(k, desk) == desks' = [desks EXCEPT ![k] = desk]
At(k, pc) == desks[k].pc = pc
Surroundings == <<lessons, fleet>>
Event == events < MaxEvents /\ events' = events + 1

\* Requests are interchangeable, and so are campaigns that are not made.
Spare(k) == At(k, "idle") /\ k = CHOOSE j \in Desks : At(j, "idle")
Fresh(d) == ~drafts[d].made /\ d = CHOOSE e \in Drafts : ~drafts[e].made

\* A request goes on with what it has.
Further(k, pc) ==
  Turn(k, [desks[k] EXCEPT !.pc = pc]) /\ UNCHANGED <<Surroundings, events, drafts, rows>>

\* load_destination_sources.
Loadable(sources, version) == Manageable(sources) /\ Conflicts(sources, version) = {}

\* POST /destinations.
Check(k, offer) ==
  LET sources == Sources(offer.lineages) IN
  /\ Spare(k) /\ Event /\ fleet.notion /\ Loadable(sources, offer.version)
  /\ Turn(k, [pc |-> "checking", offer |-> offer, sources |-> sources])
  /\ UNCHANGED <<Surroundings, drafts, rows>>

\* The answer; the operator keeps its digest.
Show(k) ==
  LET desk == desks[k] IN
  /\ At(k, "checking") /\ Scannable(desk.sources, desk.offer.overrides)
  /\ Turn(k, [pc |-> "reviewing", offer |-> desk.offer,
              shown |-> Scan(desk.sources, desk.offer.version, desk.offer.overrides)])
  /\ UNCHANGED <<Surroundings, events, drafts, rows>>

\* _resolve_contract_once.
Acceptance(contract) ==
  Concrete(contract) /\ AllApi(contract) /\ AllLive(contract, fleet.retired)

\* POST /campaigns, prepare_campaign.
Prepare(k) ==
  LET desk     == desks[k]
      offer    == desk.offer
      sources  == Sources(offer.lineages)
      contract == ResolvedContract(offer.contract, fleet.defaults) IN
  /\ At(k, "reviewing") /\ fleet.notion
  /\ ValidContract(offer.contract) /\ Acceptance(contract)
  /\ Manageable(sources) /\ ~Active(DOMAIN sources)
  /\ Conflicts(sources, offer.version) = {}
  /\ Executable(contract, fleet.workers, fleet.paused)
  /\ Plannable(offer.ask)
  /\ Turn(k, [pc |-> "prepared", offer |-> offer, shown |-> desk.shown,
              sources |-> sources, contract |-> contract])
  /\ UNCHANGED <<Surroundings, events, drafts, rows>>

\* resolve_prepared_destinations.
Prove(k) ==
  LET desk == desks[k] IN
  /\ At(k, "prepared") /\ Scannable(desk.sources, desk.offer.overrides)
  /\ Turn(k, [pc |-> "proved", offer |-> desk.offer, shown |-> desk.shown,
              sources |-> desk.sources, contract |-> desk.contract,
              proof |-> Scan(desk.sources, desk.offer.version, desk.offer.overrides)])
  /\ UNCHANGED <<Surroundings, events, drafts, rows>>

\* insert_prepared_campaign is one transaction, and yet each of its queries sees
\* what others have committed by then (READ COMMITTED): it lists the sources ...
Relist(k) ==
  LET desk == desks[k] IN
  /\ At(k, "proved")
  /\ AllDecided(desk.proof)
  /\ Digest(desk.offer.version, desk.proof) = Digest(desk.offer.version, desk.shown)
  /\ Jobs(Sources(desk.offer.lineages)) = Jobs(desk.sources)
  /\ Further(k, "listed")

\* ... looks for live rows of their lineages ...
Unclaimed(k) ==
  /\ At(k, "listed") /\ ~Active(DOMAIN desks[k].sources)
  /\ Further(k, "unclaimed")

\* ... and for the version, held against the sources as they were listed, and for
\* a worker ...
Clear(k) ==
  LET desk == desks[k] IN
  /\ At(k, "unclaimed") /\ Conflicts(desk.sources, desk.offer.version) = {}
  /\ Executable(desk.contract, fleet.workers, fleet.paused)
  /\ Further(k, "clear")

\* ... and inserts the campaign with a row for each source.  Only the partial
\* unique index on live rows is enforced then: IntegrityError (Leave) otherwise.
Insert(k, d) ==
  LET desk == desks[k] IN
  /\ At(k, "clear") /\ Fresh(d) /\ ~Active(DOMAIN desk.sources)
  /\ drafts' = [drafts EXCEPT ![d] =
       [made |-> TRUE, offer |-> desk.offer, contract |-> desk.contract, paid |-> FALSE,
        approved |-> FALSE, closed |-> FALSE, shown |-> desk.shown,
        receipt |-> [proof |-> <<>>, claimers |-> {}]]]
  /\ rows' = [rows EXCEPT ![d] = [l \in Lineages |->
       IF l \in DOMAIN desk.sources
       THEN [status |-> "planned", consumed |-> 0, source |-> desk.sources[l].job,
             plan |-> Plan(desk.offer.ask), decision |-> Frozen(desk.proof[l])]
       ELSE NoRow]]
  /\ Turn(k, Idle) /\ UNCHANGED <<Surroundings, events>>

-----------------------------------------------------------------------------
(* The launch.                                                             *)

\* _assert_canary_launchable, and _stored_contract with the check of the workers.
Launchable(d) ==
  /\ drafts[d].made /\ ~drafts[d].approved /\ ~drafts[d].closed
  /\ Acceptance(drafts[d].contract)
  /\ Executable(drafts[d].contract, fleet.workers, fleet.paused)

\* The sources of the lessons are those that the rows were made of.
StillOf(d, sources) == Jobs(sources) = [l \in RowsOf(d) |-> rows[d][l].source]

\* POST /campaigns/{id}/canary: the sources are still those of the rows.  What the
\* first transaction reads besides never changes or is read again by the last.
Reload(k, d) ==
  /\ Spare(k) /\ Event /\ fleet.notion /\ Launchable(d)
  /\ LET sources == Sources(drafts[d].offer.lineages) IN
     /\ Loadable(sources, drafts[d].offer.version)
     /\ StillOf(d, sources)
     /\ Turn(k, [pc |-> "reloaded", draft |-> d, sources |-> sources])
  /\ UNCHANGED <<Surroundings, drafts, rows>>

\* A page that was reviewed and is not the remembered one is asked for again.
Recalled(d, sources) ==
  [l \in DOMAIN sources |->
     LET decision == rows[d][l].decision IN
     IF decision.topicPolicy = "reuse" /\ decision.topic # sources[l].hint
     THEN decision.topic ELSE NoPage]

\* The scan of the launch has to find every reviewed destination unchanged.
Reprove(k) ==
  LET desk      == desks[k]
      overrides == Recalled(desk.draft, desk.sources)
      proof     == Scan(desk.sources, drafts[desk.draft].offer.version, overrides) IN
  /\ At(k, "reloaded") /\ Scannable(desk.sources, overrides)
  /\ AllDecided(proof)
  /\ \A l \in DOMAIN proof : Frozen(proof[l]) = rows[desk.draft][l].decision
  /\ Turn(k, [pc |-> "reproved", draft |-> desk.draft, proof |-> proof])
  /\ UNCHANGED <<Surroundings, events, drafts, rows>>

\* The workers that the claim query would give the campaign's jobs to.
Claimers(contract) ==
  {w \in fleet.workers : /\ w.online /\ w.status = "online"
                         /\ ClaimGate(contract, w.keys, fleet.paused)}

\* preflight_notion_destinations: Notion has a page for the lesson's subject.
Homed(l) == lessons[l].place.mark.subject # NoPage

\* _preflight, for a row that has not ended.
Publishable(l) == Eligible(l) /\ Homed(l)

\* The first paid jobs; a launch may be repeated until it is approved or stopped.
Pay(k) ==
  LET d == desks[k].draft IN
  /\ At(k, "reproved") /\ Launchable(d)
  /\ \A l \in RowsOf(d) : Live(d, l) => Publishable(l)
  /\ drafts' = [drafts EXCEPT ![d].paid = TRUE,
       ![d].receipt = [proof |-> desks[k].proof, claimers |-> Claimers(drafts[d].contract)]]
  /\ Turn(k, Idle) /\ UNCHANGED <<Surroundings, events, rows>>

\* A refusal, a failure of Notion or the death of the process, at any point.
Leave(k) ==
  /\ ~At(k, "idle") /\ Turn(k, Idle) /\ UNCHANGED <<Surroundings, events, drafts, rows>>

-----------------------------------------------------------------------------
(* What happens to the campaign then (see Campaign).                       *)

\* approve_canary.
Accept(d) ==
  /\ drafts[d].made /\ drafts[d].paid /\ ~drafts[d].approved /\ ~drafts[d].closed
  /\ drafts' = [drafts EXCEPT ![d].approved = TRUE]
  /\ UNCHANGED <<Surroundings, events, desks, rows>>

\* cancel_campaign, reject_canary.
Close(d) ==
  /\ drafts[d].made /\ ~drafts[d].closed
  /\ drafts' = [drafts EXCEPT ![d].closed = TRUE]
  /\ UNCHANGED <<Surroundings, events, desks, rows>>

Consumable(d, l) ==
  \A e \in Drafts \ {d} : rows[e][l].consumed # drafts[d].offer.version

\* reserve_publication_version: PublicationVersionUnavailable unless Consumable.
Reserve(d, l) ==
  /\ drafts[d].made /\ drafts[d].approved /\ Live(d, l) /\ rows[d][l].consumed = 0
  /\ Consumable(d, l)
  /\ rows' = [rows EXCEPT ![d][l].consumed = drafts[d].offer.version]
  /\ UNCHANGED <<Surroundings, events, desks, drafts>>

\* A row is published once it has its version, or is abandoned with or without.
Conclude(d, l) ==
  /\ Live(d, l)
  /\ \/ rows[d][l].consumed # 0 /\ rows' = [rows EXCEPT ![d][l].status = "published"]
     \/ rows' = [rows EXCEPT ![d][l].status = "abandoned"]
  /\ UNCHANGED <<Surroundings, events, desks, drafts>>

-----------------------------------------------------------------------------
(* The surroundings.                                                       *)

Move == events < MaxMoves /\ Event /\ UNCHANGED <<drafts, rows, desks>>

\* One more ordinary job of the lesson is done.
Renew(l) ==
  /\ Move /\ lessons[l].v1 < MaxV1 /\ UNCHANGED fleet
  /\ \E s \in Snapshots :
       lessons' = [lessons EXCEPT ![l].v1 = @ + 1, ![l].shots = s]

\* Phases are retried, the archive remembers a page, somebody edits Notion.
Disturb(l) ==
  /\ Move /\ UNCHANGED fleet
  /\ \/ \E s \in Snapshots : lessons' = [lessons EXCEPT ![l].shots = s]
     \/ \E p \in Places : lessons' = [lessons EXCEPT ![l].place = p]

\* Workers come, go and change keys; a budget pauses; settings are edited.
Refit == Move /\ fleet' \in Fleets /\ UNCHANGED lessons

-----------------------------------------------------------------------------
PlanNext ==
  \/ \E k \in Desks :
       \/ Show(k) \/ Prepare(k) \/ Prove(k) \/ Relist(k) \/ Unclaimed(k) \/ Clear(k)
       \/ Reprove(k) \/ Pay(k) \/ Leave(k)
       \/ \E o \in Offers : Check(k, o)
       \/ \E d \in Drafts : Insert(k, d) \/ Reload(k, d)
  \/ \E d \in Drafts : Accept(d) \/ Close(d) \/ \E l \in Lineages : Reserve(d, l) \/ Conclude(d, l)
  \/ \E l \in Lineages : Renew(l) \/ Disturb(l)
  \/ Refit

PlanSpec == PlanInit /\ [][PlanNext]_planVars

-----------------------------------------------------------------------------
(* Properties.                                                             *)

\* What a campaign freezes serves as long as its rows live, whatever other
\* requests and campaigns did between the reads it was made of.  Each live row
\* is the only one of its lineage; its plan reads back, and whatever goes stale in
\* it was acknowledged; its destination is decided whole.  A draft may still be
\* of a source that was superseded while it was made.  Once it is paid for it is
\* not: its live rows are of the newest published version, and the version they
\* will ask for is newer than that and taken by no other row, so that the
\* publisher, weeks later, does not meet PublicationVersionUnavailable.
FrozenServes ==
  \A d \in Drafts, l \in Lineages : Live(d, l) =>
    LET row == rows[d][l]  draft == drafts[d] IN
    /\ draft.made /\ \A e \in Drafts \ {d} : ~Live(e, l)
    /\ Readable(row.plan) /\ (row.plan.broken = {} \/ draft.offer.ask.acknowledged)
    /\ WholeReview(row.decision)
    /\ draft.paid =>
         /\ row.source[1] = Newest(l) /\ Newest(l) < draft.offer.version
         /\ \A e \in Drafts \ {d} : rows[e][l].consumed # draft.offer.version

\* Nothing is paid for but what an operator was shown: page by page, the check
\* before the draft, the scan of its creation (which the rows keep) and the scan
\* of its launch agree.  And some live worker could claim the jobs at that time,
\* by the rule of the claim query, not by that of the check.
PaidAsShown ==
  \A d \in Drafts : drafts[d].made /\ drafts[d].paid =>
    /\ \A l \in RowsOf(d) :
         /\ rows[d][l].decision = Frozen(drafts[d].shown[l])
         /\ rows[d][l].decision = Frozen(drafts[d].receipt.proof[l])
    /\ drafts[d].receipt.claimers # {}
=============================================================================
