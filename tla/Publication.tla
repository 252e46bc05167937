---------------------------- MODULE Publication ----------------------------
(***************************************************************************)
(* The delivery of released revision targets to Notion by the publishers   *)
(* (services/regeneration_publisher.py, the claim and the reservation of   *)
(* repositories/regeneration_targets.py and the page writer of             *)
(* services/notion_versioned_homework.py), with the operator's retry and   *)
(* abandonment.  The targets belong to one lesson and language, one        *)
(* campaign after the other; every transaction locks the campaign and then *)
(* the target, so that it is one step here.  Every remote call is a step   *)
(* of its own, may fail with or without effect, and may outlive the lease. *)
(***************************************************************************)
EXTENDS Naturals, Sequences, FiniteSets, FiniteSetsExt

CONSTANTS
  Publishers,   \* processes that run a RegenerationPublisher
  Targets,
  Declared,     \* publication_version of each target's campaign, 0 for none
  MaxAttempts,  \* regeneration_publisher_max_attempts
  MaxEvents,    \* bound: crashes, overrun leases, operator actions, human pages
  MaxPages,     \* bound: pages under the lesson
  Human         \* the owner of a page that carries no marker of ours

ASSUME Assumptions ==
  /\ Declared \in [Targets -> Nat \ {1}]
  /\ MaxAttempts \in Nat \ {0} /\ MaxEvents \in Nat /\ MaxPages \in Nat
  /\ Human \notin Targets

VARIABLES
  row,     \* the target rows
  pub,     \* the publishers
  pages,   \* the pages titled Homework V{n} beneath the lesson, oldest first
  claims,  \* claims so far: each claim token is a new number
  events,  \* bound: events so far
  overrun  \* checking only: a lease has ended under a delivery

vars == <<row, pub, pages, claims, events, overrun>>

\* The columns of a target.  token 0 is NULL, retry says that
\* publication_next_attempt_at is set, error that publication_last_error is.
NewRow == [status |-> "absent", token |-> 0, attempts |-> 0, retry |-> FALSE,
           error |-> FALSE, version |-> 0, page |-> 0, abandon |-> FALSE]

Idle == [pc |-> "idle", target |-> Human, token |-> 0, attempts |-> 0,
         version |-> 0, page |-> 0]

Init ==
  /\ row = [t \in Targets |-> NewRow]
  /\ pub = [p \in Publishers |-> Idle]
  /\ pages = << >> /\ claims = 0 /\ events = 0 /\ overrun = FALSE

Event == events < MaxEvents /\ events' = events + 1

Terminal == {"published", "abandoned"}
Live(t) == row[t].status \notin Terminal \cup {"absent"}

-----------------------------------------------------------------------------
(* The life of a target before its delivery.                               *)

\* create_target: the index refuses a second live target of the lineage.
Create(t) ==
  /\ row[t].status = "absent" /\ \A u \in Targets : ~Live(u)
  /\ row' = [row EXCEPT ![t].status = "planned"]
  /\ UNCHANGED <<pub, pages, claims, events, overrun>>

\* The revision job is created, ends well and the campaign is approved.
Generate(t) ==
  /\ \/ row[t].status = "planned" /\ row' = [row EXCEPT ![t].status = "generating"]
     \/ row[t].status = "generating"
        /\ row' = [row EXCEPT ![t].status = "publication_pending"]
  /\ UNCHANGED <<pub, pages, claims, events, overrun>>

-----------------------------------------------------------------------------
(* The pass of a publisher.                                                *)

Holds(p) == LET t == pub[p].target IN row[t].token = pub[p].token
HeldBy(t) == {q \in Publishers : pub[q].pc # "idle" /\ pub[q].target = t /\ Holds(q)}

\* Mutant of Claimable: a dead publisher's row is never taken over.
ClaimableUnheld(t) ==
  \/ row[t].status = "publication_pending"
  \/ row[t].status = "publication_failed" /\ row[t].retry

\* _claimable: released, due for a retry, or publishing under an ended lease.
\* The lease of a dead publisher ends in time; that of a slow one may.
Claimable(t) ==
  \/ row[t].status = "publication_pending"
  \/ row[t].status = "publication_failed" /\ row[t].retry
  \/ row[t].status = "publishing"

\* The attempts restart for a release that carries no failure.
Attempts(t) ==
  IF row[t].status = "publication_pending" /\ ~row[t].error THEN 1 ELSE row[t].attempts + 1

\* claim_next_publication, with the terms under which a live holder is robbed.
Claim(p, t) ==
  /\ pub[p].pc = "idle" /\ Claimable(t)
  /\ IF row[t].status = "publishing" /\ HeldBy(t) # {}
     THEN Event /\ overrun' = TRUE ELSE UNCHANGED <<events, overrun>>
  /\ claims' = claims + 1
  /\ row' = [row EXCEPT ![t].status = "publishing", ![t].token = claims',
                        ![t].attempts = Attempts(t)]
  /\ pub' = [pub EXCEPT ![p] = [Idle EXCEPT !.pc = "prepare", !.target = t,
                                !.token = claims', !.attempts = Attempts(t)]]
  /\ UNCHANGED pages

Goto(p, pc) == pub' = [pub EXCEPT ![p].pc = pc]
Leave(p) == pub' = [pub EXCEPT ![p] = Idle]

\* A pass ends its delivery in "retry" or "park", to be resolved as a failure,
\* or in "delivered".
Fails(p, how) == Goto(p, how) /\ UNCHANGED <<row, pages, claims, events, overrun>>

\* Mutant of Consumed: the version of an abandoned target is used again.
ConsumedUnlessAbandoned(t) ==
  {row[u].version : u \in {v \in Targets \ {t} : row[v].status # "abandoned"}} \ {0}

\* The versions that other targets of the lineage have reserved.
Consumed(t) == {row[u].version : u \in Targets \ {t}} \ {0}

\* reserve_publication_version: what it reserves, and whether it can.
Requested(t) ==
  CASE row[t].version # 0 -> row[t].version
    [] row[t].version = 0 /\ Declared[t] # 0 -> Declared[t]
    [] OTHER -> Max(Consumed(t) \cup {1}) + 1

\* _prepare.  It also refuses for good a target without a finished, complete
\* job, without a destination or with a corrupt review, and may fail.
Prepare(p) ==
  LET t == pub[p].target IN
  /\ pub[p].pc = "prepare"
  /\ \/ ~Holds(p) /\ Leave(p) /\ UNCHANGED <<row, pages, claims, events, overrun>>
     \/ Holds(p) /\ row[t].abandon /\ Fails(p, "retry")
     \/ Holds(p) /\ ~row[t].abandon /\ (Fails(p, "park") \/ Fails(p, "retry"))
     \/ /\ Holds(p) /\ ~row[t].abandon /\ Requested(t) \notin Consumed(t)
        /\ row' = [row EXCEPT ![t].version = Requested(t)]
        /\ pub' = [pub EXCEPT ![p].pc = "parent", ![p].version = Requested(t)]
        /\ UNCHANGED <<pages, claims, events, overrun>>

\* _resolve_lesson_parent: another destination than the reviewed one parks.
ResolveParent(p) ==
  /\ pub[p].pc = "parent"
  /\ Fails(p, "stamp_lesson") \/ Fails(p, "park") \/ Fails(p, "retry")

\* _stamp_lesson_page, fenced by the claim; a lesson whose page is known is not
\* stamped, and the claim not looked at.
StampLesson(p) ==
  /\ pub[p].pc = "stamp_lesson" /\ UNCHANGED <<row, pages, claims, events, overrun>>
  /\ Goto(p, "find") \/ (~Holds(p) /\ Leave(p))

-----------------------------------------------------------------------------
(* write_or_adopt_versioned_homework, one remote call per step.            *)

Titled(v) == {i \in DOMAIN pages : pages[i].version = v}

\* Mutant of Ours: a page is recognised by its title.
OursByTitle(p, i) == TRUE

\* The marker names the target (its lesson, language, job, campaign, version).
Ours(p, i) == pages[i].marker = pub[p].target

\* Mutant of Complete: any page of ours counts as published.
CompleteIfOurs(i) == TRUE

\* A completion stamp binds the marker and the payload, which is the same for
\* every attempt of one target.
Complete(i) == pages[i].stamped

\* _resolve_root and the completion stamp it finds.  A stored page id exists
\* only on a published row.
Find(p) ==
  LET found == Titled(pub[p].version) IN
  /\ pub[p].pc = "find" /\ UNCHANGED <<row, pages, claims, events, overrun>>
  /\ \/ found = {} /\ Goto(p, "create")
     \/ /\ found # {}
        /\ IF Cardinality(found) > 1 \/ \E i \in found : ~Ours(p, i) THEN Goto(p, "park")
           ELSE \E i \in found :
             pub' = [pub EXCEPT ![p].page = i,
                       ![p].pc = IF Complete(i) THEN "delivered" ELSE "clear"]
     \/ Goto(p, "retry")

Page(owner, v) == [marker |-> owner, version |-> v, copies |-> 0, stamped |-> FALSE]

\* create_page, with the marker as its first block; the answer may be lost.
CreatePage(p) ==
  /\ pub[p].pc = "create" /\ UNCHANGED <<row, claims, events, overrun>>
  /\ \/ Goto(p, "retry") /\ UNCHANGED pages
     \/ /\ Len(pages) < MaxPages
        /\ pages' = Append(pages, Page(pub[p].target, pub[p].version))
        /\ \/ pub' = [pub EXCEPT ![p].page = Len(pages'), ![p].pc = "clear"]
           \/ Goto(p, "retry")

\* write_homework_layout with replace: the leaves are cleared and written, and
\* the page is stamped last.
Write(p, at, then, page) ==
  /\ pub[p].pc = at /\ UNCHANGED <<row, claims, events, overrun>>
  /\ \/ Goto(p, "retry") /\ UNCHANGED pages
     \/ /\ pages' = [pages EXCEPT ![pub[p].page] = page]
        /\ Goto(p, then) \/ Goto(p, "retry")

\* Mutant of Cleared: leaves that have content are written again as they are.
ClearedNever(page) == page

\* clear_content_blocks of every leaf that has content.
Cleared(page) == [page EXCEPT !.copies = 0]

Written(p) == pages[pub[p].page]
Clear(p) == Write(p, "clear", "fill", Cleared(Written(p)))
Fill(p)  == Write(p, "fill", "stamp",
                  [Written(p) EXCEPT !.copies = IF @ = 2 THEN 2 ELSE @ + 1])
Stamp(p) == Write(p, "stamp", "delivered", [Written(p) EXCEPT !.stamped = TRUE])

-----------------------------------------------------------------------------
(* The resolution, fenced by the claim.                                    *)

\* Mutant of Fenced: the outcome is fenced by the status alone.
FencedByStatus(p) == row[pub[p].target].status = "publishing"

\* expected_statuses and expected_claim_token of set_target_status.
Fenced(p) == row[pub[p].target].status = "publishing" /\ Holds(p)

Resolve(p, columns) ==
  /\ row' = IF Fenced(p) THEN [row EXCEPT ![pub[p].target] = columns] ELSE row
  /\ Leave(p) /\ UNCHANGED <<pages, claims, events, overrun>>

\* _resolve_published, blind to the wish to abandon.
ResolvePublished(p) ==
  LET r == row[pub[p].target] IN
  /\ pub[p].pc = "delivered"
  /\ Resolve(p, [r EXCEPT !.status = "published", !.page = pub[p].page, !.token = 0,
                          !.retry = FALSE, !.error = FALSE])

\* _resolve_failure: abandoned, to be retried, or parked for an operator.
ResolveFailure(p) ==
  LET r == row[pub[p].target] IN
  /\ pub[p].pc \in {"retry", "park"}
  /\ Resolve(p,
       IF r.abandon
       THEN [r EXCEPT !.status = "abandoned", !.token = 0, !.retry = FALSE, !.error = TRUE]
       ELSE [r EXCEPT !.status = "publication_failed", !.token = 0, !.error = TRUE,
               !.retry = pub[p].pc = "retry" /\ pub[p].attempts < MaxAttempts])

\* The process dies, or its pass ends in an error that resolves nothing.
Crash(p) ==
  /\ pub[p].pc # "idle" /\ Event /\ Leave(p)
  /\ UNCHANGED <<row, pages, claims, overrun>>

-----------------------------------------------------------------------------
(* Operators and people.                                                   *)

\* retry_publication keeps the version, the page and the attempts.
Requeued(r) ==
  [r EXCEPT !.status = "publication_pending", !.token = 0, !.retry = FALSE, !.error = FALSE]

RetryPublication(t) ==
  /\ Event /\ row[t].status = "publication_failed" /\ ~row[t].abandon
  /\ row' = [row EXCEPT ![t] = Requeued(@)]
  /\ UNCHANGED <<pub, pages, claims, overrun>>

\* Mutant of Converged: a delivery is abandoned like anything else.
ConvergedAtOnce(r) == [r EXCEPT !.status = "abandoned", !.abandon = TRUE]

\* _converge_target of a released target: a delivery under way is only marked.
Converged(r) ==
  IF r.status = "publishing" THEN [r EXCEPT !.abandon = TRUE]
  ELSE [r EXCEPT !.status = "abandoned", !.abandon = TRUE]

\* abandon of the target or cancel of its campaign.
Abandon(t) ==
  /\ Event /\ ~row[t].abandon
  /\ row[t].status \in {"publication_pending", "publishing", "publication_failed"}
  /\ row' = [row EXCEPT ![t] = Converged(@)]
  /\ UNCHANGED <<pub, pages, claims, overrun>>

\* Somebody writes a page of that title by hand.
HumanPage(v) ==
  /\ Event /\ Len(pages) < MaxPages /\ pages' = Append(pages, Page(Human, v))
  /\ UNCHANGED <<row, pub, claims, overrun>>

-----------------------------------------------------------------------------
Pass(p) ==
  \/ Prepare(p) \/ ResolveParent(p) \/ StampLesson(p) \/ Find(p) \/ CreatePage(p)
  \/ Clear(p) \/ Fill(p) \/ Stamp(p) \/ ResolvePublished(p) \/ ResolveFailure(p)

Next ==
  \/ \E p \in Publishers : Pass(p) \/ Crash(p) \/ (\E t \in Targets : Claim(p, t))
  \/ \E t \in Targets : Create(t) \/ Generate(t) \/ RetryPublication(t) \/ Abandon(t)
  \/ \E v \in {2, 3} : HumanPage(v)

Spec == Init /\ [][Next]_vars

\* run_forever passes on, and some publisher polls as long as work is due.
FairSpec ==
  /\ Spec
  /\ \A p \in Publishers : WF_vars(Pass(p))
  /\ \A t \in Targets : WF_vars(\E p \in Publishers : Claim(p, t))

-----------------------------------------------------------------------------
(* Properties.                                                             *)

Statuses == {"absent", "planned", "generating", "publication_pending", "publishing",
             "publication_failed"} \cup Terminal

TypeOK ==
  /\ \A t \in Targets :
       /\ row[t].status \in Statuses /\ row[t].token \in 0 .. claims
       /\ row[t].token # 0 <=> row[t].status = "publishing"
       /\ row[t].retry => row[t].status \in {"publication_failed", "publishing", "abandoned"}
       /\ row[t].page \in 0 .. Len(pages)
  /\ \A p \in Publishers : pub[p].pc = "idle" <=> pub[p] = Idle
  /\ Len(pages) <= MaxPages /\ events \in 0 .. MaxEvents

\* A publisher writes only to its own: nothing to a target whose claim was taken
\* over, however late an answer arrives, and never to a page of somebody else.
WritesOnlyItsOwn ==
  [][/\ \A p \in Publishers :
          pub[p].pc # "idle" /\ ~Holds(p) /\ pub'[p] # pub[p] => row' = row
     /\ \A i \in DOMAIN pages : pages[i].marker = Human => pages'[i] = pages[i]]_vars

\* A published target names a page that carries its own marker and version and
\* was stamped as complete, whichever attempt wrote it.  As long as no delivery
\* outlives its lease, that page holds the homework exactly once, through every
\* crash, lost answer and retry, and the target has no second page.
PublishedOnce ==
  /\ TypeOK
  /\ \A t \in Targets : row[t].status = "published" =>
       /\ row[t].page # 0
       /\ LET page == pages[row[t].page] IN
            /\ page.marker = t /\ page.version = row[t].version /\ page.stamped
            /\ ~overrun => page.copies = 1
  /\ ~overrun => \A t \in Targets :
       Cardinality({i \in DOMAIN pages : pages[i].marker = t}) <= 1

\* A released delivery ends: published, abandoned, or parked for an operator.
Settled(t) ==
  \/ row[t].status \in Terminal
  \/ row[t].status = "publication_failed" /\ ~row[t].retry

DeliveryEnds ==
  \A t \in Targets : (row[t].status \in {"publication_pending", "publishing"}) ~> Settled(t)

\* The rows live the life of a target, and a version is consumed for ever.
Life == INSTANCE TargetLife WITH
  Lineage <- [t \in Targets |-> Human],
  status  <- [t \in Targets |-> row[t].status],
  version <- [t \in Targets |-> row[t].version]
LifeSpec == Life!Spec
=============================================================================
