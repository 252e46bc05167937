------------------------- MODULE RegenerationProofs -------------------------
(***************************************************************************)
(* The delivery of revision targets, for any number of publishers, targets *)
(* and pages: whose pages and rows a publisher writes, that no target is   *)
(* published twice, and that delivery implements TargetLife; and, last,    *)
(* what TargetLife guarantees of any targets and lineages.                 *)
(***************************************************************************)
EXTENDS Publication, FiniteSetTheorems, SequenceTheorems, TLAPS

-----------------------------------------------------------------------------
(* The types.                                                              *)

RowType == [status : Statuses, token : Nat, attempts : Nat, retry : BOOLEAN,
            error : BOOLEAN, version : Nat, page : Nat, abandon : BOOLEAN]

AtPage  == {"clear", "fill", "stamp", "delivered"}
AtWork  == {"parent", "stamp_lesson", "find", "create"} \cup AtPage
PubPcs  == {"idle", "prepare", "retry", "park"} \cup AtWork
PubType == [pc : PubPcs, target : Targets \cup {Human}, token : Nat, attempts : Nat,
            version : Nat, page : Nat]

PageType == [marker : Targets \cup {Human}, version : Nat, copies : Nat, stamped : BOOLEAN]

Typed ==
  /\ row \in [Targets -> RowType]
  /\ pub \in [Publishers -> PubType]
  /\ pages \in Seq(PageType)
  /\ claims \in Nat /\ events \in 0 .. MaxEvents /\ overrun \in BOOLEAN

\* A claim is of one publisher and names its target; the lease is the status.
ClaimsApart ==
  /\ \A t \in Targets : /\ row[t].token <= claims
                        /\ row[t].token # 0 <=> row[t].status = "publishing"
  /\ \A p \in Publishers : pub[p].pc = "idle" => pub[p] = Idle
  /\ \A p \in Publishers : pub[p].pc # "idle" =>
       pub[p].target \in Targets /\ pub[p].token \in 1 .. claims
  /\ \A p, q \in Publishers :
       pub[p].pc # "idle" /\ pub[q].pc # "idle" /\ pub[p].token = pub[q].token => p = q

\* One target of the lineage is live at a time.
OneLive == \A t, u \in Targets : Live(t) /\ Live(u) => t = u

\* The reserved versions differ, and each set of them has a largest.
VersionsApart ==
  /\ \A t, u \in Targets : row[t].version # 0 /\ row[t].version = row[u].version => t = u
  /\ \A t \in Targets : row[t].version # 1
  /\ \A t \in Targets : \E m \in Consumed(t) \cup {1} : \A n \in Consumed(t) \cup {1} : n <= m

\* A pass works on the version that its target has reserved and, from the page
\* on, on a page of its target.
WorksOnOwn ==
  \A p \in Publishers :
    /\ pub[p].pc \in AtWork =>
         pub[p].version # 0 /\ row[pub[p].target].version = pub[p].version
    /\ pub[p].pc \in AtPage =>
         /\ pub[p].page \in DOMAIN pages /\ pages[pub[p].page].marker = pub[p].target
         /\ pub[p].pc = "delivered" => pages[pub[p].page].stamped

\* A page of ours carries the version of its target, and a published target has
\* a complete one.
PagesMatch ==
  /\ \A i \in DOMAIN pages : pages[i].marker # Human =>
       /\ row[pages[i].marker].version # 0
       /\ pages[i].version = row[pages[i].marker].version
  /\ \A t \in Targets :
       /\ row[t].page <= Len(pages)
       /\ row[t].status = "published" =>
            /\ row[t].page # 0
            /\ pages[row[t].page].marker = t /\ pages[row[t].page].stamped

Bounded ==
  /\ \A t \in Targets :
       row[t].retry => row[t].status \in {"publication_failed", "publishing", "abandoned"}
  /\ Len(pages) <= MaxPages

DeliveryInv ==
  Typed /\ ClaimsApart /\ OneLive /\ VersionsApart /\ WorksOnOwn /\ PagesMatch /\ Bounded

-----------------------------------------------------------------------------
\* What a claim, a step of a pass and a resolution may do to one row.
LEMMA RequestedVersion ==
  ASSUME DeliveryInv, NEW t \in Targets, Requested(t) \notin Consumed(t)
  PROVE  /\ Requested(t) \in Nat \ {0, 1}
         /\ row[t].version # 0 => Requested(t) = row[t].version
         /\ \A u \in Targets \ {t} : row[u].version # Requested(t)
<1>1. Declared[t] # 0 => Declared[t] \in Nat \ {0, 1}
  BY Assumptions DEF Assumptions
<1>2. row[t].version \in Nat /\ row[t].version # 1
  BY DEF DeliveryInv, Typed, RowType, VersionsApart
<1>3. Max(Consumed(t) \cup {1}) \in Nat \ {0}
  <2>1. Consumed(t) \cup {1} \subseteq Nat \ {0}
    BY DEF DeliveryInv, Typed, RowType, Consumed
  <2>2. PICK m \in Consumed(t) \cup {1} : \A n \in Consumed(t) \cup {1} : n <= m
    BY DEF DeliveryInv, VersionsApart
  <2>3. Max(Consumed(t) \cup {1}) \in Consumed(t) \cup {1}
    BY <2>1, <2>2 DEF Max
  <2> QED BY <2>1, <2>3
<1>4. Requested(t) \in Nat \ {0, 1} /\ (row[t].version # 0 => Requested(t) = row[t].version)
  <2>1. CASE row[t].version # 0
    BY <1>2, <2>1 DEF Requested
  <2>2. CASE row[t].version = 0 /\ Declared[t] # 0
    BY <1>1, <2>2 DEF Requested
  <2>3. CASE row[t].version = 0 /\ Declared[t] = 0
    BY <1>3, <2>3 DEF Requested
  <2> QED BY <2>1, <2>2, <2>3
<1> QED BY <1>4 DEF Consumed

\* The next record of a publisher, whatever the step does to the pages.
Follows(p, k) ==
  /\ pub' = [pub EXCEPT ![p] = k]
  /\ k \in PubType
  /\ \/ k = Idle
     \/ /\ pub[p].pc # "idle" /\ k.pc # "idle"
        /\ k.target = pub[p].target /\ k.token = pub[p].token
        /\ k.pc \in AtWork => k.version # 0 /\ row[k.target].version = k.version
        /\ k.pc \in AtPage =>
             /\ k.page \in DOMAIN pages' /\ pages'[k.page].marker = k.target
             /\ k.pc = "delivered" => pages'[k.page].stamped

\* Pages are added, rewritten and stamped, and keep their marker and version.
Grows ==
  /\ pages' \in Seq(PageType) /\ Len(pages) <= Len(pages') /\ Len(pages') <= MaxPages
  /\ \A i \in DOMAIN pages :
       /\ pages'[i].marker = pages[i].marker /\ pages'[i].version = pages[i].version
       /\ pages[i].stamped => pages'[i].stamped
  /\ \A i \in DOMAIN pages' \ DOMAIN pages : pages'[i].marker # Human =>
       /\ row[pages'[i].marker].version # 0
       /\ pages'[i].version = row[pages'[i].marker].version

LEMMA PageTypes ==
  Typed => /\ Len(pages) \in Nat /\ DOMAIN pages = 1 .. Len(pages)
           /\ \A i \in DOMAIN pages : pages[i] \in PageType
<1> SUFFICES ASSUME Typed PROVE pages \in Seq(PageType)
  BY LenProperties
<1> QED BY DEF Typed

LEMMA IdleType == Idle \in PubType /\ Idle.pc = "idle"
BY DEF Idle, PubType, PubPcs, AtWork, AtPage

\* A step of a pass, or a page written by hand: the rows stay.
LEMMA PassKeeps ==
  ASSUME DeliveryInv, Grows, events' \in 0 .. MaxEvents, UNCHANGED <<row, claims, overrun>>,
         UNCHANGED pub \/ \E p \in Publishers : \E k \in PubType : Follows(p, k)
  PROVE  DeliveryInv'
<1> USE DEF DeliveryInv
<1>1. DOMAIN pages = 1 .. Len(pages) /\ DOMAIN pages' = 1 .. Len(pages')
      /\ Len(pages) \in Nat /\ Len(pages') \in Nat
  BY LenProperties DEF Typed, Grows
<1>2. DOMAIN pages \subseteq DOMAIN pages'
  BY <1>1 DEF Grows
<1>3. OneLive' /\ VersionsApart' /\ Bounded'
  BY DEF OneLive, Live, VersionsApart, Consumed, Bounded, Grows
<1>4. PagesMatch'
  <2>1. ASSUME NEW i \in DOMAIN pages', pages'[i].marker # Human
        PROVE  /\ row[pages'[i].marker].version # 0
               /\ pages'[i].version = row[pages'[i].marker].version
    BY <2>1 DEF Grows, PagesMatch
  <2>2. ASSUME NEW t \in Targets
        PROVE  /\ row[t].page <= Len(pages')
               /\ row[t].status = "published" =>
                    /\ row[t].page # 0
                    /\ pages'[row[t].page].marker = t /\ pages'[row[t].page].stamped
    <3>1. row[t].page \in Nat /\ row[t].page <= Len(pages)
      BY DEF Typed, RowType, PagesMatch
    <3>2. row[t].page # 0 => row[t].page \in DOMAIN pages
      BY <1>1, <3>1
    <3> QED BY <1>1, <3>1, <3>2 DEF Grows, PagesMatch
  <2> QED BY <2>1, <2>2 DEF PagesMatch
<1>5. CASE UNCHANGED pub
  <2>1. Typed' /\ ClaimsApart'
    BY <1>5 DEF Typed, ClaimsApart, Grows
  <2>2. WorksOnOwn'
    BY <1>2, <1>5 DEF WorksOnOwn, Grows
  <2> QED BY <1>3, <1>4, <2>1, <2>2
<1>6. ASSUME NEW p \in Publishers, NEW k \in PubType, Follows(p, k) PROVE DeliveryInv'
  <2>1. /\ pub' \in [Publishers -> PubType] /\ pub'[p] = k
        /\ \A q \in Publishers \ {p} : pub'[q] = pub[q]
    BY <1>6 DEF Follows, Typed
  <2>2. Typed'
    BY <2>1 DEF Typed, Grows
  <2>3. ClaimsApart'
    BY <1>6, <2>1, IdleType DEF ClaimsApart, Follows
  <2>4. WorksOnOwn'
    <3> SUFFICES ASSUME NEW q \in Publishers
                 PROVE  /\ pub'[q].pc \in AtWork =>
                             pub'[q].version # 0 /\ row[pub'[q].target].version = pub'[q].version
                        /\ pub'[q].pc \in AtPage =>
                             /\ pub'[q].page \in DOMAIN pages'
                             /\ pages'[pub'[q].page].marker = pub'[q].target
                             /\ pub'[q].pc = "delivered" => pages'[pub'[q].page].stamped
      BY DEF WorksOnOwn
    <3>1. CASE q = p
      BY <1>6, <2>1, <3>1, IdleType DEF Follows, AtWork, AtPage
    <3>2. CASE q # p
      BY <1>2, <2>1, <3>2 DEF WorksOnOwn, Grows
    <3> QED BY <3>1, <3>2
  <2> QED BY <1>3, <1>4, <2>2, <2>3, <2>4
<1> QED BY <1>5, <1>6

\* A row moves along an edge of its life and keeps its version.
RowMoves(t, r) ==
  /\ row' = [row EXCEPT ![t] = r] /\ r \in RowType
  /\ r.version = row[t].version /\ r.token \in {0, row[t].token}
  /\ r.token # 0 <=> r.status = "publishing"
  /\ r.status \notin Terminal \cup {"absent"} => Live(t) \/ \A u \in Targets : ~Live(u)
  /\ r.page <= Len(pages)
  /\ r.status = "published" =>
       r.page # 0 /\ pages[r.page].marker = t /\ pages[r.page].stamped
  /\ r.retry => r.status \in {"publication_failed", "publishing", "abandoned"}

LEMMA MoveKeeps ==
  ASSUME DeliveryInv, NEW t \in Targets, NEW r \in RowType, RowMoves(t, r),
         events' \in 0 .. MaxEvents, UNCHANGED <<pages, claims, overrun>>,
         UNCHANGED pub \/ \E p \in Publishers : pub' = [pub EXCEPT ![p] = Idle]
  PROVE  DeliveryInv'
<1> USE DEF DeliveryInv
<1>1. /\ row' \in [Targets -> RowType] /\ row'[t] = r
      /\ \A u \in Targets \ {t} : row'[u] = row[u]
      /\ \A u \in Targets : row'[u].version = row[u].version
  BY DEF RowMoves, Typed
<1>2. /\ pub' \in [Publishers -> PubType]
      /\ \A p \in Publishers : pub'[p] \in {Idle, pub[p]}
  BY IdleType DEF Typed
<1>3. Typed'
  BY <1>1, <1>2 DEF Typed
<1>4. ClaimsApart'
  <2>1. \A u \in Targets : /\ row'[u].token <= claims
                           /\ row'[u].token # 0 <=> row'[u].status = "publishing"
    BY <1>1 DEF RowMoves, ClaimsApart, Typed
  <2> QED BY <1>2, <2>1, IdleType DEF ClaimsApart
<1>5. OneLive'
  <2>1. \A u \in Targets \ {t} : Live(u)' <=> Live(u)
    BY <1>1 DEF Live
  <2>2. Live(t)' => Live(t) \/ \A u \in Targets : ~Live(u)
    BY <1>1 DEF RowMoves, Live
  <2> QED BY <2>1, <2>2 DEF OneLive
<1>6. VersionsApart'
  <2>1. \A u \in Targets : Consumed(u)' = Consumed(u)
    BY <1>1 DEF Consumed
  <2> QED BY <1>1, <2>1 DEF VersionsApart
<1>7. WorksOnOwn'
  BY <1>1, <1>2, IdleType DEF WorksOnOwn, AtWork, AtPage, ClaimsApart
<1>8. PagesMatch'
  <2>1. \A i \in DOMAIN pages : pages[i].marker \in Targets \cup {Human}
    BY PageTypes DEF PageType
  <2>2. ASSUME NEW u \in Targets
        PROVE  /\ row'[u].page <= Len(pages)
               /\ row'[u].status = "published" =>
                    /\ row'[u].page # 0
                    /\ pages[row'[u].page].marker = u /\ pages[row'[u].page].stamped
    BY <1>1 DEF RowMoves, PagesMatch
  <2> QED BY <1>1, <2>1, <2>2 DEF PagesMatch
<1>9. Bounded'
  BY <1>1 DEF RowMoves, Bounded
<1> QED BY <1>3, <1>4, <1>5, <1>6, <1>7, <1>8, <1>9

LEMMA ClaimKeeps ==
  ASSUME DeliveryInv, NEW p \in Publishers, NEW t \in Targets, Claim(p, t)
  PROVE  DeliveryInv'
<1> USE DEF DeliveryInv
<1> DEFINE r == [row[t] EXCEPT !.status = "publishing", !.token = claims', !.attempts = Attempts(t)]
           k == [Idle EXCEPT !.pc = "prepare", !.target = t, !.token = claims',
                             !.attempts = Attempts(t)]
<1>1. /\ pub[p].pc = "idle" /\ claims' = claims + 1 /\ claims \in Nat
      /\ row' = [row EXCEPT ![t] = r] /\ pub' = [pub EXCEPT ![p] = k] /\ pages' = pages
      /\ row[t].status \in {"publication_pending", "publication_failed", "publishing"}
  BY DEF Claim, Claimable, Typed
<1>2. events' \in 0 .. MaxEvents /\ overrun' \in BOOLEAN
  <2>1. (Event /\ overrun' = TRUE) \/ UNCHANGED <<events, overrun>>
    BY DEF Claim
  <2>2. MaxEvents \in Nat /\ events \in 0 .. MaxEvents /\ overrun \in BOOLEAN
    BY Assumptions DEF Assumptions, Typed
  <2>3. CASE Event /\ overrun' = TRUE
    BY <2>2, <2>3 DEF Event
  <2>4. CASE UNCHANGED <<events, overrun>>
    BY <2>2, <2>4
  <2> QED BY <2>1, <2>3, <2>4
<1>3. /\ row[t] \in RowType /\ Attempts(t) \in Nat /\ claims' \in Nat
      /\ "publishing" \in Statuses /\ "prepare" \in PubPcs
  BY <1>1 DEF Typed, RowType, Attempts, Statuses, PubPcs
<1>4. /\ r \in RowType /\ r.status = "publishing" /\ r.token = claims'
      /\ r.version = row[t].version /\ r.page = row[t].page
  <2> HIDE DEF DeliveryInv
  <2> QED BY <1>3 DEF RowType
<1>5. k \in PubType /\ k.pc = "prepare" /\ k.target = t /\ k.token = claims'
  <2> HIDE DEF DeliveryInv
  <2> QED BY <1>3 DEF PubType, Idle
<1> HIDE DEF r, k
<1>6. /\ row' \in [Targets -> RowType] /\ row'[t] = r
      /\ \A u \in Targets \ {t} : row'[u] = row[u]
      /\ \A u \in Targets : row'[u].version = row[u].version /\ row'[u].page = row[u].page
      /\ pub' \in [Publishers -> PubType] /\ pub'[p] = k
      /\ \A q \in Publishers \ {p} : pub'[q] = pub[q]
  BY <1>1, <1>4, <1>5 DEF Typed
<1>7. Typed'
  BY <1>1, <1>2, <1>6 DEF Typed
<1>8. ClaimsApart'
  <2>1. ASSUME NEW u \in Targets
        PROVE  row'[u].token <= claims' /\ (row'[u].token # 0 <=> row'[u].status = "publishing")
    <3>1. row[u].token \in Nat /\ row[u].token <= claims
      BY DEF ClaimsApart, Typed, RowType
    <3> QED BY <1>1, <1>4, <1>6, <3>1 DEF ClaimsApart
  <2>2. \A q \in Publishers \ {p} : pub[q].pc # "idle" =>
          pub[q].token \in 1 .. claims /\ pub[q].token # claims'
    BY <1>1 DEF ClaimsApart
  <2> QED BY <1>1, <1>5, <1>6, <2>1, <2>2 DEF ClaimsApart
<1>9. OneLive'
  <2>1. \A u \in Targets : Live(u)' => Live(u)
    BY <1>1, <1>6 DEF Live, Terminal
  <2> QED BY <2>1 DEF OneLive
<1>10. VersionsApart'
  <2>1. \A u \in Targets : Consumed(u)' = Consumed(u)
    BY <1>6 DEF Consumed
  <2> QED BY <1>6, <2>1 DEF VersionsApart
<1>11. WorksOnOwn'
  BY <1>1, <1>5, <1>6 DEF WorksOnOwn, AtWork, AtPage, ClaimsApart
<1>12. PagesMatch'
  <2>1. \A i \in DOMAIN pages : pages[i].marker \in Targets \cup {Human}
    BY PageTypes DEF PageType
  <2> QED BY <1>1, <1>4, <1>6, <2>1 DEF PagesMatch
<1>13. Bounded'
  BY <1>1, <1>4, <1>6 DEF Bounded
<1> QED BY <1>7, <1>8, <1>9, <1>10, <1>11, <1>12, <1>13

\* The reservation of the version, under the claim.
Reserves(p, t) ==
  /\ pub[p].pc = "prepare" /\ t = pub[p].target /\ Holds(p)
  /\ Requested(t) \notin Consumed(t)
  /\ row' = [row EXCEPT ![t].version = Requested(t)]
  /\ pub' = [pub EXCEPT ![p].pc = "parent", ![p].version = Requested(t)]
  /\ UNCHANGED <<pages, claims, events, overrun>>

LEMMA ReserveKeeps ==
  ASSUME DeliveryInv, NEW p \in Publishers, NEW t \in Targets, Reserves(p, t)
  PROVE  DeliveryInv'
<1> USE DEF DeliveryInv
<1> DEFINE v == Requested(t)
           r == [row[t] EXCEPT !.version = v]
           k == [pub[p] EXCEPT !.pc = "parent", !.version = v]
<1>1. /\ v \in Nat \ {0, 1} /\ (row[t].version # 0 => v = row[t].version)
      /\ \A u \in Targets \ {t} : row[u].version # v
  BY RequestedVersion DEF Reserves
<1> HIDE DEF v
<1>2. /\ row' = [row EXCEPT ![t] = r] /\ pub' = [pub EXCEPT ![p] = k]
      /\ UNCHANGED <<pages, claims, events, overrun>>
      /\ pub[p].pc = "prepare" /\ pub[p].target = t
  BY DEF Reserves, v, Typed
<1>3. /\ r \in RowType /\ r.version = v /\ r.status = row[t].status /\ r.token = row[t].token
      /\ r.page = row[t].page /\ r.retry = row[t].retry
  BY <1>1 DEF Typed, RowType
<1>4. /\ k \in PubType /\ k.pc = "parent" /\ k.target = t /\ k.token = pub[p].token
      /\ k.version = v
  BY <1>1, <1>2 DEF Typed, PubType, PubPcs, AtWork
<1> HIDE DEF r, k
<1>5. /\ row' \in [Targets -> RowType] /\ row'[t] = r
      /\ \A u \in Targets \ {t} : row'[u] = row[u]
      /\ pub' \in [Publishers -> PubType] /\ pub'[p] = k
      /\ \A q \in Publishers \ {p} : pub'[q] = pub[q]
  BY <1>2, <1>3, <1>4 DEF Typed
<1>6. \A u \in Targets : row[u].version # 0 => row'[u].version = row[u].version
  BY <1>1, <1>3, <1>5
<1>7. Typed'
  BY <1>2, <1>5 DEF Typed
<1>8. ClaimsApart'
  BY <1>2, <1>3, <1>4, <1>5 DEF ClaimsApart
<1>9. OneLive'
  <2>1. \A u \in Targets : Live(u)' <=> Live(u)
    BY <1>3, <1>5 DEF Live
  <2> QED BY <2>1 DEF OneLive
<1>10. VersionsApart'
  <2>1. \A u \in Targets : Consumed(u)' = IF u = t THEN Consumed(u) ELSE Consumed(u) \cup {v}
    <3>1. row[t].version \in {0, v}
      BY <1>1
    <3> QED BY <1>1, <1>3, <1>5, <3>1 DEF Consumed
  <2>2. ASSUME NEW u \in Targets
        PROVE  \E m \in Consumed(u)' \cup {1} : \A n \in Consumed(u)' \cup {1} : n <= m
    <3>1. PICK m \in Consumed(u) \cup {1} : \A n \in Consumed(u) \cup {1} : n <= m
      BY DEF VersionsApart
    <3>2. Consumed(u) \subseteq Nat
      BY DEF Consumed, Typed, RowType
    <3>3. CASE u = t \/ v <= m
      BY <1>1, <2>1, <3>1, <3>2, <3>3
    <3>4. CASE u # t /\ m < v
      <4>1. v \in Consumed(u)' \cup {1} /\ \A n \in Consumed(u)' \cup {1} : n <= v
        BY <1>1, <2>1, <3>1, <3>2, <3>4
      <4> QED BY <4>1
    <3> QED BY <1>1, <3>1, <3>2, <3>3, <3>4
  <2>3. /\ \A x, u \in Targets : row'[x].version # 0 /\ row'[x].version = row'[u].version => x = u
        /\ \A u \in Targets : row'[u].version # 1
    BY <1>1, <1>3, <1>5 DEF VersionsApart
  <2> QED BY <2>2, <2>3 DEF VersionsApart
<1>11. WorksOnOwn'
  <2>1. \A q \in Publishers : pub[q].pc \in AtWork => pub[q].pc # "idle" /\ pub[q].target \in Targets
    BY DEF ClaimsApart, AtWork, AtPage
  <2> QED BY <1>1, <1>2, <1>3, <1>4, <1>5, <1>6, <2>1 DEF WorksOnOwn, AtWork, AtPage
<1>12. PagesMatch'
  <2>1. \A i \in DOMAIN pages : pages[i].marker \in Targets \cup {Human}
    BY PageTypes DEF PageType
  <2>2. \A u \in Targets : row'[u].page = row[u].page /\ row'[u].status = row[u].status
    BY <1>3, <1>5
  <2> QED BY <1>2, <1>6, <2>1, <2>2 DEF PagesMatch
<1>13. Bounded'
  BY <1>2, <1>3, <1>5 DEF Bounded
<1> QED BY <1>7, <1>8, <1>9, <1>10, <1>11, <1>12, <1>13

-----------------------------------------------------------------------------
(* Each action is a step of one of these kinds.                            *)

LEMMA EventCounted == DeliveryInv /\ Event => events' \in 0 .. MaxEvents
<1>1. MaxEvents \in Nat
  BY Assumptions DEF Assumptions
<1> QED BY <1>1 DEF DeliveryInv, Typed, Event

LEMMA PagesStay ==
  ASSUME DeliveryInv, UNCHANGED pages PROVE Grows
BY PageTypes DEF DeliveryInv, Typed, Bounded, Grows

\* A publisher that goes on with the same record, and one that leaves.
LEMMA GoesOn ==
  ASSUME DeliveryInv, NEW p \in Publishers, pub[p].pc # "idle", Grows,
         NEW pc \in PubPcs \ {"idle"}, Goto(p, pc),
         pc \in AtWork => pub[p].pc \in AtWork,
         pc \in AtPage => pub[p].pc \in AtPage /\
           (pc = "delivered" => pub[p].pc = "delivered" \/ pages'[pub[p].page].stamped)
  PROVE  \E k \in PubType : Follows(p, k)
<1> DEFINE k == [pub[p] EXCEPT !.pc = pc]
<1>1. pub' = [pub EXCEPT ![p] = k]
  BY DEF Goto, DeliveryInv, Typed
<1>2. k \in PubType /\ k.pc = pc /\ k.target = pub[p].target /\ k.token = pub[p].token
      /\ k.version = pub[p].version /\ k.page = pub[p].page
  BY DEF DeliveryInv, Typed, PubType
<1> HIDE DEF k
<1>3. k.pc \in AtWork => k.version # 0 /\ row[k.target].version = k.version
  BY <1>2 DEF DeliveryInv, WorksOnOwn
<1>4. ASSUME k.pc \in AtPage
      PROVE  /\ k.page \in DOMAIN pages' /\ pages'[k.page].marker = k.target
             /\ k.pc = "delivered" => pages'[k.page].stamped
  <2>1. pub[p].page \in DOMAIN pages /\ pages[pub[p].page].marker = pub[p].target
        /\ (pub[p].pc = "delivered" => pages[pub[p].page].stamped)
    BY <1>2, <1>4 DEF DeliveryInv, WorksOnOwn
  <2>2. DOMAIN pages \subseteq DOMAIN pages'
    BY LenProperties DEF Grows, DeliveryInv, Typed
  <2> QED BY <1>2, <1>4, <2>1, <2>2 DEF Grows
<1> QED BY <1>1, <1>2, <1>3, <1>4 DEF Follows

LEMMA Leaves ==
  ASSUME NEW p \in Publishers, Leave(p) PROVE \E k \in PubType : Follows(p, k)
BY IdleType DEF Leave, Follows

\* The steps of a pass that leave rows and pages alone.
LEMMA QuietKeeps ==
  ASSUME DeliveryInv, NEW p \in Publishers, UNCHANGED <<row, pages, claims, overrun>>,
         events' \in 0 .. MaxEvents, pub[p].pc # "idle",
         \/ Leave(p)
         \/ \E pc \in {"retry", "park"} : Goto(p, pc)
         \/ \E pc \in {"stamp_lesson", "find", "create"} : Goto(p, pc) /\ pub[p].pc \in AtWork
  PROVE  DeliveryInv'
<1>1. CASE Leave(p)
  BY <1>1, Leaves, PagesStay, PassKeeps
<1>2. ASSUME NEW pc \in {"retry", "park"}, Goto(p, pc) PROVE DeliveryInv'
  <2>1. pc \in PubPcs \ {"idle"} /\ pc \notin AtWork /\ pc \notin AtPage
    BY <1>2 DEF PubPcs, AtWork, AtPage
  <2> QED BY <1>2, <2>1, GoesOn, PagesStay, PassKeeps
<1>3. ASSUME NEW pc \in {"stamp_lesson", "find", "create"}, Goto(p, pc), pub[p].pc \in AtWork
      PROVE  DeliveryInv'
  <2>1. pc \in PubPcs \ {"idle"} /\ pc \notin AtPage
    BY <1>3 DEF PubPcs, AtWork, AtPage
  <2> QED BY <1>3, <2>1, GoesOn, PagesStay, PassKeeps
<1> QED BY <1>1, <1>2, <1>3

\* The life of a target before its delivery, and the operator.
LEMMA OperatorKeeps ==
  ASSUME DeliveryInv, NEW t \in Targets,
         Create(t) \/ Generate(t) \/ RetryPublication(t) \/ Abandon(t)
  PROVE  DeliveryInv'
<1>1. /\ row[t] \in RowType /\ row \in [Targets -> RowType] /\ row[t].page <= Len(pages)
      /\ (row[t].token # 0 <=> row[t].status = "publishing")
      /\ row[t].retry => row[t].status \in {"publication_failed", "publishing", "abandoned"}
  BY DEF DeliveryInv, Typed, ClaimsApart, PagesMatch, Bounded
<1>2. events' \in 0 .. MaxEvents /\ UNCHANGED <<pub, pages, claims, overrun>>
  <2>1. events' = events \/ Event
    BY DEF Create, Generate, RetryPublication, Abandon
  <2>2. events' \in 0 .. MaxEvents
    BY <2>1, EventCounted DEF DeliveryInv, Typed
  <2> QED BY <2>2 DEF Create, Generate, RetryPublication, Abandon
<1>3. ASSUME NEW st \in {"planned", "generating", "publication_pending"},
             row' = [row EXCEPT ![t].status = st], ~row[t].retry, row[t].status # "publishing",
             Live(t) \/ \A u \in Targets : ~Live(u)
      PROVE  DeliveryInv'
  <2> DEFINE r == [row[t] EXCEPT !.status = st]
  <2>1. row' = [row EXCEPT ![t] = r]
    BY <1>1, <1>3
  <2>2. /\ r \in RowType /\ r.status = st /\ r.version = row[t].version
        /\ r.token = row[t].token /\ r.page = row[t].page /\ r.retry = row[t].retry
    BY <1>1, <1>3 DEF RowType, Statuses
  <2> HIDE DEF r
  <2>3. RowMoves(t, r)
    BY <1>1, <1>3, <2>1, <2>2 DEF RowMoves
  <2> QED BY <1>2, <2>2, <2>3, MoveKeeps
<1>4. CASE Create(t)
  <2>1. row' = [row EXCEPT ![t].status = "planned"] /\ row[t].status = "absent"
        /\ \A u \in Targets : ~Live(u)
    BY <1>4 DEF Create
  <2> QED BY <1>1, <1>3, <2>1
<1>5. CASE Generate(t)
  <2>1. /\ row[t].status \in {"planned", "generating"}
        /\ \E st \in {"generating", "publication_pending"} : row' = [row EXCEPT ![t].status = st]
    BY <1>5 DEF Generate
  <2>2. Live(t)
    BY <2>1 DEF Live, Terminal
  <2> QED BY <1>1, <1>3, <2>1, <2>2
<1>6. CASE RetryPublication(t)
  <2> DEFINE r == Requeued(row[t])
  <2>1. row' = [row EXCEPT ![t] = r] /\ row[t].status = "publication_failed"
    BY <1>1, <1>6 DEF RetryPublication
  <2>2. /\ r \in RowType /\ r.status = "publication_pending" /\ r.version = row[t].version
        /\ r.token = 0 /\ r.page = row[t].page /\ ~r.retry
    BY <1>1 DEF RowType, Statuses, Requeued
  <2>3. Live(t)
    BY <2>1 DEF Live, Terminal
  <2> HIDE DEF r
  <2>4. RowMoves(t, r)
    BY <1>1, <2>1, <2>2, <2>3 DEF RowMoves
  <2> QED BY <1>2, <2>2, <2>4, MoveKeeps
<1>7. CASE Abandon(t)
  <2> DEFINE r == Converged(row[t])
  <2>1. /\ row' = [row EXCEPT ![t] = r]
        /\ row[t].status \in {"publication_pending", "publishing", "publication_failed"}
    BY <1>1, <1>7 DEF Abandon
  <2>2. /\ r \in RowType /\ r.version = row[t].version
        /\ r.token = row[t].token /\ r.page = row[t].page /\ r.retry = row[t].retry
        /\ r.status = IF row[t].status = "publishing" THEN "publishing" ELSE "abandoned"
    BY <1>1 DEF RowType, Statuses, Terminal, Converged
  <2>3. Live(t)
    BY <2>1 DEF Live, Terminal
  <2> HIDE DEF r
  <2>4. RowMoves(t, r)
    BY <1>1, <2>1, <2>2, <2>3 DEF RowMoves, Terminal
  <2> QED BY <1>2, <2>2, <2>4, MoveKeeps
<1> QED BY <1>4, <1>5, <1>6, <1>7

LEMMA PrepareKeeps ==
  ASSUME DeliveryInv, NEW p \in Publishers, Prepare(p)
  PROVE  DeliveryInv'
<1>1. events \in 0 .. MaxEvents /\ pub[p].pc = "prepare" /\ pub[p].target \in Targets
  BY DEF Prepare, DeliveryInv, Typed, ClaimsApart
<1>2. CASE Reserves(p, pub[p].target)
  BY <1>1, <1>2, ReserveKeeps
<1>3. CASE /\ UNCHANGED <<row, pages, claims, events, overrun>>
           /\ Leave(p) \/ Goto(p, "retry") \/ Goto(p, "park")
  BY <1>1, <1>3, QuietKeeps
<1> QED BY <1>1, <1>2, <1>3 DEF Prepare, Fails, Reserves

LEMMA LookKeeps ==
  ASSUME DeliveryInv, NEW p \in Publishers, ResolveParent(p) \/ StampLesson(p) \/ Find(p) \/ Crash(p)
  PROVE  DeliveryInv'
<1>1. events' \in 0 .. MaxEvents /\ UNCHANGED <<row, pages, claims, overrun>> /\ pub[p].pc # "idle"
  <2>1. events' = events \/ Event
    BY DEF ResolveParent, StampLesson, Find, Crash, Fails
  <2>2. events' \in 0 .. MaxEvents
    BY <2>1, EventCounted DEF DeliveryInv, Typed
  <2> QED BY <2>2 DEF ResolveParent, StampLesson, Find, Crash, Fails
<1>2. CASE ResolveParent(p)
  <2>1. pub[p].pc \in AtWork
    BY <1>2 DEF ResolveParent, AtWork
  <2> QED BY <1>1, <1>2, <2>1, QuietKeeps DEF ResolveParent, Fails
<1>3. CASE StampLesson(p)
  <2>1. pub[p].pc \in AtWork
    BY <1>3 DEF StampLesson, AtWork
  <2> QED BY <1>1, <1>3, <2>1, QuietKeeps DEF StampLesson
<1>4. CASE Crash(p)
  BY <1>1, <1>4, QuietKeeps DEF Crash
<1>5. CASE Find(p)
  <2>1. pub[p].pc \in AtWork /\ pub[p] \in PubType
    BY <1>5 DEF Find, AtWork, DeliveryInv, Typed
  <2>2. CASE Goto(p, "create") \/ Goto(p, "park") \/ Goto(p, "retry")
    BY <1>1, <2>1, <2>2, QuietKeeps
  <2>3. ASSUME NEW i \in Titled(pub[p].version), Ours(p, i),
               NEW pc \in {"delivered", "clear"}, pc = "delivered" => Complete(i),
               pub' = [pub EXCEPT ![p].page = i, ![p].pc = pc]
        PROVE  DeliveryInv'
    <3> DEFINE k == [pub[p] EXCEPT !.page = i, !.pc = pc]
    <3>1. pub' = [pub EXCEPT ![p] = k]
      BY <2>3 DEF DeliveryInv, Typed
    <3>2. i \in DOMAIN pages /\ i \in Nat
      BY PageTypes DEF Titled, DeliveryInv
    <3>3. /\ k \in PubType /\ k.pc = pc /\ k.target = pub[p].target /\ k.token = pub[p].token
          /\ k.version = pub[p].version /\ k.page = i
      BY <2>1, <3>2 DEF PubType, PubPcs, AtWork, AtPage
    <3> HIDE DEF k
    <3>4. k.version # 0 /\ row[k.target].version = k.version
      BY <2>1, <3>3 DEF DeliveryInv, WorksOnOwn
    <3>5. Follows(p, k)
      BY <1>1, <2>3, <3>1, <3>2, <3>3, <3>4 DEF Follows, Ours, Complete
    <3> QED BY <1>1, <3>3, <3>5, PagesStay, PassKeeps
  <2>4. \/ Goto(p, "create") \/ Goto(p, "park") \/ Goto(p, "retry")
        \/ \E i \in Titled(pub[p].version) :
             /\ Ours(p, i)
             /\ pub' = [pub EXCEPT ![p].page = i,
                          ![p].pc = IF Complete(i) THEN "delivered" ELSE "clear"]
    BY <1>5 DEF Find
  <2>5. ASSUME NEW i \in Titled(pub[p].version), Ours(p, i),
               pub' = [pub EXCEPT ![p].page = i,
                         ![p].pc = IF Complete(i) THEN "delivered" ELSE "clear"]
        PROVE  DeliveryInv'
    BY <2>3, <2>5
  <2> QED BY <2>2, <2>4, <2>5
<1> QED BY <1>2, <1>3, <1>4, <1>5

\* A new page, with its marker.
LEMMA AddedPage ==
  ASSUME DeliveryInv, NEW owner \in Targets \cup {Human}, NEW v \in Nat,
         Len(pages) < MaxPages, pages' = Append(pages, Page(owner, v)),
         owner # Human => v # 0 /\ row[owner].version = v
  PROVE  /\ Grows /\ Len(pages') = Len(pages) + 1 /\ Len(pages') \in DOMAIN pages'
         /\ pages'[Len(pages')] = Page(owner, v)
         /\ \A i \in DOMAIN pages : i \in DOMAIN pages' /\ pages'[i] = pages[i]
         /\ \A i \in DOMAIN pages' \ DOMAIN pages : i = Len(pages')
<1>1. Page(owner, v) \in PageType
  BY DEF Page, PageType
<1>2. /\ pages' \in Seq(PageType) /\ Len(pages') = Len(pages) + 1
      /\ \A i \in 1 .. Len(pages) : pages'[i] = pages[i]
      /\ pages'[Len(pages) + 1] = Page(owner, v)
  BY <1>1, AppendProperties DEF DeliveryInv, Typed
<1>3. /\ DOMAIN pages = 1 .. Len(pages) /\ Len(pages) \in Nat
      /\ DOMAIN pages' = 1 .. Len(pages')
  BY <1>2, LenProperties DEF DeliveryInv, Typed
<1>4. \A i \in DOMAIN pages' \ DOMAIN pages : i = Len(pages')
  BY <1>2, <1>3
<1>5. MaxPages \in Nat
  BY Assumptions DEF Assumptions
<1>6. Grows
  BY <1>2, <1>3, <1>4, <1>5 DEF Grows, Page
<1> QED BY <1>2, <1>3, <1>4, <1>6

LEMMA CreateKeeps ==
  ASSUME DeliveryInv, NEW p \in Publishers, CreatePage(p)
  PROVE  DeliveryInv'
<1> DEFINE t == pub[p].target
           v == pub[p].version
<1>1. /\ pub[p].pc = "create" /\ UNCHANGED <<row, claims, events, overrun>>
      /\ events' \in 0 .. MaxEvents /\ pub[p] \in PubType
      /\ t \in Targets /\ t # Human /\ v # 0 /\ v \in Nat /\ row[t].version = v
  BY Assumptions DEF Assumptions, CreatePage, DeliveryInv, Typed, WorksOnOwn, ClaimsApart,
                     AtWork, PubType
<1>2. CASE Goto(p, "retry") /\ UNCHANGED pages
  BY <1>1, <1>2, QuietKeeps
<1>3. CASE Len(pages) < MaxPages /\ pages' = Append(pages, Page(t, v))
  <2>1. /\ Grows /\ Len(pages') \in DOMAIN pages' /\ Len(pages') \in Nat
        /\ pages'[Len(pages')].marker = t
    BY <1>1, <1>3, AddedPage, PageTypes DEF Page, DeliveryInv
  <2>2. CASE Goto(p, "retry")
    <3>1. "retry" \in PubPcs \ {"idle"} /\ "retry" \notin AtWork /\ "retry" \notin AtPage
      BY DEF PubPcs, AtWork, AtPage
    <3> QED BY <1>1, <2>1, <2>2, <3>1, GoesOn, PassKeeps
  <2>3. CASE pub' = [pub EXCEPT ![p].page = Len(pages'), ![p].pc = "clear"]
    <3> DEFINE k == [pub[p] EXCEPT !.page = Len(pages'), !.pc = "clear"]
    <3>1. pub' = [pub EXCEPT ![p] = k]
      BY <2>3 DEF DeliveryInv, Typed
    <3>2. /\ k \in PubType /\ k.pc = "clear" /\ k.target = t /\ k.token = pub[p].token
          /\ k.version = v /\ k.page = Len(pages')
      BY <1>1, <2>1 DEF PubType, PubPcs, AtWork, AtPage
    <3> HIDE DEF k, t, v
    <3>3. Follows(p, k)
      BY <1>1, <2>1, <3>1, <3>2 DEF Follows, t
    <3> QED BY <1>1, <2>1, <3>2, <3>3, PassKeeps
  <2> QED BY <1>1, <1>3, <2>2, <2>3 DEF CreatePage
<1> QED BY <1>2, <1>3 DEF CreatePage

\* A page is rewritten and keeps its marker, version and stamp.
LEMMA WrittenPage ==
  ASSUME DeliveryInv, NEW i \in DOMAIN pages, NEW page \in PageType,
         page.marker = pages[i].marker, page.version = pages[i].version,
         pages[i].stamped => page.stamped, pages' = [pages EXCEPT ![i] = page]
  PROVE  /\ Grows /\ DOMAIN pages' = DOMAIN pages /\ pages'[i] = page
         /\ \A n \in DOMAIN pages \ {i} : pages'[n] = pages[n]
<1>1. Len(pages) \in Nat /\ DOMAIN pages = 1 .. Len(pages)
  BY PageTypes DEF DeliveryInv
<1>2. /\ pages' \in Seq(PageType) /\ Len(pages') = Len(pages)
      /\ \A n \in 1 .. Len(pages) : pages'[n] = IF n = i THEN page ELSE pages[n]
  BY <1>1, ExceptSeq DEF DeliveryInv, Typed
<1>3. DOMAIN pages' = 1 .. Len(pages')
  BY <1>2, LenProperties
<1> QED BY <1>1, <1>2, <1>3 DEF Grows, DeliveryInv, Bounded

Filled(p)  == [Written(p) EXCEPT !.copies = IF @ = 2 THEN 2 ELSE @ + 1]
Stamped(p) == [Written(p) EXCEPT !.stamped = TRUE]

LEMMA WriteTypes ==
  ASSUME DeliveryInv, NEW p \in Publishers, pub[p].pc \in AtPage
  PROVE  /\ pub[p].page \in DOMAIN pages /\ pages[pub[p].page].marker = pub[p].target
         /\ Written(p) = pages[pub[p].page] /\ Written(p) \in PageType
         /\ \A page \in {Cleared(Written(p)), Filled(p), Stamped(p)} :
              /\ page \in PageType /\ page.marker = pub[p].target
              /\ page.version = Written(p).version
              /\ Written(p).stamped => page.stamped
         /\ Cleared(Written(p)).copies = 0 /\ Cleared(Written(p)).stamped = Written(p).stamped
         /\ Filled(p).copies = IF Written(p).copies = 2 THEN 2 ELSE Written(p).copies + 1
         /\ Filled(p).stamped = Written(p).stamped
         /\ Stamped(p).copies = Written(p).copies /\ Stamped(p).stamped
<1>1. /\ pub[p].page \in DOMAIN pages /\ pages[pub[p].page].marker = pub[p].target
      /\ Written(p) = pages[pub[p].page] /\ Written(p) \in PageType
  BY PageTypes DEF DeliveryInv, WorksOnOwn, Written
<1>2. \A page \in PageType : page.copies \in Nat /\ page.copies + 1 \in Nat
  BY DEF PageType
<1> DEFINE more == IF Written(p).copies = 2 THEN 2 ELSE Written(p).copies + 1
<1>3. more \in Nat /\ Filled(p) = [Written(p) EXCEPT !.copies = more]
  BY <1>1, <1>2 DEF Filled, PageType
<1> HIDE DEF more
<1>4. /\ Filled(p) \in PageType /\ Filled(p).marker = Written(p).marker
      /\ Filled(p).version = Written(p).version /\ Filled(p).copies = more
      /\ Filled(p).stamped = Written(p).stamped
  BY <1>1, <1>3 DEF PageType
<1>5. /\ Stamped(p) \in PageType /\ Stamped(p).marker = Written(p).marker
      /\ Stamped(p).version = Written(p).version /\ Stamped(p).copies = Written(p).copies
      /\ Stamped(p).stamped
  BY <1>1 DEF Stamped, PageType
<1>6. /\ Cleared(Written(p)) \in PageType /\ Cleared(Written(p)).marker = Written(p).marker
      /\ Cleared(Written(p)).version = Written(p).version /\ Cleared(Written(p)).copies = 0
      /\ Cleared(Written(p)).stamped = Written(p).stamped
  BY <1>1 DEF Cleared, PageType
<1> QED BY <1>1, <1>4, <1>5, <1>6 DEF more

LEMMA WriteKeeps ==
  ASSUME DeliveryInv, NEW p \in Publishers, Clear(p) \/ Fill(p) \/ Stamp(p)
  PROVE  DeliveryInv'
<1>1. PICK at \in {"clear", "fill", "stamp"}, then \in AtPage, page \in PageType :
        /\ Write(p, at, then, page)
        /\ page.marker = pages[pub[p].page].marker /\ page.version = pages[pub[p].page].version
        /\ pages[pub[p].page].stamped \/ then = "delivered" => page.stamped
  <2>1. pub[p].pc \in AtPage
    BY DEF Clear, Fill, Stamp, Write, AtPage
  <2>2. CASE Clear(p)
    BY <2>1, <2>2, WriteTypes DEF Clear, AtPage
  <2>3. CASE Fill(p)
    <3>1. Write(p, "fill", "stamp", Filled(p))
      BY <2>3 DEF Fill, Filled
    <3> QED BY <2>1, <3>1, WriteTypes DEF AtPage
  <2>4. CASE Stamp(p)
    <3>1. Write(p, "stamp", "delivered", Stamped(p))
      BY <2>4 DEF Stamp, Stamped
    <3> QED BY <2>1, <3>1, WriteTypes DEF AtPage
  <2> QED BY <2>2, <2>3, <2>4
<1>2. /\ pub[p].pc = at /\ pub[p].pc \in AtPage /\ pub[p].pc # "idle"
      /\ UNCHANGED <<row, claims, events, overrun>> /\ events' \in 0 .. MaxEvents
      /\ pub[p].page \in DOMAIN pages
  BY <1>1, WriteTypes DEF Write, AtPage, DeliveryInv, Typed
<1>3. CASE Goto(p, "retry") /\ UNCHANGED pages
  BY <1>2, <1>3, QuietKeeps
<1>4. CASE pages' = [pages EXCEPT ![pub[p].page] = page] /\ (Goto(p, then) \/ Goto(p, "retry"))
  <2>1. Grows /\ pages'[pub[p].page] = page
    BY <1>1, <1>2, <1>4, WrittenPage
  <2>2. /\ then \in PubPcs \ {"idle"} /\ then \in AtWork /\ pub[p].pc \in AtWork
        /\ "retry" \in PubPcs \ {"idle"} /\ "retry" \notin AtWork /\ "retry" \notin AtPage
    BY <1>1, <1>2 DEF PubPcs, AtWork, AtPage
  <2>3. CASE Goto(p, then)
    BY <1>1, <1>2, <2>1, <2>2, <2>3, GoesOn, PassKeeps
  <2>4. CASE Goto(p, "retry")
    BY <1>2, <2>1, <2>2, <2>4, GoesOn, PassKeeps
  <2> QED BY <1>4, <2>3, <2>4
<1> QED BY <1>1, <1>3, <1>4 DEF Write

\* The resolution, fenced by the claim.
LEMMA ResolveKeeps ==
  ASSUME DeliveryInv, NEW p \in Publishers, ResolvePublished(p) \/ ResolveFailure(p)
  PROVE  DeliveryInv'
<1> DEFINE t == pub[p].target
<1>1. /\ pub[p].pc # "idle" /\ UNCHANGED <<pages, claims, events, overrun>>
      /\ events' \in 0 .. MaxEvents /\ Leave(p) /\ t \in Targets
  BY DEF ResolvePublished, ResolveFailure, Resolve, DeliveryInv, Typed, ClaimsApart
<1>2. CASE UNCHANGED row
  BY <1>1, <1>2, QuietKeeps
<1>3. ASSUME NEW r \in RowType, row' = [row EXCEPT ![t] = r], Fenced(p),
             r.version = row[t].version, r.token = 0,
             r.status \in {"published", "abandoned", "publication_failed"},
             r.retry => r.status = "publication_failed",
             r.page <= Len(pages),
             r.status = "published" =>
               r.page # 0 /\ pages[r.page].marker = t /\ pages[r.page].stamped
      PROVE  DeliveryInv'
  <2>1. Live(t)
    BY <1>3 DEF Fenced, Live, Terminal
  <2>2. RowMoves(t, r)
    BY <1>1, <1>3, <2>1 DEF RowMoves
  <2>3. \E q \in Publishers : pub' = [pub EXCEPT ![q] = Idle]
    BY <1>1 DEF Leave
  <2> QED BY <1>1, <2>2, <2>3, MoveKeeps
<1>4. row[t] \in RowType /\ row[t].page <= Len(pages)
  BY <1>1 DEF DeliveryInv, Typed, PagesMatch
<1>5. CASE ResolvePublished(p) /\ Fenced(p)
  <2> DEFINE r == [row[t] EXCEPT !.status = "published", !.page = pub[p].page, !.token = 0,
                                 !.retry = FALSE, !.error = FALSE]
  <2>1. row' = [row EXCEPT ![t] = r] /\ pub[p].pc = "delivered"
    BY <1>5 DEF ResolvePublished, Resolve
  <2>2. pub[p].page \in DOMAIN pages /\ pages[pub[p].page].marker = t /\ pages[pub[p].page].stamped
    BY <2>1 DEF DeliveryInv, WorksOnOwn, AtPage
  <2>3. pub[p].page \in Nat \ {0} /\ pub[p].page <= Len(pages)
    BY <2>2, PageTypes DEF DeliveryInv
  <2>4. /\ r \in RowType /\ r.version = row[t].version /\ r.token = 0
        /\ r.status = "published" /\ ~r.retry /\ r.page = pub[p].page
    BY <1>4, <2>3 DEF RowType, Statuses, Terminal
  <2> HIDE DEF r
  <2> QED BY <1>3, <1>5, <2>1, <2>2, <2>3, <2>4
<1>6. CASE ResolveFailure(p) /\ Fenced(p)
  <2> DEFINE a == [row[t] EXCEPT !.status = "abandoned", !.token = 0, !.retry = FALSE,
                                 !.error = TRUE]
             again == pub[p].pc = "retry" /\ pub[p].attempts < MaxAttempts
             f == [row[t] EXCEPT !.status = "publication_failed", !.token = 0, !.error = TRUE,
                                 !.retry = again]
  <2>1. row' = [row EXCEPT ![t] = a] \/ row' = [row EXCEPT ![t] = f]
    BY <1>6 DEF ResolveFailure, Resolve
  <2>2. /\ a \in RowType /\ a.version = row[t].version /\ a.token = 0
        /\ a.status = "abandoned" /\ ~a.retry /\ a.page = row[t].page
    BY <1>4 DEF RowType, Statuses, Terminal
  <2>3. /\ f \in RowType /\ f.version = row[t].version /\ f.token = 0
        /\ f.status = "publication_failed" /\ f.page = row[t].page
    BY <1>4 DEF RowType, Statuses, Terminal
  <2> HIDE DEF a, f
  <2> QED BY <1>3, <1>4, <1>6, <2>1, <2>2, <2>3
<1>7. UNCHANGED row \/ Fenced(p)
  BY DEF ResolvePublished, ResolveFailure, Resolve
<1> QED BY <1>2, <1>5, <1>6, <1>7

LEMMA HumanKeeps ==
  ASSUME DeliveryInv, NEW v \in {2, 3}, HumanPage(v)
  PROVE  DeliveryInv'
<1>1. events' \in 0 .. MaxEvents /\ UNCHANGED <<row, pub, claims, overrun>>
  BY EventCounted DEF HumanPage
<1>2. Grows
  BY AddedPage DEF HumanPage
<1> QED BY <1>1, <1>2, PassKeeps

LEMMA DeliveryInit == Init => DeliveryInv
<1> SUFFICES ASSUME Init PROVE DeliveryInv
  OBVIOUS
<1>1. /\ NewRow \in RowType /\ NewRow.status = "absent" /\ NewRow.token = 0 /\ ~NewRow.retry
      /\ NewRow.version = 0 /\ NewRow.page = 0
  BY DEF NewRow, RowType, Statuses
<1>2. pages = << >> /\ pages \in Seq(PageType) /\ Len(pages) = 0 /\ DOMAIN pages = {}
  BY DEF Init
<1>3. MaxEvents \in Nat /\ MaxPages \in Nat
  BY Assumptions DEF Assumptions
<1>4. Typed
  <2>1. row \in [Targets -> RowType] /\ pub \in [Publishers -> PubType]
    BY <1>1, IdleType DEF Init
  <2>2. claims \in Nat /\ events \in 0 .. MaxEvents /\ overrun \in BOOLEAN
    <3>1. 0 \in 0 .. MaxEvents
      BY <1>3
    <3> QED BY <3>1 DEF Init
  <2> QED BY <1>2, <2>1, <2>2 DEF Typed
<1>5. ClaimsApart /\ OneLive /\ WorksOnOwn
  BY <1>1, IdleType DEF Init, ClaimsApart, OneLive, Live, WorksOnOwn, AtWork, AtPage
<1>6. VersionsApart
  <2>1. \A t \in Targets : Consumed(t) = {}
    BY <1>1 DEF Init, Consumed
  <2> QED BY <1>1, <2>1 DEF Init, VersionsApart
<1>7. PagesMatch /\ Bounded
  BY <1>1, <1>2, <1>3 DEF Init, PagesMatch, Bounded
<1> QED BY <1>4, <1>5, <1>6, <1>7 DEF DeliveryInv

LEMMA DeliveryNext == DeliveryInv /\ [Next]_vars => DeliveryInv'
<1> SUFFICES ASSUME DeliveryInv, [Next]_vars PROVE DeliveryInv'
  OBVIOUS
<1>1. CASE UNCHANGED vars
  <2>1. events' \in 0 .. MaxEvents /\ UNCHANGED <<row, pub, pages, claims, overrun>>
    BY <1>1 DEF vars, DeliveryInv, Typed
  <2> QED BY <2>1, PagesStay, PassKeeps
<1>2. ASSUME NEW p \in Publishers, Pass(p) \/ Crash(p) PROVE DeliveryInv'
  BY <1>2, PrepareKeeps, LookKeeps, CreateKeeps, WriteKeeps, ResolveKeeps DEF Pass
<1>3. ASSUME NEW p \in Publishers, NEW t \in Targets, Claim(p, t) PROVE DeliveryInv'
  BY <1>3, ClaimKeeps
<1>4. ASSUME NEW t \in Targets, Create(t) \/ Generate(t) \/ RetryPublication(t) \/ Abandon(t)
      PROVE  DeliveryInv'
  BY <1>4, OperatorKeeps
<1>5. ASSUME NEW v \in {2, 3}, HumanPage(v) PROVE DeliveryInv'
  BY <1>5, HumanKeeps
<1> QED BY <1>1, <1>2, <1>3, <1>4, <1>5 DEF Next

\* Rows, claims, versions and pages stay coordinated: a claim has one holder,
\* versions are apart, and whoever writes a page writes to one of its target.
THEOREM DeliveryInvariant == Spec => []DeliveryInv
<1> QED BY DeliveryInit, DeliveryNext, PTL DEF Spec

-----------------------------------------------------------------------------
(* The action property: a publisher writes only to its own.                *)

LEMMA OwnWrites ==
  ASSUME DeliveryInv, [Next]_vars
  PROVE  [/\ \A p \in Publishers :
               pub[p].pc # "idle" /\ ~Holds(p) /\ pub'[p] # pub[p] => row' = row
          /\ \A i \in DOMAIN pages : pages[i].marker = Human => pages'[i] = pages[i]]_vars
<1> DEFINE Quiet(p) == pub[p].pc # "idle" /\ ~Holds(p) /\ pub'[p] # pub[p] => row' = row
           Spared == \A i \in DOMAIN pages : pages[i].marker = Human => pages'[i] = pages[i]
           Others(p) == \A q \in Publishers \ {p} : pub'[q] = pub[q]
<1>1. CASE UNCHANGED vars
  BY <1>1
<1>2. ASSUME NEW p \in Publishers, UNCHANGED row, Others(p)
      PROVE  \A q \in Publishers : Quiet(q)
  BY <1>2
<1>3. ASSUME NEW p \in Publishers, NEW t \in Targets, Claim(p, t)
      PROVE  Spared /\ \A q \in Publishers : Quiet(q)
  BY <1>3 DEF Claim, DeliveryInv, Typed
<1>4. ASSUME NEW p \in Publishers, Prepare(p) \/ ResolvePublished(p) \/ ResolveFailure(p)
      PROVE  Spared /\ \A q \in Publishers : Quiet(q)
  <2>1. Spared
    BY <1>4 DEF Prepare, ResolvePublished, ResolveFailure, Resolve, Fails
  <2>2. ~Holds(p) => row' = row
    BY <1>4 DEF Prepare, ResolvePublished, ResolveFailure, Resolve, Fails, Fenced
  <2>3. Others(p)
    BY <1>4 DEF Prepare, ResolvePublished, ResolveFailure, Resolve, Fails, Leave, Goto,
                DeliveryInv, Typed
  <2> QED BY <2>1, <2>2, <2>3
<1>5. ASSUME NEW p \in Publishers,
             \/ ResolveParent(p) \/ StampLesson(p) \/ Find(p) \/ CreatePage(p)
             \/ Clear(p) \/ Fill(p) \/ Stamp(p) \/ Crash(p)
      PROVE  UNCHANGED row /\ Others(p)
  BY <1>5 DEF ResolveParent, StampLesson, Find, CreatePage, Clear, Fill, Stamp, Write, Crash,
              Fails, Leave, Goto, DeliveryInv, Typed
<1>6. ASSUME NEW p \in Publishers, ResolveParent(p) \/ StampLesson(p) \/ Find(p) \/ Crash(p)
      PROVE  Spared
  BY <1>6 DEF ResolveParent, StampLesson, Find, Crash, Fails
<1>7. ASSUME NEW p \in Publishers, CreatePage(p) PROVE Spared
  <2>1. CASE UNCHANGED pages
    BY <2>1
  <2>2. CASE pages' = Append(pages, Page(pub[p].target, pub[p].version))
    <3>1. Page(pub[p].target, pub[p].version) \in PageType
      BY DEF Page, PageType, DeliveryInv, Typed, PubType
    <3> QED BY <2>2, <3>1, AppendProperties, PageTypes DEF DeliveryInv, Typed
  <2> QED BY <1>7, <2>1, <2>2 DEF CreatePage
<1>8. ASSUME NEW p \in Publishers, Clear(p) \/ Fill(p) \/ Stamp(p) PROVE Spared
  <2>1. pub[p].pc \in AtPage /\ pub[p].pc # "idle"
    BY <1>8 DEF Clear, Fill, Stamp, Write, AtPage
  <2>2. pages[pub[p].page].marker # Human
    BY <2>1, Assumptions DEF Assumptions, DeliveryInv, WorksOnOwn, ClaimsApart
  <2>3. pages' = pages \/ \E page : pages' = [pages EXCEPT ![pub[p].page] = page]
    BY <1>8 DEF Clear, Fill, Stamp, Write
  <2> QED BY <2>2, <2>3
<1>9. ASSUME NEW t \in Targets, Create(t) \/ Generate(t) \/ RetryPublication(t) \/ Abandon(t)
      PROVE  Spared /\ \A q \in Publishers : Quiet(q)
  BY <1>9 DEF Create, Generate, RetryPublication, Abandon
<1>10. ASSUME NEW v \in {2, 3}, HumanPage(v) PROVE Spared /\ \A q \in Publishers : Quiet(q)
  <2>1. Page(Human, v) \in PageType
    BY DEF Page, PageType
  <2>2. Spared
    BY <1>10, <2>1, AppendProperties, PageTypes DEF HumanPage, DeliveryInv, Typed
  <2> QED BY <1>10, <2>2 DEF HumanPage
<1> QED
  <2>1. CASE \E p \in Publishers : Pass(p) \/ Crash(p)
    BY <1>2, <1>4, <1>5, <1>6, <1>7, <1>8, <2>1 DEF Pass
  <2>2. CASE ~\E p \in Publishers : Pass(p) \/ Crash(p)
    BY <1>1, <1>3, <1>9, <1>10, <2>2 DEF Next
  <2> QED BY <2>1, <2>2

\* A late answer changes nothing in a target that was taken over, and no page of
\* somebody else is ever written (regeneration_publisher.py, set_target_status).
THEOREM OwnWritesOnly == Spec => WritesOnlyItsOwn
<1> QED BY DeliveryInvariant, OwnWrites, PTL DEF Spec, WritesOnlyItsOwn

-----------------------------------------------------------------------------
(* Publication implements TargetLife.                                      *)

Edge(s, e) ==
  \/ s = e
  \/ s = "absent" /\ e = "planned"
  \/ s = "planned" /\ e = "generating"
  \/ s = "generating" /\ e = "publication_pending"
  \/ s = "publication_pending" /\ e \in {"publishing", "abandoned"}
  \/ s = "publishing" /\ e \in {"published", "publication_failed", "abandoned"}
  \/ s = "publication_failed" /\ e \in {"publication_pending", "publishing", "abandoned"}

LEMMA EdgesAreTransitions ==
  ASSUME NEW s \in Statuses, NEW e \in Statuses, Edge(s, e)
  PROVE  e \in Life!Transitions[s] \cup {s} /\ e \in Life!Statuses
BY DEF Edge, Statuses, Terminal, Life!Transitions, Life!Statuses

\* What a step does to a row: it moves along an edge, and reserves a version
\* only for a target that is being published.
LEMMA RowsLive ==
  ASSUME DeliveryInv, [Next]_vars, NEW t \in Targets
  PROVE  /\ Edge(row[t].status, row'[t].status)
         /\ \/ row'[t].version = row[t].version
            \/ /\ row[t].version = 0 /\ row[t].status = "publishing"
               /\ row'[t].version \in Nat \ {0, 1}
<1> DEFINE Goal == /\ Edge(row[t].status, row'[t].status)
                   /\ \/ row'[t].version = row[t].version
                      \/ /\ row[t].version = 0 /\ row[t].status = "publishing"
                         /\ row'[t].version \in Nat \ {0, 1}
<1>1. row \in [Targets -> RowType] /\ row[t] \in RowType
  BY DEF DeliveryInv, Typed
<1>2. CASE row' = row
  BY <1>2 DEF Edge
<1>3. ASSUME NEW p \in Publishers, NEW u \in Targets, Claim(p, u) PROVE Goal
  <2>1. CASE t = u
    BY <1>1, <1>3, <2>1 DEF Claim, Claimable, RowType, Edge
  <2>2. CASE t # u
    BY <1>1, <1>3, <2>2 DEF Claim, Edge
  <2> QED BY <2>1, <2>2
<1>4. ASSUME NEW p \in Publishers, Prepare(p) PROVE Goal
  <2>1. CASE row' = row
    BY <1>2, <2>1
  <2>2. CASE row' # row
    <3> DEFINE u == pub[p].target
    <3>1. /\ Reserves(p, u) /\ u \in Targets
      BY <1>4, <2>2 DEF Prepare, Fails, Reserves, DeliveryInv, ClaimsApart
    <3>2. row[u].status = "publishing"
      BY <3>1 DEF Reserves, Holds, DeliveryInv, ClaimsApart
    <3>3. /\ Requested(u) \in Nat \ {0, 1}
          /\ row[u].version # 0 => Requested(u) = row[u].version
      BY <3>1, RequestedVersion DEF Reserves
    <3>4. row' = [row EXCEPT ![u].version = Requested(u)]
      BY <3>1 DEF Reserves
    <3> HIDE DEF u
    <3> QED BY <1>1, <3>1, <3>2, <3>3, <3>4 DEF RowType, Edge
  <2> QED BY <2>1, <2>2
<1>5. ASSUME NEW p \in Publishers, ResolvePublished(p) \/ ResolveFailure(p) PROVE Goal
  <2> DEFINE u == pub[p].target
  <2>1. CASE row' = row
    BY <1>2, <2>1
  <2>2. CASE row' # row
    <3>1. row[u].status = "publishing"
      BY <1>5, <2>2 DEF ResolvePublished, ResolveFailure, Resolve, Fenced
    <3>2. CASE t = u
      <4>1. row'[t].version = row[t].version
        <5>1. CASE ResolvePublished(p)
          <6>1. row'[t] = [row[t] EXCEPT !.status = "published", !.page = pub[p].page, !.token = 0,
                                         !.retry = FALSE, !.error = FALSE]
            BY <1>1, <2>2, <3>2, <5>1 DEF ResolvePublished, Resolve
          <6> QED BY <1>1, <6>1 DEF RowType
        <5>2. CASE ResolveFailure(p)
          <6>1. \E again \in {pub[p].pc = "retry" /\ pub[p].attempts < MaxAttempts} :
                  \/ row'[t] = [row[t] EXCEPT !.status = "abandoned", !.token = 0, !.retry = FALSE,
                                              !.error = TRUE]
                  \/ row'[t] = [row[t] EXCEPT !.status = "publication_failed", !.token = 0,
                                              !.error = TRUE, !.retry = again]
            BY <1>1, <2>2, <3>2, <5>2 DEF ResolveFailure, Resolve
          <6> QED BY <1>1, <6>1 DEF RowType
        <5> QED BY <1>5, <5>1, <5>2
      <4>2. CASE ResolvePublished(p)
        <5>1. row'[t].status = "published"
          BY <1>1, <2>2, <3>2, <4>2 DEF ResolvePublished, Resolve, RowType
        <5> QED BY <3>1, <3>2, <4>1, <5>1 DEF Edge
      <4>3. CASE ResolveFailure(p)
        <5>1. row'[t].status \in {"abandoned", "publication_failed"}
          BY <1>1, <2>2, <3>2, <4>3 DEF ResolveFailure, Resolve, RowType
        <5> QED BY <3>1, <3>2, <4>1, <5>1 DEF Edge
      <4> QED BY <1>5, <4>2, <4>3
    <3>3. CASE t # u
      BY <1>1, <1>5, <3>3 DEF ResolvePublished, ResolveFailure, Resolve, Edge
    <3> QED BY <3>2, <3>3
  <2> QED BY <2>1, <2>2
<1>6. ASSUME NEW u \in Targets, Create(u) \/ Generate(u) \/ RetryPublication(u) \/ Abandon(u)
      PROVE  Goal
  <2>1. CASE t # u
    BY <1>1, <1>6, <2>1 DEF Create, Generate, RetryPublication, Abandon, Edge
  <2>2. CASE t = u
    <3>1. CASE Create(u) \/ Generate(u)
      BY <1>1, <2>2, <3>1 DEF Create, Generate, RowType, Edge
    <3>2. CASE RetryPublication(u)
      <4>1. row'[t] = Requeued(row[t]) /\ row[t].status = "publication_failed"
        BY <1>1, <2>2, <3>2 DEF RetryPublication
      <4> QED BY <1>1, <4>1 DEF Requeued, RowType, Edge
    <3>3. CASE Abandon(u)
      <4>1. /\ row'[t] = Converged(row[t])
            /\ row[t].status \in {"publication_pending", "publishing", "publication_failed"}
        BY <1>1, <2>2, <3>3 DEF Abandon
      <4> QED BY <1>1, <4>1 DEF Converged, RowType, Edge
    <3> QED BY <1>6, <3>1, <3>2, <3>3
  <2> QED BY <2>1, <2>2
<1>7. ASSUME row' # row
      PROVE  \/ \E p \in Publishers, u \in Targets : Claim(p, u)
             \/ \E p \in Publishers : Prepare(p) \/ ResolvePublished(p) \/ ResolveFailure(p)
             \/ \E u \in Targets : Create(u) \/ Generate(u) \/ RetryPublication(u) \/ Abandon(u)
  BY <1>7 DEF Next, vars, Pass, ResolveParent, StampLesson, Find, CreatePage, Clear, Fill, Stamp,
              Write, Crash, Fails, HumanPage
<1> QED BY <1>2, <1>3, <1>4, <1>5, <1>6, <1>7

\* The initial states map to initial states, and every step to a step or a stutter.
LEMMA LifeOfInit == Init => Life!Init
BY DEF Init, NewRow, Life!Init

LEMMA LifeOfStep ==
  ASSUME DeliveryInv, DeliveryInv', [Next]_vars
  PROVE  Life!Next
<1>1. ASSUME NEW t \in Targets
      PROVE  /\ row'[t].status \in Life!Transitions[row[t].status] \cup {row[t].status}
             /\ row'[t].status \in Life!Statuses /\ row'[t].version \in Nat
  <2>1. row[t] \in RowType /\ row'[t] \in RowType
    BY DEF DeliveryInv, Typed
  <2> QED BY <2>1, RowsLive, EdgesAreTransitions DEF RowType
<1>2. \A t, u \in Targets : t # u => ~(Life!Live(row'[t].status) /\ Life!Live(row'[u].status))
  BY DEF DeliveryInv, OneLive, Live, Life!Live, Life!Terminal, Terminal
<1>3. ASSUME NEW t \in Targets
      PROVE  \/ row'[t].version = row[t].version
             \/ /\ row[t].version = 0 /\ row[t].status = "publishing"
                /\ row'[t].version \in Nat \ {0, 1}
                /\ \A u \in Targets : t # u => row'[u].version # row'[t].version
  BY RowsLive DEF DeliveryInv, VersionsApart
<1>4. Life!Move
  BY <1>1, <1>2 DEF Life!Move, Life!Related
<1>5. Life!Reserve
  BY <1>3 DEF Life!Reserve, Life!Related
<1> QED BY <1>1, <1>4, <1>5 DEF Life!Next

\* The rows of regeneration_targets live the life of a target, whatever crashes,
\* overrun leases and operators do to their delivery.
THEOREM DeliveryIsLife == Spec => LifeSpec
<1>1. Init => Life!Init
  BY LifeOfInit
<1>2. DeliveryInv /\ DeliveryInv' /\ [Next]_vars => [Life!Next]_(Life!vars)
  BY LifeOfStep
<1> QED BY <1>1, <1>2, DeliveryInvariant, PTL DEF Spec, LifeSpec, Life!Spec

-----------------------------------------------------------------------------
(* What holds as long as no delivery outlives its lease.                   *)

\* Every publisher at work holds the claim of its target ...
Holding == \A p \in Publishers : pub[p].pc # "idle" => Holds(p)

\* ... a target has at most one page, and none when its publisher is about to
\* create one ...
OnePage ==
  /\ \A i, j \in DOMAIN pages :
       pages[i].marker # Human /\ pages[i].marker = pages[j].marker => i = j
  /\ \A p \in Publishers : pub[p].pc = "create" =>
       \A i \in DOMAIN pages : pages[i].marker # pub[p].target

\* ... and a page is stamped only when the homework is on it once.
StampedOnce ==
  /\ \A i \in DOMAIN pages : pages[i].marker # Human /\ pages[i].stamped => pages[i].copies = 1
  /\ \A p \in Publishers : pub[p].pc \in {"clear", "fill", "stamp"} =>
       /\ ~pages[pub[p].page].stamped
       /\ pub[p].pc = "fill" => pages[pub[p].page].copies = 0
       /\ pub[p].pc = "stamp" => pages[pub[p].page].copies = 1

InTime == ~overrun => Holding /\ OnePage /\ StampedOnce

LEMMA OverrunStays == [Next]_vars /\ ~overrun' => ~overrun
BY DEF Next, vars, Pass, Claim, Create, Generate, RetryPublication, Abandon, HumanPage, Crash,
       Prepare, ResolveParent, StampLesson, Find, CreatePage, Clear, Fill, Stamp, Write,
       ResolvePublished, ResolveFailure, Resolve, Fails

LEMMA Alone ==
  ASSUME DeliveryInv, Holding, NEW p \in Publishers, NEW q \in Publishers,
         pub[p].pc # "idle", pub[q].pc # "idle", pub[p].target = pub[q].target
  PROVE  p = q
BY DEF DeliveryInv, ClaimsApart, Holding, Holds

LEMMA HoldingNext ==
  ASSUME DeliveryInv, Holding, [Next]_vars, ~overrun, ~overrun'
  PROVE  Holding'
<1>1. /\ row \in [Targets -> RowType] /\ pub \in [Publishers -> PubType]
      /\ \A p \in Publishers : pub[p].pc # "idle" => pub[p].target \in Targets
      /\ \A p \in Publishers : pub[p].pc # "idle" =>
           row[pub[p].target].token = pub[p].token /\ pub[p].token # 0
  BY DEF DeliveryInv, Typed, ClaimsApart, Holding, Holds
<1>2. ASSUME \A t \in Targets : row'[t].token = row[t].token,
             \A p \in Publishers : pub'[p].pc # "idle" =>
               /\ pub[p].pc # "idle" /\ pub'[p].target = pub[p].target
               /\ pub'[p].token = pub[p].token
      PROVE  Holding'
  BY <1>1, <1>2 DEF Holding, Holds
<1>3. CASE UNCHANGED vars
  BY <1>1, <1>2, <1>3 DEF vars
<1>4. ASSUME NEW p \in Publishers, NEW t \in Targets, Claim(p, t) PROVE Holding'
  <2>1. /\ pub'[p].target = t /\ pub'[p].token = claims' /\ row'[t].token = claims'
        /\ \A q \in Publishers \ {p} : pub'[q] = pub[q]
        /\ \A u \in Targets \ {t} : row'[u] = row[u]
    BY <1>1, <1>4 DEF Claim, Idle, PubType, RowType
  <2>2. ASSUME NEW q \in Publishers, pub[q].pc # "idle", pub[q].target = t PROVE FALSE
    <3>1. row[t].status = "publishing"
      BY <1>1, <2>2 DEF DeliveryInv, ClaimsApart
    <3>2. q \in HeldBy(t)
      BY <1>1, <2>2 DEF HeldBy, Holds
    <3> QED BY <1>4, <3>1, <3>2 DEF Claim
  <2> QED BY <1>1, <2>1, <2>2 DEF Holding, Holds
<1>5. ASSUME NEW p \in Publishers, Prepare(p) PROVE Holding'
  <2>1. \A t \in Targets : row'[t].token = row[t].token
    BY <1>1, <1>5 DEF Prepare, Fails, RowType
  <2>2. \A q \in Publishers \ {p} : pub'[q] = pub[q]
    BY <1>1, <1>5 DEF Prepare, Fails, Leave, Goto
  <2>3. pub'[p].pc # "idle" =>
          pub'[p].target = pub[p].target /\ pub'[p].token = pub[p].token
    BY <1>1, <1>5, IdleType DEF Prepare, Fails, Leave, Goto, PubType
  <2> QED BY <1>2, <1>5, <2>1, <2>2, <2>3 DEF Prepare
<1>6. ASSUME NEW p \in Publishers,
             \/ ResolveParent(p) \/ StampLesson(p) \/ Find(p) \/ CreatePage(p)
             \/ Clear(p) \/ Fill(p) \/ Stamp(p) \/ Crash(p)
      PROVE  Holding'
  <2>1. row' = row /\ pub[p].pc # "idle" /\ \A q \in Publishers \ {p} : pub'[q] = pub[q]
    BY <1>1, <1>6 DEF ResolveParent, StampLesson, Find, CreatePage, Clear, Fill, Stamp, Write,
                      Crash, Fails, Leave, Goto
  <2>2. pub'[p].pc # "idle" =>
          pub'[p].target = pub[p].target /\ pub'[p].token = pub[p].token
    <3>1. \/ Leave(p)
          \/ \E pc : Goto(p, pc)
          \/ \E i : \E pc : pub' = [pub EXCEPT ![p].page = i, ![p].pc = pc]
      <4>1. CASE ResolveParent(p) \/ StampLesson(p) \/ Crash(p)
        BY <4>1 DEF ResolveParent, StampLesson, Crash, Fails
      <4>2. CASE Clear(p) \/ Fill(p) \/ Stamp(p)
        BY <4>2 DEF Clear, Fill, Stamp, Write
      <4>3. CASE Find(p)
        BY <4>3 DEF Find
      <4>4. CASE CreatePage(p)
        BY <4>4 DEF CreatePage
      <4> QED BY <1>6, <4>1, <4>2, <4>3, <4>4
    <3>2. CASE Leave(p)
      BY <1>1, <3>2, IdleType DEF Leave
    <3>3. ASSUME NEW pc, Goto(p, pc)
          PROVE  pub'[p].target = pub[p].target /\ pub'[p].token = pub[p].token
      BY <1>1, <3>3 DEF Goto, PubType
    <3>4. ASSUME NEW i, NEW pc, pub' = [pub EXCEPT ![p].page = i, ![p].pc = pc]
          PROVE  pub'[p].target = pub[p].target /\ pub'[p].token = pub[p].token
      BY <1>1, <3>4 DEF PubType
    <3> QED BY <3>1, <3>2, <3>3, <3>4
  <2> QED BY <1>2, <2>1, <2>2
<1>7. ASSUME NEW p \in Publishers, ResolvePublished(p) \/ ResolveFailure(p) PROVE Holding'
  <2>1. /\ pub[p].pc # "idle" /\ pub' = [pub EXCEPT ![p] = Idle]
        /\ \A t \in Targets \ {pub[p].target} : row'[t] = row[t]
    BY <1>1, <1>7 DEF ResolvePublished, ResolveFailure, Resolve, Leave
  <2>2. \A q \in Publishers : pub'[q].pc # "idle" =>
          q # p /\ pub'[q] = pub[q] /\ pub[q].target # pub[p].target
    BY <1>1, <2>1, Alone, IdleType
  <2> QED BY <1>1, <2>1, <2>2 DEF Holding, Holds
<1>8. ASSUME NEW t \in Targets, Create(t) \/ Generate(t) \/ RetryPublication(t) \/ Abandon(t)
      PROVE  Holding'
  <2>1. row[t].status = "publication_failed" => row[t].token = 0
    BY DEF DeliveryInv, ClaimsApart
  <2>2. row'[t].token = row[t].token
    <3>1. CASE Create(t) \/ Generate(t)
      BY <1>1, <3>1 DEF Create, Generate, RowType
    <3>2. CASE RetryPublication(t)
      BY <1>1, <2>1, <3>2 DEF RetryPublication, Requeued, RowType
    <3>3. CASE Abandon(t)
      <4>1. row'[t] = Converged(row[t])
        BY <1>1, <3>3 DEF Abandon
      <4> QED BY <1>1, <4>1 DEF Converged, RowType
    <3> QED BY <1>8, <3>1, <3>2, <3>3
  <2>3. \A u \in Targets \ {t} : row'[u] = row[u]
    BY <1>1, <1>8 DEF Create, Generate, RetryPublication, Abandon
  <2>4. pub' = pub
    BY <1>8 DEF Create, Generate, RetryPublication, Abandon
  <2> QED BY <1>1, <1>2, <2>2, <2>3, <2>4
<1>9. ASSUME NEW v \in {2, 3}, HumanPage(v) PROVE Holding'
  BY <1>1, <1>2, <1>9 DEF HumanPage
<1> QED BY <1>3, <1>4, <1>5, <1>6, <1>7, <1>8, <1>9 DEF Next, Pass

\* Steps that leave the pages alone, and what a publisher does to its own.
LEMMA PagesLeft ==
  ASSUME OnePage, StampedOnce, UNCHANGED pages,
         \A p \in Publishers :
           pub'[p].pc \in {"create", "clear", "fill", "stamp"} => pub'[p] = pub[p]
  PROVE  OnePage' /\ StampedOnce'
BY DEF OnePage, StampedOnce

LEMMA FindOnce ==
  ASSUME DeliveryInv, OnePage, StampedOnce, NEW p \in Publishers, Find(p)
  PROVE  OnePage' /\ StampedOnce'
<1>1. /\ pages' = pages /\ pub \in [Publishers -> PubType] /\ pub[p] \in PubType
      /\ pub[p].target \in Targets /\ row[pub[p].target].version = pub[p].version
  BY DEF Find, DeliveryInv, Typed, WorksOnOwn, ClaimsApart, AtWork
<1>2. CASE Goto(p, "park") \/ Goto(p, "retry")
  <2>1. \A q \in Publishers :
          pub'[q].pc \in {"create", "clear", "fill", "stamp"} => pub'[q] = pub[q]
    BY <1>1, <1>2 DEF Goto, PubType
  <2> QED BY <1>1, <2>1, PagesLeft
<1>3. CASE Titled(pub[p].version) = {} /\ Goto(p, "create")
  <2>1. \A i \in DOMAIN pages : pages[i].marker # pub[p].target
    BY <1>1, <1>3, Assumptions DEF Assumptions, Titled, DeliveryInv, PagesMatch
  <2>2. /\ pub'[p].target = pub[p].target /\ pub'[p].pc = "create"
        /\ \A q \in Publishers \ {p} : pub'[q] = pub[q]
    BY <1>1, <1>3 DEF Goto, PubType
  <2> QED BY <1>1, <2>1, <2>2 DEF OnePage, StampedOnce
<1>4. ASSUME NEW i, pub' = [pub EXCEPT ![p].page = i,
                              ![p].pc = IF Complete(i) THEN "delivered" ELSE "clear"]
      PROVE  OnePage' /\ StampedOnce'
  <2>1. /\ pub'[p].page = i /\ pub'[p].pc = (IF Complete(i) THEN "delivered" ELSE "clear")
        /\ \A q \in Publishers \ {p} : pub'[q] = pub[q]
    BY <1>1, <1>4 DEF PubType
  <2> QED BY <1>1, <2>1 DEF OnePage, StampedOnce, Complete
<1>5. \/ Goto(p, "park") \/ Goto(p, "retry")
      \/ Titled(pub[p].version) = {} /\ Goto(p, "create")
      \/ \E i : pub' = [pub EXCEPT ![p].page = i,
                          ![p].pc = IF Complete(i) THEN "delivered" ELSE "clear"]
  BY DEF Find
<1> QED BY <1>2, <1>3, <1>4, <1>5

LEMMA CreateOnce ==
  ASSUME DeliveryInv, Holding, OnePage, StampedOnce, NEW p \in Publishers, CreatePage(p)
  PROVE  OnePage' /\ StampedOnce'
<1> DEFINE t == pub[p].target
           v == pub[p].version
<1>1. /\ pub \in [Publishers -> PubType] /\ pub[p] \in PubType /\ pub[p].pc = "create"
      /\ t \in Targets /\ t # Human /\ v # 0 /\ v \in Nat /\ row[t].version = v
  BY Assumptions DEF Assumptions, CreatePage, DeliveryInv, Typed, WorksOnOwn, ClaimsApart,
                     AtWork, PubType
<1>2. CASE Goto(p, "retry") /\ UNCHANGED pages
  <2>1. \A q \in Publishers :
          pub'[q].pc \in {"create", "clear", "fill", "stamp"} => pub'[q] = pub[q]
    BY <1>1, <1>2 DEF Goto, PubType
  <2> QED BY <1>2, <2>1, PagesLeft
<1>3. CASE Len(pages) < MaxPages /\ pages' = Append(pages, Page(t, v))
  <2> DEFINE n == Len(pages')
  <2>1. /\ n \in DOMAIN pages' /\ pages'[n] = Page(t, v)
        /\ \A i \in DOMAIN pages : i \in DOMAIN pages' /\ pages'[i] = pages[i]
        /\ \A i \in DOMAIN pages' \ DOMAIN pages : i = n
    BY <1>1, <1>3, AddedPage
  <2>2. pages'[n].marker = t /\ ~pages'[n].stamped
    BY <2>1 DEF Page
  <2>3. /\ \A q \in Publishers \ {p} : pub'[q] = pub[q]
        /\ pub'[p].pc = "retry" \/ (pub'[p].pc = "clear" /\ pub'[p].page = n)
    BY <1>1, <1>3 DEF CreatePage, Goto, PubType
  <2>4. \A i \in DOMAIN pages : pages[i].marker # t
    BY <1>1 DEF OnePage
  <2>5. \A q \in Publishers \ {p} : pub[q].pc # "idle" => pub[q].target # t
    BY <1>1, Alone
  <2>6. \A q \in Publishers : pub[q].pc \in AtPage => pub[q].page \in DOMAIN pages
    BY DEF DeliveryInv, WorksOnOwn
  <2> HIDE DEF n, t, v
  <2>7. OnePage'
    BY <2>1, <2>2, <2>3, <2>4, <2>5 DEF OnePage
  <2>8. StampedOnce'
    BY <2>1, <2>2, <2>3, <2>6 DEF StampedOnce, AtPage
  <2> QED BY <2>7, <2>8
<1> QED BY <1>2, <1>3 DEF CreatePage

LEMMA WriteOnce ==
  ASSUME DeliveryInv, Holding, OnePage, StampedOnce, NEW p \in Publishers,
         Clear(p) \/ Fill(p) \/ Stamp(p)
  PROVE  OnePage' /\ StampedOnce'
<1> DEFINE i == pub[p].page
<1>1. /\ pub[p].pc \in {"clear", "fill", "stamp"} /\ pub[p].pc \in AtPage
      /\ pub \in [Publishers -> PubType] /\ pub[p] \in PubType
  BY DEF Clear, Fill, Stamp, Write, AtPage, DeliveryInv, Typed
<1>2. /\ i \in DOMAIN pages /\ pages[i].marker = pub[p].target /\ pages[i] = Written(p)
      /\ ~Written(p).stamped /\ pages[i].marker # Human
      /\ pub[p].pc = "fill" => Written(p).copies = 0
      /\ pub[p].pc = "stamp" => Written(p).copies = 1
  BY <1>1, WriteTypes, Assumptions DEF StampedOnce, Assumptions, DeliveryInv, ClaimsApart
<1>3. CASE Goto(p, "retry") /\ UNCHANGED pages
  <2>1. \A q \in Publishers :
          pub'[q].pc \in {"create", "clear", "fill", "stamp"} => pub'[q] = pub[q]
    BY <1>1, <1>3 DEF Goto, PubType
  <2> QED BY <1>3, <2>1, PagesLeft
<1>4. ASSUME NEW then \in {"fill", "stamp", "delivered"}, NEW page \in PageType,
             pages' = [pages EXCEPT ![i] = page], Goto(p, then) \/ Goto(p, "retry"),
             page.marker = pub[p].target, page.version = Written(p).version,
             page.stamped <=> then = "delivered",
             then = "fill" => page.copies = 0, then # "fill" => page.copies = 1
      PROVE  OnePage' /\ StampedOnce'
  <2>1. /\ DOMAIN pages' = DOMAIN pages /\ pages'[i] = page
        /\ \A n \in DOMAIN pages \ {i} : pages'[n] = pages[n]
    BY <1>2, <1>4, WrittenPage
  <2>2. /\ \A q \in Publishers \ {p} : pub'[q] = pub[q]
        /\ pub'[p].pc \in {then, "retry"} /\ pub'[p].page = i
    BY <1>1, <1>4 DEF Goto, PubType
  <2>3. \A q \in Publishers \ {p} : pub[q].pc \in AtPage =>
          pub[q].page \in DOMAIN pages \ {i}
    BY <1>1, <1>2, Alone DEF DeliveryInv, WorksOnOwn, AtPage
  <2>4. \A n \in DOMAIN pages : pages'[n].marker = pages[n].marker
    BY <1>2, <1>4, <2>1
  <2> HIDE DEF i
  <2>5. OnePage'
    BY <1>4, <2>1, <2>2, <2>4 DEF OnePage
  <2>6. StampedOnce'
    <3>1. \A n \in DOMAIN pages' : pages'[n].marker # Human /\ pages'[n].stamped =>
            pages'[n].copies = 1
      BY <1>4, <2>1 DEF StampedOnce
    <3>2. ASSUME NEW q \in Publishers, pub'[q].pc \in {"clear", "fill", "stamp"}
          PROVE  /\ ~pages'[pub'[q].page].stamped
                 /\ pub'[q].pc = "fill" => pages'[pub'[q].page].copies = 0
                 /\ pub'[q].pc = "stamp" => pages'[pub'[q].page].copies = 1
      <4>1. CASE q = p
        BY <1>4, <2>1, <2>2, <3>2, <4>1
      <4>2. CASE q # p
        BY <2>1, <2>2, <2>3, <3>2, <4>2 DEF StampedOnce, AtPage
      <4> QED BY <4>1, <4>2
    <3> QED BY <3>1, <3>2 DEF StampedOnce
  <2> QED BY <2>5, <2>6
<1>5. CASE Clear(p)
  <2>1. Write(p, "clear", "fill", Cleared(Written(p)))
    BY <1>5 DEF Clear
  <2>2. /\ Cleared(Written(p)) \in PageType /\ Cleared(Written(p)).marker = pub[p].target
        /\ Cleared(Written(p)).version = Written(p).version
        /\ Cleared(Written(p)).stamped = Written(p).stamped /\ Cleared(Written(p)).copies = 0
    BY <1>1, WriteTypes
  <2> HIDE DEF i
  <2> QED BY <1>2, <1>3, <1>4, <2>1, <2>2 DEF Write, i
<1>6. CASE Fill(p)
  <2>1. Write(p, "fill", "stamp", Filled(p)) /\ pub[p].pc = "fill"
    BY <1>6 DEF Fill, Filled, Write
  <2>2. /\ Filled(p) \in PageType /\ Filled(p).marker = pub[p].target
        /\ Filled(p).version = Written(p).version
        /\ Filled(p).stamped = Written(p).stamped /\ Filled(p).copies = 1
    BY <1>1, <1>2, <2>1, WriteTypes
  <2> HIDE DEF i
  <2> QED BY <1>2, <1>3, <1>4, <2>1, <2>2 DEF Write, i
<1>7. CASE Stamp(p)
  <2>1. Write(p, "stamp", "delivered", Stamped(p)) /\ pub[p].pc = "stamp"
    BY <1>7 DEF Stamp, Stamped, Write
  <2>2. /\ Stamped(p) \in PageType /\ Stamped(p).marker = pub[p].target
        /\ Stamped(p).version = Written(p).version
        /\ Stamped(p).stamped /\ Stamped(p).copies = 1
    BY <1>1, <1>2, <2>1, WriteTypes
  <2> HIDE DEF i
  <2> QED BY <1>2, <1>3, <1>4, <2>1, <2>2 DEF Write, i
<1> QED BY <1>5, <1>6, <1>7

LEMMA InTimeNext ==
  ASSUME DeliveryInv, InTime, [Next]_vars
  PROVE  InTime'
<1> SUFFICES ASSUME ~overrun' PROVE Holding' /\ OnePage' /\ StampedOnce'
  BY DEF InTime
<1>1. ~overrun /\ Holding /\ OnePage /\ StampedOnce
  BY OverrunStays DEF InTime
<1>2. Holding'
  BY <1>1, HoldingNext
<1>3. pub \in [Publishers -> PubType] /\ Idle.pc = "idle"
  BY IdleType DEF DeliveryInv, Typed
<1>4. CASE UNCHANGED vars
  BY <1>1, <1>2, <1>4, PagesLeft DEF vars
<1>5. ASSUME NEW p \in Publishers,
             \/ \E t \in Targets : Claim(p, t)
             \/ Prepare(p) \/ ResolveParent(p) \/ StampLesson(p) \/ Crash(p)
             \/ ResolvePublished(p) \/ ResolveFailure(p)
      PROVE  OnePage' /\ StampedOnce'
  <2>1. pages' = pages /\ \A q \in Publishers \ {p} : pub'[q] = pub[q]
    BY <1>3, <1>5 DEF Claim, Prepare, ResolveParent, StampLesson, Crash, ResolvePublished,
                      ResolveFailure, Resolve, Fails, Leave, Goto
  <2>2. pub'[p].pc \notin {"create", "clear", "fill", "stamp"}
    <3>1. CASE \E t \in Targets : Claim(p, t)
      BY <1>3, <3>1 DEF Claim, Idle
    <3>2. CASE Prepare(p)
      BY <1>3, <3>2 DEF Prepare, Fails, Leave, Goto, PubType
    <3>3. CASE ResolveParent(p) \/ StampLesson(p)
      BY <1>3, <3>3 DEF ResolveParent, StampLesson, Fails, Leave, Goto, PubType
    <3>4. CASE Crash(p) \/ ResolvePublished(p) \/ ResolveFailure(p)
      BY <1>3, <3>4 DEF Crash, ResolvePublished, ResolveFailure, Resolve, Leave
    <3> QED BY <1>5, <3>1, <3>2, <3>3, <3>4
  <2> QED BY <1>1, <2>1, <2>2, PagesLeft
<1>6. ASSUME NEW p \in Publishers, Pass(p) PROVE OnePage' /\ StampedOnce'
  BY <1>1, <1>5, <1>6, FindOnce, CreateOnce, WriteOnce DEF Pass
<1>7. ASSUME NEW t \in Targets, Create(t) \/ Generate(t) \/ RetryPublication(t) \/ Abandon(t)
      PROVE  OnePage' /\ StampedOnce'
  BY <1>1, <1>7, PagesLeft DEF Create, Generate, RetryPublication, Abandon
<1>8. ASSUME NEW v \in {2, 3}, HumanPage(v) PROVE OnePage' /\ StampedOnce'
  <2> DEFINE n == Len(pages')
  <2>1. /\ n \in DOMAIN pages' /\ pages'[n] = Page(Human, v)
        /\ \A i \in DOMAIN pages : i \in DOMAIN pages' /\ pages'[i] = pages[i]
        /\ \A i \in DOMAIN pages' \ DOMAIN pages : i = n
    BY <1>8, AddedPage DEF HumanPage
  <2>2. pages'[n].marker = Human /\ pub' = pub
    BY <1>8, <2>1 DEF Page, HumanPage
  <2>3. \A q \in Publishers : pub[q].pc \in AtPage => pub[q].page \in DOMAIN pages
    BY DEF DeliveryInv, WorksOnOwn
  <2>4. \A q \in Publishers : pub[q].pc # "idle" => pub[q].target # Human
    BY Assumptions DEF Assumptions, DeliveryInv, ClaimsApart
  <2> HIDE DEF n
  <2>5. OnePage'
    BY <1>1, <2>1, <2>2, <2>4 DEF OnePage
  <2>6. StampedOnce'
    BY <1>1, <2>1, <2>2, <2>3 DEF StampedOnce, AtPage
  <2> QED BY <2>5, <2>6
<1> QED BY <1>2, <1>4, <1>5, <1>6, <1>7, <1>8 DEF Next

LEMMA InTimeInit == Init => InTime
BY IdleType DEF Init, InTime, Holding, OnePage, StampedOnce

\* While every delivery ends within its lease, its publisher alone works on the
\* target and its page.
THEOREM InTimeInvariant == Spec => [](DeliveryInv /\ InTime)
<1>1. Init => DeliveryInv /\ InTime
  BY DeliveryInit, InTimeInit
<1>2. DeliveryInv /\ InTime /\ [Next]_vars => (DeliveryInv /\ InTime)'
  BY DeliveryNext, InTimeNext
<1> QED BY <1>1, <1>2, PTL DEF Spec

LEMMA TypesOfDelivery == DeliveryInv => TypeOK
<1> SUFFICES ASSUME DeliveryInv PROVE TypeOK
  OBVIOUS
<1>1. ASSUME NEW t \in Targets
      PROVE  /\ row[t].status \in Statuses /\ row[t].token \in 0 .. claims
             /\ row[t].token # 0 <=> row[t].status = "publishing"
             /\ row[t].retry => row[t].status \in {"publication_failed", "publishing", "abandoned"}
             /\ row[t].page \in 0 .. Len(pages)
  <2>1. row[t] \in RowType /\ claims \in Nat /\ Len(pages) \in Nat
    BY PageTypes DEF DeliveryInv, Typed
  <2>2. row[t].token \in Nat /\ row[t].page \in Nat /\ row[t].status \in Statuses
    BY <2>1 DEF RowType
  <2>3. /\ row[t].token <= claims /\ row[t].page <= Len(pages)
        /\ row[t].token # 0 <=> row[t].status = "publishing"
        /\ row[t].retry => row[t].status \in {"publication_failed", "publishing", "abandoned"}
    BY DEF DeliveryInv, ClaimsApart, PagesMatch, Bounded
  <2> QED BY <2>1, <2>2, <2>3
<1>2. \A p \in Publishers : pub[p].pc = "idle" <=> pub[p] = Idle
  BY IdleType DEF DeliveryInv, ClaimsApart
<1>3. Len(pages) <= MaxPages /\ events \in 0 .. MaxEvents
  BY DEF DeliveryInv, Bounded, Typed
<1> QED BY <1>1, <1>2, <1>3 DEF TypeOK

LEMMA PublishedPage == DeliveryInv /\ InTime => PublishedOnce
<1> SUFFICES ASSUME DeliveryInv, InTime PROVE PublishedOnce
  OBVIOUS
<1>1. \A t \in Targets : t # Human
  BY Assumptions DEF Assumptions
<1>2. ASSUME NEW t \in Targets, row[t].status = "published"
      PROVE  /\ row[t].page # 0
             /\ LET page == pages[row[t].page] IN
                  /\ page.marker = t /\ page.version = row[t].version /\ page.stamped
                  /\ ~overrun => page.copies = 1
  <2>1. /\ row[t].page # 0 /\ row[t].page \in Nat /\ row[t].page <= Len(pages)
        /\ pages[row[t].page].marker = t /\ pages[row[t].page].stamped
    BY <1>2 DEF DeliveryInv, PagesMatch, Typed, RowType
  <2>2. row[t].page \in DOMAIN pages
    BY <2>1, PageTypes DEF DeliveryInv
  <2> QED BY <1>1, <2>1, <2>2 DEF DeliveryInv, PagesMatch, InTime, StampedOnce
<1>3. ASSUME ~overrun, NEW t \in Targets
      PROVE  Cardinality({i \in DOMAIN pages : pages[i].marker = t}) <= 1
  <2>1. \A i, j \in {n \in DOMAIN pages : pages[n].marker = t} : i = j
    BY <1>1, <1>3 DEF InTime, OnePage
  <2>3. ASSUME NEW j \in {i \in DOMAIN pages : pages[i].marker = t}
        PROVE  {i \in DOMAIN pages : pages[i].marker = t} = {j}
    BY <2>1
  <2>4. ASSUME NEW j \in {i \in DOMAIN pages : pages[i].marker = t}
        PROVE  Cardinality({i \in DOMAIN pages : pages[i].marker = t}) = 1
    BY <2>3, FS_Singleton
  <2> DEFINE own == {i \in DOMAIN pages : pages[i].marker = t}
  <2>5. own = {} => Cardinality(own) = 0
    BY FS_EmptySet
  <2>6. own # {} => Cardinality(own) = 1
    BY <2>4
  <2> HIDE DEF own
  <2>7. Cardinality(own) <= 1
    BY <2>5, <2>6
  <2> QED BY <2>7 DEF own
<1> QED BY <1>2, <1>3, TypesOfDelivery DEF PublishedOnce

\* A published target names its own complete page, whichever attempt wrote it;
\* and while no delivery outlives its lease, the homework is on it exactly once
\* and the target has no second page, through every crash, lost answer and retry.
THEOREM PagesOnce == Spec => []PublishedOnce
<1> QED BY InTimeInvariant, PublishedPage, PTL

-----------------------------------------------------------------------------
(* The life of any targets of any lineages (TargetLife).                   *)

CONSTANT Lineage
VARIABLES status, version

Target == INSTANCE TargetLife

LifeTyped == status \in [Targets -> Target!Statuses] /\ version \in [Targets -> Nat]

OneLiveRow == \A t, u \in Targets : Target!Related(t, u) => ~(Target!Live(status[t]) /\ Target!Live(status[u]))

VersionsOnce ==
  \A t, u \in Targets : Target!Related(t, u) /\ version[t] # 0 => version[t] # version[u]

LifeInv == LifeTyped /\ OneLiveRow /\ VersionsOnce

LEMMA InitLife == Target!Init => LifeInv
<1> SUFFICES ASSUME Target!Init PROVE LifeInv
  OBVIOUS
<1>1. LifeTyped
  BY DEF Target!Init, LifeTyped, Target!Statuses, Target!Transitions
<1>2. OneLiveRow
  BY DEF Target!Init, OneLiveRow, Target!Live
<1>3. VersionsOnce
  BY DEF Target!Init, VersionsOnce
<1> QED BY <1>1, <1>2, <1>3 DEF LifeInv

LEMMA StepLife == ASSUME LifeInv, [Target!Next]_(Target!vars) PROVE LifeInv'
<1>1. CASE UNCHANGED Target!vars
  BY <1>1 DEF Target!vars, LifeInv, LifeTyped, OneLiveRow, VersionsOnce
<1>2. CASE Target!Next
  <2>1. LifeTyped'
    BY <1>2 DEF Target!Next, Target!Move, LifeTyped
  <2>2. OneLiveRow'
    BY <1>2 DEF Target!Next, Target!Move, OneLiveRow
  <2>3. ASSUME NEW t \in Targets, NEW u \in Targets, Target!Related(t, u), version'[t] # 0
        PROVE  version'[t] # version'[u]
    <3>1. Target!Related(u, t)
      BY <2>3 DEF Target!Related
    <3>2. CASE version'[t] # version[t]
      BY <1>2, <2>3, <3>2 DEF Target!Next, Target!Reserve
    <3>3. CASE version'[u] # version[u]
      BY <1>2, <3>1, <3>3 DEF Target!Next, Target!Reserve
    <3>4. CASE version'[t] = version[t] /\ version'[u] = version[u]
      BY <2>3, <3>4 DEF LifeInv, VersionsOnce
    <3> QED BY <3>2, <3>3, <3>4
  <2>4. VersionsOnce'
    BY <2>3 DEF VersionsOnce, Target!Related
  <2> QED BY <2>1, <2>2, <2>4 DEF LifeInv
<1> QED BY <1>1, <1>2

\* A lineage has one live target at a time and its versions are distinct, in
\* every behaviour (uq_regeneration_targets_active_lineage and the reservation
\* of repositories/regeneration_targets.py).
THEOREM LifeInvariant == Target!Spec => []LifeInv
<1> QED BY InitLife, StepLife, PTL DEF Target!Spec

\* A published or abandoned target stays so.
EndsAreFinal ==
  [][\A t \in Targets : status[t] \in Target!Terminal => status'[t] = status[t]]_(Target!vars)

\* The edges of _TARGET_TRANSITIONS leave no way out of a terminal status.
THEOREM FinalEnds == Target!Spec => EndsAreFinal
<1>1. ASSUME [Target!Next]_(Target!vars)
      PROVE  [\A t \in Targets : status[t] \in Target!Terminal => status'[t] = status[t]]_(Target!vars)
  <2>1. CASE UNCHANGED Target!vars
    BY <2>1
  <2>2. CASE Target!Next
    BY <2>2 DEF Target!Next, Target!Move, Target!Terminal, Target!Transitions
  <2> QED BY <1>1, <2>1, <2>2
<1> QED BY <1>1, PTL DEF Target!Spec, EndsAreFinal

\* A version that was reserved is never given back or changed.
VersionsAreConsumed ==
  [][\A t \in Targets : version[t] # 0 => version'[t] = version[t]]_(Target!vars)

\* reserve_publication_version writes only where there is no version yet.
THEOREM ConsumedVersions == Target!Spec => VersionsAreConsumed
<1>1. ASSUME [Target!Next]_(Target!vars)
      PROVE  [\A t \in Targets : version[t] # 0 => version'[t] = version[t]]_(Target!vars)
  <2>1. CASE UNCHANGED Target!vars
    BY <2>1
  <2>2. CASE Target!Next
    BY <2>2 DEF Target!Next, Target!Reserve
  <2> QED BY <1>1, <2>1, <2>2
<1> QED BY <1>1, PTL DEF Target!Spec, VersionsAreConsumed
=============================================================================
