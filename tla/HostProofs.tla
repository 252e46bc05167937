----------------------------- MODULE HostProofs -----------------------------
(***************************************************************************)
(* What the hosts of the fleet share, for any number of processes, calls,  *)
(* limits, caps and keys: the slots of a credential (CredentialSlots), the *)
(* gates on spending (CostCaps), and, among the processes of one host, its *)
(* key (HostKey).  What a transaction has read under the lock of a host    *)
(* (the tombstone, the count of jobs) stays true until it commits, so that *)
(* a scrub clears the shared files only while no process owns a job, and   *)
(* no job is claimed while a scrub is pending.                             *)
(***************************************************************************)
EXTENDS CredentialSlots, CostCaps, HostKey, FiniteSetTheorems, TLAPS

-----------------------------------------------------------------------------
(* CredentialSlots: a call that was admitted is counted until it is over.  *)

\* The id of a row is known to one call or to one release task, never to two:
\* so a late release removes no row but its own.
OneKnower == \A i \in Stored : \A k, l \in rows[i].known : k = l

\* A claim is of an index.
ClaimsIndex == \A c \in Calls : call[c].pc = "claim" => call[c].cand \in Indexes

\* Only a call in progress has a slot.
HoldsInCall == \A c \in Calls : call[c].held => call[c].pc \in {"calling", "releasing"}

SlotInv == AdmittedIsCounted /\ OneKnower /\ ClaimsIndex /\ HoldsInCall

LEMMA CallTypes ==
  /\ Idle \in Call /\ Idle.pc = "idle" /\ ~Idle.held
  /\ \A at \in Pc : At(at) \in Call /\ At(at).pc = at /\ ~At(at).held
  /\ \A k \in Call : \A at \in Pc :
       /\ [k EXCEPT !.pc = at] \in Call
       /\ [k EXCEPT !.pc = at].pc = at /\ [k EXCEPT !.pc = at].held = k.held
<1>1. 0 \in 0 .. RaceRetries /\ "idle" \in Pc
  BY Assumptions DEF Assumptions, Pc
<1>2. Idle \in Call /\ Idle.pc = "idle" /\ ~Idle.held
  BY <1>1 DEF Idle, Call
<1>3. \A k \in Call : \A at \in Pc :
        /\ [k EXCEPT !.pc = at] \in Call
        /\ [k EXCEPT !.pc = at].pc = at /\ [k EXCEPT !.pc = at].held = k.held
  BY DEF Call
<1> QED BY <1>2, <1>3 DEF At

\* What the statements do to the rows.
LEMMA PutRow ==
  ASSUME TypeOK, NEW i \in Indexes, NEW K \in SUBSET Knowers, Put(i, K)
  PROVE  /\ Stored' = Stored \cup {i} /\ rows' \in [Stored' -> Row]
         /\ rows'[i] = [known |-> K, fresh |-> TRUE]
         /\ \A k \in Stored \ {i} : rows'[k] = rows[k]
<1>1. Taken(i, K) \in Row
  BY DEF Taken, Row
<1> QED BY <1>1 DEF Put, TypeOK, Taken, Stored

LEMMA DeletedRows ==
  ASSUME TypeOK, NEW k, rows' = Deleted(k)
  PROVE  /\ Stored' = {i \in Stored : k \notin rows[i].known}
         /\ \A i \in Stored' : rows'[i] = rows[i]
         /\ rows' \in [Stored' -> Row]
BY DEF Deleted, Kept, Stored, TypeOK

LEMMA RenamedRows ==
  ASSUME TypeOK, NEW gone, NEW heirs \in SUBSET Knowers, rows' = Renamed(gone, heirs)
  PROVE  /\ Stored' = Stored /\ rows' \in [Stored' -> Row]
         /\ \A i \in Stored :
              /\ rows'[i].fresh = rows[i].fresh
              /\ rows[i].known \cap gone = {} => rows'[i] = rows[i]
              /\ rows[i].known \cap gone # {} =>
                   rows'[i].known = (rows[i].known \ gone) \cup heirs
<1>1. Stored' = Stored /\ rows' = [i \in Stored |-> rows'[i]]
  BY DEF Renamed, Stored
<1>2. ASSUME NEW i \in Stored
      PROVE  /\ rows'[i] \in Row /\ rows'[i].fresh = rows[i].fresh
             /\ rows[i].known \cap gone = {} => rows'[i] = rows[i]
             /\ rows[i].known \cap gone # {} =>
                  rows'[i].known = (rows[i].known \ gone) \cup heirs
  <2>1. rows[i] \in Row
    BY DEF TypeOK
  <2>2. CASE rows[i].known \cap gone = {}
    BY <2>1, <2>2 DEF Renamed
  <2>3. CASE rows[i].known \cap gone # {}
    <3>1. rows'[i] = [rows[i] EXCEPT !.known = (rows[i].known \ gone) \cup heirs]
      BY <2>3 DEF Renamed
    <3> QED BY <2>1, <2>3, <3>1 DEF Row
  <2> QED BY <2>2, <2>3
<1> QED BY <1>1, <1>2

\* A call moves on, and has no slot but one that it is giving back.
Moves(c) ==
  \E k \in Call : /\ call' = [call EXCEPT ![c] = k]
                  /\ k.held => k.pc = "releasing"
                  /\ k.pc = "claim" => k.cand \in Indexes

LEMMA MovesCalls ==
  ASSUME SlotInv, NEW c \in Calls, Moves(c)
  PROVE  /\ call' \in [Calls -> Call] /\ ClaimsIndex' /\ HoldsInCall'
         /\ \A d \in Calls : call'[d].pc = "calling" /\ call'[d].held =>
              d # c /\ call[d].pc = "calling" /\ call[d].held
BY DEF Moves, SlotInv, AdmittedIsCounted, TypeOK, ClaimsIndex, HoldsInCall

\* The rows stay.
LEMMA MovesSlot ==
  ASSUME SlotInv, NEW c \in Calls, Moves(c), UNCHANGED <<limit, rows, detached>>,
         cache' \in [Processes -> AllLimits \cup {NoLimit}]
  PROVE  SlotInv'
<1>1. TypeOK' /\ OneKnower'
  BY MovesCalls DEF SlotInv, AdmittedIsCounted, TypeOK, OneKnower, Stored
<1>2. \A d \in Calls : call'[d].pc = "calling" /\ call'[d].held =>
        \E i \in FreshRows' : d \in rows'[i].known
  BY MovesCalls DEF SlotInv, AdmittedIsCounted, FreshRows, Stored
<1> QED BY <1>1, <1>2, MovesCalls DEF SlotInv, AdmittedIsCounted

\* A row is put at a free index, for a call that is admitted or for nobody.
LEMMA PutSlot ==
  ASSUME SlotInv, NEW c \in Calls, NEW i \in Indexes \ FreshRows, NEW K \in {{}, {c}},
         Put(i, K), UNCHANGED <<limit, cache, detached>>,
         \/ Moves(c)
         \/ K = {c} /\ call' = [call EXCEPT ![c] = [At("calling") EXCEPT !.held = TRUE]]
  PROVE  SlotInv'
<1> DEFINE k == [At("calling") EXCEPT !.held = TRUE]
<1>1. TypeOK /\ OneKnower /\ K \in SUBSET Knowers
  BY DEF SlotInv, AdmittedIsCounted, Knowers
<1>2. /\ Stored' = Stored \cup {i} /\ rows' \in [Stored' -> Row]
      /\ rows'[i] = [known |-> K, fresh |-> TRUE]
      /\ \A n \in Stored \ {i} : rows'[n] = rows[n]
  BY <1>1, PutRow
<1>3. k \in Call /\ k.pc = "calling"
  BY CallTypes DEF Call, Pc
<1> HIDE DEF k
<1>4. /\ call' \in [Calls -> Call] /\ ClaimsIndex' /\ HoldsInCall'
      /\ \A d \in Calls : call'[d].pc = "calling" /\ call'[d].held =>
           (d = c /\ K = {c}) \/ (call[d].pc = "calling" /\ call[d].held)
  <2>1. CASE Moves(c)
    BY <2>1, MovesCalls
  <2>2. CASE ~Moves(c)
    <3>1. K = {c} /\ call' = [call EXCEPT ![c] = k]
      BY <2>2 DEF k
    <3> QED BY <1>3, <3>1 DEF SlotInv, AdmittedIsCounted, TypeOK, ClaimsIndex, HoldsInCall
  <2> QED BY <2>1, <2>2
<1>5. TypeOK'
  BY <1>1, <1>2, <1>4 DEF TypeOK
<1>6. OneKnower'
  BY <1>1, <1>2 DEF OneKnower
<1>7. ASSUME NEW d \in Calls, call'[d].pc = "calling", call'[d].held
      PROVE  \E n \in FreshRows' : d \in rows'[n].known
  <2>1. CASE d = c /\ K = {c}
    BY <1>2, <2>1 DEF FreshRows
  <2>2. CASE call[d].pc = "calling" /\ call[d].held
    <3>1. PICK n \in FreshRows : d \in rows[n].known
      BY <2>2 DEF SlotInv, AdmittedIsCounted
    <3> QED BY <1>2, <3>1 DEF FreshRows
  <2> QED BY <1>4, <1>7, <2>1, <2>2
<1> QED BY <1>4, <1>5, <1>6, <1>7 DEF SlotInv, AdmittedIsCounted

\* Some knowers forget their rows, which are deleted, stay, or pass to one heir;
\* none of them is a call in progress afterwards.
LEMMA ForgetSlot ==
  ASSUME SlotInv, NEW gone \in SUBSET Knowers, NEW heirs \in SUBSET Knowers,
         \A h, k \in heirs : h = k,
         rows' = Renamed(gone, heirs) \/ \E g \in gone : rows' = Deleted(g),
         UNCHANGED limit, cache' \in [Processes -> AllLimits \cup {NoLimit}],
         detached' \subseteq Processes, call' \in [Calls -> Call], ClaimsIndex', HoldsInCall',
         \A d \in Calls : call'[d].pc = "calling" /\ call'[d].held =>
           d \notin gone /\ call[d].pc = "calling" /\ call[d].held
  PROVE  SlotInv'
<1>1. TypeOK /\ OneKnower
  BY DEF SlotInv, AdmittedIsCounted
<1>2. /\ Stored' \subseteq Stored /\ rows' \in [Stored' -> Row]
      /\ \A i \in Stored' : \/ rows'[i] = rows[i]
                            \/ /\ rows[i].known \cap gone # {}
                               /\ rows'[i].known = (rows[i].known \ gone) \cup heirs
      /\ \A i \in Stored : rows[i].known \cap gone = {} => i \in Stored' /\ rows'[i] = rows[i]
  <2>1. CASE rows' = Renamed(gone, heirs)
    BY <1>1, <2>1, RenamedRows
  <2>2. ASSUME NEW g \in gone, rows' = Deleted(g)
        PROVE  /\ Stored' = {i \in Stored : g \notin rows[i].known}
               /\ \A i \in Stored' : rows'[i] = rows[i]
               /\ rows' \in [Stored' -> Row]
    BY <1>1, <2>2, DeletedRows
  <2> QED BY <2>1, <2>2
<1>3. TypeOK'
  BY <1>1, <1>2 DEF TypeOK
<1>4. OneKnower'
  <2> SUFFICES ASSUME NEW i \in Stored', NEW k \in rows'[i].known, NEW l \in rows'[i].known
               PROVE  k = l
    BY DEF OneKnower
  <2>1. CASE rows'[i] = rows[i]
    BY <1>1, <1>2, <2>1 DEF OneKnower
  <2>2. CASE /\ rows[i].known \cap gone # {}
             /\ rows'[i].known = (rows[i].known \ gone) \cup heirs
    <3>1. rows[i].known \ gone = {}
      BY <1>1, <1>2, <2>2 DEF OneKnower
    <3> QED BY <2>2, <3>1
  <2> QED BY <1>2, <2>1, <2>2
<1>5. ASSUME NEW d \in Calls, call'[d].pc = "calling", call'[d].held
      PROVE  \E n \in FreshRows' : d \in rows'[n].known
  <2>1. PICK n \in FreshRows : d \in rows[n].known
    BY <1>5 DEF SlotInv, AdmittedIsCounted
  <2>2. rows[n].known \cap gone = {}
    BY <1>1, <1>5, <2>1 DEF OneKnower, FreshRows
  <2> QED BY <1>2, <2>1, <2>2 DEF FreshRows
<1> QED BY <1>3, <1>4, <1>5 DEF SlotInv, AdmittedIsCounted

-----------------------------------------------------------------------------
(* One lemma for each kind of action.                                      *)

\* The actions of an attempt that leave the rows alone.
QuietStep(c) ==
  \/ Start(c) \/ Enter(c) \/ ResolveLimit(c) \/ Snapshot(c) \/ PollAgain(c)
  \/ GiveUp(c) \/ EndCall(c)

LEMMA QuietMoves ==
  ASSUME SlotInv, NEW c \in Calls, QuietStep(c)
  PROVE  /\ Moves(c) /\ UNCHANGED <<limit, rows, detached>>
         /\ cache' \in [Processes -> AllLimits \cup {NoLimit}]
<1> DEFINE Goal == /\ Moves(c) /\ UNCHANGED <<limit, rows, detached>>
                   /\ cache' \in [Processes -> AllLimits \cup {NoLimit}]
<1>1. /\ call \in [Calls -> Call] /\ limit \in AllLimits /\ Default \in AllLimits
      /\ cache \in [Processes -> AllLimits \cup {NoLimit}]
      /\ AllLimits \subseteq Nat /\ Home[c] \in Processes
  BY Assumptions DEF SlotInv, AdmittedIsCounted, TypeOK, AllLimits, Assumptions
<1>2. ASSUME NEW at \in Pc \ {"claim"}, call' = [call EXCEPT ![c] = At(at)] PROVE Moves(c)
  BY <1>2, CallTypes DEF Moves
<1>3. ASSUME NEW at \in Pc \ {"claim"}, call' = [call EXCEPT ![c].pc = at],
             ~call[c].held \/ at = "releasing"
      PROVE  Moves(c)
  <2>1. /\ [call[c] EXCEPT !.pc = at] \in Call /\ [call[c] EXCEPT !.pc = at].pc = at
        /\ [call[c] EXCEPT !.pc = at].held = call[c].held
    BY <1>1, CallTypes
  <2>2. call' = [call EXCEPT ![c] = [call[c] EXCEPT !.pc = at]]
    BY <1>1, <1>3
  <2> QED BY <1>3, <2>1, <2>2 DEF Moves
<1>4. CASE Start(c)
  BY <1>1, <1>2, <1>4 DEF Start, Pc
<1>5. CASE Enter(c)
  <2>1. ~call[c].held
    BY <1>5 DEF Enter, SlotInv, HoldsInCall
  <2> QED BY <1>1, <1>3, <1>5, <2>1 DEF Enter, Pc
<1>6. CASE ResolveLimit(c)
  <2>1. ~call[c].held /\ call[c].pc = "resolve"
    BY <1>6 DEF ResolveLimit, SlotInv, HoldsInCall
  <2>2. ASSUME NEW n \in AllLimits, Resolved(c, n) PROVE Moves(c)
    <3>1. CASE n = 0
      <4>1. call' = [call EXCEPT ![c] = At("calling")]
        BY <2>2, <3>1 DEF Resolved
      <4>2. "calling" \in Pc \ {"claim"}
        BY DEF Pc
      <4> QED BY <1>2, <4>1, <4>2
    <3>2. CASE n # 0
      <4> DEFINE k == [call[c] EXCEPT !.pc = "poll", !.lim = n]
      <4>1. call' = [call EXCEPT ![c] = k]
        BY <1>1, <2>2, <3>2 DEF Resolved
      <4>2. k \in Call /\ k.pc = "poll" /\ ~k.held
        BY <1>1, <2>1 DEF Call, Pc
      <4> HIDE DEF k
      <4> QED BY <4>1, <4>2 DEF Moves
    <3> QED BY <3>1, <3>2
  <2>3. cache[Home[c]] # NoLimit => cache[Home[c]] \in AllLimits
    BY <1>1
  <2>4. call' = [call EXCEPT ![c].pc = "calling"] => Moves(c)
    BY <1>3, <2>1 DEF Pc
  <2>5. cache' = cache \/ cache' = [cache EXCEPT ![Home[c]] = limit]
    BY <1>6 DEF ResolveLimit
  <2>6. Moves(c)
    BY <1>1, <1>6, <2>2, <2>3, <2>4 DEF ResolveLimit
  <2> QED BY <1>1, <1>6, <2>5, <2>6 DEF ResolveLimit
<1>7. CASE Snapshot(c)
  <2>1. call[c].pc = "poll" /\ ~call[c].held /\ call[c] \in Call
    BY <1>1, <1>7 DEF Snapshot, SlotInv, HoldsInCall
  <2>2. CASE call' = [call EXCEPT ![c].pc = "wait", ![c].races = 0]
    <3> DEFINE k == [call[c] EXCEPT !.pc = "wait", !.races = 0]
    <3>1. call' = [call EXCEPT ![c] = k]
      BY <1>1, <2>2
    <3>2. k \in Call /\ k.pc = "wait" /\ ~k.held
      <4>1. 0 \in 0 .. RaceRetries
        BY Assumptions DEF Assumptions
      <4> QED BY <2>1, <4>1 DEF Call, Pc
    <3> HIDE DEF k
    <3> QED BY <1>1, <1>7, <3>1, <3>2 DEF Moves, Snapshot
  <2>3. ASSUME NEW i \in FreeIndexes(call[c].lim),
               call' = [call EXCEPT ![c].pc = "claim", ![c].cand = i]
        PROVE  Moves(c)
    <3> DEFINE k == [call[c] EXCEPT !.pc = "claim", !.cand = i]
    <3>1. call' = [call EXCEPT ![c] = k]
      BY <1>1, <2>3
    <3>2. i \in Indexes
      BY <2>3 DEF FreeIndexes
    <3>3. k \in Call /\ k.pc = "claim" /\ ~k.held /\ k.cand = i
      BY <2>1, <3>2 DEF Call, Pc
    <3> HIDE DEF k
    <3> QED BY <3>1, <3>2, <3>3 DEF Moves
  <2> QED BY <1>1, <1>7, <2>2, <2>3 DEF Snapshot
<1>8. CASE PollAgain(c)
  <2>1. ~call[c].held
    BY <1>8 DEF PollAgain, SlotInv, HoldsInCall
  <2> QED BY <1>1, <1>3, <1>8, <2>1 DEF PollAgain, Pc
<1>9. CASE GiveUp(c)
  BY <1>1, <1>9, CallTypes DEF GiveUp, Moves
<1>10. CASE EndCall(c)
  BY <1>1, <1>3, <1>10 DEF EndCall, Pc
<1> QED BY <1>4, <1>5, <1>6, <1>7, <1>8, <1>9, <1>10 DEF QuietStep

\* A claim that loses its race, or whose answer is not heard.
LEMMA ClaimSlot ==
  ASSUME SlotInv, NEW c \in Calls, call[c].pc = "claim",
         UNCHANGED <<limit, cache, detached>>,
         \/ Claim(c)
         \/ ClaimUnheard(c) /\ (\E k \in {Idle, At("calling")} : call' = [call EXCEPT ![c] = k])
  PROVE  SlotInv'
<1>1. call \in [Calls -> Call] /\ cache \in [Processes -> AllLimits \cup {NoLimit}]
  BY DEF SlotInv, AdmittedIsCounted, TypeOK
<1>2. call[c].cand \in Indexes /\ ~call[c].held
  BY DEF SlotInv, ClaimsIndex, HoldsInCall
<1>3. CASE ClaimUnheard(c) /\ (\E k \in {Idle, At("calling")} : call' = [call EXCEPT ![c] = k])
  <2>1. Moves(c)
    <3>1. PICK k \in {Idle, At("calling")} : call' = [call EXCEPT ![c] = k]
      BY <1>3
    <3>2. "calling" \in Pc
      BY DEF Pc
    <3>3. k \in Call /\ ~k.held /\ k.pc # "claim"
      BY <3>1, <3>2, CallTypes
    <3> QED BY <3>1, <3>3 DEF Moves
  <2>2. CASE UNCHANGED rows
    BY <1>1, <2>1, <2>2, MovesSlot
  <2>3. CASE call[c].cand \notin FreshRows /\ Put(call[c].cand, {})
    BY <1>2, <2>1, <2>3, PutSlot
  <2> QED BY <1>3, <2>2, <2>3 DEF ClaimUnheard
<1>4. CASE Claim(c)
  <2>1. CASE call[c].cand \notin FreshRows
    BY <1>2, <1>4, <2>1, PutSlot DEF Claim
  <2>2. CASE call[c].cand \in FreshRows
    <3>1. LostRace(c) /\ UNCHANGED rows
      BY <1>4, <2>2 DEF Claim
    <3>2. \E at \in {"poll", "wait"}, n \in 0 .. RaceRetries :
             call' = [call EXCEPT ![c] = [call[c] EXCEPT !.pc = at, !.cand = 0, !.races = n]]
      <4>1. RaceRetries \in Nat /\ call[c].races \in 0 .. RaceRetries
        BY <1>1, Assumptions DEF Call, Assumptions
      <4>2. CASE call[c].races < RaceRetries
        <5>1. call' = [call EXCEPT ![c] = [call[c] EXCEPT !.pc = "poll", !.cand = 0,
                                                          !.races = call[c].races + 1]]
          BY <1>1, <3>1, <4>2 DEF LostRace, Call
        <5>2. call[c].races + 1 \in 0 .. RaceRetries
          BY <4>1, <4>2
        <5> QED BY <5>1, <5>2
      <4>3. CASE ~(call[c].races < RaceRetries)
        <5>1. call' = [call EXCEPT ![c] = [call[c] EXCEPT !.pc = "wait", !.cand = 0, !.races = 0]]
          BY <1>1, <3>1, <4>3 DEF LostRace
        <5>2. 0 \in 0 .. RaceRetries
          BY <4>1
        <5> QED BY <5>1, <5>2
      <4> QED BY <4>2, <4>3
    <3>3. PICK at \in {"poll", "wait"}, n \in 0 .. RaceRetries :
             call' = [call EXCEPT ![c] = [call[c] EXCEPT !.pc = at, !.cand = 0, !.races = n]]
      BY <3>2
    <3> DEFINE k == [call[c] EXCEPT !.pc = at, !.cand = 0, !.races = n]
    <3>4. k \in Call /\ k.pc = at /\ ~k.held
      BY <1>1, <1>2 DEF Call, Pc
    <3> HIDE DEF k
    <3>5. call' = [call EXCEPT ![c] = k]
      BY <3>3 DEF k
    <3>6. Moves(c)
      BY <3>4, <3>5 DEF Moves
    <3> QED BY <1>1, <3>1, <3>6, MovesSlot
  <2> QED BY <2>1, <2>2
<1> QED BY <1>3, <1>4

\* A call ends, and its row with it, or becomes the row of its release task.
LEMMA EndedCall ==
  ASSUME SlotInv, NEW c \in Calls, call' = [call EXCEPT ![c] = Idle]
  PROVE  /\ call' \in [Calls -> Call] /\ ClaimsIndex' /\ HoldsInCall'
         /\ \A d \in Calls : call'[d].pc = "calling" /\ call'[d].held =>
              d # c /\ call[d].pc = "calling" /\ call[d].held
<1>1. Moves(c)
  BY CallTypes DEF Moves
<1> QED BY <1>1, MovesCalls

LEMMA ReleaseKeeps ==
  ASSUME SlotInv, NEW c \in Calls, Release(c)
  PROVE  SlotInv'
<1>1. /\ cache' \in [Processes -> AllLimits \cup {NoLimit}] /\ detached' \subseteq Processes
      /\ limit' = limit
  BY DEF Release, SlotInv, AdmittedIsCounted, TypeOK
<1>2. {c} \in SUBSET Knowers /\ {} \in SUBSET Knowers
  BY DEF Knowers
<1>3. rows' = Renamed({c}, {}) \/ \E g \in {c} : rows' = Deleted(g)
  BY DEF Release
<1>4. /\ call' \in [Calls -> Call] /\ ClaimsIndex' /\ HoldsInCall'
      /\ \A d \in Calls : call'[d].pc = "calling" /\ call'[d].held =>
           d \notin {c} /\ call[d].pc = "calling" /\ call[d].held
  BY EndedCall DEF Release
<1> QED BY <1>1, <1>2, <1>3, <1>4, ForgetSlot

LEMMA CancelKeeps ==
  ASSUME SlotInv, NEW c \in Calls, Cancel(c)
  PROVE  SlotInv'
<1>1. call \in [Calls -> Call] /\ cache \in [Processes -> AllLimits \cup {NoLimit}]
  BY DEF SlotInv, AdmittedIsCounted, TypeOK
<1>2. CASE /\ call' = [call EXCEPT ![c] = Idle]
           /\ UNCHANGED <<limit, cache, rows, detached>>
  <2>1. Moves(c)
    BY <1>2, CallTypes DEF Moves
  <2> QED BY <1>1, <1>2, <2>1, MovesSlot
<1>3. CASE /\ call[c].pc = "claim" /\ ClaimUnheard(c)
           /\ call' = [call EXCEPT ![c] = Idle]
           /\ UNCHANGED <<limit, cache, detached>>
  BY <1>3, ClaimSlot
<1>4. CASE EndCall(c)
  BY <1>4, QuietMoves, MovesSlot DEF QuietStep
<1>5. CASE /\ call' = [call EXCEPT ![c] = Idle]
           /\ detached' = detached \cup {Home[c]}
           /\ rows' = Renamed({c}, {Home[c]})
           /\ UNCHANGED <<limit, cache>>
  <2>1. Home[c] \in Processes
    BY Assumptions DEF Assumptions
  <2>2. /\ {c} \in SUBSET Knowers /\ {Home[c]} \in SUBSET Knowers /\ detached' \subseteq Processes
        /\ \A h, k \in {Home[c]} : h = k
    BY <1>5, <2>1 DEF Knowers, SlotInv, AdmittedIsCounted, TypeOK
  <2>3. /\ call' \in [Calls -> Call] /\ ClaimsIndex' /\ HoldsInCall'
        /\ \A d \in Calls : call'[d].pc = "calling" /\ call'[d].held =>
             d \notin {c} /\ call[d].pc = "calling" /\ call[d].held
    BY <1>5, EndedCall
  <2>4. cache' \in [Processes -> AllLimits \cup {NoLimit}] /\ limit' = limit
    BY <1>1, <1>5
  <2>5. rows' = Renamed({c}, {Home[c]})
    BY <1>5
  <2> QED BY <2>2, <2>3, <2>4, <2>5, ForgetSlot
<1> QED BY <1>2, <1>3, <1>4, <1>5 DEF Cancel

LEMMA ReleaseDetachedKeeps ==
  ASSUME SlotInv, NEW h \in Processes, ReleaseDetached(h)
  PROVE  SlotInv'
<1>1. /\ cache' \in [Processes -> AllLimits \cup {NoLimit}] /\ detached' \subseteq Processes
      /\ call' = call /\ call' \in [Calls -> Call] /\ ClaimsIndex' /\ HoldsInCall'
  BY DEF ReleaseDetached, SlotInv, AdmittedIsCounted, TypeOK, ClaimsIndex, HoldsInCall
<1>2. {h} \in SUBSET Knowers /\ {} \in SUBSET Knowers /\ \A d \in Calls : d \notin {h}
  BY Assumptions DEF Knowers, Assumptions
<1> QED BY <1>1, <1>2, ForgetSlot DEF ReleaseDetached

LEMMA HostCrashKeeps ==
  ASSUME SlotInv, NEW h \in Processes, HostCrash(h)
  PROVE  SlotInv'
<1> DEFINE gone == {h} \cup {c \in Calls : Home[c] = h}
<1>1. \A c \in Calls : /\ Home[c] = h => call'[c] = Idle
                       /\ Home[c] # h => call'[c] = call[c]
  BY DEF HostCrash
<1>2. /\ cache' \in [Processes -> AllLimits \cup {NoLimit}] /\ detached' \subseteq Processes
      /\ rows' = Renamed(gone, {})
  BY DEF HostCrash, SlotInv, AdmittedIsCounted, TypeOK
<1>3. /\ call' = [c \in Calls |-> call'[c]]
      /\ \A c \in Calls : call'[c] \in Call
  BY <1>1, CallTypes DEF HostCrash, SlotInv, AdmittedIsCounted, TypeOK
<1>4. call' \in [Calls -> Call] /\ ClaimsIndex' /\ HoldsInCall'
  <2>1. call' \in [Calls -> Call]
    BY <1>3
  <2>2. ClaimsIndex' /\ HoldsInCall'
    BY <1>1, CallTypes DEF SlotInv, ClaimsIndex, HoldsInCall
  <2> QED BY <2>1, <2>2
<1>5. \A d \in Calls : call'[d].pc = "calling" /\ call'[d].held =>
        d \notin gone /\ call[d].pc = "calling" /\ call[d].held
  BY <1>1, CallTypes, Assumptions DEF Assumptions
<1>6. gone \in SUBSET Knowers /\ {} \in SUBSET Knowers
  BY DEF Knowers
<1>7. limit' = limit
  BY DEF HostCrash
<1> HIDE DEF gone
<1> QED BY <1>2, <1>4, <1>5, <1>6, <1>7, ForgetSlot

\* Time, the sweep and the operator.
LEMMA RowAgesKeeps ==
  ASSUME SlotInv, NEW i \in Indexes, RowAges(i)
  PROVE  SlotInv'
<1>1. /\ i \in Stored /\ rows[i] \in Row /\ rows \in [Stored -> Row]
      /\ rows' = [rows EXCEPT ![i].fresh = FALSE]
      /\ UNCHANGED <<limit, cache, call, detached>>
  BY DEF RowAges, FreshRows, SlotInv, AdmittedIsCounted, TypeOK
<1>2. /\ Stored' = Stored /\ rows' \in [Stored' -> Row] /\ rows'[i].known = rows[i].known
      /\ \A k \in Stored \ {i} : rows'[k] = rows[k]
  BY <1>1 DEF Stored, Row
<1>3. TypeOK' /\ OneKnower' /\ ClaimsIndex' /\ HoldsInCall'
  BY <1>1, <1>2 DEF SlotInv, AdmittedIsCounted, TypeOK, OneKnower, ClaimsIndex, HoldsInCall
<1>4. ASSUME NEW c \in Calls, call[c].pc = "calling", call[c].held
      PROVE  \E n \in FreshRows' : c \in rows'[n].known
  <2>1. PICK n \in FreshRows : c \in rows[n].known
    BY <1>4 DEF SlotInv, AdmittedIsCounted
  <2>2. n # i
    BY <1>4, <2>1 DEF RowAges
  <2> QED BY <1>2, <2>1, <2>2 DEF FreshRows
<1> QED BY <1>1, <1>3, <1>4 DEF SlotInv, AdmittedIsCounted

LEMMA SweepKeeps ==
  ASSUME SlotInv, Sweep
  PROVE  SlotInv'
<1>1. /\ Stored' = FreshRows /\ FreshRows \subseteq Stored
      /\ rows' \in [Stored' -> Row] /\ FreshRows' = FreshRows
      /\ \A i \in FreshRows : rows'[i] = rows[i]
      /\ UNCHANGED <<limit, cache, call, detached>>
  BY DEF Sweep, Kept, Stored, FreshRows, SlotInv, AdmittedIsCounted, TypeOK
<1> QED
  BY <1>1 DEF SlotInv, AdmittedIsCounted, TypeOK, OneKnower, ClaimsIndex, HoldsInCall

LEMMA LimitsKeep ==
  ASSUME SlotInv,
         \/ \E h \in Processes : CacheExpires(h)
         \/ \E n \in AllLimits, evicted \in {{}} \cup {{h} : h \in Processes} : SetLimit(n, evicted)
  PROVE  SlotInv'
<1>1. /\ limit' \in AllLimits /\ cache' \in [Processes -> AllLimits \cup {NoLimit}]
      /\ UNCHANGED <<rows, call, detached>>
  BY DEF CacheExpires, SetLimit, SlotInv, AdmittedIsCounted, TypeOK
<1> QED
  BY <1>1 DEF SlotInv, AdmittedIsCounted, TypeOK, OneKnower, ClaimsIndex, HoldsInCall,
              Stored, FreshRows

-----------------------------------------------------------------------------
LEMMA SlotInit == Init => SlotInv
<1> SUFFICES ASSUME Init PROVE SlotInv
  OBVIOUS
<1>1. Stored = {} /\ call = [c \in Calls |-> Idle]
  BY DEF Init, Stored
<1>2. TypeOK
  BY <1>1, CallTypes DEF Init, TypeOK, Stored
<1> QED
  BY <1>1, <1>2, CallTypes DEF SlotInv, AdmittedIsCounted, OneKnower, ClaimsIndex, HoldsInCall

LEMMA SlotNext == SlotInv /\ [Next]_vars => SlotInv'
<1> SUFFICES ASSUME SlotInv, [Next]_vars PROVE SlotInv'
  OBVIOUS
<1>1. CASE UNCHANGED vars
  BY <1>1 DEF vars, SlotInv, AdmittedIsCounted, TypeOK, OneKnower, ClaimsIndex,
              HoldsInCall, Stored, FreshRows
<1>2. ASSUME NEW c \in Calls, Start(c) \/ Step(c) \/ GiveUp(c) \/ Cancel(c) PROVE SlotInv'
  <2>1. CASE QuietStep(c)
    BY <2>1, QuietMoves, MovesSlot
  <2>2. CASE Claim(c)
    BY <2>2, ClaimSlot DEF Claim
  <2>3. CASE ClaimFails(c)
    BY <2>3, ClaimSlot DEF ClaimFails
  <2>4. CASE Release(c)
    BY <2>4, ReleaseKeeps
  <2>5. CASE Cancel(c)
    BY <2>5, CancelKeeps
  <2> QED BY <1>2, <2>1, <2>2, <2>3, <2>4, <2>5 DEF Step, QuietStep
<1>3. ASSUME NEW h \in Processes, HostCrash(h) \/ CacheExpires(h) \/ ReleaseDetached(h)
      PROVE  SlotInv'
  BY <1>3, HostCrashKeeps, LimitsKeep, ReleaseDetachedKeeps
<1>4. ASSUME NEW i \in Indexes, RowAges(i) PROVE SlotInv'
  BY <1>4, RowAgesKeeps
<1>5. CASE Sweep
  BY <1>5, SweepKeeps
<1>6. ASSUME NEW n \in AllLimits, NEW evicted \in {{}} \cup {{h} : h \in Processes},
             SetLimit(n, evicted)
      PROVE  SlotInv'
  BY <1>6, LimitsKeep
<1> QED BY <1>1, <1>2, <1>3, <1>4, <1>5, <1>6 DEF Next

\* What is counted stays coordinated with who is calling: each row's id is with
\* one call or one release task (credential_limiter.py), in every behaviour.
THEOREM SlotInvariant == Spec => []SlotInv
<1> QED BY SlotInit, SlotNext, PTL DEF Spec

\* A call that was admitted is counted until it is over, whatever releases
\* come late, rows are taken over, calls are cancelled and processes die.
THEOREM CallsAreCounted == Spec => []AdmittedIsCounted
<1>1. SlotInv => AdmittedIsCounted
  BY DEF SlotInv
<1> QED BY <1>1, SlotInvariant, PTL

-----------------------------------------------------------------------------
(* CostCaps: at most one claim of a worker is late for the fleet's pause.  *)

MonitorPcs == {"idle", "trip", "read", "lift", "fleet", "set", "clear", "commit"}

\* Only one open transaction has written a gate: an update locks the row.
OneWriter ==
  \A g \in Gates : \A h, k \in Hosts :
    tx[h][g] # Unwritten /\ tx[k][g] # Unwritten => h = k

\* The type of everything else, with the type of the monitors: one that is about
\* to set the fleet's pause has a cap, and an idle one has no transaction.
GateTypes ==
  /\ cap \in [Hosts -> Caps]
  /\ gate \in [Gates -> Records]
  /\ tx \in [Hosts -> [Gates -> Records \cup {Unwritten}]]
  /\ mon \in [Hosts -> [pc : MonitorPcs, may : BOOLEAN]]
  /\ \A h \in Hosts : /\ mon[h].pc = "idle" => mon[h] = Asleep /\ tx[h] = Nothing
                      /\ mon[h].pc = "set" => Capped(h, "fleet")
  /\ spend \in [Gates -> 0 .. MaxSpend] /\ running \in 0 .. MaxJobs
  /\ claim \in [Hosts -> {"idle", "open"}]

\* Late claims are counted from the pause on, and a worker whose claim is still
\* to be made has made none.
LateOnce ==
  /\ late \in [Hosts -> {0, 1}]
  /\ \A h \in Hosts : gate["fleet"] = Open \/ claim[h] = "open" => late[h] = 0

GateInv == GateTypes /\ OneWriter /\ LateOnce

LEMMA GateInvTypes == GateInv => OneLateClaim
<1> SUFFICES ASSUME GateInv PROVE OneLateClaim
  OBVIOUS
<1>1. ASSUME NEW g \in Gates
      PROVE  Cardinality({h \in Hosts : tx[h][g] # Unwritten}) <= 1
  <2>1. CASE {h \in Hosts : tx[h][g] # Unwritten} = {}
    BY <2>1, FS_EmptySet
  <2>2. ASSUME NEW k \in Hosts, tx[k][g] # Unwritten
        PROVE  {h \in Hosts : tx[h][g] # Unwritten} = {k}
    BY <2>2 DEF GateInv, OneWriter
  <2>3. \A k \in Hosts : Cardinality({k}) = 1
    BY FS_Singleton
  <2> QED BY <2>1, <2>2, <2>3
<1>2. late \in [Hosts -> Nat] /\ \A h \in Hosts : late[h] <= 1
  BY DEF GateInv, LateOnce
<1>3. Records \cup {Unwritten} = CapPauses \cup {Open, Manual, Unwritten}
  BY DEF Records
<1>4. tx \in [Hosts -> [Gates -> CapPauses \cup {Open, Manual, Unwritten}]]
  BY <1>3 DEF GateInv, GateTypes
<1>5. /\ cap \in [Hosts -> Caps] /\ gate \in [Gates -> Records]
      /\ \A h \in Hosts : mon[h].pc = "idle" => mon[h] = Asleep /\ tx[h] = Nothing
      /\ spend \in [Gates -> 0 .. MaxSpend] /\ running \in 0 .. MaxJobs
      /\ claim \in [Hosts -> {"idle", "open"}]
  BY DEF GateInv, GateTypes
<1>6. GateTypeOK
  BY <1>1, <1>2, <1>4, <1>5 DEF GateTypeOK
<1> QED BY <1>2, <1>6 DEF OneLateClaim

\* What the pieces of the transactions do.  Rest, Write and At are said once here.
LEMMA ViewTypes ==
  ASSUME GateInv, NEW h \in Hosts, NEW g \in Gates
  PROVE  View(h, g) \in Records
BY DEF GateInv, GateTypes, View

LEMMA DecisionTypes ==
  ASSUME GateInv, NEW h \in Hosts, NEW g \in Gates, Capped(h, g)
  PROVE  Decision(h, g) \in Records
<1> DEFINE Dollars == UNION {{p[1], p[2]} : p \in Caps}
<1>1. cap[h] \in Caps /\ cap[h][1] \in Nat /\ cap[h][2] \in Nat
  BY GateAssumptions DEF GateInv, GateTypes, GateAssumptions
<1>2. cap[h][1] \in Dollars /\ cap[h][2] \in Dollars
  BY <1>1
<1>3. Decision(h, g) \in {Pause("cap", n, k) : n \in Dollars \ {0}, k \in Hosts}
  <2> HIDE DEF Dollars
  <2>1. CapOf(h, g) \in Dollars /\ CapOf(h, g) # 0
    BY <1>1, <1>2 DEF CapOf, Capped
  <2> QED BY <2>1 DEF Decision
<1>4. CapPauses = {Pause("cap", n, k) : n \in Dollars \ {0}, k \in Hosts}
  BY DEF CapPauses
<1> HIDE DEF Dollars
<1> QED BY <1>3, <1>4 DEF Records

\* One step of a monitor: it writes what it may, or nothing, and moves on.
Writes(h) ==
  \/ UNCHANGED tx
  \/ \E g \in Gates, record \in Records : Write(h, g, record)

LEMMA MonitorStep ==
  ASSUME GateInv, NEW h \in Hosts, Writes(h), Rest, NEW at \in MonitorPcs \ {"idle"},
         NEW may \in BOOLEAN, MonitorAt(h, at, may), at = "set" => Capped(h, "fleet")
  PROVE  GateInv'
<1>1. /\ mon' = [mon EXCEPT ![h] = [pc |-> at, may |-> may]]
      /\ UNCHANGED <<cap, gate, spend, claim, running, events, late>>
  BY DEF MonitorAt, Rest
<1>2. /\ tx' \in [Hosts -> [Gates -> Records \cup {Unwritten}]]
      /\ \A k \in Hosts \ {h} : tx'[k] = tx[k]
  <2>1. tx \in [Hosts -> [Gates -> Records \cup {Unwritten}]]
    BY DEF GateInv, GateTypes
  <2>2. ASSUME NEW g \in Gates, NEW record \in Records, tx' = [tx EXCEPT ![h][g] = record]
        PROVE  /\ tx' \in [Hosts -> [Gates -> Records \cup {Unwritten}]]
               /\ \A k \in Hosts \ {h} : tx'[k] = tx[k]
    BY <2>1, <2>2
  <2> QED BY <2>1, <2>2 DEF Writes, Write
<1>3. OneWriter'
  <2>1. CASE UNCHANGED tx
    BY <2>1 DEF GateInv, OneWriter
  <2>2. ASSUME NEW g \in Gates, NEW record \in Records, Write(h, g, record)
        PROVE  OneWriter'
    <3>1. /\ \A k \in Hosts \ {h} : tx[k][g] = Unwritten
          /\ tx' = [tx EXCEPT ![h][g] = record]
      BY <2>2 DEF Write, Locked
    <3>2. \A f \in Gates : \A k \in Hosts : f # g \/ k # h => tx'[k][f] = tx[k][f]
      BY <3>1 DEF GateInv, GateTypes
    <3> QED BY <3>1, <3>2 DEF GateInv, OneWriter, Gates
  <2> QED BY <2>1, <2>2 DEF Writes
<1>4. GateTypes'
  <2>1. mon' \in [Hosts -> [pc : MonitorPcs, may : BOOLEAN]]
    BY <1>1 DEF GateInv, GateTypes
  <2>2. ASSUME NEW k \in Hosts
        PROVE  /\ mon'[k].pc = "idle" => mon'[k] = Asleep /\ tx'[k] = Nothing
               /\ mon'[k].pc = "set" => Capped(k, "fleet")'
    <3>1. CASE k = h
      BY <1>1, <3>1 DEF GateInv, GateTypes, Capped, CapOf
    <3>2. CASE k # h
      BY <1>1, <1>2, <3>2 DEF GateInv, GateTypes, Capped, CapOf
    <3> QED BY <3>1, <3>2
  <2> QED BY <1>1, <1>2, <2>1, <2>2 DEF GateInv, GateTypes
<1>5. LateOnce'
  BY <1>1 DEF GateInv, LateOnce
<1> QED BY <1>3, <1>4, <1>5 DEF GateInv

\* The end of a transaction, committed or rolled back.
LEMMA RolledBack ==
  ASSUME GateInv, NEW h \in Hosts, gate' \in [Gates -> Records],
         mon' = [mon EXCEPT ![h] = Asleep], tx' = [tx EXCEPT ![h] = Nothing],
         UNCHANGED <<cap, spend, claim, running>>
  PROVE  GateTypes' /\ OneWriter'
<1>1. Nothing \in [Gates -> {Unwritten}] /\ Asleep.pc = "idle"
      /\ Asleep \in [pc : MonitorPcs, may : BOOLEAN]
  BY DEF Nothing, Asleep, MonitorPcs
<1>2. /\ tx' \in [Hosts -> [Gates -> Records \cup {Unwritten}]]
      /\ mon' \in [Hosts -> [pc : MonitorPcs, may : BOOLEAN]]
  BY <1>1 DEF GateInv, GateTypes
<1>3. ASSUME NEW k \in Hosts
      PROVE  /\ mon'[k].pc = "idle" => mon'[k] = Asleep /\ tx'[k] = Nothing
             /\ mon'[k].pc = "set" => Capped(k, "fleet")'
             /\ \A g \in Gates : tx'[k][g] # Unwritten => tx[k][g] # Unwritten
  <2>1. CASE k = h
    BY <1>1, <2>1 DEF GateInv, GateTypes
  <2>2. CASE k # h
    BY <2>2 DEF GateInv, GateTypes, Capped, CapOf
  <2> QED BY <2>1, <2>2
<1>4. OneWriter'
  BY <1>3 DEF GateInv, OneWriter, Gates
<1> QED BY <1>2, <1>3, <1>4 DEF GateInv, GateTypes

LEMMA CheckKeeps ==
  ASSUME GateInv, NEW h \in Hosts, Check(h)
  PROVE  GateInv'
<1>1. "batch" \in Gates /\ "fleet" \in Gates /\ Open \in Records
  BY DEF Gates, Records
<1>2. {"trip", "read", "lift", "fleet", "set", "clear", "commit"} = MonitorPcs \ {"idle"}
  BY DEF MonitorPcs
<1>3. ASSUME NEW g \in Gates, ClearIfEntitled(h, g) PROVE Writes(h)
  BY <1>1, <1>3 DEF ClearIfEntitled, Writes
<1>4. CASE ReadActive(h)
  <2>1. Writes(h) /\ MonitorAt(h, "trip", gate["batch"] = Open) /\ Rest
    BY <1>4 DEF ReadActive, Writes
  <2> QED BY <1>2, <2>1, MonitorStep
<1>5. CASE Trip(h)
  <2>1. Writes(h)
    BY <1>1, <1>5, DecisionTypes DEF Trip, Writes, Over
  <2>2. MonitorAt(h, "read", FALSE) /\ Rest
    BY <1>5 DEF Trip
  <2> QED BY <1>2, <2>1, <2>2, MonitorStep
<1>6. CASE ReadPaused(h)
  <2>1. PICK may \in BOOLEAN : MonitorAt(h, "lift", may)
    BY <1>6 DEF ReadPaused, ByCap
  <2>2. Writes(h) /\ Rest
    BY <1>6 DEF ReadPaused, Writes
  <2> QED BY <1>2, <2>1, <2>2, MonitorStep
<1>7. CASE Lift(h)
  <2>1. Writes(h)
    BY <1>1, <1>3, <1>7 DEF Lift, Writes
  <2>2. MonitorAt(h, "fleet", FALSE) /\ Rest
    BY <1>7 DEF Lift
  <2> QED BY <1>2, <2>1, <2>2, MonitorStep
<1>8. CASE ReadFleet(h)
  <2>1. Writes(h) /\ Rest
    BY <1>8 DEF ReadFleet, Writes
  <2>2. \E at \in {"set", "clear", "commit"} :
           MonitorAt(h, at, FALSE) /\ (at = "set" => Capped(h, "fleet"))
    BY <1>8 DEF ReadFleet, Over
  <2> QED BY <1>2, <2>1, <2>2, MonitorStep
<1>9. CASE SetFleet(h)
  <2>1. Decision(h, "fleet") \in Records
    BY <1>1, <1>9, DecisionTypes DEF SetFleet, GateInv, GateTypes
  <2>2. Writes(h)
    BY <1>1, <1>9, <2>1, ViewTypes DEF SetFleet, Writes
  <2>3. MonitorAt(h, "commit", FALSE) /\ Rest
    BY <1>9 DEF SetFleet
  <2> QED BY <1>2, <2>2, <2>3, MonitorStep
<1>10. CASE ClearFleet(h)
  <2>1. Writes(h) /\ MonitorAt(h, "commit", FALSE) /\ Rest
    BY <1>1, <1>3, <1>10 DEF ClearFleet
  <2> QED BY <1>2, <2>1, MonitorStep
<1>11. CASE Commit(h)
  <2>1. /\ mon' = [mon EXCEPT ![h] = Asleep] /\ tx' = [tx EXCEPT ![h] = Nothing]
        /\ gate' = [g \in Gates |-> View(h, g)]
        /\ late' = IF gate'["fleet"] = Open THEN [k \in Hosts |-> 0] ELSE late
        /\ UNCHANGED <<cap, spend, claim, running>>
    BY <1>11 DEF Commit
  <2>2. gate' \in [Gates -> Records]
    BY <2>1, ViewTypes
  <2>3. LateOnce'
    BY <2>1 DEF GateInv, LateOnce
  <2> QED BY <2>1, <2>2, <2>3, RolledBack DEF GateInv
<1> QED BY <1>4, <1>5, <1>6, <1>7, <1>8, <1>9, <1>10, <1>11 DEF Check

LEMMA InitGate == GateInit => GateInv
<1> SUFFICES ASSUME GateInit PROVE GateInv
  OBVIOUS
<1>1. /\ Nothing \in [Gates -> {Unwritten}] /\ Asleep.pc = "idle"
      /\ Asleep \in [pc : MonitorPcs, may : BOOLEAN]
  BY DEF Nothing, Asleep, MonitorPcs
<1>2. 0 \in 0 .. MaxSpend /\ 0 \in 0 .. MaxJobs /\ Open \in Records
  BY GateAssumptions DEF GateAssumptions, Records
<1> QED
  BY <1>1, <1>2 DEF GateInit, GateInv, GateTypes, OneWriter, LateOnce, Gates

LEMMA NextGate == GateInv /\ [GateNext]_gateVars => GateInv'
<1> SUFFICES ASSUME GateInv, [GateNext]_gateVars PROVE GateInv'
  OBVIOUS
<1> USE DEF GateInv
<1>1. CASE UNCHANGED gateVars
  BY <1>1 DEF gateVars, GateTypes, OneWriter, LateOnce, Capped, CapOf
<1>2. ASSUME NEW h \in Hosts, Check(h) PROVE GateInv'
  BY <1>2, CheckKeeps
<1>3. ASSUME NEW h \in Hosts, Abort(h) PROVE GateInv'
  <2>1. LateOnce' /\ gate' \in [Gates -> Records]
    BY <1>3 DEF Abort, LateOnce, GateTypes
  <2> QED BY <1>3, <2>1, RolledBack DEF Abort
<1>4. ASSUME NEW record \in {Open, Manual}, Operate(record) PROVE GateInv'
  <2>1. record \in Records
    BY DEF Records
  <2>2. gate' \in [Gates -> Records] /\ gate'["fleet"] = gate["fleet"]
    BY <1>4, <2>1 DEF Operate, GateTypes, Gates
  <2> QED
    BY <1>4, <2>2 DEF Operate, GateTypes, OneWriter, LateOnce, Capped, CapOf
<1>5. ASSUME NEW h \in Hosts, NEW caps \in Caps, SetCaps(h, caps) PROVE GateInv'
  <2>1. mon[h].pc # "set" /\ cap' = [cap EXCEPT ![h] = caps]
    BY <1>5 DEF SetCaps
  <2>2. \A k \in Hosts : mon[k].pc = "set" => cap'[k] = cap[k]
    BY <2>1 DEF GateTypes
  <2>3. cap' \in [Hosts -> Caps]
    BY <2>1 DEF GateTypes
  <2> QED
    BY <1>5, <2>2, <2>3 DEF SetCaps, GateTypes, OneWriter, LateOnce, Capped, CapOf
<1>6. ASSUME NEW h \in Hosts, ReadGate(h) PROVE GateInv'
  BY <1>6 DEF ReadGate, GateTypes, OneWriter, LateOnce, Capped, CapOf
<1>7. ASSUME NEW h \in Hosts, Pick(h) PROVE GateInv'
  <2>1. /\ claim[h] = "open" /\ late[h] = 0 /\ claim' = [claim EXCEPT ![h] = "idle"]
        /\ UNCHANGED <<cap, gate, tx, mon, spend>>
    BY <1>7 DEF Pick, NextClaim, LateOnce
  <2>2. late' = late \/ (gate["fleet"] # Open /\ late' = [late EXCEPT ![h] = late[h] + 1])
    BY <1>7 DEF Pick
  <2>3. LateOnce'
    BY <2>1, <2>2 DEF LateOnce, GateTypes
  <2>4. running' \in 0 .. MaxJobs
    BY <1>7, GateAssumptions DEF Pick, GateTypes, GateAssumptions
  <2> QED
    BY <2>1, <2>3, <2>4 DEF GateTypes, OneWriter, Capped, CapOf
<1>8. CASE Spend
  <2>1. spend' \in [Gates -> 0 .. MaxSpend]
    BY <1>8, GateAssumptions DEF Spend, GateTypes, GateAssumptions
  <2> QED
    BY <1>8, <2>1 DEF Spend, GateTypes, OneWriter, LateOnce, Capped, CapOf
<1>9. CASE JobEnds \/ WindowMoves
  <2>1. spend' \in [Gates -> 0 .. MaxSpend] /\ running' \in 0 .. MaxJobs
    BY <1>9, GateAssumptions DEF JobEnds, WindowMoves, GateTypes, GateAssumptions
  <2> QED
    BY <1>9, <2>1 DEF JobEnds, WindowMoves, GateTypes, OneWriter, LateOnce,
                      Capped, CapOf
<1> QED BY <1>1, <1>2, <1>3, <1>4, <1>5, <1>6, <1>7, <1>8, <1>9 DEF GateNext

\* Pauses, transactions and claims stay coordinated: one open transaction writes
\* a gate at a time, and a worker that has still to claim has made no late claim.
THEOREM GateInvariant == GateSpec => []GateInv
<1> QED BY InitGate, NextGate, PTL DEF GateSpec

\* Under the fleet's pause a worker claims at most the one job whose claim had
\* begun before it (repositories/jobs.py: claim_next_job reads the gate first).
THEOREM LateClaims == GateSpec => []OneLateClaim
<1> QED BY GateInvariant, GateInvTypes, PTL

-----------------------------------------------------------------------------
(* The keys of a host.                                                     *)

\* The lock is held exclusively by one transaction, and by no claim then.
LockExcludes ==
  \A p, q \in Procs :
    p \in ExclusiveHolders /\ q \in ExclusiveHolders \cup SharedHolders => p = q

\* A claim past its gate still finds no tombstone.
GateHolds == \A p \in Procs : pc[p] = "claim" => assigned # "scrub"

\* A scrub past its count still finds no job.
CountHolds == \A p, q \in Procs : pc[p] = "clear" => ~claimed[q]

\* What a process pulls is a key.
PullsKey == \A p \in Procs : pc[p] = "pull" => want[p] \in Keys

LockInv == KeyTypeOK /\ LockExcludes /\ GateHolds /\ CountHolds /\ PullsKey

\* The processes start outside the lock, and each pulls nothing.
LEMMA InitLock == ASSUME KeyInit PROVE LockInv
  BY KeyAssumption DEF KeyAssumption, KeyInit, LockInv, KeyTypeOK, LockExcludes, GateHolds, CountHolds,
         PullsKey,
      Assignment, None, KeyPc, Scrubbing, Claiming, ExclusiveHolders

\* An endpoint writes only while nobody holds the lock.
LEMMA OperatorLock == ASSUME LockInv, OperatorStep PROVE LockInv'
<1>1. KeyTypeOK'
  BY DEF LockInv, KeyTypeOK, OperatorStep, Assign, Scrub, Unassign,
         Assignment,
         hostVars, procVars, jobVars
<1>2. LockExcludes' /\ CountHolds' /\ PullsKey'
  BY DEF LockInv, OperatorStep, LockExcludes, CountHolds, PullsKey,
         ExclusiveHolders, SharedHolders, hostVars, procVars, jobVars
<1>3. GateHolds'
  BY DEF OperatorStep, GateHolds, SharedHolders, Claiming, hostVars,
         procVars
<1> QED BY <1>1, <1>2, <1>3 DEF LockInv

\* A step of a process that takes no lock, and adds no job, keeps the lock.
LEMMA SyncLock ==
  ASSUME LockInv, NEW p \in Procs,
         SyncRead(p) \/ ApplyKey(p) \/ PullFails(p) \/ FinishJob(p) \/ ReclaimJob(p)
  PROVE  LockInv'
<1> USE KeyAssumption DEF KeyAssumption, LockInv, KeyTypeOK, hostVars, procVars, jobVars,
            Goto
<1>1. CASE SyncRead(p)
  <2>1. KeyTypeOK'
    BY <1>1 DEF SyncRead, KeyPc, Scrubbing
  <2>2. LockExcludes' /\ GateHolds' /\ CountHolds'
    BY <1>1 DEF SyncRead, LockExcludes, GateHolds, CountHolds,
                ExclusiveHolders, SharedHolders, Scrubbing, Claiming
  <2>3. PullsKey'
    BY <1>1 DEF SyncRead, PullsKey
  <2> QED BY <2>1, <2>2, <2>3
<1>2. CASE ApplyKey(p)
  <2>1. want[p] \in Keys
    BY <1>2 DEF ApplyKey, PullsKey
  <2>2. KeyTypeOK'
    BY <1>2, <2>1 DEF ApplyKey, KeyPc
  <2>3. LockExcludes' /\ GateHolds' /\ CountHolds' /\ PullsKey'
    BY <1>2 DEF ApplyKey, LockExcludes, GateHolds, CountHolds, PullsKey,
                ExclusiveHolders, SharedHolders, Scrubbing, Claiming
  <2> QED BY <2>2, <2>3
<1>3. CASE PullFails(p)
  BY <1>3 DEF PullFails, LockExcludes, GateHolds, CountHolds, PullsKey, KeyPc,
              ExclusiveHolders, SharedHolders, Scrubbing, Claiming
<1>4. CASE FinishJob(p) \/ ReclaimJob(p)
  BY <1>4 DEF FinishJob, ReclaimJob, LockExcludes, GateHolds, CountHolds,
              PullsKey, ExclusiveHolders, SharedHolders
<1> QED BY <1>1, <1>2, <1>3, <1>4

\* A scrub enters when the lock is free and leaves when it commits.
LEMMA ScrubLocked ==
  ASSUME LockInv, NEW p \in Procs, ScrubStep(p) PROVE LockInv'
<1> USE KeyAssumption DEF KeyAssumption, LockInv, KeyTypeOK, hostVars, procVars, jobVars,
            Goto
<1>1. CASE ScrubLock(p)
  BY <1>1 DEF ScrubLock, LockExcludes, GateHolds, CountHolds, PullsKey, KeyPc,
              ExclusiveHolders, SharedHolders, Scrubbing, Claiming
<1>2. CASE ScrubReread(p)
  BY <1>2 DEF ScrubReread, LockExcludes, GateHolds, CountHolds, PullsKey, KeyPc,
              ExclusiveHolders, SharedHolders, Scrubbing, Claiming
<1>3. CASE ScrubCount(p)
  BY <1>3 DEF ScrubCount, LockExcludes, GateHolds, CountHolds, PullsKey, KeyPc,
              ExclusiveHolders, SharedHolders, Scrubbing, Claiming
<1>4. CASE ScrubClear(p)
  BY <1>4 DEF ScrubClear, LockExcludes, GateHolds, CountHolds, PullsKey, KeyPc,
              ExclusiveHolders, SharedHolders, Scrubbing, Claiming
<1> QED BY <1>1, <1>2, <1>3, <1>4 DEF ScrubStep

\* A claim enters when no scrub holds the lock, and commits under it.
LEMMA ClaimLocked ==
  ASSUME LockInv, NEW p \in Procs, ClaimStep(p) PROVE LockInv'
<1> USE KeyAssumption DEF KeyAssumption, LockInv, KeyTypeOK, hostVars, procVars, jobVars,
            Goto
<1>1. CASE ClaimLock(p)
  BY <1>1 DEF ClaimLock, LockExcludes, GateHolds, CountHolds, PullsKey, KeyPc,
              ExclusiveHolders, SharedHolders, Scrubbing, Claiming
<1>2. CASE ClaimGate(p)
  BY <1>2 DEF ClaimGate, LockExcludes, GateHolds, CountHolds, PullsKey, KeyPc,
              ExclusiveHolders, SharedHolders, Scrubbing, Claiming
<1>3. CASE ClaimCommit(p)
  <2>1. KeyTypeOK'
    BY <1>3 DEF ClaimCommit, KeyPc
  <2>2. \A q \in Procs : pc[q] # "clear"
    BY <1>3 DEF ClaimCommit, LockExcludes, ExclusiveHolders, SharedHolders,
                Scrubbing, Claiming
  <2>3. LockExcludes' /\ GateHolds' /\ CountHolds' /\ PullsKey'
    BY <1>3, <2>2 DEF ClaimCommit, LockExcludes, GateHolds, CountHolds,
                PullsKey, ExclusiveHolders, SharedHolders, Scrubbing, Claiming
  <2> QED BY <2>1, <2>3
<1> QED BY <1>1, <1>2, <1>3 DEF ClaimStep

\* A process that dies lets go of the lock.
LEMMA CrashLock == ASSUME LockInv, NEW p \in Procs, Crash(p) PROVE LockInv'
<1> USE KeyAssumption DEF KeyAssumption, LockInv, KeyTypeOK, hostVars, procVars, jobVars,
            Goto
<1>1. file' \in Keys \cup {NoKey} /\ dotenv' \in Keys \cup {NoKey}
  BY DEF Crash
<1>2. crashes' \in 0 .. MaxCrashes
  BY DEF Crash
<1>3. KeyTypeOK'
  BY <1>1, <1>2 DEF Crash, KeyPc
<1>4. LockExcludes' /\ GateHolds' /\ CountHolds' /\ PullsKey'
  BY DEF Crash, LockExcludes, GateHolds, CountHolds, PullsKey,
         ExclusiveHolders, SharedHolders, Scrubbing, Claiming
<1> QED BY <1>3, <1>4

\* The invariant of the lock, for every number of processes and keys.
THEOREM LockInvariant == KeySpec => []LockInv
<1>1. KeyInit => LockInv
  BY InitLock
<1>2. LockInv /\ [KeyNext]_keyVars => LockInv'
  <2>1. ASSUME LockInv, KeyNext PROVE LockInv'
    BY <2>1, OperatorLock, SyncLock, ScrubLocked, ClaimLocked, CrashLock
    DEF KeyNext, ProcStep
  <2>2. ASSUME LockInv, UNCHANGED keyVars PROVE LockInv'
    BY <2>2
    DEF LockInv, KeyTypeOK, LockExcludes, GateHolds, CountHolds, PullsKey,
        ExclusiveHolders, SharedHolders, keyVars, hostVars, procVars,
        jobVars
  <2> QED BY <2>1, <2>2
<1> QED BY <1>1, <1>2, PTL DEF KeySpec

\* Worker._scrub_if_idle removes the shared key file only while no process of the
\* host owns a running or cancelling job, and Worker._claim_one claimed no job while
\* the revocation of the host's key is pending.
THEOREM ScrubsAndClaims == KeySpec => ScrubExcludesJobs
<1>1. ASSUME LockInv, KeyNext, file # NoKey, file' = NoKey, NEW p \in Procs
      PROVE  ~claimed[p]
  <2>1. \E q \in Procs : ScrubClear(q)
    BY <1>1, KeyAssumption DEF KeyAssumption, KeyNext, OperatorStep, ProcStep, SyncRead,
                ApplyKey, PullFails, ScrubStep,
        ScrubLock, ScrubReread, ScrubCount, ClaimStep, ClaimLock,
        ClaimGate,
        ClaimCommit, FinishJob, ReclaimJob, Crash, hostVars, LockInv,
        PullsKey
  <2> QED BY <1>1, <2>1 DEF ScrubClear, LockInv, CountHolds
<1>2. ASSUME LockInv, KeyNext, NEW p \in Procs, ~claimed[p], claimed'[p]
      PROVE  assigned # "scrub"
  <2>1. \E q \in Procs : ClaimCommit(q)
    BY <1>2
    DEF KeyNext, OperatorStep, ProcStep, SyncRead, ApplyKey, PullFails,
        ScrubStep,
        ScrubLock, ScrubReread, ScrubCount, ScrubClear, ClaimStep,
        ClaimLock,
        ClaimGate, FinishJob, ReclaimJob, Crash, jobVars, LockInv,
        KeyTypeOK
  <2> QED BY <1>2, <2>1 DEF ClaimCommit, LockInv, GateHolds
<1>3. LockInv /\ [KeyNext]_keyVars =>
        [\A p \in Procs : /\ file # NoKey /\ file' = NoKey => ~claimed[p]
                          /\ ~claimed[p] /\ claimed'[p] => assigned # "scrub"]_keyVars
  BY <1>1, <1>2
<1> QED BY <1>3, LockInvariant, PTL DEF KeySpec, ScrubExcludesJobs
=============================================================================
