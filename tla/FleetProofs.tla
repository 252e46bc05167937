----------------------------- MODULE FleetProofs -----------------------------
(***************************************************************************)
(* The keys of the fleet and the processes that use them, for any number   *)
(* of keys, requests and workers.                                          *)
(*                                                                         *)
(* The vault (KeyVault): whatever is cut short, the bytes of a key whose   *)
(* row exists are there, and the key that a host was given can be          *)
(* downloaded.  As long as a transaction on the row is not decided nobody  *)
(* else touches the key's files, and it pins down where they are.          *)
(*                                                                         *)
(* The list (WorkerRegistry): who left is off it, who works is on it.      *)
(***************************************************************************)
EXTENDS KeyVault, WorkerRegistry, TLAPS

-----------------------------------------------------------------------------
(* The vault.                                                              *)

Types ==
  /\ row \in [Keys -> RowState]
  /\ canonical \subseteq Keys /\ quarantined \in [Keys -> Nat]
  /\ req \in [Requests -> [pc : Pc, key : Keys \cup {NoKey}]]
  /\ doubt \subseteq [key : Keys, change : Change]
  /\ assigned \in Keys \cup {NoKey}
  /\ head \in {"down", "reconciling", "up"}

\* A quarantine is left of a key that was there.
Parked == \A k \in Keys : quarantined[k] > 0 => row[k] \in {"live", "gone"}

\* What a request in the given place knows of its key.
At(pc, k) ==
  /\ k \in Keys
  /\ pc = "write"  => row[k] \in {"open", "live"}
  /\ pc = "insert" => row[k] = "open" /\ k \in canonical
  /\ pc = "delete" => row[k] = "live" /\ quarantined[k] > 0
  /\ pc = "discard" => row[k] = "gone" /\ quarantined[k] > 0
  /\ pc \in {"repaired", "park", "read", "bind"} => row[k] = "live"
  /\ pc = "bind" => k \in canonical

InService ==
  \A r \in Requests : req[r].pc # "idle" => head = "up" /\ At(req[r].pc, req[r].key)

\* A start may have put the file of an undecided delete back.
InDoubt ==
  \A d \in doubt :
    /\ d.change = "insert" => row[d.key] = "open" /\ d.key \in canonical
    /\ d.change = "delete" => row[d.key] = "live"

Alone == Exclusive \cup {"discard"}

\* One transaction at most may change a row or its files.
OneWriter ==
  /\ \A r, q \in Requests :
       req[r].key = req[q].key /\ req[r].pc \in Alone
         /\ req[q].pc \in Alone \cup {"read", "bind"} => r = q
  /\ \A r \in Requests, d \in doubt :
       req[r].key = d.key => req[r].pc \notin Alone \cup {"read", "bind"}
  /\ \A c, d \in doubt : c.key = d.key => c = d

\* A start discards the quarantine of a deleted key only.
Reading ==
  head = "reconciling" =>
    \A k \in Keys \ expected : quarantined[k] > 0 => row[k] = "gone"

\* No delete is on its way to the key of the host.
Bound ==
  assigned # NoKey =>
    /\ row[assigned] = "live" /\ assigned \in canonical
    /\ \A r \in Requests : req[r].key = assigned => req[r].pc \notin {"park", "delete", "discard"}
    /\ \A d \in doubt : d.key # assigned

VaultInv ==
  Types /\ Parked /\ InService /\ InDoubt /\ OneWriter /\ Reading /\ NoKeyLost /\ Bound

LEMMA InitVault == Init => VaultInv
BY VaultAssumption DEF Init, VaultInv, Types, Parked, InService, InDoubt, OneWriter,
   Reading, NoKeyLost, Bound, Live, Idle, Keys, RowState, Pc, Alone, Exclusive

-----------------------------------------------------------------------------
(* Uploads.                                                                *)

LEMMA CreateOrGetKeeps ==
  ASSUME VaultInv, NEW r \in Requests, NEW b \in Blobs, CreateOrGet(r, b)
  PROVE  VaultInv'
<1> USE VaultAssumption DEF VaultInv, CreateOrGet, Goto, Idle, files
<1>1. PICK k \in Keys :
        /\ Goto(r, "write", k) /\ row[k] \in {"unborn", "live"}
        /\ \/ row[k] = "unborn" /\ row' = [row EXCEPT ![k] = "open"]
           \/ row[k] = "live" /\ row' = row /\ ~Locked(k) /\ ~Shared(k)
  BY DEF Live, Contended
<1>2. Types'
  BY <1>1 DEF Types, RowState, Pc
<1>3. Parked' /\ Reading'
  BY <1>1 DEF Types, Parked, Reading
<1>4. InService'
  BY <1>1 DEF Types, InService, At
<1>5. InDoubt'
  BY <1>1 DEF Types, InDoubt, At, Change
<1>6. OneWriter'
  BY <1>1 DEF Types, OneWriter, InService, InDoubt, At, Alone, Exclusive, Locked, Shared, Change, Pc
<1>7. NoKeyLost' /\ Bound'
  BY <1>1 DEF Types, NoKeyLost, Bound, Live, Pc
<1> QED BY <1>2, <1>3, <1>4, <1>5, <1>6, <1>7

LEMMA WriteKeeps ==
  ASSUME VaultInv, NEW r \in Requests,
         WriteFile(r) \/ WriteFails(r) \/ CommitRepair(r)
  PROVE  VaultInv'
<1> USE VaultAssumption DEF VaultInv, Goto, Respond, Idle, files, rows
<1> DEFINE k == req[r].key
<1>1. k \in Keys /\ row[k] \in {"open", "live"} /\ req[r].pc \in Alone
  BY DEF WriteFile, WriteFails, CommitRepair, InService, At, Alone, Exclusive
<1>2. /\ row' \in {row, [row EXCEPT ![k] = "void"]}
      /\ row' # row => row[k] = "open"
      /\ canonical' \in {canonical, canonical \cup {k}}
      /\ UNCHANGED <<quarantined, doubt, head, expected, assigned>>
      /\ \/ req' = [req EXCEPT ![r] = Idle]
         \/ /\ row' = row /\ k \in canonical'
            /\ \/ req' = [req EXCEPT ![r] = [pc |-> "insert", key |-> k]] /\ row[k] = "open"
               \/ req' = [req EXCEPT ![r] = [pc |-> "repaired", key |-> k]] /\ row[k] = "live"
  BY <1>1 DEF WriteFile, WriteFails, CommitRepair, Undo, Fault, Types, rows
<1>3. Types'
  BY <1>1, <1>2 DEF Types, RowState, Pc
<1>4. Parked' /\ Reading'
  BY <1>1, <1>2 DEF Types, Parked, Reading
<1>5. InService'
  BY <1>1, <1>2 DEF Types, InService, At, OneWriter, Alone, Exclusive, Pc
<1>6. InDoubt'
  BY <1>1, <1>2 DEF Types, InDoubt, At, Change, OneWriter
<1>7. OneWriter'
  BY <1>1, <1>2 DEF Types, OneWriter, Alone, Exclusive, Pc
<1>8. NoKeyLost' /\ Bound'
  BY <1>1, <1>2 DEF Types, NoKeyLost, Bound, Live, Pc
<1> QED BY <1>3, <1>4, <1>5, <1>6, <1>7, <1>8
-----------------------------------------------------------------------------
(* Deletes.                                                                *)

LEMMA LockForDeleteKeeps ==
  ASSUME VaultInv, NEW r \in Requests, NEW k \in Keys, LockForDelete(r, k)
  PROVE  VaultInv'
<1> USE VaultAssumption DEF VaultInv, LockForDelete, Goto, Idle, files, rows
<1>1. Types'
  BY DEF Types, Pc
<1>2. Parked' /\ Reading' /\ InDoubt' /\ NoKeyLost'
  BY DEF Parked, Reading, InDoubt, At, NoKeyLost, Live
<1>3. InService'
  BY DEF Types, InService, At, Live
<1>4. OneWriter'
  BY DEF Types, OneWriter, InService, At, Alone, Exclusive, Locked, Shared, Live, Pc
<1>5. Bound'
  BY DEF Types, Bound
<1> QED BY <1>1, <1>2, <1>3, <1>4, <1>5

LEMMA QuarantineKeeps ==
  ASSUME VaultInv, NEW r \in Requests, Quarantine(r) \/ QuarantineFails(r)
  PROVE  VaultInv'
<1> USE VaultAssumption DEF VaultInv, Goto, Respond, Idle, rows
<1> DEFINE k == req[r].key
<1>1. k \in Keys /\ row[k] = "live" /\ req[r].pc = "park" /\ head = "up"
  BY DEF Quarantine, QuarantineFails, InService, At
<1>2. /\ UNCHANGED <<row, doubt, head, expected, assigned>>
      /\ \/ UNCHANGED <<canonical, quarantined>> /\ req' = [req EXCEPT ![r] = Idle]
         \/ /\ canonical' = canonical \ {k}
            /\ quarantined' = [quarantined EXCEPT ![k] = @ + 1]
            /\ \/ req' = [req EXCEPT ![r] = Idle]
               \/ req' = [req EXCEPT ![r] = [pc |-> "delete", key |-> k]]
  BY <1>1 DEF Quarantine, QuarantineFails, Park
<1>3. Types'
  BY <1>1, <1>2 DEF Types, Pc
<1>4. Parked' /\ Reading' /\ NoKeyLost'
  BY <1>1, <1>2 DEF Types, Parked, Reading, NoKeyLost, Live
<1>5. InService'
  BY <1>1, <1>2 DEF Types, InService, At, OneWriter, Alone, Exclusive, Pc
<1>6. InDoubt'
  BY <1>1, <1>2 DEF Types, InDoubt, At, Change, OneWriter, Alone, Exclusive
<1>7. OneWriter'
  BY <1>1, <1>2 DEF Types, OneWriter, Alone, Exclusive, Pc
<1>8. Bound'
  BY <1>1, <1>2 DEF Types, Bound, Pc
<1> QED BY <1>3, <1>4, <1>5, <1>6, <1>7, <1>8

LEMMA DiscardKeeps ==
  ASSUME VaultInv, NEW r \in Requests, Discard(r) \/ DiscardFails(r)
  PROVE  VaultInv'
<1> USE VaultAssumption DEF VaultInv, Respond, Idle, rows
<1> DEFINE k == req[r].key
<1>1. /\ k \in Keys /\ row[k] = "gone" /\ quarantined[k] > 0
      /\ req[r].pc = "discard" /\ head = "up"
  BY DEF Discard, DiscardFails, InService, At
<1>2. /\ UNCHANGED <<row, canonical, doubt, head, expected, assigned>>
      /\ quarantined' \in {quarantined, [quarantined EXCEPT ![k] = @ - 1]}
      /\ req' = [req EXCEPT ![r] = Idle]
  BY DEF Discard, DiscardFails, Unpark
<1>3. Types'
  BY <1>1, <1>2 DEF Types, Pc
<1>4. Parked' /\ Reading' /\ NoKeyLost'
  BY <1>1, <1>2 DEF Types, Parked, Reading, NoKeyLost, Live
<1>5. InService'
  BY <1>1, <1>2 DEF Types, InService, At, OneWriter, Alone, Exclusive, Pc
<1>6. InDoubt'
  BY <1>1, <1>2 DEF Types, InDoubt, At, Change
<1>7. OneWriter' /\ Bound'
  BY <1>1, <1>2 DEF Types, OneWriter, Bound, Alone, Exclusive, Pc
<1> QED BY <1>3, <1>4, <1>5, <1>6, <1>7

-----------------------------------------------------------------------------
(* The end of a transaction.                                               *)

LEMMA CommitKeeps ==
  ASSUME VaultInv, NEW r \in Requests, Commit(r)
  PROVE  VaultInv'
<1> USE VaultAssumption DEF VaultInv, Commit, Committed, Committing, Goto, Respond, Idle, files
<1> DEFINE k == req[r].key
<1>1. /\ k \in Keys /\ head = "up" /\ UNCHANGED <<canonical, quarantined, doubt, head, assigned>>
      /\ \/ /\ req[r].pc = "insert" /\ row[k] = "open" /\ k \in canonical
            /\ row' = [row EXCEPT ![k] = "live"] /\ req' = [req EXCEPT ![r] = Idle]
         \/ /\ req[r].pc = "delete" /\ row[k] = "live" /\ quarantined[k] > 0
            /\ row' = [row EXCEPT ![k] = "gone"]
            /\ req' = [req EXCEPT ![r] = [pc |-> "discard", key |-> k]]
  BY DEF InService, At
<1>2. Types'
  BY <1>1 DEF Types, RowState, Pc
<1>3. Parked' /\ Reading' /\ NoKeyLost'
  BY <1>1 DEF Types, Parked, Reading, NoKeyLost, Live
<1>4. InService'
  BY <1>1 DEF Types, InService, At, OneWriter, Alone, Exclusive, Pc
<1>5. InDoubt'
  BY <1>1 DEF Types, InDoubt, At, Change, OneWriter, Alone, Exclusive
<1>6. OneWriter'
  BY <1>1 DEF Types, OneWriter, Alone, Exclusive, Pc
<1>7. Bound'
  BY <1>1 DEF Types, Bound, Pc
<1> QED BY <1>2, <1>3, <1>4, <1>5, <1>6, <1>7

LEMMA CommitUnansweredKeeps ==
  ASSUME VaultInv, NEW r \in Requests, CommitUnanswered(r)
  PROVE  VaultInv'
<1> USE VaultAssumption DEF VaultInv, CommitUnanswered, Unanswered, Committing, Respond, Idle, files, rows
<1>1. /\ req[r].key \in Keys /\ At(req[r].pc, req[r].key)
      /\ req[r].pc \in {"insert", "delete"}
  BY DEF InService, At
<1>2. Types'
  <2>1. [key |-> req[r].key, change |-> req[r].pc] \in [key : Keys, change : Change]
    BY <1>1 DEF Change
  <2>2. req' \in [Requests -> [pc : Pc, key : Keys \cup {NoKey}]]
    BY DEF Types, Pc
  <2> QED BY <2>1, <2>2 DEF Types
<1>3. Parked' /\ Reading' /\ NoKeyLost'
  BY DEF Parked, Reading, NoKeyLost, Live
<1>4. InService'
  BY DEF Types, InService, At
<1>5. InDoubt'
  BY <1>1 DEF InDoubt, At
<1>6. OneWriter'
  BY <1>1 DEF Types, OneWriter, Alone, Exclusive, Pc
<1>7. Bound'
  BY <1>1 DEF Types, Bound, At, Pc
<1> QED BY <1>2, <1>3, <1>4, <1>5, <1>6, <1>7

LEMMA SettleKeeps ==
  ASSUME VaultInv, NEW d \in doubt, Settle(d)
  PROVE  VaultInv'
<1> USE VaultAssumption DEF VaultInv, Settle, files
<1> DEFINE k == d.key
<1>1. /\ k \in Keys /\ UNCHANGED <<canonical, quarantined, req, head, expected, assigned>>
      /\ doubt' = doubt \ {d}
      /\ \/ row[k] = "open" /\ k \in canonical /\ row' \in {[row EXCEPT ![k] = "live"], [row EXCEPT ![k] = "void"]}
         \/ row[k] = "live" /\ row' \in {[row EXCEPT ![k] = "gone"], row}
  BY DEF Types, Change, InDoubt, At, Committed, Undo
<1>2. Types'
  BY <1>1 DEF Types, RowState
<1>3. Parked' /\ Reading' /\ NoKeyLost'
  BY <1>1 DEF Types, Parked, Reading, NoKeyLost, Live
<1>4. InService'
  BY <1>1 DEF Types, InService, At, OneWriter, Alone, Exclusive, Pc
<1>5. InDoubt'
  BY <1>1 DEF Types, InDoubt, At, OneWriter
<1>6. OneWriter'
  BY <1>1 DEF OneWriter
<1>7. Bound'
  BY <1>1 DEF Types, Bound
<1> QED BY <1>2, <1>3, <1>4, <1>5, <1>6, <1>7

-----------------------------------------------------------------------------
(* Assignments.                                                            *)

LEMMA AssignmentKeeps ==
  ASSUME VaultInv, NEW r \in Requests,
         ReadFile(r) \/ Assign(r) \/ \E k \in Keys : LockForAssignment(r, k)
  PROVE  VaultInv'
<1> USE VaultAssumption DEF VaultInv
<1>1. CASE ReadFile(r)
  <2> USE <1>1 DEF ReadFile, Goto, Respond, Idle, files, rows
  <2>1. Types'
    BY DEF Types, InService, At, Pc
  <2>2. Parked' /\ Reading' /\ InDoubt' /\ NoKeyLost'
    BY DEF Parked, Reading, InDoubt, At, NoKeyLost, Live
  <2>3. InService'
    BY DEF Types, InService, At
  <2>4. OneWriter'
    BY DEF Types, OneWriter, Alone, Exclusive, Pc
  <2>5. Bound'
    BY DEF Types, Bound, Pc
  <2> QED BY <2>1, <2>2, <2>3, <2>4, <2>5
<1>2. CASE Assign(r)
  <2> USE <1>2 DEF Assign, Respond, Idle, files
  <2>1. req[r].key \in Keys /\ row[req[r].key] = "live" /\ req[r].key \in canonical
    BY DEF InService, At
  <2>2. Types'
    BY <2>1 DEF Types, Pc
  <2>3. Parked' /\ Reading' /\ InDoubt' /\ NoKeyLost'
    BY DEF Parked, Reading, InDoubt, At, NoKeyLost, Live
  <2>4. InService'
    BY DEF Types, InService, At
  <2>5. OneWriter'
    BY DEF Types, OneWriter, Alone, Exclusive, Pc
  <2>6. Bound'
    BY <2>1 DEF Types, OneWriter, Bound, Alone, Exclusive, Pc
  <2> QED BY <2>2, <2>3, <2>4, <2>5, <2>6
<1>3. ASSUME NEW k \in Keys, LockForAssignment(r, k) PROVE VaultInv'
  <2> USE <1>3 DEF LockForAssignment, Goto, Idle, files, rows
  <2>1. Types'
    BY DEF Types, Pc
  <2>2. Parked' /\ Reading' /\ InDoubt' /\ NoKeyLost'
    BY DEF Parked, Reading, InDoubt, At, NoKeyLost, Live
  <2>3. InService'
    BY DEF Types, InService, At, Live
  <2>4. OneWriter'
    BY DEF Types, OneWriter, InService, At, Alone, Exclusive, Locked, Live, Pc
  <2>5. Bound'
    BY DEF Types, Bound
  <2> QED BY <2>1, <2>2, <2>3, <2>4, <2>5
<1> QED BY <1>1, <1>2, <1>3

LEMMA UnassignKeeps == VaultInv /\ Unassign => VaultInv'
BY VaultAssumption DEF VaultInv, Unassign, files, Types, Parked, InService, InDoubt, At,
   OneWriter, Reading, NoKeyLost, Bound, Live

-----------------------------------------------------------------------------
(* Crash and start.                                                        *)

LEMMA CrashKeeps == VaultInv /\ Crash => VaultInv'
<1> SUFFICES ASSUME VaultInv, Crash PROVE VaultInv'
  OBVIOUS
<1> USE VaultAssumption DEF VaultInv
<1>1. /\ head' = "down" /\ UNCHANGED <<canonical, quarantined, assigned>>
      /\ req' = [r \in Requests |-> Idle]
      /\ row' = [k \in Keys |->
                   IF \E r \in Requests : req[r] = [pc |-> "write", key |-> k] /\ row[k] = "open"
                     THEN "void" ELSE row[k]]
  BY DEF Crash, files
<1>2. ASSUME NEW d \in doubt'
      PROVE  \/ d \in doubt
             \/ \E r \in Requests : /\ req[r].pc \in {"insert", "delete"}
                                   /\ d = [key |-> req[r].key, change |-> req[r].pc]
  BY <1>2 DEF Crash, Unanswered, Committing
<1>3. ASSUME NEW d \in doubt' PROVE d \in [key : Keys, change : Change] /\ row'[d.key] = row[d.key]
  BY <1>1, <1>2, <1>3 DEF Types, InService, At, Change, OneWriter, Alone, Exclusive
<1>4. Types'
  BY <1>1, <1>3 DEF Types, RowState, Pc, Idle
<1>5. Parked' /\ Reading' /\ NoKeyLost'
  BY <1>1 DEF Types, Parked, Reading, NoKeyLost, Live
<1>6. InService'
  BY <1>1 DEF InService, Idle
<1>7. InDoubt'
  BY <1>1, <1>2, <1>3 DEF Types, InDoubt, InService, At, Change
<1>8. OneWriter'
  <2>1. ASSUME NEW c \in doubt', NEW d \in doubt', c.key = d.key PROVE c = d
    BY <1>2, <2>1 DEF OneWriter, Alone, Exclusive
  <2> QED BY <1>1, <2>1 DEF OneWriter, Idle, Alone, Exclusive
<1>9. Bound'
  <2>1. ASSUME assigned # NoKey, NEW d \in doubt' PROVE d.key # assigned
    BY <1>2, <2>1 DEF Bound, InService, At
  <2> QED BY <1>1, <2>1 DEF Types, Bound, Idle
<1> QED BY <1>4, <1>5, <1>6, <1>7, <1>8, <1>9

LEMMA StartKeeps ==
  ASSUME VaultInv, Start \/ Verify \/ StartFails
  PROVE  VaultInv'
<1> USE VaultAssumption DEF VaultInv, Start, Verify, StartFails, files, rows
<1>1. Types' /\ Parked' /\ NoKeyLost'
  BY DEF Types, Parked, NoKeyLost, Live
<1>2. InService' /\ InDoubt'
  BY DEF InService, InDoubt, At
<1>3. OneWriter' /\ Bound'
  BY DEF OneWriter, Bound
<1>4. Reading'
  BY DEF Reading, Parked, Live
<1> QED BY <1>1, <1>2, <1>3, <1>4

LEMMA ReconcileKeeps ==
  ASSUME VaultInv, NEW k \in Keys, Restore(k) \/ DiscardLeft(k)
  PROVE  VaultInv'
<1> USE VaultAssumption DEF VaultInv, rows
<1>1. /\ UNCHANGED <<row, assigned, req, doubt, head, expected>>
      /\ head = "reconciling" /\ quarantined[k] = 1
      /\ \/ quarantined' = quarantined /\ canonical' = canonical \cup {k}
         \/ /\ quarantined' = quarantined /\ canonical' = canonical \ {k} /\ row[k] = "gone"
         \/ /\ canonical' = canonical /\ quarantined' = [quarantined EXCEPT ![k] = 0]
            /\ k \in canonical \/ row[k] = "gone"
  BY DEF Restore, DiscardLeft, Unpark, Types, Reading
<1>2. Types' /\ Parked' /\ Reading'
  BY <1>1 DEF Types, Parked, Reading
<1>3. NoKeyLost' /\ Bound'
  BY <1>1 DEF Types, NoKeyLost, Bound, Live
<1>4. InService'
  BY <1>1 DEF InService
<1>5. InDoubt'
  BY <1>1 DEF Types, InDoubt, At, Change
<1>6. OneWriter'
  BY <1>1 DEF OneWriter
<1> QED BY <1>2, <1>3, <1>4, <1>5, <1>6

-----------------------------------------------------------------------------

LEMMA NextKeeps == VaultInv /\ [Next]_vars => VaultInv'
<1> SUFFICES ASSUME VaultInv, [Next]_vars PROVE VaultInv'
  OBVIOUS
<1>1. ASSUME NEW r \in Requests, RequestStep(r) PROVE VaultInv'
  BY <1>1, CreateOrGetKeeps, WriteKeeps, LockForDeleteKeeps, QuarantineKeeps,
     DiscardKeeps, CommitKeeps, CommitUnansweredKeeps, AssignmentKeeps DEF RequestStep
<1>2. CASE SettleOne
  BY <1>2, SettleKeeps DEF SettleOne
<1>3. CASE Unassign \/ Crash
  BY <1>3, UnassignKeeps, CrashKeeps
<1>4. CASE Start \/ Verify \/ StartFails
  BY <1>4, StartKeeps
<1>5. CASE Reconcile
  BY <1>5, ReconcileKeeps DEF Reconcile
<1>6. CASE UNCHANGED vars
  BY <1>6 DEF vars, files, rows, VaultInv, Types, Parked, InService, InDoubt, At,
     OneWriter, Reading, NoKeyLost, Bound, Live
<1> QED BY <1>1, <1>2, <1>3, <1>4, <1>5, <1>6 DEF Next

\* The lock of a row excludes, and an undecided transaction, a request or a start
\* finds row and files as it left them.
THEOREM VaultInvariant == Spec => []VaultInv
BY InitVault, NextKeeps, PTL DEF Spec

\* The bytes of a key whose row exists are in the vault, after any number of
\* crashes, vault errors and unanswered commits of any number of requests.
THEOREM BytesKept == Spec => []NoKeyLost
<1>1. VaultInv => NoKeyLost
  BY DEF VaultInv
<1> QED BY <1>1, VaultInvariant, PTL

\* The key a host was given has its row and its file.
THEOREM AssignedKeyThere == Spec => []AssignedIsServed
<1>1. VaultInv => AssignedIsServed
  BY DEF VaultInv, Types, Bound, AssignedIsServed, Live
<1> QED BY <1>1, VaultInvariant, PTL

-----------------------------------------------------------------------------
(* The list of workers.                                                    *)

\* A worker that left has no row, and a worker that is gone beats no more.
RowsFollow ==
  \A w \in Workers :
    /\ mode[w] = "left" => ~Known(w)
    /\ ~Beating(w) => beat[w] = "asleep"

ListInv == ListTypeOK /\ RowsFollow

LEMMA RowTypes ==
  /\ NoRow \in Row /\ [status |-> "online", age |-> Fresh] \in Row
  /\ \A r \in Row : /\ r.age \in Ages /\ r.status \in {"none", "online", "offline", "draining"}
                    /\ r # NoRow => r.status # "none"
  /\ \A r \in Row \ {NoRow} : \A s \in {"online", "offline", "draining"} :
       [r EXCEPT !.status = s] \in Row /\ [r EXCEPT !.status = s] # NoRow
  /\ \A r \in Row \ {NoRow} : r.age < Buried => [r EXCEPT !.age = @ + 1] \in Row
BY DEF Row, NoRow, Ages, Fresh, Buried

LEMMA InitList == ListInit => ListInv
BY RowTypes DEF ListInit, ListInv, ListTypeOK, RowsFollow, Known, Beating, Modes,
                Beats

LEMMA WorkerList == ASSUME ListInv, NEW w \in Workers, WorkerStep(w) PROVE ListInv'
<1> USE DEF ListInv, ListTypeOK, jobVars, Modes, Beats
<1>1. listed' \in [Workers -> Row]
  BY RowTypes DEF WorkerStep, BeatRead, BeatWrite, BeatFail, Claim,
                  FinishJob, Stop, EndLoop, LastClaim,
                  Deregister, Kill, Restart
<1>3. mode' \in [Workers -> Modes] /\ beat' \in [Workers -> Beats]
  BY DEF WorkerStep, BeatRead, BeatWrite, BeatFail, Claim,
         FinishJob, Stop, EndLoop, LastClaim,
         Deregister, Kill, Restart
<1>4. tasks' \in [Workers -> BOOLEAN] /\ owns' \in [Workers -> BOOLEAN]
  BY DEF WorkerStep, BeatRead, BeatWrite, BeatFail, Claim,
         FinishJob, Stop, EndLoop, LastClaim,
         Deregister, Kill, Restart
<1>2. RowsFollow'
  BY DEF WorkerStep, BeatRead, BeatWrite, BeatFail, Claim,
         FinishJob, Stop, EndLoop, LastClaim,
         Deregister, Kill, Restart, RowsFollow, Known, Beating, Up
<1> QED BY <1>1, <1>2, <1>3, <1>4

LEMMA SweepList == ASSUME ListInv, NEW w \in Workers, SweepStep(w) PROVE ListInv'
<1> USE DEF ListInv, ListTypeOK, jobVars
<1>1. CASE ReclaimJobs(w)
  BY <1>1 DEF ReclaimJobs, RowsFollow, Known, Beating
<1>2. ASSUME NEW reclaimed \in SUBSET Workers, Sweep(w, reclaimed) PROVE ListInv'
  <2> DEFINE owners == {v \in Workers : owns[v]} \ reclaimed
             marked == MarkStaleOffline(listed)
  <2>1. marked \in [Workers -> Row] /\ \A v \in Workers : listed[v] = NoRow => marked[v] = NoRow
    BY RowTypes DEF MarkStaleOffline
  <2>2. /\ listed' \in [Workers -> Row]
        /\ \A v \in Workers : listed[v] = NoRow => listed'[v] = NoRow
    <3>1. listed' = PruneStale(marked, owners)
      BY <1>2 DEF Sweep
    <3> HIDE DEF marked
    <3> QED BY <2>1, <3>1, RowTypes DEF PruneStale
  <2>3. ListTypeOK'
    BY <1>2, <2>2 DEF Sweep
  <2>4. RowsFollow'
    BY <1>2, <2>2 DEF Sweep, RowsFollow, Known, Beating
  <2> QED BY <2>3, <2>4
<1> QED BY <1>1, <1>2 DEF SweepStep

LEMMA OtherList ==
  ASSUME ListInv, NEW w \in Workers, OperatorStep(w) \/ Grow(w) PROVE ListInv'
<1> USE DEF ListInv, ListTypeOK, jobVars, Known
<1>1. listed' \in [Workers -> Row] /\ \A v \in Workers : listed[v] = NoRow => listed'[v] = NoRow
  <2>1. CASE Drain(w)
    BY <2>1, RowTypes DEF Drain
  <2>2. CASE Undrain(w)
    BY <2>2, RowTypes DEF Undrain
  <2>3. CASE Grow(w)
    BY <2>3, RowTypes DEF Grow
  <2> QED BY <2>1, <2>2, <2>3 DEF OperatorStep
<1>2. ListTypeOK'
  BY <1>1 DEF OperatorStep, Drain, Undrain, Grow
<1>3. RowsFollow'
  BY <1>1 DEF OperatorStep, Drain, Undrain, Grow, RowsFollow, Beating
<1> QED BY <1>2, <1>3

\* The list and the processes stay in the states the code knows, and a worker
\* that deregistered stays off the list until it restarts.
THEOREM ListInvariant == ListSpec => []ListInv
<1>1. ASSUME ListInv, [ListNext]_listVars PROVE ListInv'
  <2>1. CASE UNCHANGED listVars
    BY <1>1, <2>1 DEF listVars, jobVars, ListInv, ListTypeOK, RowsFollow, Known,
                      Beating
  <2>2. CASE ListNext
    BY <1>1, <2>2, WorkerList, SweepList, OtherList DEF ListNext
  <2> QED BY <1>1, <2>1, <2>2
<1> QED BY InitList, <1>1, PTL DEF ListSpec

\* Rows and processes keep their types through every step of worker and sweep.
THEOREM TypesKept == ListSpec => []ListTypeOK
<1>1. ListInv => ListTypeOK
  BY DEF ListInv
<1> QED BY <1>1, ListInvariant, PTL

\* Who left is not listed, and the row of a worker at work is deleted only with
\* its claim: the anti-join of prune_stale_workers, and the shutdown that waits
\* for its tasks.
THEOREM ListTells == ListSpec => ListedWhileThere
<1>1. ASSUME ListInv, ListInv', [ListNext]_listVars
      PROVE  [\A w \in Workers :
                /\ mode'[w] = "left" => listed'[w] = NoRow
                /\ Known(w) /\ owns[w] /\ owns'[w] /\ tasks[w] => listed'[w] # NoRow]_listVars
  <2>1. CASE UNCHANGED listVars
    BY <2>1
  <2>2. ASSUME ListNext, NEW v \in Workers PROVE mode'[v] = "left" => listed'[v] = NoRow
    BY <1>1 DEF ListInv, RowsFollow, Known
  <2>3. ASSUME ListNext, NEW v \in Workers, Known(v), owns[v], owns'[v], tasks[v]
        PROVE  listed'[v] # NoRow
    <3>1. PICK w \in Workers : WorkerStep(w) \/ SweepStep(w) \/ OperatorStep(w) \/ Grow(w)
      BY <2>3 DEF ListNext
    <3>2. CASE WorkerStep(w)
      BY <1>1, <2>3, <3>2, RowTypes DEF ListInv, ListTypeOK, Known, WorkerStep,
                        BeatRead, BeatWrite,
         BeatFail, Claim, FinishJob, Stop, EndLoop, LastClaim, Deregister, Kill, Restart, NoRow
    <3>3. CASE OperatorStep(w) \/ Grow(w)
      BY <1>1, <2>3, <3>3, RowTypes DEF ListInv, ListTypeOK, Known, OperatorStep,
                        Drain, Undrain, Grow,
         NoRow, Row
    <3>4. CASE ReclaimJobs(w)
      BY <1>1, <2>3, <3>4 DEF ReclaimJobs, Known
    <3>5. ASSUME NEW reclaimed \in SUBSET Workers, Sweep(w, reclaimed) PROVE listed'[v] # NoRow
      <4> DEFINE owners == {u \in Workers : owns[u]} \ reclaimed
      <4>1. v \in owners
        BY <2>3, <3>5 DEF Sweep
      <4>2. MarkStaleOffline(listed)[v] # NoRow
        BY <1>1, <2>3, RowTypes DEF MarkStaleOffline, Known, ListInv, ListTypeOK
      <4>3. listed'[v] = MarkStaleOffline(listed)[v]
        BY <3>5, <4>1 DEF Sweep, PruneStale
      <4> QED BY <4>2, <4>3
    <3> QED BY <3>1, <3>2, <3>3, <3>4, <3>5 DEF SweepStep
  <2> QED BY <1>1, <2>1, <2>2, <2>3
<1> QED BY ListInvariant, <1>1, PTL DEF ListSpec, ListedWhileThere
=============================================================================
