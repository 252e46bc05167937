------------------------------ MODULE KeyVault ------------------------------
(***************************************************************************)
(* The vault of service-account keys on the head.  The metadata of a key   *)
(* is a row of sa_keys, its secret bytes are a file of the vault directory;*)
(* upload and delete change both, and no transaction spans a table and a   *)
(* directory.  A delete first renames the file to a quarantine name, and a *)
(* starting head settles whatever quarantines it finds by the rows         *)
(* (services/sa_key_vault.py, api/v1/sa_keys.py, main.py lifespan).        *)
(*                                                                         *)
(* A vault operation runs in one go in the head's event loop; it may fail  *)
(* before or after its effect, and the process may die between any two     *)
(* renames, links and unlinks.  The bytes in a file are always those that  *)
(* its name stands for: a file is renamed into place when it is written    *)
(* and flushed, and the temporary file is not modelled.                    *)
(***************************************************************************)
EXTENDS Naturals

CONSTANTS
  Blobs,       \* contents of key files, that is, sha256 digests
  Requests,    \* requests the head may be serving at once
  MaxKeys,     \* bound of the model: how many row ids are minted
  MaxCrashes,  \* bound of the model: how often the head dies
  MaxFaults,   \* bound of the model: vault errors and unanswered commits
  NoKey,
  NoBlob

Keys == 1 .. MaxKeys

ASSUME VaultAssumption ==
  /\ NoKey \notin Keys /\ NoBlob \notin Blobs
  /\ MaxKeys \in Nat /\ MaxCrashes \in Nat /\ MaxFaults \in Nat

\* A row: its id is not minted, it is inserted by a transaction that is not
\* decided, committed, deleted, or its insert was rolled back.
RowState == {"unborn", "open", "live", "gone", "void"}

\* Where a request stands.  From "write" and "park" on it holds the lock of
\* its row, up to the end of its transaction.
Pc == {"idle", "write", "insert", "repaired", "park", "delete", "discard",
       "read", "bind"}
Exclusive  == {"write", "insert", "repaired", "park", "delete"}
Committing == {"insert", "delete"}
Change     == {"insert", "delete"}

VARIABLES
  row,          \* the sa_keys rows
  blob,         \* their sha256
  canonical,    \* keys with a file <id>.json
  quarantined,  \* how many quarantine files each key has
  linked,       \* <id>.json and the quarantine file are one file
  assigned,     \* the key that sa_key_assignments gives a host
  req,          \* the requests: [pc, key]
  doubt,        \* transactions whose COMMIT was not answered: [key, change]
  head,         \* the process: down, reconciling, up
  expected,     \* the rows a starting head has read
  late,         \* history: keys in doubt when a starting head read the rows
  strikes,      \* history: deletes of a key cut short since the head came up
  faults, crashes

files   == <<canonical, quarantined, linked>>
rows    == <<row, blob, assigned>>
history == <<late, strikes>>
bounds  == <<faults, crashes>>
vars == <<rows, files, req, doubt, head, expected, history, bounds>>

Idle == [pc |-> "idle", key |-> NoKey]

Init ==
  /\ row = [k \in Keys |-> "unborn"] /\ blob = [k \in Keys |-> NoBlob]
  /\ canonical = {} /\ quarantined = [k \in Keys |-> 0] /\ linked = {}
  /\ assigned = NoKey
  /\ req = [r \in Requests |-> Idle]
  /\ doubt = {}
  /\ head = "down" /\ expected = {}
  /\ late = {} /\ strikes = [k \in Keys |-> 0]
  /\ faults = 0 /\ crashes = 0

-----------------------------------------------------------------------------
(* Rows and their locks.                                                   *)

Live == {k \in Keys : row[k] = "live"}

\* SELECT ... FOR UPDATE, and the row an undecided transaction has written.
Locked(k) ==
  \/ \E r \in Requests : req[r].key = k /\ req[r].pc \in Exclusive
  \/ \E d \in doubt : d.key = k

\* FOR KEY SHARE.
Shared(k) == \E r \in Requests : req[r].key = k /\ req[r].pc \in {"read", "bind"}

\* A transaction that may still insert or delete a row with these bytes makes
\* an insert of the same bytes wait.
Contended(b) == \E k \in Keys : blob[k] = b /\ row[k] \in {"open", "live"} /\ Locked(k)

Goto(r, label, k) == req' = [req EXCEPT ![r] = [pc |-> label, key |-> k]]
Respond(r)        == req' = [req EXCEPT ![r] = Idle]

\* A row whose insert is rolled back is none.
Undo(k) == row' = [row EXCEPT ![k] = IF @ = "open" THEN "void" ELSE @]

Fault == faults < MaxFaults /\ faults' = faults + 1 /\ UNCHANGED crashes

Strike(K) == strikes' = [k \in Keys |-> IF k \in K THEN strikes[k] + 1 ELSE strikes[k]]

-----------------------------------------------------------------------------
(* upload_sa_key.                                                          *)

\* create_or_get_for_upload: a new row, or the lock of the row with these bytes.
CreateOrGet(r, b) ==
  /\ head = "up" /\ req[r] = Idle /\ ~Contended(b)
  /\ \/ /\ \A k \in Live : blob[k] # b
        /\ \E k \in Keys :
             /\ row[k] = "unborn" /\ \A i \in 1 .. k - 1 : row[i] # "unborn"
             /\ row' = [row EXCEPT ![k] = "open"]
             /\ blob' = [blob EXCEPT ![k] = b]
             /\ Goto(r, "write", k)
     \/ \E k \in Live :
          /\ blob[k] = b /\ ~Shared(k)
          /\ Goto(r, "write", k)
          /\ UNCHANGED <<row, blob>>
  /\ UNCHANGED <<assigned, files, doubt, head, expected, history, bounds>>

\* atomic_write, for a new row, and for an old one whose file is not readable.
WriteFile(r) ==
  LET k == req[r].key IN
  /\ req[r].pc = "write"
  /\ canonical' = canonical \cup {k}
  /\ Goto(r, IF row[k] = "open" THEN "insert" ELSE "repaired", k)
  /\ UNCHANGED <<rows, quarantined, linked, doubt, head, expected, history, bounds>>

\* An error of the vault, before the file is in place or after.
WriteFails(r) ==
  LET k == req[r].key IN
  /\ req[r].pc = "write" /\ Fault
  /\ canonical' \in {canonical, canonical \cup {k}}
  /\ Undo(k) /\ Respond(r)
  /\ UNCHANGED <<blob, assigned, quarantined, linked, doubt, head, expected, history>>

\* The commit of an upload that changed no row, answered or not.
CommitRepair(r) ==
  /\ req[r].pc = "repaired" /\ Respond(r)
  /\ UNCHANGED <<rows, files, doubt, head, expected, history, bounds>>

-----------------------------------------------------------------------------
(* delete_sa_key.                                                          *)

\* lock_unassigned_key_for_delete.
LockForDelete(r, k) ==
  /\ head = "up" /\ req[r] = Idle
  /\ k \in Live /\ ~Locked(k) /\ ~Shared(k) /\ assigned # k
  /\ Goto(r, "park", k)
  /\ UNCHANGED <<rows, files, doubt, head, expected, history, bounds>>

Park(k) ==
  /\ canonical' = canonical \ {k}
  /\ quarantined' = [quarantined EXCEPT ![k] = @ + 1]

\* quarantine_for_delete; it has no file to rename when an earlier delete of the
\* key was cut short.
Quarantine(r) ==
  LET k == req[r].key IN
  /\ req[r].pc = "park"
  /\ \/ k \in canonical /\ Park(k) /\ Goto(r, "delete", k)
     \/ k \notin canonical /\ Respond(r) /\ UNCHANGED <<canonical, quarantined>>
  /\ UNCHANGED <<rows, linked, doubt, head, expected, history, bounds>>

QuarantineFails(r) ==
  LET k == req[r].key IN
  /\ req[r].pc = "park" /\ k \in canonical /\ Fault
  /\ \/ UNCHANGED <<canonical, quarantined, strikes>>
     \/ Park(k) /\ Strike({k})
  /\ Respond(r)
  /\ UNCHANGED <<rows, linked, doubt, head, expected, late>>

Unpark(k) == quarantined' = [quarantined EXCEPT ![k] = @ - 1]

\* discard_quarantined_delete.
Discard(r) ==
  /\ req[r].pc = "discard"
  /\ Unpark(req[r].key) /\ Respond(r)
  /\ UNCHANGED <<rows, canonical, linked, doubt, head, expected, history, bounds>>

DiscardFails(r) ==
  /\ req[r].pc = "discard" /\ Fault
  /\ \/ Unpark(req[r].key) /\ UNCHANGED strikes
     \/ UNCHANGED quarantined /\ Strike({req[r].key})
  /\ Respond(r)
  /\ UNCHANGED <<rows, canonical, linked, doubt, head, expected, late>>

-----------------------------------------------------------------------------
(* The end of a transaction.                                               *)

Committed(k, change) ==
  row' = [row EXCEPT ![k] = IF change = "insert" THEN "live" ELSE "gone"]

Commit(r) ==
  LET k == req[r].key IN
  /\ req[r].pc \in Committing /\ Committed(k, req[r].pc)
  /\ IF req[r].pc = "delete" THEN Goto(r, "discard", k) ELSE Respond(r)
  /\ UNCHANGED <<blob, assigned, files, doubt, head, expected, history, bounds>>

Unanswered(r) == [key |-> req[r].key, change |-> req[r].pc]

\* Mutant of CommitUnanswered: the request takes the error for a rollback and
\* puts the file back.
CommitUnansweredRestores(r) ==
  /\ req[r].pc \in Committing /\ Fault
  /\ doubt' = doubt \cup {Unanswered(r)}
  /\ IF req[r].pc = "delete"
       THEN /\ canonical' = canonical \cup {req[r].key}
            /\ Unpark(req[r].key) /\ Strike({req[r].key})
       ELSE UNCHANGED <<canonical, quarantined, strikes>>
  /\ Respond(r)
  /\ UNCHANGED <<rows, linked, head, expected, late>>

\* Mutant of CommitUnanswered: the request takes the key for deleted.
CommitUnansweredDiscards(r) ==
  /\ req[r].pc \in Committing /\ Fault
  /\ doubt' = doubt \cup {Unanswered(r)}
  /\ IF req[r].pc = "delete" THEN Unpark(req[r].key) ELSE UNCHANGED quarantined
  /\ Respond(r)
  /\ UNCHANGED <<rows, canonical, linked, head, expected, history>>

\* The commit raises: whether the transaction takes effect, and when, is the
\* database's; the files stay as they are.
CommitUnanswered(r) ==
  /\ req[r].pc \in Committing /\ Fault
  /\ doubt' = doubt \cup {Unanswered(r)}
  /\ Strike(IF req[r].pc = "delete" THEN {req[r].key} ELSE {})
  /\ Respond(r)
  /\ UNCHANGED <<rows, files, head, expected, late>>

\* The database decides.
Settle(d) ==
  /\ d \in doubt /\ doubt' = doubt \ {d}
  /\ Committed(d.key, d.change) \/ Undo(d.key)
  /\ UNCHANGED <<blob, assigned, files, req, head, expected, history, bounds>>

-----------------------------------------------------------------------------
(* assign_sa_key and unassign_sa_key, for one host.                        *)

\* Mutant of LockForAssignment: the key is read without a lock.
ReadForAssignment(r, k) ==
  /\ head = "up" /\ req[r] = Idle /\ k \in Live
  /\ Goto(r, "read", k)
  /\ UNCHANGED <<rows, files, doubt, head, expected, history, bounds>>

\* lock_key_for_assignment.
LockForAssignment(r, k) ==
  /\ head = "up" /\ req[r] = Idle
  /\ k \in Live /\ ~Locked(k)
  /\ Goto(r, "read", k)
  /\ UNCHANGED <<rows, files, doubt, head, expected, history, bounds>>

\* read_bytes must find the file; then the host's lock is waited for.
ReadFile(r) ==
  LET k == req[r].key IN
  /\ req[r].pc = "read"
  /\ IF k \in canonical THEN Goto(r, "bind", k) ELSE Respond(r)
  /\ UNCHANGED <<rows, files, doubt, head, expected, history, bounds>>

Assign(r) ==
  /\ req[r].pc = "bind"
  /\ assigned' \in {req[r].key, assigned} /\ Respond(r)
  /\ UNCHANGED <<row, blob, files, doubt, head, expected, history, bounds>>

Unassign ==
  /\ head = "up" /\ assigned # NoKey /\ assigned' = NoKey
  /\ UNCHANGED <<row, blob, files, req, doubt, head, expected, history, bounds>>

-----------------------------------------------------------------------------
(* The head dies and starts (main.py lifespan).                            *)

\* What a start that finds every transaction decided would refuse at a key: two
\* quarantines, a file without a row, a row without a file.
Blocked(k) ==
  \/ quarantined[k] > 1
  \/ k \in canonical \ linked /\ row[k] # "live"
  \/ k \notin canonical /\ quarantined[k] = 0 /\ row[k] = "live"

\* Requests die with the process: transactions are rolled back, unless their
\* commit is on its way.
Crash ==
  LET cut == {req[r].key : r \in {q \in Requests : req[q].pc \in {"delete", "discard"}}} IN
  /\ head # "down" /\ crashes < MaxCrashes
  /\ crashes' = crashes + 1
  /\ head' = "down" /\ expected' = {}
  /\ doubt' = doubt \cup {Unanswered(r) : r \in {q \in Requests : req[q].pc \in Committing}}
  /\ row' = [k \in Keys |->
               IF \E r \in Requests : req[r] = [pc |-> "write", key |-> k] /\ row[k] = "open"
                 THEN "void" ELSE row[k]]
  /\ req' = [r \in Requests |-> Idle]
  /\ Strike(cut)
  /\ UNCHANGED <<blob, assigned, files, late, faults>>

\* uuid_hash_inventory, then _group_quarantines, which refuses two of one key.
Start ==
  /\ head = "down"
  /\ \A k \in Keys : quarantined[k] <= 1
  /\ head' = "reconciling" /\ expected' = Live
  /\ late' = late \cup {d.key : d \in doubt}
  /\ UNCHANGED <<rows, files, req, doubt, strikes, bounds>>

\* Mutant of Restore: a file that is there already is left as it is.
RestoreMissing(k) ==
  /\ head = "reconciling" /\ quarantined[k] = 1 /\ k \in expected
  /\ k \notin canonical
  /\ canonical' = canonical \cup {k} /\ linked' = linked \cup {k}
  /\ UNCHANGED <<rows, quarantined, req, doubt, head, expected, history, bounds>>

\* restore_quarantined_delete: link the name back, then drop the quarantine, also
\* the one beside a file that an upload has written again.
Restore(k) ==
  /\ head = "reconciling" /\ quarantined[k] = 1 /\ k \in expected
  /\ IF k \in canonical
       THEN Unpark(k) /\ linked' = linked \ {k} /\ UNCHANGED canonical
       ELSE canonical' = canonical \cup {k} /\ linked' = linked \cup {k}
            /\ UNCHANGED quarantined
  /\ UNCHANGED <<rows, req, doubt, head, expected, history, bounds>>

\* The row is gone: the name that a restore put back goes first.
DiscardLeft(k) ==
  /\ head = "reconciling" /\ quarantined[k] = 1 /\ k \notin expected
  /\ IF k \in linked
       THEN canonical' = canonical \ {k} /\ linked' = linked \ {k}
            /\ UNCHANGED quarantined
       ELSE Unpark(k) /\ UNCHANGED <<canonical, linked>>
  /\ UNCHANGED <<rows, req, doubt, head, expected, history, bounds>>

\* verify_uuid_inventory: files and rows are the same, or the head does not start.
Verify ==
  /\ head = "reconciling" /\ \A k \in Keys : quarantined[k] = 0
  /\ IF canonical = expected
       THEN head' = "up" /\ strikes' = [k \in Keys |-> 0]
       ELSE head' = "down" /\ UNCHANGED strikes
  /\ expected' = {}
  /\ UNCHANGED <<rows, files, req, doubt, late, bounds>>

\* An error of the vault while the head starts.
StartFails ==
  /\ head = "reconciling" /\ Fault
  /\ head' = "down" /\ expected' = {}
  /\ UNCHANGED <<rows, files, req, doubt, history>>

-----------------------------------------------------------------------------

RequestStep(r) ==
  \/ \E b \in Blobs : CreateOrGet(r, b)
  \/ WriteFile(r) \/ WriteFails(r) \/ CommitRepair(r)
  \/ \E k \in Keys : LockForDelete(r, k)
  \/ Quarantine(r) \/ QuarantineFails(r) \/ Discard(r) \/ DiscardFails(r)
  \/ Commit(r) \/ CommitUnanswered(r)
  \/ \E k \in Keys : LockForAssignment(r, k)
  \/ ReadFile(r) \/ Assign(r)

Reconcile == \E k \in Keys : Restore(k) \/ DiscardLeft(k)

SettleOne == \E d \in doubt : Settle(d)

Next ==
  \/ \E r \in Requests : RequestStep(r)
  \/ SettleOne \/ Unassign
  \/ Crash \/ Start \/ Reconcile \/ Verify \/ StartFails

Spec == Init /\ [][Next]_vars

\* Whoever runs the head starts it again, a start goes on, and the database
\* decides every transaction.
FairSpec ==
  Spec /\ WF_vars(Start) /\ WF_vars(Reconcile) /\ WF_vars(Verify)
       /\ WF_vars(SettleOne)

-----------------------------------------------------------------------------
(* Properties.                                                             *)

TypeOK ==
  /\ row \in [Keys -> RowState] /\ blob \in [Keys -> Blobs \cup {NoBlob}]
  /\ canonical \subseteq Keys /\ quarantined \in [Keys -> Nat]
  /\ linked \subseteq Keys
  /\ assigned \in Keys \cup {NoKey}
  /\ req \in [Requests -> [pc : Pc, key : Keys \cup {NoKey}]]
  /\ doubt \subseteq [key : Keys, change : Change]
  /\ head \in {"down", "reconciling", "up"} /\ expected \subseteq Keys
  /\ late \subseteq Keys /\ strikes \in [Keys -> Nat]
  /\ faults \in 0 .. MaxFaults /\ crashes \in 0 .. MaxCrashes

\* No crash, error or undecided commit costs the bytes of a key whose row exists:
\* they are in its file or in a quarantine (sa_keys.py:141-146, sa_key_vault.py).
NoKeyLost ==
  \A k \in Live : k \in canonical \/ quarantined[k] > 0

\* The key of a host can be downloaded by it: neither a delete that came before
\* the assignment nor one that comes after takes the row or the file away.
AssignedIsServed ==
  assigned # NoKey => assigned \in Live \cap canonical

\* The head comes up, also after one delete cut short at any point and any crashes
\* of its starts.  What may stop it is an upload that left a file without a row, two
\* deletes of one key cut short, or a transaction decided behind the back of a start
\* that had read the rows.
MayBlock(k) == row[k] \in {"open", "void"} \/ strikes[k] > 1 \/ k \in late

HeadComesUp == []<>(head = "up" \/ \E k \in Keys : Blocked(k) /\ MayBlock(k))
=============================================================================
