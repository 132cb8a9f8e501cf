---------------------------- MODULE RotateOnRead ----------------------------
(***************************************************************************)
(* Re-encrypt-on-read over a fleet: replicas that each hold a snapshot of  *)
(* the key table, requests that read or update one encrypted column        *)
(* (natural_persons.ssn, corporations.ein), and the key table of KeyRing   *)
(* changing underneath.  A read decrypts, and when the blob is under an    *)
(* older key it compares-and-swaps a replacement in a short transaction of *)
(* its own, with a lock timeout and one retry.                             *)
(*                                                                         *)
(* An admin transaction, a Reload and a read each take less than a clock   *)
(* tick; KeyAdmin and KeySetReload look inside the first two.              *)
(***************************************************************************)
EXTENDS KeyRing

CONSTANTS
  Replicas,   \* processes that serve requests
  Readers,    \* requests that read the column
  Writers,    \* requests that update the row
  Values,     \* plaintexts
  Nobody,     \* no request
  KeySetTTL,  \* keySetTTL, in ticks
  MaxSeals    \* bound: so many blobs are sealed

ASSUME RequestAssumption ==
  IsFiniteSet(Readers) /\ Readers \cap Writers = {} /\ Nobody \notin Readers \cup Writers
ASSUME ValueAssumption == NULL \notin Values
ASSUME TTLAssumption == KeySetTTL \in Nat /\ KeySetTTL <= Day
ASSUME SealsAssumption == MaxSeals \in Nat

(* Definitions that only mutation uses stand directly before the one they  *)
(* replace.                                                                *)

VARIABLES
  column,  \* the blob stored
  truth,   \* history: the plaintext an update committed last
  lock,    \* which request holds the row lock
  view,    \* per replica, its snapshot of the key table
  seals,   \* nonces drawn so far
  reader,  \* per read, how far it has come
  writer   \* per update, how far it has come

fleetVars == <<column, truth, lock, view, seals, reader, writer>>
vars == <<keys, clock, fleetVars>>

(* A sealed blob names its key; its nonce tells it from every other.  A    *)
(* zero-length or NULL column holds no blob.                               *)
NoBlob == [version |-> 0, value |-> NULL, nonce |-> 0]
Blob == [version : Versions, value : Values, nonce : 1..MaxSeals] \cup {NoBlob}

SnapshotUnflagged(table) ==
  [rows |-> [v \in Usable(table, clock) |-> [table[v] EXCEPT !.compromised = NULL]],
   loadedAt |-> clock]
Snapshot(table) == [rows |-> [v \in Usable(table, clock) |-> table[v]], loadedAt |-> clock]

(* usable, and the version that sealBlob seals under. *)
Opens(set, v) == v \in Usable(set.rows, clock)
ActiveIn(set) == CHOOSE v \in DOMAIN set.rows : IsActive(set.rows[v])
SealedUnversioned(set, value) == [version |-> 0, value |-> value, nonce |-> seals + 1]
Sealed(set, value) == [version |-> ActiveIn(set), value |-> value, nonce |-> seals + 1]

(* Bound: a request that may seal starts only while a nonce is left for it. *)
MoreSeals == seals + Cardinality({q \in Readers : reader[q].step = "open"}) < MaxSeals

(* encryptSet: past the TTL the snapshot is reloaded, and used as it is    *)
(* (degraded) when the budget forbids a reload or the reload fails.        *)
EncryptSetNoTTL(r) == {[set |-> view[r], degraded |-> FALSE]}
EncryptSetTouched(r) ==
  IF clock - view[r].loadedAt < KeySetTTL
  THEN {[set |-> view[r], degraded |-> FALSE]}
  ELSE {[set |-> Snapshot(keys), degraded |-> FALSE],
        [set |-> [view[r] EXCEPT !.loadedAt = clock], degraded |-> TRUE]}
EncryptSet(r) ==
  IF clock - view[r].loadedAt < KeySetTTL
  THEN {[set |-> view[r], degraded |-> FALSE]}
  ELSE {[set |-> Snapshot(keys), degraded |-> FALSE], [set |-> view[r], degraded |-> TRUE]}

(* openBlob: only a version the snapshot cannot open makes it reload. *)
OpenSet(r, v) == IF Opens(view[r], v) THEN {view[r]} ELSE {view[r], Snapshot(keys)}

(* must and to are MustPersist and ToVersion; answer outlives the read. *)
Reader ==
  [step : {"idle", "open", "swap", "verify", "commit"}, on : Replicas \cup {NULL},
   blob : Blob, new : Blob, must : BOOLEAN, retried : BOOLEAN,
   answer : {"none", "plaintext", "failed"}]
(* blob is what the UPDATE sets: a sealed one, none to clear the column,   *)
(* NULL to leave it alone.                                                 *)
Writer ==
  [step : {"idle", "update", "commit"}, blob : Blob \cup {NULL}, degraded : BOOLEAN]

NoRead == [step |-> "idle", on |-> NULL, blob |-> NoBlob, new |-> NoBlob,
           must |-> FALSE, retried |-> FALSE, answer |-> "none"]
NoUpdate == [step |-> "idle", blob |-> NULL, degraded |-> FALSE]

(* The fleet has booted on a table with its first key; nothing is stored. *)
Init ==
  /\ clock = 0
  /\ \E v \in Versions, m \in Materials :
       (\A w \in Versions : v <= w) /\ keys = Put(NoRows, v, FreshRow(m))
  /\ column = NoBlob /\ truth = NULL /\ lock = Nobody /\ seals = 0
  /\ view = [r \in Replicas |-> Snapshot(keys)]
  /\ reader = [q \in Readers |-> NoRead]
  /\ writer = [w \in Writers |-> NoUpdate]

-----------------------------------------------------------------------------
(* decryptRotating *)

Answer(q, answer) == reader' = [reader EXCEPT ![q] = [NoRead EXCEPT !.answer = answer]]

(* The policy for a replacement that is not known to be stored. *)
Tolerate(q) == Answer(q, "plaintext")
GiveUp(q) == Answer(q, IF reader[q].must THEN "failed" ELSE "plaintext")

Release(q) == lock' = IF lock = q THEN Nobody ELSE lock

Fetch(q) ==
  /\ reader[q].step = "idle" /\ column # NoBlob /\ MoreSeals
  /\ \E r \in Replicas :
       reader' = [reader EXCEPT ![q] = [NoRead EXCEPT !.step = "open", !.on = r,
                                                      !.blob = column]]
  /\ UNCHANGED <<keys, clock, column, truth, lock, view, seals, writer>>

DecryptWithRotation(q) ==
  LET r == reader[q].on
      blob == reader[q].blob
  IN  /\ reader[q].step = "open"
      /\ \E set \in OpenSet(r, blob.version) :
           /\ view' = [view EXCEPT ![r] = set]
           /\ \/ /\ ~Opens(set, blob.version)
                 /\ Answer(q, "failed") /\ UNCHANGED seals
              \/ /\ Opens(set, blob.version) /\ blob.version = ActiveIn(set)
                 /\ Answer(q, "plaintext") /\ UNCHANGED seals
              \/ /\ Opens(set, blob.version) /\ blob.version # ActiveIn(set)
                 /\ seals' = seals + 1
                 /\ reader' = [reader EXCEPT
                      ![q].step = "swap", ![q].new = Sealed(set, blob.value),
                      ![q].must = set.rows[blob.version].compromised # NULL]
      /\ UNCHANGED <<keys, clock, column, truth, lock, writer>>

(* The old-blob predicate of the compare-and-swap. *)
SameVersion(q) == column.version = reader[q].blob.version
SameBlob(q) == column = reader[q].blob

(* The compare-and-swap, once no other transaction holds the row lock. *)
SwapBlob(q) ==
  LET found == SameBlob(q)
  IN  /\ reader[q].step = "swap" /\ lock = Nobody
      /\ lock' = IF found THEN q ELSE lock
      /\ \/ found /\ reader' = [reader EXCEPT ![q].step = "commit"]
         \/ ~found /\ reader[q].must /\ reader' = [reader EXCEPT ![q].step = "verify"]
         \/ ~found /\ ~reader[q].must /\ GiveUp(q)
      /\ UNCHANGED <<keys, clock, column, truth, view, seals, writer>>

(* lock_timeout: writeBack tries once more. *)
WaitsOn(q) == FALSE
TimesOut(q) == reader[q].step = "swap" /\ lock # Nobody

LockTimeout(q) ==
  /\ TimesOut(q)
  /\ \/ ~reader[q].retried /\ reader' = [reader EXCEPT ![q].retried = TRUE]
     \/ reader[q].retried /\ GiveUp(q)
  /\ UNCHANGED <<keys, clock, column, truth, lock, view, seals, writer>>

(* verifyStale *)
VerifyStale(q) ==
  LET gone == column = NoBlob \/ column.version = reader[q].new.version
  IN  /\ reader[q].step = "verify"
      /\ \/ gone /\ reader' = [reader EXCEPT ![q].step = "commit"]
         \/ ~gone /\ GiveUp(q)
      /\ UNCHANGED <<keys, clock, column, truth, lock, view, seals, writer>>

(* COMMIT; its acknowledgement may be lost. *)
CommitWriteBack(q) ==
  /\ reader[q].step = "commit"
  /\ column' = IF lock = q THEN reader[q].new ELSE column
  /\ Release(q)
  /\ Answer(q, "plaintext") \/ GiveUp(q)
  /\ UNCHANGED <<keys, clock, truth, view, seals, writer>>

(* No connection, a read-only database, writeBackTimeout, a failed COMMIT. *)
WriteBackFails(q) ==
  /\ reader[q].step \in {"swap", "verify", "commit"}
  /\ Release(q)
  /\ GiveUp(q)
  /\ UNCHANGED <<keys, clock, column, truth, view, seals, writer>>

-----------------------------------------------------------------------------
(* UpdateByEntityUUID *)

(* Inside its transaction the update sets a value, sealed now, clears the  *)
(* column, or leaves it alone (COALESCE).                                  *)
SealUpdate(w) ==
  /\ writer[w].step = "idle"
  /\ \/ /\ \E r \in Replicas, value \in Values : \E e \in EncryptSet(r) :
            /\ view' = [view EXCEPT ![r] = e.set]
            /\ writer' = [writer EXCEPT ![w] =
                 [step |-> "update", blob |-> Sealed(e.set, value), degraded |-> e.degraded]]
       /\ MoreSeals /\ seals' = seals + 1
     \/ /\ \E blob \in {NULL, NoBlob} :
            writer' = [writer EXCEPT ![w].step = "update", ![w].blob = blob]
       /\ UNCHANGED <<view, seals>>
  /\ UNCHANGED <<keys, clock, column, truth, lock, reader>>

UpdateRow(w) ==
  /\ writer[w].step = "update" /\ lock = Nobody
  /\ lock' = w
  /\ writer' = [writer EXCEPT ![w].step = "commit"]
  /\ UNCHANGED <<keys, clock, column, truth, view, seals, reader>>

CommitUpdate(w) ==
  /\ writer[w].step = "commit"
  /\ IF writer[w].blob = NULL
     THEN UNCHANGED <<column, truth>>
     ELSE column' = writer[w].blob /\ truth' = writer[w].blob.value
  /\ Release(w)
  /\ writer' = [writer EXCEPT ![w] = NoUpdate]
  /\ UNCHANGED <<keys, clock, view, seals, reader>>

RollbackUpdate(w) ==
  /\ writer[w].step # "idle"
  /\ Release(w)
  /\ writer' = [writer EXCEPT ![w] = NoUpdate]
  /\ UNCHANGED <<keys, clock, column, truth, view, seals, reader>>

-----------------------------------------------------------------------------
(* The table, the processes and time *)

(* The reload comes before the COMMIT, which may then fail. *)
ReloadInTransaction(r) ==
  /\ \E old \in Active(keys), new \in Versions \ DOMAIN keys, m \in Materials \ OnFile(keys) :
       LET table == Put(Put(keys, old, RetiredRow(keys[old], clock, NULL, FALSE)), new, FreshRow(m))
       IN  view' = [view EXCEPT ![r] = Snapshot(table)] /\ keys' \in {keys, table}
  /\ UNCHANGED <<clock, column, truth, lock, seals, reader, writer>>
(* Replica r serves a rotation, and reloads once it has committed, unless  *)
(* the reload fails.                                                       *)
ServeRotation(r) ==
  /\ Rotate(clock)
  /\ view' \in {view, [view EXCEPT ![r] = Snapshot(keys')]}
  /\ UNCHANGED <<column, truth, lock, seals, reader, writer>>

(* The other admin routes do not touch the process's cipher. *)
ServeUpdate == (MarkCompromised(clock) \/ SetGrace(clock)) /\ UNCHANGED fleetVars

(* Replica r dies, its reads with it, and boots again; an update it was    *)
(* serving is rolled back by the database, RollbackUpdate.                 *)
Restart(r) ==
  /\ view' = [view EXCEPT ![r] = Snapshot(keys)]
  /\ reader' = [q \in Readers |-> IF reader[q].on = r THEN NoRead ELSE reader[q]]
  /\ lock' = IF lock \in {q \in Readers : reader[q].on = r} THEN Nobody ELSE lock
  /\ UNCHANGED <<keys, clock, column, truth, seals, writer>>

(* A read is over long before the TTL would matter: writeBackTimeout ends  *)
(* its write-backs.                                                        *)
FleetTick ==
  /\ Tick
  /\ \A q \in Readers : reader[q].step = "idle"
  /\ UNCHANGED fleetVars

Reading(q) ==
  \/ Fetch(q) \/ DecryptWithRotation(q) \/ SwapBlob(q) \/ LockTimeout(q) \/ VerifyStale(q)
  \/ CommitWriteBack(q) \/ WriteBackFails(q)
Writing(w) == SealUpdate(w) \/ UpdateRow(w) \/ CommitUpdate(w) \/ RollbackUpdate(w)

Next ==
  \/ \E q \in Readers : Reading(q)
  \/ \E w \in Writers : Writing(w)
  \/ \E r \in Replicas : ServeRotation(r) \/ Restart(r)
  \/ ServeUpdate
  \/ FleetTick

Spec == Init /\ [][Next]_vars

(* The read itself runs on; nothing is promised of updates, which may keep *)
(* the row lock for ever.                                                  *)
Fairness ==
  \A q \in Readers :
    WF_vars(DecryptWithRotation(q)) /\ WF_vars(SwapBlob(q) \/ LockTimeout(q))
    /\ WF_vars(VerifyStale(q)) /\ WF_vars(CommitWriteBack(q))

FairSpec == Spec /\ Fairness

-----------------------------------------------------------------------------
(* Properties *)

(* The variables hold values of the declared shapes. *)
TypeOK ==
  /\ column \in Blob /\ truth \in Values \cup {NULL}
  /\ lock \in Readers \cup Writers \cup {Nobody}
  /\ seals \in 0..MaxSeals
  /\ reader \in [Readers -> Reader] /\ writer \in [Writers -> Writer]

(* The column always decrypts to what an update stored last: a write-back  *)
(* re-encrypts the blob it read or nothing, whoever overwrote, cleared or  *)
(* rotated the row in the meantime.                                        *)
ColumnKeepsValue == column.value = truth

(* Whatever a replica has seen of the keys is in the table for good: its   *)
(* snapshot may miss a rotation, a flag or a deadline, but names no key    *)
(* and tells nothing of one that the table does not.  So the column, whose *)
(* blobs are sealed out of snapshots of any age, is under a key on file:   *)
(* no blob is lost with its key.                                           *)
SnapshotsLag ==
  /\ column # NoBlob => column.version \in DOMAIN keys
  /\ \A r \in Replicas : \A v \in DOMAIN view[r].rows :
       LET old == view[r].rows[v]
       IN  /\ v \in DOMAIN keys /\ keys[v].material = old.material
           /\ ~IsActive(old) => keys[v].retired = old.retired
           /\ old.compromised # NULL => keys[v].compromised = old.compromised

(* A read that had to move a blob off a compromised key and returns the    *)
(* plaintext leaves that ciphertext nowhere in the column, also when it    *)
(* lost the compare-and-swap, when COMMIT failed, or on a second attempt.  *)
CompromisedGone ==
  [][\A q \in Readers :
       reader[q].must /\ reader'[q].answer = "plaintext" => column' # reader[q].blob]_vars

(* What Encrypt seals is readable by the database's own account of its     *)
(* keys, unless a reload failed or was refused: the one-day floor on grace *)
(* periods outlasts the TTL of every replica that has not heard of the     *)
(* rotation.                                                               *)
EncryptReadable ==
  [][\A w \in Writers :
       LET blob == writer'[w].blob
       IN  writer[w].step = "idle" /\ writer'[w].step = "update"
           /\ blob \notin {NULL, NoBlob} /\ ~writer'[w].degraded
             => blob.version \in Usable(keys, clock)]_vars

(* A read that takes its blob's key for unflagged, and so may return the   *)
(* plaintext with the blob left where it is, has judged by a snapshot no   *)
(* newer than the flag: any reload after the flag was set is enough to     *)
(* have it honoured.                                                       *)
FlagMissedByOlder ==
  [][\A q \in Readers :
       LET flag == keys[reader[q].blob.version].compromised
       IN  reader[q].step = "open" /\ flag # NULL
           /\ (reader'[q].answer = "plaintext" \/ (reader'[q].step = "swap" /\ ~reader'[q].must))
             => view'[reader[q].on].loadedAt <= flag]_vars

(* The key has expired, and not because PUT grace cut its window short of  *)
(* the day that a rotation grants at least.                                *)
Lapsed(v) == v \notin Usable(keys, clock) /\ keys[v].until >= keys[v].retired + Day

(* Whatever windows the admin routes set, an update seals under a key that *)
(* has lapsed only with a snapshot it could not reload, and only once no   *)
(* reload has succeeded for a whole day.                                   *)
DegradedForADay ==
  [][\A w \in Writers :
       LET blob == writer'[w].blob
       IN  writer[w].step = "idle" /\ writer'[w].step = "update"
           /\ blob \notin {NULL, NoBlob} /\ Lapsed(blob.version)
             => /\ writer'[w].degraded
                /\ \E r \in Replicas : /\ ActiveIn(view'[r]) = blob.version
                                       /\ view'[r].loadedAt + Day <= clock]_vars

(* A read ends, whatever becomes of the transaction that holds its row.    *)
ReadsEnd == \A q \in Readers : reader[q].step # "idle" ~> reader[q].step = "idle"

(* A grace period is at least a day "to allow fleet-wide key-set           *)
(* convergence (other processes may take up to 60s to reload the key set   *)
(* after rotation)" (field_crypto_keys.go): a write-back never replaces a  *)
(* blob that can be read by one that cannot.                               *)
WriteBackReadable ==
  [][column' # column /\ lock \in Readers /\ column.version \in Usable(keys, clock)
       => column.version' \in Usable(keys, clock)]_vars

(* "When set, re-encrypt-on-read must fail the read rather than return     *)
(* plaintext whenever it cannot persist the re-encrypted blob"             *)
(* (0017_field_crypto_keys.sql), once the flag is older than the TTL.      *)
FlagHonoured ==
  [][\A q \in Readers :
       LET row == keys[reader[q].blob.version]
       IN  reader[q].step = "swap" /\ reader'[q].answer = "plaintext"
           /\ column' = reader[q].blob /\ row.compromised # NULL
             => clock - row.compromised < KeySetTTL]_vars

(* "Every legitimate write path encrypts under the active key" and any     *)
(* other version than ToVersion "is not reachable by a legitimate writer"  *)
(* (rotating_cipher.go): after a lost compare-and-swap the column holds    *)
(* nothing or a blob under ToVersion.                                      *)
OnlyToVersion ==
  \A q \in Readers :
    reader[q].step = "verify" => column = NoBlob \/ column.version = reader[q].new.version
=============================================================================
