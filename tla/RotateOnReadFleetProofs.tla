------------------------ MODULE RotateOnReadFleetProofs ------------------------
(***************************************************************************)
(* What the replicas of RotateOnRead know of the key table, for any fleet  *)
(* and any bounds: never more than it holds, so that no blob loses its     *)
(* key; and how old a snapshot must be for a read to miss a compromised    *)
(* flag, or for anything to be sealed under a key that has lapsed.         *)
(***************************************************************************)
EXTENDS RotateOnReadProofs

(* The row may have come after old: what is on file stays. *)
Later(old, row) ==
  /\ row.material = old.material
  /\ ~IsActive(old) => row.retired = old.retired
  /\ old.compromised # NULL => row.compromised = old.compromised

(* Only retired rows bear a flag, the CHECK of the table. *)
FlagsRetired == \A v \in DOMAIN keys : RetiredOnlyFlags(keys[v])

(* The rows of a snapshot are rows the table had; a flag or a retirement   *)
(* that it misses is no older than the snapshot.                           *)
Misses(set, v) ==
  /\ set.rows[v].compromised = NULL /\ keys[v].compromised # NULL
       => set.loadedAt <= keys[v].compromised
  /\ IsActive(set.rows[v]) /\ ~IsActive(keys[v]) => set.loadedAt <= keys[v].retired
Known(set) ==
  \A v \in DOMAIN set.rows :
    /\ v \in DOMAIN keys /\ Later(set.rows[v], keys[v]) /\ Misses(set, v)
    /\ RetiredOnlyFlags(set.rows[v])

(* The blobs stored and those sealed and not yet stored are under a key on *)
(* file.                                                                   *)
Keyed ==
  /\ column # NoBlob => column.version \in DOMAIN keys
  /\ \A x \in Requests : Holds(x) => Made(x).version \in DOMAIN keys

Past == \A r \in Replicas : view[r].loadedAt <= clock

KInv == FlagsRetired /\ Past /\ Keyed /\ \A r \in Replicas : Known(view[r])

-----------------------------------------------------------------------------
(* The table *)

LEMMA TableGrows ==
  ASSUME IsTable(keys), clock \in Nat, FlagsRetired,
         Rotate(clock) \/ MarkCompromised(clock) \/ SetGrace(clock)
  PROVE  /\ FlagsRetired'
         /\ \A v \in DOMAIN keys :
              /\ v \in DOMAIN keys' /\ Later(keys[v], keys'[v])
              /\ keys'[v].compromised \in {keys[v].compromised, clock, NULL}
              /\ keys'[v].retired \in {keys[v].retired, clock}
<1>1. \A v \in DOMAIN keys : keys[v] \in KeyRow /\ RetiredOnlyFlags(keys[v])
  BY DEF IsTable, FlagsRetired
<1>2. CASE Rotate(clock)
  <2>1. PICK old \in Active(keys), new \in Versions \ DOMAIN keys, row \in KeyRow, m \in Materials,
             terms \in RotationTerms :
          /\ row = RetiredRow(keys[old], clock, terms.days, terms.compromised)
          /\ keys' = Put(Put(keys, old, row), new, FreshRow(m))
    BY <1>2, RotateFacts
  <2>2. old \in DOMAIN keys /\ keys[old] \in KeyRow /\ IsActive(keys[old])
    BY <1>1 DEF Active
  <2>3. keys[old].compromised = NULL
    BY <1>1, <2>2 DEF RetiredOnlyFlags
  <2>4. row.material = keys[old].material /\ row.retired = clock /\ row.compromised \in {clock, NULL}
    BY <2>1, <2>2 DEF RetiredRow, KeyRow
  <2>5. ~IsActive(row) /\ RetiredOnlyFlags(row)
    BY <2>4, NullAssumption DEF IsActive, RetiredOnlyFlags
  <2>6. RetiredOnlyFlags(FreshRow(m))
    BY DEF RetiredOnlyFlags, FreshRow
  <2>7. /\ DOMAIN keys' = DOMAIN keys \cup {new}
        /\ keys'[new] = FreshRow(m)
        /\ \A v \in DOMAIN keys : keys'[v] = IF v = old THEN row ELSE keys[v]
    BY <2>1, <2>2 DEF Put
  <2>8. Later(keys[old], row)
    BY <2>2, <2>3, <2>4 DEF Later
  <2>9. \A v \in DOMAIN keys : Later(keys[v], keys[v])
    BY DEF Later
  <2>10. FlagsRetired'
    BY <1>1, <2>5, <2>6, <2>7 DEF FlagsRetired
  <2>. QED
    BY <2>4, <2>7, <2>8, <2>9, <2>10
<1>3. ASSUME NEW u \in DOMAIN keys \ Active(keys), NEW row, keys' = Put(keys, u, row),
             row.material = keys[u].material, row.retired = keys[u].retired,
             keys[u].compromised # NULL => row.compromised = keys[u].compromised,
             row.compromised \in {keys[u].compromised, clock}
      PROVE  /\ FlagsRetired'
             /\ \A v \in DOMAIN keys :
                  /\ v \in DOMAIN keys' /\ Later(keys[v], keys'[v])
                  /\ keys'[v].compromised \in {keys[v].compromised, clock, NULL}
                  /\ keys'[v].retired \in {keys[v].retired, clock}
  <2>1. ~IsActive(keys[u]) /\ ~IsActive(row)
    BY <1>3 DEF Active, IsActive
  <2>2. /\ DOMAIN keys' = DOMAIN keys
        /\ \A v \in DOMAIN keys : keys'[v] = IF v = u THEN row ELSE keys[v]
    BY <1>3, OnRow
  <2>3. FlagsRetired'
    BY <1>1, <2>1, <2>2 DEF FlagsRetired, RetiredOnlyFlags
  <2>4. \A v \in DOMAIN keys : Later(keys[v], keys'[v])
    BY <1>3, <2>1, <2>2 DEF Later
  <2>5. \A v \in DOMAIN keys : /\ keys'[v].compromised \in {keys[v].compromised, clock}
                               /\ keys'[v].retired = keys[v].retired
    BY <1>3, <2>2
  <2>. QED
    BY <2>2, <2>3, <2>4, <2>5
<1>4. CASE MarkCompromised(clock)
  <2>1. PICK u \in DOMAIN keys \ Active(keys) : keys' = Put(keys, u, FlaggedRow(keys[u], clock))
    BY <1>4 DEF MarkCompromised
  <2>2. /\ FlaggedRow(keys[u], clock).material = keys[u].material
        /\ FlaggedRow(keys[u], clock).retired = keys[u].retired
        /\ keys[u].compromised # NULL =>
             FlaggedRow(keys[u], clock).compromised = keys[u].compromised
        /\ FlaggedRow(keys[u], clock).compromised \in {keys[u].compromised, clock}
    BY <1>1 DEF FlaggedRow, KeyRow
  <2>. QED
    BY <1>3, <2>1, <2>2
<1>5. CASE SetGrace(clock)
  <2>1. PICK u \in DOMAIN keys \ Active(keys), days \in AllowedDays :
          keys' = Put(keys, u, GraceRow(keys[u], clock, days))
    BY <1>5 DEF SetGrace
  <2>2. /\ GraceRow(keys[u], clock, days).material = keys[u].material
        /\ GraceRow(keys[u], clock, days).retired = keys[u].retired
        /\ GraceRow(keys[u], clock, days).compromised = keys[u].compromised
    BY <1>1, GraceRowKeeps
  <2>. QED
    BY <1>3, <2>1, <2>2
<1>. QED
  BY <1>2, <1>4, <1>5

LEMMA LaterTwice ==
  ASSUME NEW a, NEW b, NEW c, Later(a, b), Later(b, c), a.compromised # NULL => b.compromised # NULL
  PROVE  Later(a, c)
BY DEF Later, IsActive

-----------------------------------------------------------------------------
(* Requests *)

(* What a read has sealed, it sealed under the active key of a snapshot. *)
LEMMA ReaderSteps ==
  ASSUME IInv, [Next]_vars, NEW q \in Readers, reader'[q].step \in Swapping
  PROVE  \/ reader[q].step \in Swapping /\ reader'[q].new = reader[q].new
         \/ \E r \in Replicas : reader'[q].new.version = ActiveIn(view'[r])
<1>. DEFINE Same == reader[q].step \in Swapping /\ reader'[q].new = reader[q].new
<1>0. TypeOK /\ Tables /\ reader[q] \in Reader /\ Reads(q)
  BY Fields
<1>1. ASSUME reader'[q] = reader[q] PROVE Same
  BY <1>1
<1>2. ASSUME NEW answer, Answer(q, answer) PROVE FALSE
  BY <1>0, <1>2 DEF Answer, TypeOK, NoRead, Swapping
<1>3. CASE Reading(q) /\ ~DecryptWithRotation(q)
  <2>1. ~GiveUp(q) /\ ~Tolerate(q)
    BY <1>2 DEF GiveUp, Tolerate
  <2>2. ~Fetch(q)
    BY <1>0 DEF Fetch, TypeOK, NoRead, Swapping
  <2>3. ~CommitWriteBack(q) /\ ~WriteBackFails(q)
    BY <1>2, <2>1 DEF CommitWriteBack, WriteBackFails
  <2>4. reader[q].step \in Swapping
    BY <1>3, <2>2, <2>3 DEF Reading, SwapBlob, LockTimeout, TimesOut, VerifyStale, Swapping
  <2>5. CASE \/ \E step : reader' = [reader EXCEPT ![q].step = step]
             \/ reader' = [reader EXCEPT ![q].retried = TRUE]
    BY <1>0, <2>4, <2>5 DEF TypeOK, Reader
  <2>. QED
    BY <1>3, <2>1, <2>2, <2>3, <2>5 DEF Reading, SwapBlob, LockTimeout, VerifyStale
<1>4. CASE DecryptWithRotation(q)
  <2>. DEFINE r == reader[q].on
              blob == reader[q].blob
  <2>1. r \in Replicas
    BY <1>0, <1>4 DEF DecryptWithRotation, Reads, Where
  <2>2. PICK set \in OpenSet(r, blob.version) :
          /\ view' = [view EXCEPT ![r] = set]
          /\ reader' = [reader EXCEPT
               ![q].step = "swap", ![q].new = Sealed(set, blob.value),
               ![q].must = set.rows[blob.version].compromised # NULL]
    BY <1>2, <1>4 DEF DecryptWithRotation
  <2>3. view'[r] = set
    BY <1>0, <2>1, <2>2 DEF Tables
  <2>4. reader'[q].new.version = ActiveIn(set)
    BY <1>0, <2>2 DEF TypeOK, Reader, Sealed
  <2>. QED
    BY <2>1, <2>3, <2>4
<1>5. ASSUME NEW p \in Readers \ {q}, Reading(p) PROVE Same
  <2>1. reader'[q] = reader[q]
    BY <1>0, <1>5 DEF Reading, Fetch, DecryptWithRotation, SwapBlob, LockTimeout, VerifyStale,
                      CommitWriteBack, WriteBackFails, GiveUp, Answer, TypeOK
  <2>. QED
    BY <1>1, <2>1
<1>6. ASSUME NEW r \in Replicas, Restart(r) PROVE Same
  BY <1>1, <1>6 DEF Restart, NoRead, Swapping
<1>7. ASSUME UNCHANGED reader PROVE Same
  BY <1>1, <1>7
<1>8. ASSUME NEW w \in Writers, Writing(w) PROVE UNCHANGED reader
  BY <1>8 DEF Writing, SealUpdate, UpdateRow, CommitUpdate, RollbackUpdate
<1>. QED
  BY <1>3, <1>4, <1>5, <1>6, <1>7, <1>8 DEF Next, ServeRotation, ServeUpdate, FleetTick, fleetVars,
                                           vars

LEMMA WriterSteps ==
  ASSUME IInv, [Next]_vars, NEW w \in Writers, writer'[w].step # "idle",
         writer'[w].blob \notin {NULL, NoBlob}
  PROVE  \/ writer[w].step # "idle" /\ writer'[w].blob = writer[w].blob
         \/ \E r \in Replicas : writer'[w].blob.version = ActiveIn(view'[r])
<1>. DEFINE Same == writer[w].step # "idle" /\ writer'[w].blob = writer[w].blob
<1>0. TypeOK /\ Tables /\ writer[w] \in Writer
  BY Fields
<1>1. ASSUME writer'[w] = writer[w] PROVE Same
  BY <1>1
<1>2. CASE SealUpdate(w)
  <2>1. ~\E blob \in {NULL, NoBlob} :
          writer' = [writer EXCEPT ![w].step = "update", ![w].blob = blob]
    BY <1>0 DEF TypeOK, Writer
  <2>2. PICK r \in Replicas, value \in Values : \E e \in EncryptSet(r) :
          /\ view' = [view EXCEPT ![r] = e.set]
          /\ writer' = [writer EXCEPT ![w] =
               [step |-> "update", blob |-> Sealed(e.set, value), degraded |-> e.degraded]]
    BY <1>2, <2>1 DEF SealUpdate
  <2>3. PICK e \in EncryptSet(r) :
          /\ view' = [view EXCEPT ![r] = e.set]
          /\ writer' = [writer EXCEPT ![w] =
               [step |-> "update", blob |-> Sealed(e.set, value), degraded |-> e.degraded]]
    BY <2>2
  <2>4. view'[r] = e.set /\ writer'[w].blob.version = ActiveIn(e.set)
    BY <1>0, <2>3 DEF Tables, TypeOK, Sealed
  <2>. QED
    BY <2>4
<1>3. CASE UpdateRow(w)
  BY <1>0, <1>3 DEF UpdateRow, TypeOK, Writer
<1>4. CASE CommitUpdate(w) \/ RollbackUpdate(w)
  BY <1>0, <1>4, NoUpdateTypes DEF CommitUpdate, RollbackUpdate, TypeOK
<1>5. ASSUME NEW x \in Writers \ {w}, Writing(x) PROVE Same
  <2>1. writer'[w] = writer[w]
    BY <1>0, <1>5 DEF Writing, SealUpdate, UpdateRow, CommitUpdate, RollbackUpdate, TypeOK
  <2>. QED
    BY <1>1, <2>1
<1>6. ASSUME NEW q \in Readers, Reading(q) PROVE UNCHANGED writer
  BY <1>6 DEF Reading, Fetch, DecryptWithRotation, SwapBlob, LockTimeout, VerifyStale,
              CommitWriteBack, WriteBackFails
<1>7. ASSUME UNCHANGED writer PROVE Same
  BY <1>1, <1>7
<1>. QED
  BY <1>2, <1>3, <1>4, <1>5, <1>6, <1>7 DEF Next, Writing, ServeRotation, Restart, ServeUpdate,
                                            FleetTick, fleetVars, vars

(* The column changes only to what a request has sealed, or to nothing. *)
LEMMA ColumnSteps ==
  ASSUME IInv, [Next]_vars, column' # column
  PROVE  \/ \E q \in Readers : lock = q /\ reader[q].step = "commit" /\ column' = reader[q].new
                               /\ UNCHANGED <<keys, clock>>
         \/ \E w \in Writers : /\ lock = w /\ writer[w].step = "commit"
                               /\ column' = writer[w].blob /\ writer[w].blob # NULL
                               /\ UNCHANGED <<keys, clock>>
<1>1. ASSUME NEW q \in Readers, Reading(q) PROVE CommitWriteBack(q)
  BY <1>1 DEF Reading, Fetch, DecryptWithRotation, SwapBlob, LockTimeout, VerifyStale,
              WriteBackFails
<1>2. ASSUME NEW w \in Writers, Writing(w) PROVE CommitUpdate(w)
  BY <1>2 DEF Writing, SealUpdate, UpdateRow, RollbackUpdate
<1>3. (\E q \in Readers : CommitWriteBack(q)) \/ (\E w \in Writers : CommitUpdate(w))
  BY <1>1, <1>2 DEF Next, ServeRotation, Restart, ServeUpdate, FleetTick, fleetVars, vars
<1>4. \A w \in Writers : writer[w].step = "commit" => lock = w
  BY Fields DEF Writes
<1>. QED
  BY <1>3, <1>4 DEF CommitWriteBack, CommitUpdate

-----------------------------------------------------------------------------
(* The invariant *)

LEMMA KnowsNow ==
  ASSUME FlagsRetired, NEW set, set.rows = [v \in Usable(keys, clock) |-> keys[v]]
  PROVE  Known(set)
<1>1. \A v \in DOMAIN set.rows : v \in DOMAIN keys /\ set.rows[v] = keys[v]
  BY DEF Usable
<1>. QED
  BY <1>1 DEF Known, Later, Misses, FlagsRetired

LEMMA KInit == Init => KInv
<1>. SUFFICES ASSUME Init PROVE KInv
  OBVIOUS
<1>1. IInv
  BY InitInv
<1>2. \A r \in Replicas : view[r] = Snapshot(keys)
  BY DEF Init
<1>3. FlagsRetired
  <2>1. PICK v \in Versions, m \in Materials : keys = Put(NoRows, v, FreshRow(m))
    BY DEF Init
  <2>2. \A u \in DOMAIN keys : keys[u] = FreshRow(m)
    BY <2>1 DEF Put, NoRows
  <2>. QED
    BY <2>2 DEF FlagsRetired, RetiredOnlyFlags, FreshRow
<1>4. \A r \in Replicas : Known(view[r]) /\ view[r].loadedAt <= clock
  BY <1>1, <1>2, <1>3, KnowsNow DEF Snapshot, Init
<1>5. Keyed
  BY DEF Init, Keyed, Requests, Holds, NoRead, NoUpdate, Swapping
<1>. QED
  BY <1>3, <1>4, <1>5 DEF KInv, Past

LEMMA KStep ==
  ASSUME IInv, KInv, [Next]_vars
  PROVE  KInv'
<1>1. /\ \A r \in Replicas : view'[r] = view[r] \/ (view'[r] = Snapshot(keys') /\ clock' = clock)
      /\ \/ keys' = keys /\ clock' \in {clock, clock + 1}
         \/ (Rotate(clock) \/ MarkCompromised(clock) \/ SetGrace(clock)) /\ clock' = clock
  BY SnapshotSteps
<1>2. /\ IsTable(keys) /\ clock \in Nat /\ IsTable(keys') /\ clock' \in Nat
      /\ \A r \in Replicas : Seals(view[r]) /\ Seals(view'[r]) /\ view[r].loadedAt \in Nat
  <2>1. IInv'
    BY StepInv
  <2>2. Tables /\ Tables'
    BY <2>1 DEF IInv
  <2>. QED
    BY <2>2 DEF Tables, Seals, IsTable, Active
<1>3. /\ FlagsRetired'
      /\ \A v \in DOMAIN keys :
           /\ v \in DOMAIN keys' /\ Later(keys[v], keys'[v])
           /\ keys'[v].compromised \in {keys[v].compromised, clock, NULL}
           /\ keys'[v].retired \in {keys[v].retired, clock}
  <2>1. CASE keys' = keys
    BY <2>1 DEF KInv, FlagsRetired, Later
  <2>2. CASE Rotate(clock) \/ MarkCompromised(clock) \/ SetGrace(clock)
    BY <1>2, <2>2, TableGrows DEF KInv
  <2>. QED
    BY <1>1, <2>1, <2>2
<1>4. ASSUME NEW r \in Replicas
      PROVE  Known(view[r])' /\ view'[r].loadedAt <= clock'
  <2>1. CASE view'[r] = view[r]
    <3>1. Known(view[r]) /\ view[r].loadedAt <= clock
      BY DEF KInv, Past
    <3>2. ASSUME NEW v \in DOMAIN view[r].rows
          PROVE  /\ v \in DOMAIN keys' /\ Later(view[r].rows[v], keys'[v]) /\ Misses(view[r], v)'
                 /\ RetiredOnlyFlags(view[r].rows[v])
      <4>. DEFINE old == view[r].rows[v]
                  at == view[r].loadedAt
      <4>1. /\ v \in DOMAIN keys /\ Later(old, keys[v]) /\ Misses(view[r], v)
            /\ RetiredOnlyFlags(old)
        BY <3>1, <3>2 DEF Known
      <4>2. /\ v \in DOMAIN keys' /\ Later(keys[v], keys'[v])
            /\ keys'[v].compromised \in {keys[v].compromised, clock, NULL}
            /\ keys'[v].retired \in {keys[v].retired, clock}
        BY <1>3, <4>1
      <4>3. Later(old, keys'[v])
        BY <4>1, <4>2, LaterTwice DEF Later
      <4>4. ASSUME old.compromised = NULL, keys'[v].compromised # NULL
            PROVE  at <= keys'[v].compromised
        BY <3>1, <4>1, <4>2, <4>4 DEF Misses
      <4>5. ASSUME IsActive(old), ~IsActive(keys'[v])
            PROVE  at <= keys'[v].retired
        BY <3>1, <4>1, <4>2, <4>5 DEF Misses, IsActive
      <4>. QED
        BY <2>1, <4>1, <4>2, <4>3, <4>4, <4>5 DEF Misses
    <3>3. view'[r].loadedAt <= clock'
      BY <1>1, <1>2, <2>1, <3>1
    <3>. QED
      BY <2>1, <3>2, <3>3 DEF Known
  <2>2. CASE view'[r] = Snapshot(keys') /\ clock' = clock
    <3>1. /\ view'[r].rows = [v \in Usable(keys', clock) |-> keys'[v]]
          /\ view'[r].loadedAt = clock
      BY <2>2 DEF Snapshot
    <3>2. \A v \in DOMAIN view'[r].rows : v \in DOMAIN keys' /\ view'[r].rows[v] = keys'[v]
      BY <3>1 DEF Usable
    <3>. QED
      BY <1>2, <1>3, <2>2, <3>1, <3>2 DEF Known, Later, Misses, FlagsRetired
  <2>. QED
    BY <1>1, <2>1, <2>2
<1>5. \A r \in Replicas : ActiveIn(view'[r]) \in DOMAIN keys'
  <2>1. ASSUME NEW r \in Replicas PROVE ActiveIn(view'[r]) \in DOMAIN view'[r].rows
    BY <1>2, ActiveKey DEF Active
  <2>. QED
    BY <1>4, <2>1 DEF Known
<1>6. Keyed'
  <2>1. \A x \in Requests : Holds(x) => Made(x).version \in DOMAIN keys'
    BY <1>3 DEF KInv, Keyed
  <2>2. ASSUME NEW q \in Readers, Holds(q)' PROVE Made(q)'.version \in DOMAIN keys'
    <3>1. reader'[q].step \in Swapping /\ Made(q)' = reader'[q].new
      BY <2>2 DEF Holds, Made
    <3>2. CASE reader[q].step \in Swapping /\ reader'[q].new = reader[q].new
      BY <2>1, <3>1, <3>2 DEF Holds, Made, Requests
    <3>. QED
      BY <1>5, <3>1, <3>2, ReaderSteps
  <2>3. ASSUME NEW w \in Writers, Holds(w)' PROVE Made(w)'.version \in DOMAIN keys'
    <3>1. /\ w \notin Readers /\ Made(w)' = writer'[w].blob
          /\ writer'[w].step # "idle" /\ writer'[w].blob \notin {NULL, NoBlob}
      BY <2>3, RequestAssumption DEF Holds, Made
    <3>2. CASE writer[w].step # "idle" /\ writer'[w].blob = writer[w].blob
      BY <2>1, <3>1, <3>2 DEF Holds, Made, Requests
    <3>. QED
      BY <1>5, <3>1, <3>2, WriterSteps
  <2>4. column' # NoBlob => column'.version \in DOMAIN keys'
    <3>1. CASE column' = column
      BY <1>3, <3>1 DEF KInv, Keyed
    <3>2. CASE \E q \in Readers : reader[q].step = "commit" /\ column' = reader[q].new
      BY <2>1, <3>2 DEF Holds, Made, Requests, Swapping
    <3>3. CASE \E w \in Writers : writer[w].step = "commit" /\ column' = writer[w].blob
                                  /\ writer[w].blob # NULL
      BY <2>1, <3>3, RequestAssumption DEF Holds, Made, Requests
    <3>. QED
      BY <3>1, <3>2, <3>3, ColumnSteps
  <2>. QED
    BY <2>2, <2>3, <2>4 DEF Keyed, Requests
<1>. QED
  BY <1>3, <1>4, <1>6 DEF KInv, Past

(* What the replicas know and what is sealed is backed by the table: the   *)
(* inductive invariant of this module.                                     *)
THEOREM KnowledgeInvariance == Spec => []KInv
<1>1. IInv /\ KInv /\ [Next]_vars => KInv'
  BY KStep
<1>. QED
  BY <1>1, KInit, Invariance, PTL DEF Spec

(* No replica knows a key, a retirement or a flag that the table does not  *)
(* have, and the column is under a key on file, however old the snapshot   *)
(* it was sealed out of.                                                   *)
THEOREM NoBlobLosesItsKey == Spec => []SnapshotsLag
<1>1. KInv => SnapshotsLag
  BY DEF KInv, Keyed, Known, Later, SnapshotsLag
<1>. QED
  BY <1>1, KnowledgeInvariance, PTL

-----------------------------------------------------------------------------
(* What an old snapshot may do *)

(* A replica that still has a lapsed key for the active one loaded its     *)
(* snapshot before the key was retired, so at least a day ago.             *)
LEMMA LapsedLags ==
  ASSUME IsTable(keys), clock \in Nat, NEW set, Seals(set), Known(set), Lapsed(ActiveIn(set))
  PROVE  set.loadedAt + Day <= clock
<1>. DEFINE v == ActiveIn(set)
<1>1. v \in DOMAIN set.rows /\ IsActive(set.rows[v]) /\ set.loadedAt \in Nat
  BY ActiveKey DEF Active, Seals
<1>2. v \in DOMAIN keys /\ Misses(set, v)
  BY <1>1 DEF Known
<1>. HIDE DEF v
<1>3. keys[v].retired \in Instant /\ keys[v].until \in Instant
  BY <1>2 DEF IsTable, KeyRow
<1>4. Lapsed(v)
  BY DEF v
<1>5. ~IsActive(keys[v]) /\ keys[v].until # NULL /\ ~(keys[v].until > clock)
  BY <1>2, <1>4 DEF Lapsed, Usable
<1>6. /\ keys[v].retired \in Nat /\ keys[v].until \in Nat /\ keys[v].until <= clock
      /\ keys[v].until >= keys[v].retired + Day
  BY <1>3, <1>4, <1>5 DEF Instant, IsActive, Lapsed
<1>7. set.loadedAt <= keys[v].retired
  BY <1>1, <1>2, <1>5 DEF Misses
<1>. QED
  BY <1>1, <1>6, <1>7, DaysAssumption

(* A read that is under way takes its decision in one step. *)
LEMMA Decides ==
  ASSUME IInv, Next, NEW q \in Readers, reader[q].step = "open",
         reader'[q].answer = "plaintext" \/ reader'[q].step = "swap"
  PROVE  /\ DecryptWithRotation(q) /\ reader[q].on \in Replicas
         /\ UNCHANGED <<keys, clock>>
<1>1. /\ reader[q] \in Reader /\ reader[q].on \in Replicas
      /\ reader[q].answer = "none" /\ reader'[q] # reader[q]
  BY Fields DEF Reads, Where
<1>2. Reading(q)
  <2>1. ASSUME NEW p \in Readers \ {q}, Reading(p) PROVE reader'[q] = reader[q]
    BY <2>1, Fields DEF Reading, Fetch, DecryptWithRotation, SwapBlob, LockTimeout, VerifyStale,
                        CommitWriteBack, WriteBackFails, GiveUp, Answer, TypeOK
  <2>2. ASSUME NEW w \in Writers, Writing(w) PROVE UNCHANGED reader
    BY <2>2 DEF Writing, SealUpdate, UpdateRow, CommitUpdate, RollbackUpdate
  <2>3. ASSUME NEW r \in Replicas, Restart(r)
        PROVE  reader'[q] = reader[q] \/ (reader'[q].answer = "none" /\ reader'[q].step = "idle")
    BY <2>3 DEF Restart, NoRead
  <2>. QED
    BY <1>1, <2>1, <2>2, <2>3 DEF Next, ServeRotation, ServeUpdate, FleetTick, fleetVars
<1>3. DecryptWithRotation(q)
  BY <1>2 DEF Reading, Fetch, SwapBlob, LockTimeout, TimesOut, VerifyStale, CommitWriteBack,
              WriteBackFails
<1>. QED
  BY <1>1, <1>3 DEF DecryptWithRotation

(* A read takes a flagged key for an unflagged one only by a snapshot no   *)
(* newer than the flag: one reload of the replica that serves it, at any   *)
(* time after the flag was set, and the flag is honoured.                  *)
THEOREM FlagMissedNeedsOlder == Spec => FlagMissedByOlder
<1>1. IInv /\ KInv /\ [Next]_vars =>
        [\A q \in Readers :
           LET flag == keys[reader[q].blob.version].compromised
           IN  reader[q].step = "open" /\ flag # NULL
               /\ (reader'[q].answer = "plaintext"
                   \/ (reader'[q].step = "swap" /\ ~reader'[q].must))
                 => view'[reader[q].on].loadedAt <= flag]_vars
  <2>. SUFFICES ASSUME IInv, KInv, Next, NEW q \in Readers, reader[q].step = "open",
                       keys[reader[q].blob.version].compromised # NULL,
                       reader'[q].answer = "plaintext"
                         \/ (reader'[q].step = "swap" /\ ~reader'[q].must)
                PROVE  view'[reader[q].on].loadedAt <= keys[reader[q].blob.version].compromised
    OBVIOUS
  <2>. DEFINE r == reader[q].on
              blob == reader[q].blob
              v == blob.version
              set == view'[r]
  <2>1. DecryptWithRotation(q) /\ r \in Replicas /\ UNCHANGED <<keys, clock>>
    BY Decides
  <2>2. KInv' /\ IInv'
    BY KStep, StepInv
  <2>3. Known(set) /\ Seals(set)
    BY <2>1, <2>2 DEF KInv, Known, Misses, IInv, Tables, Seals, IsTable, Active
  <2>4. /\ reader \in [Readers -> Reader] /\ DOMAIN view = Replicas
    BY Fields DEF TypeOK, Tables
  <2>5. PICK s \in OpenSet(r, v) :
          /\ view' = [view EXCEPT ![r] = s]
          /\ \/ Answer(q, "failed")
             \/ Opens(s, v) /\ v = ActiveIn(s)
             \/ /\ Opens(s, v)
                /\ reader' = [reader EXCEPT ![q].step = "swap", ![q].new = Sealed(s, blob.value),
                                            ![q].must = s.rows[v].compromised # NULL]
    BY <2>1 DEF DecryptWithRotation
  <2>6. set = s
    BY <2>1, <2>4, <2>5
  <2>7. ~Answer(q, "failed")
    BY <2>4 DEF Answer, NoRead
  <2>8. v \in DOMAIN set.rows
    BY <2>5, <2>6, <2>7 DEF Opens, Usable
  <2>9. set.rows[v].compromised = NULL
    <3>1. CASE v = ActiveIn(s)
      <4>1. IsActive(set.rows[v])
        BY <2>3, <2>6, <3>1, ActiveKey DEF Active
      <4>. QED
        BY <2>3, <2>8, <4>1 DEF Known, RetiredOnlyFlags
    <3>2. CASE reader' = [reader EXCEPT ![q].step = "swap", ![q].new = Sealed(s, blob.value),
                                        ![q].must = s.rows[v].compromised # NULL]
      <4>1. /\ reader'[q].answer = reader[q].answer
            /\ reader'[q].must <=> s.rows[v].compromised # NULL
        BY <2>4, <3>2 DEF Reader
      <4>2. reader[q].answer = "none"
        BY Fields DEF Reads, Where
      <4>. QED
        BY <2>6, <4>1, <4>2
    <3>. QED
      BY <2>5, <2>7, <3>1, <3>2
  <2>. QED
    BY <2>3, <2>8, <2>9 DEF Known, Misses
<1>. QED
  BY <1>1, Invariance, KnowledgeInvariance, PTL DEF Spec, FlagMissedByOlder

(* An update that seals, and the snapshot it seals with. *)
LEMMA SealingStep ==
  ASSUME IInv, Next, NEW w \in Writers, writer[w].step = "idle", writer'[w].step = "update",
         writer'[w].blob \notin {NULL, NoBlob}
  PROVE  /\ UNCHANGED <<keys, clock>>
         /\ \E r \in Replicas : \E e \in EncryptSet(r) :
              /\ view'[r] = e.set
              /\ writer'[w].blob.version = ActiveIn(e.set) /\ writer'[w].degraded = e.degraded
<1>0. writer \in [Writers -> Writer] /\ DOMAIN view = Replicas
  BY Fields DEF TypeOK, Tables
<1>1. SealUpdate(w)
  <2>1. ASSUME NEW q \in Readers, Reading(q) PROVE UNCHANGED writer
    BY <2>1 DEF Reading, Fetch, DecryptWithRotation, SwapBlob, LockTimeout, VerifyStale,
                CommitWriteBack, WriteBackFails
  <2>2. ASSUME NEW x \in Writers \ {w}, Writing(x) PROVE writer'[w] = writer[w]
    BY <1>0, <2>2 DEF Writing, SealUpdate, UpdateRow, CommitUpdate, RollbackUpdate
  <2>3. Writing(w)
    BY <2>1, <2>2 DEF Next, ServeRotation, Restart, ServeUpdate, FleetTick, fleetVars
  <2>4. ~RollbackUpdate(w) /\ ~UpdateRow(w) /\ ~CommitUpdate(w)
    BY DEF RollbackUpdate, UpdateRow, CommitUpdate
  <2>. QED
    BY <2>3, <2>4 DEF Writing
<1>2. ~\E blob \in {NULL, NoBlob} :
        writer' = [writer EXCEPT ![w].step = "update", ![w].blob = blob]
  BY <1>0 DEF Writer
<1>3. PICK r \in Replicas, value \in Values : \E e \in EncryptSet(r) :
        /\ view' = [view EXCEPT ![r] = e.set]
        /\ writer' = [writer EXCEPT ![w] =
             [step |-> "update", blob |-> Sealed(e.set, value), degraded |-> e.degraded]]
  BY <1>1, <1>2 DEF SealUpdate
<1>4. PICK e \in EncryptSet(r) :
        /\ view' = [view EXCEPT ![r] = e.set]
        /\ writer' = [writer EXCEPT ![w] =
             [step |-> "update", blob |-> Sealed(e.set, value), degraded |-> e.degraded]]
  BY <1>3
<1>5. /\ view'[r] = e.set
      /\ writer'[w].blob.version = ActiveIn(e.set) /\ writer'[w].degraded = e.degraded
  BY <1>0, <1>4 DEF Sealed
<1>. QED
  BY <1>1, <1>5 DEF SealUpdate

(* Whatever windows the admin routes set, and zero-day ones with them: an  *)
(* update that seals under a lapsed key does so degraded, with a snapshot  *)
(* at least a day old.                                                     *)
THEOREM LapsedSealNeedsADay == Spec => DegradedForADay
<1>1. IInv /\ KInv /\ [Next]_vars =>
        [\A w \in Writers :
           LET blob == writer'[w].blob
           IN  writer[w].step = "idle" /\ writer'[w].step = "update"
               /\ blob \notin {NULL, NoBlob} /\ Lapsed(blob.version)
                 => /\ writer'[w].degraded
                    /\ \E r \in Replicas : /\ ActiveIn(view'[r]) = blob.version
                                           /\ view'[r].loadedAt + Day <= clock]_vars
  <2>. SUFFICES ASSUME IInv, KInv, Next, NEW w \in Writers,
                       writer[w].step = "idle", writer'[w].step = "update",
                       writer'[w].blob \notin {NULL, NoBlob}, Lapsed(writer'[w].blob.version)
                PROVE  /\ writer'[w].degraded
                       /\ \E r \in Replicas : /\ ActiveIn(view'[r]) = writer'[w].blob.version
                                              /\ view'[r].loadedAt + Day <= clock
    OBVIOUS
  <2>1. PICK r \in Replicas : \E e \in EncryptSet(r) :
          /\ view'[r] = e.set
          /\ writer'[w].blob.version = ActiveIn(e.set) /\ writer'[w].degraded = e.degraded
    BY SealingStep
  <2>2. PICK e \in EncryptSet(r) :
          /\ view'[r] = e.set
          /\ writer'[w].blob.version = ActiveIn(e.set) /\ writer'[w].degraded = e.degraded
    BY <2>1
  <2>3. KInv' /\ IInv' /\ UNCHANGED <<keys, clock>>
    BY SealingStep, KStep, StepInv
  <2>4. Known(e.set) /\ Seals(e.set)
    BY <2>2, <2>3 DEF KInv, Known, Misses, IInv, Tables, Seals, IsTable, Active
  <2>5. IsTable(keys) /\ clock \in Nat
    BY Fields DEF Tables
  <2>6. e.set.loadedAt + Day <= clock
    BY <2>2, <2>4, <2>5, LapsedLags
  <2>7. e.degraded
    <3>. SUFFICES ASSUME ~e.degraded PROVE FALSE
      BY EncryptSets
    <3>1. CASE e.set = Snapshot(keys)
      BY <2>5, <2>6, <3>1, DaysAssumption DEF Snapshot
    <3>2. CASE e.set = view[r] /\ clock - view[r].loadedAt < KeySetTTL
      BY <2>4, <2>5, <2>6, <3>2, DaysAssumption, TTLAssumption DEF Seals
    <3>. QED
      BY <3>1, <3>2, EncryptSets
  <2>. QED
    BY <2>2, <2>6, <2>7
<1>. QED
  BY <1>1, Invariance, KnowledgeInvariance, PTL DEF Spec, DegradedForADay

(* A write-back of the replica that serves the read, which has no TTL:     *)
(* what it seals under a lapsed key comes of a snapshot a day old.         *)
StaleForADay ==
  [][\A q \in Readers :
       reader[q].step = "open" /\ reader'[q].step = "swap" /\ Lapsed(reader'[q].new.version)
         => view'[reader[q].on].loadedAt + Day <= clock]_vars

(* A decrypt-only replica seals under a key that has lapsed only when it   *)
(* has not reloaded for a day: the floor on grace periods protects the     *)
(* write-backs of every replica that reloads daily.                        *)
THEOREM LapsedWriteBackNeedsADay == Spec => StaleForADay
<1>1. IInv /\ KInv /\ [Next]_vars =>
        [\A q \in Readers :
           reader[q].step = "open" /\ reader'[q].step = "swap" /\ Lapsed(reader'[q].new.version)
             => view'[reader[q].on].loadedAt + Day <= clock]_vars
  <2>. SUFFICES ASSUME IInv, KInv, Next, NEW q \in Readers, reader[q].step = "open",
                       reader'[q].step = "swap", Lapsed(reader'[q].new.version)
                PROVE  view'[reader[q].on].loadedAt + Day <= clock
    OBVIOUS
  <2>. DEFINE r == reader[q].on
              blob == reader[q].blob
              set == view'[r]
  <2>1. DecryptWithRotation(q) /\ r \in Replicas /\ UNCHANGED <<keys, clock>>
    BY Decides
  <2>2. KInv' /\ IInv'
    BY KStep, StepInv
  <2>3. Known(set) /\ Seals(set)
    BY <2>1, <2>2 DEF KInv, Known, Misses, IInv, Tables, Seals, IsTable, Active
  <2>4. reader \in [Readers -> Reader] /\ DOMAIN view = Replicas
    BY Fields DEF TypeOK, Tables
  <2>5. ASSUME NEW answer, Answer(q, answer) PROVE FALSE
    BY <2>4, <2>5 DEF Answer, NoRead
  <2>6. PICK s \in OpenSet(r, blob.version) :
          /\ view' = [view EXCEPT ![r] = s]
          /\ \E must \in BOOLEAN :
               reader' = [reader EXCEPT ![q].step = "swap", ![q].new = Sealed(s, blob.value),
                                        ![q].must = must]
    BY <2>1, <2>5 DEF DecryptWithRotation
  <2>7. set = s /\ reader'[q].new.version = ActiveIn(s)
    BY <2>1, <2>4, <2>6 DEF Reader, Sealed
  <2>8. IsTable(keys) /\ clock \in Nat
    BY Fields DEF Tables
  <2>. QED
    BY <2>3, <2>7, <2>8, LapsedLags
<1>. QED
  BY <1>1, Invariance, KnowledgeInvariance, PTL DEF Spec, StaleForADay
================================================================================
