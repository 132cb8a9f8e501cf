-------------------------- MODULE RotateOnReadProofs --------------------------
(***************************************************************************)
(* The safety of re-encrypt-on-read, for any fleet, any number of reads    *)
(* and updates, and any bounds.                                            *)
(***************************************************************************)
EXTENDS RotateOnRead, KeyRingProofs, FiniteSetTheorems

(* A snapshot that Encrypt can seal under. *)
Seals(set) == IsTable(set.rows) /\ Active(set.rows) # {} /\ set.loadedAt \in Nat

Tables ==
  /\ IsTable(keys) /\ Active(keys) # {} /\ clock \in Nat
  /\ DOMAIN view = Replicas /\ \A r \in Replicas : Seals(view[r])

(* A nonce is left for every read that may still seal. *)
Opening == {q \in Readers : reader[q].step = "open"}
Budget == seals + Cardinality(Opening) <= MaxSeals

(* Who has sealed a blob and not stored it, and which blob. *)
Requests == Readers \cup Writers
Swapping == {"swap", "verify", "commit"}
Holds(x) ==
  IF x \in Readers THEN reader[x].step \in Swapping
                   ELSE writer[x].step # "idle" /\ writer[x].blob \notin {NULL, NoBlob}
Made(x) == IF x \in Readers THEN reader[x].new ELSE writer[x].blob

(* Where a read in state c is when l has the row lock: it has it only over *)
(* the blob it read, and goes on without it only when that blob is gone    *)
(* from the column.                                                        *)
Where(q, c, l) ==
  /\ c.step \in {"idle", "open"} => ~c.must
  /\ c.step # "idle" => c.on \in Replicas /\ c.blob # NoBlob /\ c.answer = "none"
  /\ c.step \in Swapping => c.new # NoBlob /\ c.new.value = c.blob.value
  /\ l = q => c.step = "commit" /\ column = c.blob
  /\ c.step = "verify" \/ (c.step = "commit" /\ l # q) => column # c.blob

Reads(q) == Where(q, reader[q], lock)
Writes(w) == lock = w <=> writer[w].step = "commit"

(* No blob is sealed twice: what a request has sealed and not stored is    *)
(* not in the column, was never read from it, and is nobody else's.        *)
Unstored(blob) ==
  /\ blob.nonce \in 0..seals /\ blob # column
  /\ \A q \in Readers : reader[q].step # "idle" => blob # reader[q].blob
Fresh ==
  /\ column.nonce \in 0..seals
  /\ \A q \in Readers : reader[q].step # "idle" => reader[q].blob.nonce \in 0..seals
  /\ \A x \in Requests : Holds(x) => Unstored(Made(x))
  /\ \A x, y \in Requests : Holds(x) /\ Holds(y) /\ x # y => Made(x) # Made(y)

IInv ==
  /\ TypeOK /\ Tables /\ Budget /\ ColumnKeepsValue /\ Fresh
  /\ \A q \in Readers : Reads(q)
  /\ \A w \in Writers : Writes(w)

(* The key a replica seals under is active, or will not run out before the *)
(* snapshot is a day old.                                                  *)
Lasting(v, t) ==
  v \in DOMAIN keys /\ (IsActive(keys[v]) \/ keys[v].until = NULL \/ keys[v].until >= t + Day)
Lasts ==
  \A r \in Replicas :
    view[r].loadedAt <= clock /\ \A v \in Active(view[r].rows) : Lasting(v, view[r].loadedAt)

-----------------------------------------------------------------------------
(* Tables and snapshots *)

LEMMA RotateFacts ==
  ASSUME IsTable(keys), NEW at \in Nat, Rotate(at)
  PROVE  \E old \in Active(keys), new \in Versions \ DOMAIN keys, row \in KeyRow, m \in Materials,
            terms \in RotationTerms :
           /\ row = RetiredRow(keys[old], at, terms.days, terms.compromised)
           /\ keys' = Put(Put(keys, old, row), new, FreshRow(m))
<1>1. PICK old \in Active(keys), new \in Versions, m \in Materials \ OnFile(keys),
           terms \in RotationTerms :
        /\ NewestVersion(new)
        /\ keys' = Put(Put(keys, old, RetiredRow(keys[old], at, terms.days, terms.compromised)),
                       new, FreshRow(m))
  BY DEF Rotate
<1>2. keys[old] \in KeyRow /\ terms.days \in AllowedDays /\ terms.compromised \in BOOLEAN
  BY DEF Active, IsTable, RotationTerms
<1>3. RetiredRow(keys[old], at, terms.days, terms.compromised) \in KeyRow
  BY <1>2, RowTypes
<1>4. new \notin DOMAIN keys
  <2>1. new \in Nat /\ ~(new < new)
    BY VersionsAssumption
  <2>. QED
    BY <1>1, <2>1 DEF NewestVersion
<1>. QED
  BY <1>1, <1>3, <1>4

LEMMA RotateTable ==
  ASSUME IsTable(keys), NEW at \in Nat, Rotate(at)
  PROVE  IsTable(keys') /\ Active(keys') # {}
<1>1. PICK old \in Active(keys), new \in Versions \ DOMAIN keys, row \in KeyRow, m \in Materials :
        keys' = Put(Put(keys, old, row), new, FreshRow(m))
  BY RotateFacts
<1>2. old \in Versions /\ FreshRow(m) \in KeyRow /\ IsActive(FreshRow(m))
  BY FreshRowTypes DEF Active, IsTable
<1>3. IsTable(Put(keys, old, row))
  BY <1>2, PutTable
<1>4. IsTable(keys')
  BY <1>1, <1>2, <1>3, PutTable
<1>5. new \in Active(keys')
  BY <1>1, <1>2 DEF Active, Put
<1>. QED
  BY <1>4, <1>5

(* An update of one retired row. *)
LEMMA UpdateTable ==
  ASSUME IsTable(keys), Active(keys) # {}, NEW at \in Nat, MarkCompromised(at) \/ SetGrace(at)
  PROVE  IsTable(keys') /\ Active(keys') # {}
<1>1. PICK v \in DOMAIN keys \ Active(keys), row \in KeyRow :
        ~IsActive(row) /\ keys' = Put(keys, v, row)
  <2>1. \A v \in DOMAIN keys \ Active(keys) : keys[v] \in KeyRow /\ ~IsActive(keys[v])
    BY DEF IsTable, Active
  <2>2. CASE MarkCompromised(at)
    <3>1. PICK v \in DOMAIN keys \ Active(keys) : keys' = Put(keys, v, FlaggedRow(keys[v], at))
      BY <2>2 DEF MarkCompromised
    <3>2. NULL \in AllowedDays
      BY DEF AllowedDays
    <3>3. FlaggedRow(keys[v], at) \in KeyRow /\ ~IsActive(FlaggedRow(keys[v], at))
      BY <2>1, <3>2, RowTypes
    <3>. QED
      BY <3>1, <3>3
  <2>3. CASE SetGrace(at)
    <3>1. PICK v \in DOMAIN keys \ Active(keys), days \in AllowedDays :
            keys' = Put(keys, v, GraceRow(keys[v], at, days))
      BY <2>3 DEF SetGrace
    <3>2. GraceRow(keys[v], at, days) \in KeyRow /\ ~IsActive(GraceRow(keys[v], at, days))
      BY <2>1, RowTypes
    <3>. QED
      BY <3>1, <3>2
  <2>. QED
    BY <2>2, <2>3
<1>2. PICK u \in Active(keys) : u # v
  OBVIOUS
<1>3. u \in Active(keys')
  BY <1>1, <1>2 DEF Active, Put
<1>4. IsTable(keys')
  BY <1>1, PutTable DEF IsTable
<1>. QED
  BY <1>3, <1>4

LEMMA SnapshotSeals ==
  ASSUME NEW t, IsTable(t), Active(t) # {}, clock \in Nat
  PROVE  /\ Seals(Snapshot(t)) /\ Snapshot(t).loadedAt = clock
         /\ Active(Snapshot(t).rows) = Active(t)
<1>. DEFINE rows == [v \in Usable(t, clock) |-> t[v]]
<1>1. Snapshot(t).rows = rows /\ Snapshot(t).loadedAt = clock
  BY DEF Snapshot
<1>2. Usable(t, clock) \subseteq DOMAIN t /\ Active(t) \subseteq Usable(t, clock)
  BY DEF Usable, Active
<1>3. IsTable(rows)
  BY <1>2 DEF IsTable
<1>4. Active(rows) = Active(t)
  BY <1>2 DEF Active
<1>. QED
  BY <1>1, <1>3, <1>4 DEF Seals

LEMMA ActiveKey ==
  ASSUME NEW set, Seals(set)
  PROVE  ActiveIn(set) \in Active(set.rows) /\ ActiveIn(set) \in Versions
<1>1. \E v \in DOMAIN set.rows : IsActive(set.rows[v])
  BY DEF Seals, Active
<1>2. ActiveIn(set) \in DOMAIN set.rows /\ IsActive(set.rows[ActiveIn(set)])
  BY <1>1 DEF ActiveIn
<1>. QED
  BY <1>2 DEF Seals, IsTable, Active

LEMMA SealedBlob ==
  ASSUME NEW set, Seals(set), NEW value \in Values, seals \in Nat, seals + 1 <= MaxSeals
  PROVE  /\ Sealed(set, value) \in Blob /\ Sealed(set, value) # NoBlob
         /\ Sealed(set, value).value = value /\ Sealed(set, value).nonce = seals + 1
<1>1. ActiveIn(set) \in Versions
  BY ActiveKey
<1>2. seals + 1 \in 1..MaxSeals
  BY SealsAssumption
<1>3. Sealed(set, value) = [version |-> ActiveIn(set), value |-> value, nonce |-> seals + 1]
  BY DEF Sealed
<1>4. NoBlob.nonce = 0
  BY DEF NoBlob
<1>. QED
  BY <1>1, <1>2, <1>3, <1>4 DEF Blob

LEMMA ViewStep ==
  ASSUME Tables, NEW r \in Replicas, NEW set, Seals(set), view' = [view EXCEPT ![r] = set],
         UNCHANGED <<keys, clock>>
  PROVE  Tables'
<1>1. DOMAIN view' = Replicas /\ \A s \in Replicas : view'[s] = IF s = r THEN set ELSE view[s]
  BY DEF Tables
<1>2. \A s \in Replicas : Seals(view'[s])
  BY <1>1 DEF Tables
<1>3. IsTable(keys') /\ Active(keys') # {} /\ clock' \in Nat
  BY DEF Tables
<1>4. (\A s \in Replicas : Seals(view'[s])) => \A s \in Replicas : Seals(view[s])'
  BY DEF Seals, IsTable
<1>. QED
  BY <1>1, <1>2, <1>3, <1>4 DEF Tables, IsTable

-----------------------------------------------------------------------------
(* One request moves *)

LEMMA Fields ==
  ASSUME IInv
  PROVE  /\ TypeOK /\ Tables /\ Budget /\ ColumnKeepsValue /\ Fresh
         /\ seals \in Nat /\ seals \in 0..MaxSeals /\ MaxSeals \in Nat
         /\ \A q \in Readers : reader[q] \in Reader /\ Reads(q)
         /\ \A w \in Writers : writer[w] \in Writer /\ Writes(w)
BY SealsAssumption DEF IInv, TypeOK

LEMMA OpeningFinite == IsFiniteSet(Opening) /\ Cardinality(Opening) \in Nat
<1>1. Opening \in SUBSET Readers
  BY DEF Opening
<1>. QED
  BY <1>1, RequestAssumption, FS_Subset, FS_CardinalityType

(* Fresh blobs stay so: a request drops, stores or keeps what it has       *)
(* sealed, and at most one seals a blob, under a new nonce.                *)
LEMMA FreshKept ==
  ASSUME IInv, seals' \in {seals, seals + 1}, NEW a,
         \/ column' \in {column, NoBlob}
         \/ \E x \in Requests : Holds(x) /\ ~Holds(x)' /\ column' = Made(x),
         \A q \in Readers : reader'[q].step # "idle" =>
           \/ reader[q].step # "idle" /\ reader'[q].blob = reader[q].blob
           \/ reader'[q].blob = column,
         \A x \in Requests : Holds(x)' =>
           \/ Holds(x) /\ Made(x)' = Made(x)
           \/ x = a /\ seals' = seals + 1 /\ Made(x)'.nonce = seals + 1
  PROVE  Fresh'
<1>1. Fresh /\ seals \in Nat /\ seals <= seals' /\ seals' \in Nat
  BY Fields
<1>2. \A x \in Requests : Holds(x) => Made(x) # NoBlob
  BY Fields DEF Requests, Holds, Made, Reads, Where
<1>3. NoBlob.nonce = 0
  BY DEF NoBlob
<1>4. column'.nonce \in 0..seals
  BY <1>1, <1>3 DEF Fresh, Unstored
<1>5. \A q \in Readers : reader'[q].step # "idle" => reader'[q].blob.nonce \in 0..seals
  BY <1>1 DEF Fresh
<1>6. ASSUME NEW x \in Requests, Holds(x)'
      PROVE  /\ Made(x)'.nonce \in 0..seals' /\ Made(x)' # column'
             /\ \A q \in Readers : reader'[q].step # "idle" => Made(x)' # reader'[q].blob
  <2>1. CASE Holds(x) /\ Made(x)' = Made(x)
    <3>1. Unstored(Made(x)) /\ Made(x) # NoBlob
      BY <1>1, <1>2, <2>1 DEF Fresh
    <3>2. \A y \in Requests : Holds(y) /\ ~Holds(y)' => Made(x) # Made(y)
      BY <1>1, <1>6, <2>1 DEF Fresh
    <3>3. Made(x) # column'
      BY <3>1, <3>2 DEF Unstored
    <3>4. Made(x).nonce \in 0..seals'
      BY <1>1, <3>1 DEF Unstored
    <3>5. \A q \in Readers : reader'[q].step # "idle" => Made(x) # reader'[q].blob
      BY <3>1 DEF Unstored
    <3>. QED
      BY <2>1, <3>3, <3>4, <3>5
  <2>2. CASE seals' = seals + 1 /\ Made(x)'.nonce = seals + 1
    BY <1>1, <1>4, <1>5, <2>2
  <2>. QED
    BY <1>6, <2>1, <2>2
<1>7. ASSUME NEW x \in Requests, NEW y \in Requests, Holds(x)', Holds(y)', x # y
      PROVE  Made(x)' # Made(y)'
  <2>1. CASE Holds(x) /\ Made(x)' = Made(x) /\ Holds(y) /\ Made(y)' = Made(y)
    BY <1>1, <1>7, <2>1 DEF Fresh
  <2>2. \A z \in Requests : Holds(z) => Made(z).nonce \in 0..seals
    BY <1>1 DEF Fresh, Unstored
  <2>3. CASE Holds(x) /\ Made(x)' = Made(x) /\ Made(y)'.nonce = seals + 1
    BY <1>1, <2>2, <2>3
  <2>4. CASE Holds(y) /\ Made(y)' = Made(y) /\ Made(x)'.nonce = seals + 1
    BY <1>1, <2>2, <2>4
  <2>. QED
    BY <1>7, <2>1, <2>3, <2>4
<1>8. /\ column'.nonce \in 0..seals'
      /\ \A q \in Readers : reader'[q].step # "idle" => reader'[q].blob.nonce \in 0..seals'
  BY <1>1, <1>4, <1>5
<1>. QED
  BY <1>6, <1>7, <1>8 DEF Fresh, Unstored

LEMMA ReadStep ==
  ASSUME IInv, NEW q \in Readers, NEW c \in Reader, reader' = [reader EXCEPT ![q] = c],
         Tables', Budget', seals' \in 0..MaxSeals, seals' \in {seals, seals + 1},
         UNCHANGED <<column, truth, writer>>,
         lock' \in {lock, q, Nobody}, lock \notin {q, Nobody} => lock' = lock,
         Where(q, c, lock'),
         c.step # "idle" =>
           c.blob = column \/ (reader[q].step # "idle" /\ c.blob = reader[q].blob),
         c.step \in Swapping =>
           \/ reader[q].step \in Swapping /\ c.new = reader[q].new
           \/ seals' = seals + 1 /\ c.new.nonce = seals + 1
  PROVE  IInv'
<1>1. TypeOK /\ \A p \in Readers : Reads(p)
  BY Fields
<1>2. /\ reader' \in [Readers -> Reader] /\ reader'[q] = c
      /\ \A p \in Readers \ {q} : reader'[p] = reader[p]
  BY <1>1 DEF TypeOK
<1>3. \A x \in Requests \ {q} : lock' = x <=> lock = x
  BY RequestAssumption DEF Requests
<1>4. TypeOK'
  BY <1>1, <1>2 DEF TypeOK
<1>5. \A p \in Readers : Reads(p)'
  <2>1. Reads(q)'
    BY <1>2 DEF Reads, Where
  <2>2. ASSUME NEW p \in Readers \ {q} PROVE Reads(p)'
    BY <1>1, <1>2, <1>3 DEF Reads, Where, Requests
  <2>. QED
    BY <2>1, <2>2
<1>6. \A w \in Writers : Writes(w)'
  <2>1. \A w \in Writers : w # q /\ Writes(w)
    BY RequestAssumption, Fields
  <2>. QED
    BY <1>3, <2>1 DEF Writes, Requests
<1>7. ColumnKeepsValue'
  BY DEF IInv, ColumnKeepsValue
<1>8. Fresh'
  <2>1. \A p \in Readers : reader'[p].step # "idle" =>
          \/ reader[p].step # "idle" /\ reader'[p].blob = reader[p].blob
          \/ reader'[p].blob = column
    BY <1>2
  <2>2. \A x \in Requests : Holds(x)' =>
          \/ Holds(x) /\ Made(x)' = Made(x)
          \/ x = q /\ seals' = seals + 1 /\ Made(x)'.nonce = seals + 1
    BY <1>2 DEF Holds, Made, Requests
  <2>. QED
    BY <2>1, <2>2, FreshKept
<1>. QED
  BY <1>4, <1>5, <1>6, <1>7, <1>8 DEF IInv

LEMMA OpeningShrinks ==
  ASSUME IInv, seals' = seals,
         \A q \in Readers : reader'[q].step = "open" => reader[q].step = "open"
  PROVE  Budget'
<1>1. Opening' \in SUBSET Opening
  BY DEF Opening
<1>2. Cardinality(Opening') <= Cardinality(Opening) /\ Cardinality(Opening') \in Nat
  BY <1>1, OpeningFinite, FS_Subset, FS_CardinalityType
<1>3. seals + Cardinality(Opening) <= MaxSeals
  BY Fields DEF Budget
<1>4. seals + Cardinality(Opening') <= MaxSeals
  BY <1>2, <1>3, Fields, OpeningFinite
<1>. QED
  BY <1>4 DEF Budget, Opening

(* The read is over, and lets go of the row. *)
LEMMA AnswerStep ==
  ASSUME IInv, NEW q \in Readers, NEW answer \in {"plaintext", "failed"}, Answer(q, answer),
         Tables', UNCHANGED <<column, truth, writer, seals>>,
         Release(q) \/ (lock' = lock /\ lock # q)
  PROVE  IInv'
<1>. DEFINE c == [NoRead EXCEPT !.answer = answer]
<1>1. c \in Reader /\ c.step = "idle" /\ ~c.must
  BY DEF NoRead, Reader, Blob
<1>2. reader' = [reader EXCEPT ![q] = c]
  BY DEF Answer
<1>3. lock' \in {lock, q, Nobody} /\ lock' # q /\ (lock \notin {q, Nobody} => lock' = lock)
  BY RequestAssumption DEF Release
<1>4. \A p \in Readers : reader'[p].step = "open" => reader[p].step = "open"
  BY <1>1, <1>2, Fields DEF TypeOK
<1>5. Budget'
  BY <1>4, OpeningShrinks
<1>6. Where(q, c, lock')
  BY <1>1, <1>3 DEF Where, Swapping
<1>7. c.step \notin Swapping
  BY <1>1 DEF Swapping
<1>8. seals' \in 0..MaxSeals
  BY Fields
<1>. HIDE DEF c
<1>. QED
  BY <1>1, <1>2, <1>3, <1>5, <1>6, <1>7, <1>8, ReadStep

LEMMA TablesKept ==
  ASSUME Tables, UNCHANGED <<keys, clock, view>>
  PROVE  Tables'
BY DEF Tables, IsTable, Seals, Active

LEMMA GiveUpAnswers ==
  ASSUME NEW q \in Readers, GiveUp(q)
  PROVE  \E answer \in {"plaintext", "failed"} : Answer(q, answer)
BY DEF GiveUp

LEMMA FetchStep ==
  ASSUME IInv, NEW q \in Readers, Fetch(q)
  PROVE  IInv'
<1>1. PICK r \in Replicas :
        reader' = [reader EXCEPT ![q] = [NoRead EXCEPT !.step = "open", !.on = r, !.blob = column]]
  BY DEF Fetch
<1>. DEFINE c == [NoRead EXCEPT !.step = "open", !.on = r, !.blob = column]
<1>2. /\ reader[q].step = "idle" /\ column # NoBlob /\ MoreSeals
      /\ UNCHANGED <<keys, clock, column, truth, lock, view, seals, writer>>
  BY DEF Fetch
<1>3. /\ c \in Reader /\ c.step = "open" /\ ~c.must /\ c.on = r /\ c.blob = column
      /\ c.answer = "none"
  BY Fields DEF NoRead, Reader, Blob, TypeOK
<1>4. lock # q
  BY <1>2, Fields DEF Reads, Where
<1>5. Where(q, c, lock')
  BY <1>2, <1>3, <1>4 DEF Where, Swapping
<1>6. Budget'
  <2>1. /\ reader'[q].step = "open"
        /\ \A p \in Readers \ {q} : reader'[p] = reader[p]
    BY <1>1, Fields DEF TypeOK, NoRead
  <2>2. Opening' = Opening \cup {q} /\ q \notin Opening
    BY <1>2, <2>1 DEF Opening
  <2>3. Cardinality(Opening') = Cardinality(Opening) + 1
    BY <2>2, OpeningFinite, FS_AddElement
  <2>4. seals + Cardinality(Opening) < MaxSeals
    BY <1>2 DEF MoreSeals, Opening
  <2>5. seals' + Cardinality(Opening') <= MaxSeals
    BY <1>2, <2>3, <2>4, Fields, OpeningFinite
  <2>. QED
    BY <2>5 DEF Budget, Opening
<1>7. c.step \notin Swapping /\ Tables' /\ seals' \in 0..MaxSeals
  BY <1>2, <1>3, Fields, TablesKept DEF Swapping
<1>. HIDE DEF c
<1>. QED
  BY <1>1, <1>2, <1>3, <1>5, <1>6, <1>7, ReadStep DEF c

LEMMA DecryptStep ==
  ASSUME IInv, NEW q \in Readers, DecryptWithRotation(q)
  PROVE  IInv'
<1>. DEFINE r == reader[q].on
            blob == reader[q].blob
<1>1. /\ reader[q].step = "open" /\ r \in Replicas /\ ~reader[q].must
      /\ blob # NoBlob /\ blob \in Blob
      /\ reader[q].answer = "none"
      /\ reader[q] \in Reader /\ lock # q
      /\ UNCHANGED <<keys, clock, column, truth, lock, writer>>
  BY Fields DEF DecryptWithRotation, Reads, Where, Reader
<1>2. PICK set \in OpenSet(r, blob.version) :
        /\ view' = [view EXCEPT ![r] = set]
        /\ \/ \E answer \in {"plaintext", "failed"} : Answer(q, answer) /\ UNCHANGED seals
           \/ /\ seals' = seals + 1
              /\ reader' = [reader EXCEPT
                   ![q].step = "swap", ![q].new = Sealed(set, blob.value),
                   ![q].must = set.rows[blob.version].compromised # NULL]
  BY DEF DecryptWithRotation
<1>3. Tables /\ clock \in Nat /\ seals \in Nat
  BY Fields DEF Tables
<1>4. Seals(set) /\ Tables'
  <2>1. Seals(view[r]) /\ Seals(Snapshot(keys))
    BY <1>1, <1>3, SnapshotSeals DEF Tables
  <2>2. Seals(set)
    BY <1>2, <2>1 DEF OpenSet
  <2>. QED
    BY <1>1, <1>2, <1>3, <2>2, ViewStep
<1>5. CASE \E answer \in {"plaintext", "failed"} : Answer(q, answer) /\ UNCHANGED seals
  BY <1>1, <1>4, <1>5, AnswerStep
<1>6. CASE /\ seals' = seals + 1
           /\ reader' = [reader EXCEPT
                ![q].step = "swap", ![q].new = Sealed(set, blob.value),
                ![q].must = set.rows[blob.version].compromised # NULL]
  <2>. DEFINE must == set.rows[blob.version].compromised # NULL
              new == Sealed(set, blob.value)
              c == [reader[q] EXCEPT !.step = "swap", !.new = new, !.must = must]
  <2>1. /\ q \in Opening /\ Cardinality(Opening \ {q}) = Cardinality(Opening) - 1
        /\ Cardinality(Opening \ {q}) \in Nat
    <3>1. q \in Opening
      BY <1>1 DEF Opening
    <3>. QED
      BY <3>1, OpeningFinite, FS_RemoveElement, FS_CardinalityType
  <2>2. seals + 1 + Cardinality(Opening \ {q}) <= MaxSeals /\ seals + 1 <= MaxSeals
    BY <2>1, Fields, OpeningFinite DEF Budget
  <2>3. blob.value \in Values
    BY <1>1 DEF Blob
  <2>4. new \in Blob /\ new # NoBlob /\ new.value = blob.value /\ new.nonce = seals + 1
    BY <1>3, <1>4, <2>2, <2>3, SealedBlob
  <2>5. must \in BOOLEAN
    OBVIOUS
  <2>. HIDE DEF must, new
  <2>6. /\ c \in Reader /\ c.step = "swap" /\ c.new = new /\ c.blob = blob /\ c.on = r
        /\ c.answer = "none"
    BY <1>1, <2>4, <2>5 DEF Reader
  <2>7. reader' = [reader EXCEPT ![q] = c]
    BY <1>6, Fields DEF TypeOK, must, new
  <2>8. Where(q, c, lock')
    BY <1>1, <2>4, <2>6 DEF Where, Swapping
  <2>. HIDE DEF c
  <2>9. Opening' = Opening \ {q}
    BY <2>6, <2>7, Fields DEF Opening, TypeOK
  <2>10. Budget'
    BY <1>6, <2>2, <2>9 DEF Budget
  <2>11. seals' \in 0..MaxSeals
    BY <1>3, <1>6, <2>2, Fields
  <2>. QED
    BY <1>1, <1>4, <1>6, <2>4, <2>6, <2>7, <2>8, <2>10, <2>11, ReadStep
<1>. QED
  BY <1>2, <1>5, <1>6

(* Steps of the write-back that leave the column alone. *)
LEMMA Proceed ==
  ASSUME IInv, NEW q \in Readers, NEW c \in Reader, reader' = [reader EXCEPT ![q] = c],
         UNCHANGED <<keys, clock, column, truth, view, seals, writer>>,
         reader[q].step \in Swapping, c.step \in Swapping,
         c.on = reader[q].on, c.blob = reader[q].blob, c.new = reader[q].new,
         c.answer = reader[q].answer,
         lock' \in {lock, q, Nobody}, lock \notin {q, Nobody} => lock' = lock,
         lock' = q => c.step = "commit" /\ column = c.blob,
         c.step = "verify" \/ (c.step = "commit" /\ lock' # q) => column # c.blob
  PROVE  IInv'
<1>1. Where(q, c, lock')
  BY Fields DEF Reads, Where, Swapping
<1>2. \A p \in Readers : reader'[p].step = "open" => reader[p].step = "open"
  BY Fields DEF TypeOK, Swapping
<1>3. Budget' /\ Tables' /\ seals' \in 0..MaxSeals
  BY <1>2, OpeningShrinks, TablesKept, Fields
<1>4. reader[q].step # "idle"
  BY DEF Swapping
<1>. QED
  BY <1>1, <1>3, <1>4, ReadStep

LEMMA SwapStep ==
  ASSUME IInv, NEW q \in Readers, SwapBlob(q)
  PROVE  IInv'
<1>1. /\ reader[q].step = "swap" /\ reader[q] \in Reader /\ lock = Nobody /\ lock # q
      /\ lock' = IF SameBlob(q) THEN q ELSE lock
      /\ UNCHANGED <<keys, clock, column, truth, view, seals, writer>>
  BY Fields, RequestAssumption DEF SwapBlob
<1>2. CASE SameBlob(q) /\ reader' = [reader EXCEPT ![q].step = "commit"]
  <2>. DEFINE c == [reader[q] EXCEPT !.step = "commit"]
  <2>1. /\ c \in Reader /\ c.step = "commit" /\ c.on = reader[q].on /\ c.blob = reader[q].blob
        /\ c.new = reader[q].new /\ c.answer = reader[q].answer
        /\ reader' = [reader EXCEPT ![q] = c]
    BY <1>1, <1>2, Fields DEF Reader, TypeOK
  <2>2. column = reader[q].blob /\ lock' = q
    BY <1>1, <1>2 DEF SameBlob
  <2>. HIDE DEF c
  <2>. QED
    BY <1>1, <2>1, <2>2, Proceed DEF Swapping
<1>3. CASE ~SameBlob(q) /\ reader' = [reader EXCEPT ![q].step = "verify"]
  <2>. DEFINE c == [reader[q] EXCEPT !.step = "verify"]
  <2>1. /\ c \in Reader /\ c.step = "verify" /\ c.on = reader[q].on /\ c.blob = reader[q].blob
        /\ c.new = reader[q].new /\ c.answer = reader[q].answer
        /\ reader' = [reader EXCEPT ![q] = c]
    BY <1>1, <1>3, Fields DEF Reader, TypeOK
  <2>2. column # reader[q].blob /\ lock' = lock /\ lock' # q
    BY <1>1, <1>3 DEF SameBlob
  <2>. HIDE DEF c
  <2>. QED
    BY <1>1, <2>1, <2>2, Proceed DEF Swapping
<1>4. CASE ~SameBlob(q) /\ GiveUp(q)
  BY <1>1, <1>4, Fields, GiveUpAnswers, AnswerStep, TablesKept
<1>. QED
  BY <1>2, <1>3, <1>4 DEF SwapBlob

LEMMA TimeoutStep ==
  ASSUME IInv, NEW q \in Readers, LockTimeout(q)
  PROVE  IInv'
<1>1. /\ reader[q].step = "swap" /\ reader[q] \in Reader /\ lock # q
      /\ UNCHANGED <<keys, clock, column, truth, lock, view, seals, writer>>
  BY Fields DEF LockTimeout, TimesOut, Reads, Where
<1>2. CASE reader' = [reader EXCEPT ![q].retried = TRUE]
  <2>. DEFINE c == [reader[q] EXCEPT !.retried = TRUE]
  <2>1. /\ c \in Reader /\ c.step = "swap" /\ c.on = reader[q].on /\ c.blob = reader[q].blob
        /\ c.new = reader[q].new /\ c.answer = reader[q].answer
        /\ reader' = [reader EXCEPT ![q] = c]
    BY <1>1, <1>2, Fields DEF Reader, TypeOK
  <2>. HIDE DEF c
  <2>. QED
    BY <1>1, <2>1, Proceed DEF Swapping
<1>3. CASE GiveUp(q)
  BY <1>1, <1>3, Fields, GiveUpAnswers, AnswerStep, TablesKept
<1>. QED
  BY <1>2, <1>3 DEF LockTimeout

LEMMA VerifyStep ==
  ASSUME IInv, NEW q \in Readers, VerifyStale(q)
  PROVE  IInv'
<1>1. /\ reader[q].step = "verify" /\ reader[q] \in Reader /\ lock # q /\ column # reader[q].blob
      /\ UNCHANGED <<keys, clock, column, truth, lock, view, seals, writer>>
  BY Fields DEF VerifyStale, Reads, Where
<1>2. CASE reader' = [reader EXCEPT ![q].step = "commit"]
  <2>. DEFINE c == [reader[q] EXCEPT !.step = "commit"]
  <2>1. /\ c \in Reader /\ c.step = "commit" /\ c.on = reader[q].on /\ c.blob = reader[q].blob
        /\ c.new = reader[q].new /\ c.answer = reader[q].answer
        /\ reader' = [reader EXCEPT ![q] = c]
    BY <1>1, <1>2, Fields DEF Reader, TypeOK
  <2>. HIDE DEF c
  <2>. QED
    BY <1>1, <2>1, Proceed DEF Swapping
<1>3. CASE GiveUp(q)
  BY <1>1, <1>3, Fields, GiveUpAnswers, AnswerStep, TablesKept
<1>. QED
  BY <1>2, <1>3 DEF VerifyStale

LEMMA FailsStep ==
  ASSUME IInv, NEW q \in Readers, WriteBackFails(q)
  PROVE  IInv'
BY Fields, GiveUpAnswers, AnswerStep, TablesKept DEF WriteBackFails

(* The write-back commits over the blob that was read, or finds that gone. *)
LEMMA CommitReadStep ==
  ASSUME IInv, NEW q \in Readers, CommitWriteBack(q)
  PROVE  IInv'
<1>1. /\ reader[q].step = "commit" /\ reader[q] \in Reader
      /\ column' = IF lock = q THEN reader[q].new ELSE column
      /\ Release(q)
      /\ UNCHANGED <<keys, clock, truth, view, seals, writer>>
  BY Fields DEF CommitWriteBack
<1>2. PICK answer \in {"plaintext", "failed"} : Answer(q, answer)
  BY GiveUpAnswers DEF CommitWriteBack
<1>3. CASE lock # q
  BY <1>1, <1>2, <1>3, Fields, AnswerStep, TablesKept
<1>4. CASE lock = q
  <2>. DEFINE c == [NoRead EXCEPT !.answer = answer]
  <2>1. c \in Reader /\ c.step = "idle" /\ ~c.must
    BY DEF NoRead, Reader, Blob
  <2>. HIDE DEF c
  <2>2. /\ reader' \in [Readers -> Reader] /\ reader'[q] = c
        /\ \A p \in Readers \ {q} : reader'[p] = reader[p]
    BY <1>2, <2>1, Fields DEF Answer, TypeOK, c
  <2>3. /\ column = reader[q].blob /\ reader[q].new.value = reader[q].blob.value
        /\ reader[q].new \in Blob /\ column' = reader[q].new /\ lock' = Nobody
    BY <1>1, <1>4, Fields DEF Reads, Where, Swapping, Reader, Release
  <2>4. TypeOK' /\ ColumnKeepsValue'
    BY <1>1, <2>2, <2>3, Fields DEF TypeOK, ColumnKeepsValue
  <2>5. Holds(q) /\ ~Holds(q)' /\ Made(q) = reader[q].new /\ q \in Requests
    BY <1>1, <2>1, <2>2 DEF Holds, Made, Swapping, Requests
  <2>6. \A x \in Requests \ {q} : Holds(x)' = Holds(x) /\ Made(x)' = Made(x)
    BY <1>1, <2>2 DEF Holds, Made, Requests
  <2>7. Fresh'
    <3>1. \A p \in Readers : reader'[p].step # "idle" =>
            reader[p].step # "idle" /\ reader'[p].blob = reader[p].blob
      BY <2>1, <2>2
    <3>. QED
      BY <1>1, <2>3, <2>5, <2>6, <3>1, FreshKept
  <2>8. ASSUME NEW p \in Readers PROVE Reads(p)'
    <3>1. CASE p = q
      BY <2>1, <2>2, <2>3, <3>1, RequestAssumption DEF Reads, Where, Swapping
    <3>2. CASE p # q
      <4>1. lock # p /\ lock' # p /\ reader'[p] = reader[p] /\ Reads(p)
        BY <1>4, <2>2, <2>3, <3>2, Fields, RequestAssumption
      <4>2. reader[p].step # "idle" => column' # reader[p].blob
        BY <2>3, <2>5, Fields DEF Fresh, Unstored
      <4>. QED
        BY <4>1, <4>2 DEF Reads, Where, Swapping
    <3>. QED
      BY <3>1, <3>2
  <2>9. ASSUME NEW w \in Writers PROVE Writes(w)'
    BY <1>1, <1>4, <2>3, Fields, RequestAssumption DEF Writes
  <2>10. Budget' /\ Tables'
    <3>1. \A p \in Readers : reader'[p].step = "open" => reader[p].step = "open"
      BY <2>1, <2>2
    <3>. QED
      BY <1>1, <3>1, OpeningShrinks, TablesKept, Fields
  <2>. QED
    BY <2>4, <2>7, <2>8, <2>9, <2>10 DEF IInv
<1>. QED
  BY <1>3, <1>4

-----------------------------------------------------------------------------
(* Updates *)

(* An update takes or releases the row, or seals, and stores nothing. *)
LEMMA WriteStep ==
  ASSUME IInv, NEW w \in Writers, NEW c \in Writer, writer' = [writer EXCEPT ![w] = c],
         Tables', UNCHANGED <<column, truth, reader>>,
         seals' \in {seals, seals + 1}, seals' + Cardinality(Opening) <= MaxSeals,
         lock' \in {lock, w, Nobody}, lock \notin {w, Nobody} => lock' = lock,
         lock' = w <=> c.step = "commit",
         c.step # "idle" /\ c.blob \notin {NULL, NoBlob} =>
           \/ writer[w].step # "idle" /\ c.blob = writer[w].blob
           \/ seals' = seals + 1 /\ c.blob.nonce = seals + 1
  PROVE  IInv'
<1>1. w \notin Readers /\ w # Nobody
  BY RequestAssumption
<1>2. /\ writer' \in [Writers -> Writer] /\ writer'[w] = c
      /\ \A x \in Writers \ {w} : writer'[x] = writer[x]
  BY Fields DEF TypeOK
<1>3. \A x \in Requests \ {w} : lock' = x <=> lock = x
  BY RequestAssumption DEF Requests
<1>4. seals' \in 0..MaxSeals
  <2>1. seals' \in Nat /\ seals' <= MaxSeals
    BY Fields, OpeningFinite
  <2>. QED
    BY <2>1, Fields
<1>5. TypeOK'
  BY <1>2, <1>4, Fields DEF TypeOK
<1>6. \A p \in Readers : Reads(p)'
  BY <1>1, <1>3, Fields DEF Reads, Where, Requests
<1>7. \A x \in Writers : Writes(x)'
  BY <1>2, <1>3, Fields DEF Writes, Requests
<1>8. ColumnKeepsValue'
  BY Fields DEF ColumnKeepsValue
<1>9. Fresh'
  <2>1. \A x \in Requests : Holds(x)' =>
          \/ Holds(x) /\ Made(x)' = Made(x)
          \/ x = w /\ seals' = seals + 1 /\ Made(x)'.nonce = seals + 1
    BY <1>1, <1>2 DEF Holds, Made, Requests
  <2>. QED
    BY <2>1, FreshKept
<1>10. Budget'
  BY DEF Budget, Opening
<1>. QED
  BY <1>5, <1>6, <1>7, <1>8, <1>9, <1>10 DEF IInv

LEMMA EncryptSets ==
  ASSUME NEW r \in Replicas, NEW e \in EncryptSet(r)
  PROVE  /\ e.set \in {view[r], Snapshot(keys)} /\ e.degraded \in BOOLEAN
         /\ ~e.degraded => \/ e.set = Snapshot(keys)
                           \/ e.set = view[r] /\ clock - view[r].loadedAt < KeySetTTL
<1>. DEFINE current == [set |-> view[r], degraded |-> FALSE]
            loaded == [set |-> Snapshot(keys), degraded |-> FALSE]
            stale == [set |-> view[r], degraded |-> TRUE]
<1>1. /\ clock - view[r].loadedAt < KeySetTTL => e = current
      /\ ~(clock - view[r].loadedAt < KeySetTTL) => e \in {loaded, stale}
  BY DEF EncryptSet
<1>2. /\ current.set = view[r] /\ current.degraded = FALSE
      /\ loaded.set = Snapshot(keys) /\ loaded.degraded = FALSE
      /\ stale.set = view[r] /\ stale.degraded = TRUE
  OBVIOUS
<1>. HIDE DEF current, loaded, stale
<1>. QED
  BY <1>1, <1>2

LEMMA SealStep ==
  ASSUME IInv, NEW w \in Writers, SealUpdate(w)
  PROVE  IInv'
<1>1. /\ writer[w].step = "idle" /\ lock # w
      /\ UNCHANGED <<keys, clock, column, truth, lock, reader>>
  BY Fields DEF SealUpdate, Writes
<1>2. Tables /\ clock \in Nat /\ seals \in Nat /\ seals + Cardinality(Opening) <= MaxSeals
  BY Fields DEF Tables, Budget
<1>3. CASE /\ \E r \in Replicas, value \in Values : \E e \in EncryptSet(r) :
                /\ view' = [view EXCEPT ![r] = e.set]
                /\ writer' = [writer EXCEPT ![w] =
                     [step |-> "update", blob |-> Sealed(e.set, value), degraded |-> e.degraded]]
           /\ MoreSeals /\ seals' = seals + 1
  <2>1. PICK r \in Replicas, value \in Values : \E e \in EncryptSet(r) :
          /\ view' = [view EXCEPT ![r] = e.set]
          /\ writer' = [writer EXCEPT ![w] =
               [step |-> "update", blob |-> Sealed(e.set, value), degraded |-> e.degraded]]
    BY <1>3
  <2>2. PICK e \in EncryptSet(r) :
          /\ view' = [view EXCEPT ![r] = e.set]
          /\ writer' = [writer EXCEPT ![w] =
               [step |-> "update", blob |-> Sealed(e.set, value), degraded |-> e.degraded]]
    BY <2>1
  <2>3. Seals(view[r]) /\ Seals(Snapshot(keys))
    BY <1>2, SnapshotSeals DEF Tables
  <2>4. Seals(e.set) /\ e.degraded \in BOOLEAN
    BY <2>2, <2>3, EncryptSets
  <2>5. Tables'
    BY <1>1, <1>2, <2>2, <2>4, ViewStep
  <2>6. seals' + Cardinality(Opening) <= MaxSeals /\ seals + 1 <= MaxSeals
    <3>1. seals + Cardinality(Opening) < MaxSeals
      BY <1>3 DEF MoreSeals, Opening
    <3>. QED
      BY <1>2, <1>3, <3>1, OpeningFinite, Fields
  <2>. DEFINE new == Sealed(e.set, value)
              c == [step |-> "update", blob |-> new, degraded |-> e.degraded]
  <2>7. new \in Blob /\ new.nonce = seals + 1
    BY <1>2, <2>4, <2>6, SealedBlob
  <2>8. writer' = [writer EXCEPT ![w] = c]
    BY <2>2
  <2>. HIDE DEF new
  <2>9. c \in Writer /\ c.step = "update" /\ c.blob = new
    BY <2>4, <2>7 DEF Writer
  <2>. HIDE DEF c
  <2>. QED
    BY <1>1, <1>3, <2>5, <2>6, <2>7, <2>8, <2>9, WriteStep
<1>4. CASE /\ \E blob \in {NULL, NoBlob} :
                writer' = [writer EXCEPT ![w].step = "update", ![w].blob = blob]
           /\ UNCHANGED <<view, seals>>
  <2>1. PICK blob \in {NULL, NoBlob} :
          writer' = [writer EXCEPT ![w].step = "update", ![w].blob = blob]
    BY <1>4
  <2>. DEFINE c == [writer[w] EXCEPT !.step = "update", !.blob = blob]
  <2>2. blob \in Blob \cup {NULL}
    BY DEF Blob
  <2>3. c \in Writer /\ c.step = "update" /\ c.blob = blob
    BY <2>2, Fields DEF Writer
  <2>4. writer' = [writer EXCEPT ![w] = c]
    BY <2>1, Fields DEF TypeOK
  <2>. HIDE DEF c
  <2>5. seals' + Cardinality(Opening) <= MaxSeals /\ Tables'
    BY <1>1, <1>2, <1>4, TablesKept
  <2>. QED
    BY <1>1, <1>4, <2>1, <2>3, <2>4, <2>5, WriteStep
<1>. QED
  BY <1>3, <1>4 DEF SealUpdate

LEMMA UpdateRowStep ==
  ASSUME IInv, NEW w \in Writers, UpdateRow(w)
  PROVE  IInv'
<1>. DEFINE c == [writer[w] EXCEPT !.step = "commit"]
<1>1. /\ writer[w].step = "update" /\ lock = Nobody /\ lock' = w /\ writer[w] \in Writer
      /\ writer' = [writer EXCEPT ![w].step = "commit"]
      /\ UNCHANGED <<keys, clock, column, truth, view, seals, reader>>
  BY Fields DEF UpdateRow
<1>2. c \in Writer /\ c.step = "commit" /\ c.blob = writer[w].blob
  BY <1>1 DEF Writer
<1>3. writer' = [writer EXCEPT ![w] = c]
  BY <1>1, Fields DEF TypeOK
<1>. HIDE DEF c
<1>4. seals' + Cardinality(Opening) <= MaxSeals /\ Tables'
  BY <1>1, Fields, TablesKept DEF Budget
<1>. QED
  BY <1>1, <1>2, <1>3, <1>4, WriteStep

LEMMA NoUpdateTypes == NoUpdate \in Writer /\ NoUpdate.step = "idle" /\ NoUpdate.blob = NULL
BY DEF NoUpdate, Writer

LEMMA RollbackStep ==
  ASSUME IInv, NEW w \in Writers, RollbackUpdate(w)
  PROVE  IInv'
<1>1. /\ writer' = [writer EXCEPT ![w] = NoUpdate]
      /\ lock' = IF lock = w THEN Nobody ELSE lock
      /\ UNCHANGED <<keys, clock, column, truth, view, seals, reader>>
  BY DEF RollbackUpdate, Release
<1>2. seals' + Cardinality(Opening) <= MaxSeals /\ Tables'
  BY <1>1, Fields, TablesKept DEF Budget
<1>3. lock' # w
  BY <1>1, RequestAssumption
<1>. QED
  BY <1>1, <1>2, <1>3, NoUpdateTypes, WriteStep

LEMMA CommitUpdateStep ==
  ASSUME IInv, NEW w \in Writers, CommitUpdate(w)
  PROVE  IInv'
<1>1. /\ writer[w].step = "commit" /\ writer[w] \in Writer /\ lock = w
      /\ writer' = [writer EXCEPT ![w] = NoUpdate] /\ lock' = Nobody
      /\ UNCHANGED <<keys, clock, view, seals, reader>>
  BY Fields DEF CommitUpdate, Release, Writes
<1>2. CASE UNCHANGED <<column, truth>>
  <2>1. seals' + Cardinality(Opening) <= MaxSeals /\ Tables'
    BY <1>1, Fields, TablesKept DEF Budget
  <2>2. lock' # w
    BY <1>1, RequestAssumption
  <2>. QED
    BY <1>1, <1>2, <2>1, <2>2, NoUpdateTypes, WriteStep
<1>3. CASE writer[w].blob # NULL /\ column' = writer[w].blob /\ truth' = writer[w].blob.value
  <2>1. w \notin Readers /\ w \in Requests /\ w # Nobody
    BY RequestAssumption DEF Requests
  <2>2. /\ writer' \in [Writers -> Writer] /\ writer'[w].step = "idle"
        /\ \A x \in Writers \ {w} : writer'[x] = writer[x]
    BY <1>1, NoUpdateTypes, Fields DEF TypeOK
  <2>3. column' \in Blob /\ column'.value \in Values \cup {NULL}
    BY <1>1, <1>3 DEF Writer, Blob, NoBlob
  <2>4. TypeOK' /\ ColumnKeepsValue'
    BY <1>1, <1>3, <2>2, <2>3, Fields DEF TypeOK, ColumnKeepsValue
  <2>5. column' = NoBlob \/ (Holds(w) /\ column' = Made(w))
    BY <1>1, <1>3, <2>1 DEF Holds, Made
  <2>6. ~Holds(w)' /\ \A x \in Requests \ {w} : Holds(x)' = Holds(x) /\ Made(x)' = Made(x)
    BY <1>1, <2>1, <2>2 DEF Holds, Made, Requests
  <2>7. Fresh'
    BY <1>1, <2>1, <2>5, <2>6, FreshKept
  <2>8. ASSUME NEW p \in Readers PROVE Reads(p)'
    <3>1. lock # p /\ lock' # p /\ reader'[p] = reader[p] /\ Reads(p)
      BY <1>1, <2>1, Fields, RequestAssumption
    <3>2. reader[p].step # "idle" => column' # reader[p].blob
      BY <2>1, <2>5, <3>1, Fields DEF Fresh, Unstored, Reads, Where
    <3>. QED
      BY <3>1, <3>2 DEF Reads, Where, Swapping
  <2>9. ASSUME NEW x \in Writers PROVE Writes(x)'
    <3>1. lock' # x
      BY <1>1, RequestAssumption
    <3>2. writer'[x].step # "commit"
      BY <1>1, <2>2, Fields DEF Writes
    <3>. QED
      BY <3>1, <3>2 DEF Writes
  <2>10. Budget' /\ Tables'
    BY <1>1, OpeningShrinks, TablesKept, Fields
  <2>. QED
    BY <2>4, <2>7, <2>8, <2>9, <2>10 DEF IInv
<1>. QED
  BY <1>1, <1>2, <1>3 DEF CommitUpdate

-----------------------------------------------------------------------------
(* The table, the processes and time *)

(* The requests are as they were, or over. *)
LEMMA TableStep ==
  ASSUME IInv, Tables', UNCHANGED <<column, truth, lock, seals, reader, writer>>
  PROVE  IInv'
<1>1. Budget'
  BY OpeningShrinks
<1>2. Fresh'
  BY Fields DEF Fresh, Unstored, Holds, Made
<1>3. \A p \in Readers : Reads(p)'
  BY Fields DEF Reads, Where
<1>4. TypeOK' /\ ColumnKeepsValue' /\ \A w \in Writers : Writes(w)'
  BY Fields DEF TypeOK, ColumnKeepsValue, Writes
<1>. QED
  BY <1>1, <1>2, <1>3, <1>4 DEF IInv

LEMMA RestartStep ==
  ASSUME IInv, NEW r \in Replicas, Restart(r)
  PROVE  IInv'
<1>1. /\ view' = [view EXCEPT ![r] = Snapshot(keys)]
      /\ reader' = [q \in Readers |-> IF reader[q].on = r THEN NoRead ELSE reader[q]]
      /\ lock' = IF lock \in {q \in Readers : reader[q].on = r} THEN Nobody ELSE lock
      /\ UNCHANGED <<keys, clock, column, truth, seals, writer>>
  BY DEF Restart
<1>2. NoRead \in Reader /\ NoRead.step = "idle" /\ ~NoRead.must
  BY DEF NoRead, Reader, Blob
<1>3. \A q \in Readers : \/ reader'[q] = reader[q] /\ (lock' = q <=> lock = q)
                         \/ reader'[q] = NoRead /\ lock' # q
  BY <1>1, RequestAssumption
<1>4. TypeOK' /\ ColumnKeepsValue'
  BY <1>1, <1>2, Fields DEF TypeOK, ColumnKeepsValue
<1>5. Tables'
  BY <1>1, Fields, SnapshotSeals, ViewStep DEF Tables
<1>6. Budget'
  BY <1>1, <1>2, <1>3, OpeningShrinks
<1>7. \A q \in Readers : Reads(q)'
  BY <1>1, <1>2, <1>3, Fields DEF Reads, Where, Swapping
<1>8. \A w \in Writers : Writes(w)'
  <2>1. \A w \in Writers : lock' = w <=> lock = w
    BY <1>1, RequestAssumption
  <2>. QED
    BY <1>1, <2>1, Fields DEF Writes
<1>9. Fresh'
  <2>1. \A q \in Readers : reader'[q].step # "idle" =>
          reader[q].step # "idle" /\ reader'[q].blob = reader[q].blob
    BY <1>2, <1>3
  <2>2. \A x \in Requests : Holds(x)' => Holds(x) /\ Made(x)' = Made(x)
    BY <1>1, <1>2, <1>3 DEF Holds, Made, Requests, Swapping
  <2>. QED
    BY <1>1, <2>1, <2>2, FreshKept
<1>. QED
  BY <1>4, <1>5, <1>6, <1>7, <1>8, <1>9 DEF IInv

LEMMA RotationStep ==
  ASSUME IInv, NEW r \in Replicas, ServeRotation(r)
  PROVE  IInv'
<1>1. /\ Rotate(clock) /\ view' \in {view, [view EXCEPT ![r] = Snapshot(keys')]}
      /\ UNCHANGED <<column, truth, lock, seals, reader, writer>>
  BY DEF ServeRotation
<1>2. Tables /\ IsTable(keys) /\ clock \in Nat /\ UNCHANGED clock
  BY <1>1, Fields DEF Tables, Rotate
<1>3. IsTable(keys') /\ Active(keys') # {}
  BY <1>1, <1>2, RotateTable
<1>4. Seals(Snapshot(keys'))
  BY <1>2, <1>3, SnapshotSeals
<1>5. /\ DOMAIN view' = Replicas
      /\ \A s \in Replicas : view'[s] = view[s] \/ view'[s] = Snapshot(keys')
  BY <1>1, <1>2 DEF Tables
<1>6. \A s \in Replicas : Seals(view'[s])
  BY <1>2, <1>4, <1>5 DEF Tables
<1>7. Tables'
  BY <1>2, <1>3, <1>5, <1>6 DEF Tables, Seals, IsTable, Active
<1>. QED
  BY <1>1, <1>7, TableStep

LEMMA ServeUpdateStep ==
  ASSUME IInv, ServeUpdate
  PROVE  IInv'
<1>1. /\ MarkCompromised(clock) \/ SetGrace(clock)
      /\ UNCHANGED <<column, truth, lock, view, seals, reader, writer>>
  BY DEF ServeUpdate, fleetVars
<1>2. Tables /\ IsTable(keys) /\ Active(keys) # {} /\ clock \in Nat
  BY Fields DEF Tables
<1>3. IsTable(keys') /\ Active(keys') # {} /\ UNCHANGED clock
  BY <1>1, <1>2, UpdateTable DEF MarkCompromised, SetGrace
<1>4. Tables'
  BY <1>1, <1>2, <1>3 DEF Tables, Seals, IsTable, Active
<1>. QED
  BY <1>1, <1>4, TableStep

LEMMA TickStep ==
  ASSUME IInv, FleetTick
  PROVE  IInv'
<1>1. Tables'
  BY Fields DEF FleetTick, Tick, fleetVars, Tables, Seals, IsTable, Active
<1>. QED
  BY <1>1, TableStep DEF FleetTick, fleetVars

-----------------------------------------------------------------------------

LEMMA InitInv == Init => IInv
<1>. SUFFICES ASSUME Init PROVE IInv
  OBVIOUS
<1>1. PICK v \in Versions, m \in Materials : keys = Put(NoRows, v, FreshRow(m))
  BY DEF Init
<1>2. IsTable(keys) /\ Active(keys) # {} /\ clock \in Nat
  <2>1. FreshRow(m) \in KeyRow /\ IsActive(FreshRow(m))
    BY FreshRowTypes
  <2>2. IsTable(keys)
    BY <1>1, <2>1, NoRowsTable, PutTable
  <2>3. v \in Active(keys)
    BY <1>1, <2>1 DEF Active, Put
  <2>. QED
    BY <2>2, <2>3 DEF Init
<1>3. Tables
  BY <1>2, SnapshotSeals DEF Init, Tables
<1>4. /\ NoRead \in Reader /\ NoRead.step = "idle" /\ ~NoRead.must
      /\ NoBlob \in Blob /\ NoBlob.value = NULL /\ NoBlob.nonce = 0
  BY DEF NoRead, NoBlob, Reader, Blob
<1>5. TypeOK /\ ColumnKeepsValue
  BY <1>4, NoUpdateTypes, SealsAssumption DEF Init, TypeOK, ColumnKeepsValue
<1>6. Budget
  <2>1. Opening = {}
    BY <1>4 DEF Init, Opening
  <2>. QED
    BY <2>1, FS_EmptySet, SealsAssumption DEF Init, Budget
<1>7. \A q \in Readers : Reads(q)
  BY <1>4, RequestAssumption DEF Init, Reads, Where, Swapping
<1>8. \A w \in Writers : Writes(w)
  BY NoUpdateTypes, RequestAssumption DEF Init, Writes
<1>9. Fresh
  <2>1. \A x \in Requests : ~Holds(x)
    BY <1>4, NoUpdateTypes DEF Init, Holds, Requests, Swapping
  <2>. QED
    BY <1>4, <2>1 DEF Init, Fresh
<1>. QED
  BY <1>3, <1>5, <1>6, <1>7, <1>8, <1>9 DEF IInv

LEMMA StepInv == IInv /\ [Next]_vars => IInv'
<1>. SUFFICES ASSUME IInv, [Next]_vars PROVE IInv'
  OBVIOUS
<1>1. ASSUME NEW q \in Readers, Reading(q) PROVE IInv'
  BY <1>1, FetchStep, DecryptStep, SwapStep, TimeoutStep, VerifyStep, CommitReadStep, FailsStep
     DEF Reading
<1>2. ASSUME NEW w \in Writers, Writing(w) PROVE IInv'
  BY <1>2, SealStep, UpdateRowStep, CommitUpdateStep, RollbackStep DEF Writing
<1>3. ASSUME NEW r \in Replicas, ServeRotation(r) \/ Restart(r) PROVE IInv'
  BY <1>3, RotationStep, RestartStep
<1>4. CASE ServeUpdate \/ FleetTick
  BY <1>4, ServeUpdateStep, TickStep
<1>5. CASE UNCHANGED vars
  BY <1>5, Fields, TablesKept, TableStep DEF vars, fleetVars
<1>. QED
  BY <1>1, <1>2, <1>3, <1>4, <1>5 DEF Next

(* Who holds the row and what is sealed and not yet stored, at every point *)
(* of every interleaving: the inductive invariant.                         *)
THEOREM Invariance == Spec => []IInv
BY InitInv, StepInv, PTL DEF Spec

(* The variables hold values of their types; no more blobs are sealed than *)
(* the bound allows.                                                       *)
THEOREM TypeCorrect == Spec => []TypeOK
<1>1. IInv => TypeOK
  BY DEF IInv
<1>. QED
  BY <1>1, Invariance, PTL

(* No write-back, however late, changes what the column decrypts to.       *)
THEOREM ValueKept == Spec => []ColumnKeepsValue
<1>1. IInv => ColumnKeepsValue
  BY DEF IInv
<1>. QED
  BY <1>1, Invariance, PTL

(* Of all steps only COMMIT can answer with the plaintext of such a blob.  *)
LEMMA MustBeGone ==
  ASSUME IInv, Next, NEW q \in Readers, reader[q].must, reader'[q].answer = "plaintext"
  PROVE  column' # reader[q].blob
<1>1. /\ reader[q].step \in Swapping /\ reader[q] \in Reader /\ Reads(q)
      /\ reader[q].blob # NoBlob
  <2>1. reader[q] \in Reader /\ Reads(q)
    BY Fields
  <2>. QED
    BY <2>1 DEF Reads, Where, Reader, Swapping
<1>2. reader[q].answer = "none" /\ reader'[q] # reader[q]
  BY <1>1 DEF Reads, Where, Swapping
<1>3. Reading(q)
  <2>1. ASSUME NEW p \in Readers \ {q}, Reading(p) PROVE reader'[q] = reader[q]
    BY <2>1, Fields DEF Reading, Fetch, DecryptWithRotation, SwapBlob, LockTimeout, VerifyStale,
                        CommitWriteBack, WriteBackFails, GiveUp, Answer, TypeOK
  <2>2. ASSUME NEW w \in Writers, Writing(w) PROVE UNCHANGED reader
    BY <2>2 DEF Writing, SealUpdate, UpdateRow, CommitUpdate, RollbackUpdate
  <2>3. ASSUME NEW r \in Replicas, Restart(r)
        PROVE  reader'[q] = reader[q] \/ reader'[q].answer = "none"
    BY <2>3 DEF Restart, NoRead
  <2>. QED
    BY <1>2, <2>1, <2>2, <2>3 DEF Next, ServeRotation, ServeUpdate, FleetTick, fleetVars
<1>4. ~GiveUp(q)
  <2>1. SUFFICES ASSUME Answer(q, "failed") PROVE FALSE
    BY DEF GiveUp
  <2>. QED
    BY <2>1, Fields DEF Answer, TypeOK
<1>5. reader[q].step \notin {"idle", "open"}
  BY <1>1 DEF Reads, Where
<1>6. ~SwapBlob(q) /\ ~LockTimeout(q) /\ ~VerifyStale(q)
  BY <1>2, <1>4, Fields DEF SwapBlob, LockTimeout, VerifyStale, TypeOK, Reader
<1>7. CommitWriteBack(q)
  BY <1>3, <1>4, <1>5, <1>6 DEF Reading, Fetch, DecryptWithRotation, WriteBackFails
<1>8. CASE lock = q
  <2>1. column' = reader[q].new /\ q \in Requests /\ Holds(q) /\ Made(q) = reader[q].new
    BY <1>1, <1>7, <1>8 DEF CommitWriteBack, Requests, Holds, Made
  <2>2. Unstored(reader[q].new)
    BY <2>1, Fields DEF Fresh
  <2>. QED
    BY <1>5, <2>1, <2>2 DEF Unstored
<1>9. CASE lock # q
  BY <1>1, <1>7, <1>9 DEF CommitWriteBack, Reads, Where
<1>. QED
  BY <1>8, <1>9

(* A read that returns the plaintext of a blob under a compromised key has *)
(* seen that blob gone from the column.                                    *)
THEOREM NoCompromisedLeft == Spec => CompromisedGone
<1>1. IInv /\ [Next]_vars =>
        [\A q \in Readers :
           reader[q].must /\ reader'[q].answer = "plaintext" => column' # reader[q].blob]_vars
  BY MustBeGone
<1>. QED
  BY <1>1, Invariance, PTL DEF Spec, CompromisedGone

-----------------------------------------------------------------------------
(* What Encrypt seals under *)

LEMMA DeadlineLasts ==
  ASSUME 0 \notin RequestDays, NEW at \in Nat, NEW days \in AllowedDays, NEW t \in Nat, t <= at
  PROVE  Deadline(at, days) = NULL \/ Deadline(at, days) >= t + Day
<1>1. SUFFICES ASSUME days # NULL PROVE at + days * Day >= t + Day
  BY DEF Deadline
<1>2. days \in RequestDays /\ 0 <= days
  BY <1>1 DEF AllowedDays
<1>3. days \in Int /\ days # 0 /\ Day \in Nat
  BY <1>2, DaysAssumption
<1>4. days - 1 \in Nat
  BY <1>2, <1>3
<1>5. (days - 1) * Day \in Nat /\ days * Day = (days - 1) * Day + Day
  BY <1>3, <1>4
<1>. QED
  BY <1>3, <1>5

(* No operation on the table shortens the life of a key that a snapshot    *)
(* has as its active one.                                                  *)
LEMMA LastingKept ==
  ASSUME 0 \notin RequestDays, IsTable(keys), clock \in Nat,
         Rotate(clock) \/ MarkCompromised(clock) \/ SetGrace(clock),
         NEW v, NEW t \in Nat, t <= clock, Lasting(v, t)
  PROVE  Lasting(v, t)'
<1>1. v \in DOMAIN keys /\ keys[v] \in KeyRow
  BY DEF Lasting, IsTable
<1>2. CASE Rotate(clock)
  <2>1. PICK old \in Active(keys), new \in Versions \ DOMAIN keys, row \in KeyRow, m \in Materials,
             terms \in RotationTerms :
          /\ row = RetiredRow(keys[old], clock, terms.days, terms.compromised)
          /\ keys' = Put(Put(keys, old, row), new, FreshRow(m))
    BY <1>2, RotateFacts
  <2>2. old \in DOMAIN keys /\ keys[old] \in KeyRow /\ terms.days \in AllowedDays
    BY DEF Active, IsTable, RotationTerms
  <2>3. row.until = Deadline(clock, terms.days)
    BY <2>1, <2>2 DEF RetiredRow, KeyRow
  <2>4. v \in DOMAIN keys' /\ keys'[v] = IF v = old THEN row ELSE keys[v]
    BY <1>1, <2>1 DEF Put
  <2>5. row.until = NULL \/ row.until >= t + Day
    BY <2>2, <2>3, DeadlineLasts
  <2>. QED
    BY <2>4, <2>5 DEF Lasting
<1>3. CASE MarkCompromised(clock)
  <2>1. PICK u \in DOMAIN keys \ Active(keys) : keys' = Put(keys, u, FlaggedRow(keys[u], clock))
    BY <1>3 DEF MarkCompromised
  <2>2. v \in DOMAIN keys' /\ keys'[v] = IF v = u THEN FlaggedRow(keys[u], clock) ELSE keys[v]
    BY <1>1, <2>1 DEF Put
  <2>3. /\ FlaggedRow(keys[v], clock).until = keys[v].until
        /\ FlaggedRow(keys[v], clock).retired = keys[v].retired
    BY <1>1 DEF FlaggedRow, KeyRow
  <2>. QED
    BY <2>2, <2>3 DEF Lasting, IsActive
<1>4. CASE SetGrace(clock)
  <2>1. PICK u \in DOMAIN keys \ Active(keys), days \in AllowedDays :
          keys' = Put(keys, u, GraceRow(keys[u], clock, days))
    BY <1>4 DEF SetGrace
  <2>2. v \in DOMAIN keys' /\ keys'[v] = IF v = u THEN GraceRow(keys[u], clock, days) ELSE keys[v]
    BY <1>1, <2>1 DEF Put
  <2>3. GraceRow(keys[v], clock, days).until = Deadline(clock, days)
    BY <1>1 DEF GraceRow, KeyRow
  <2>4. Deadline(clock, days) = NULL \/ Deadline(clock, days) >= t + Day
    BY DeadlineLasts
  <2>. QED
    BY <2>2, <2>3, <2>4 DEF Lasting
<1>. QED
  BY <1>2, <1>3, <1>4

(* What a step does to the snapshots and the table. *)
LEMMA SnapshotSteps ==
  ASSUME IInv, [Next]_vars
  PROVE  /\ \A r \in Replicas :
              view'[r] = view[r] \/ (view'[r] = Snapshot(keys') /\ clock' = clock)
         /\ \/ keys' = keys /\ clock' \in {clock, clock + 1}
            \/ /\ Rotate(clock) \/ MarkCompromised(clock) \/ SetGrace(clock)
               /\ clock' = clock
<1>. DEFINE Same == keys' = keys /\ clock' = clock
            Views == \A r \in Replicas : view'[r] = view[r] \/ view'[r] = Snapshot(keys')
<1>1. DOMAIN view = Replicas
  BY Fields DEF Tables
<1>2. ASSUME NEW r \in Replicas, NEW set \in {view[r], Snapshot(keys)}, keys' = keys,
             view' = [view EXCEPT ![r] = set]
      PROVE  Views
  BY <1>1, <1>2
<1>3. ASSUME NEW q \in Readers, Reading(q) PROVE Same /\ Views
  <2>1. CASE DecryptWithRotation(q)
    <3>1. reader[q].on \in Replicas
      BY <2>1, Fields DEF DecryptWithRotation, Reads, Where
    <3>2. PICK set \in OpenSet(reader[q].on, reader[q].blob.version) :
            view' = [view EXCEPT ![reader[q].on] = set]
      BY <2>1 DEF DecryptWithRotation
    <3>3. set \in {view[reader[q].on], Snapshot(keys)}
      BY <3>2 DEF OpenSet
    <3>. QED
      BY <1>2, <2>1, <3>1, <3>2, <3>3 DEF DecryptWithRotation
  <2>2. CASE ~DecryptWithRotation(q)
    BY <1>3, <2>2 DEF Reading, Fetch, SwapBlob, LockTimeout, VerifyStale, CommitWriteBack,
                      WriteBackFails
  <2>. QED
    BY <2>1, <2>2
<1>4. ASSUME NEW w \in Writers, Writing(w) PROVE Same /\ Views
  <2>1. CASE SealUpdate(w) /\ ~UNCHANGED view
    <3>1. PICK r \in Replicas : \E e \in EncryptSet(r) : view' = [view EXCEPT ![r] = e.set]
      BY <2>1 DEF SealUpdate
    <3>2. PICK e \in EncryptSet(r) : view' = [view EXCEPT ![r] = e.set]
      BY <3>1
    <3>3. e.set \in {view[r], Snapshot(keys)} /\ Same
      BY <2>1, EncryptSets DEF SealUpdate
    <3>. QED
      BY <1>2, <3>2, <3>3
  <2>2. CASE ~SealUpdate(w) \/ UNCHANGED view
    BY <1>4, <2>2 DEF Writing, SealUpdate, UpdateRow, CommitUpdate, RollbackUpdate
  <2>. QED
    BY <2>1, <2>2
<1>5. ASSUME NEW r \in Replicas, Restart(r) PROVE Same /\ Views
  BY <1>2, <1>5 DEF Restart
<1>6. ASSUME NEW r \in Replicas, ServeRotation(r) PROVE Rotate(clock) /\ clock' = clock /\ Views
  BY <1>1, <1>6 DEF ServeRotation, Rotate
<1>7. CASE ServeUpdate
  BY <1>7 DEF ServeUpdate, MarkCompromised, SetGrace, fleetVars
<1>8. CASE FleetTick
  BY <1>8 DEF FleetTick, Tick, fleetVars
<1>9. CASE UNCHANGED vars
  BY <1>9 DEF vars, fleetVars
<1>. QED
  BY <1>3, <1>4, <1>5, <1>6, <1>7, <1>8, <1>9 DEF Next

LEMMA LastsInit == Init => Lasts
<1>. SUFFICES ASSUME Init PROVE Lasts
  OBVIOUS
<1>1. IsTable(keys) /\ Active(keys) # {} /\ clock \in Nat
  BY InitInv DEF IInv, Tables
<1>2. \A r \in Replicas : view[r] = Snapshot(keys)
  BY DEF Init
<1>3. Snapshot(keys).loadedAt = clock /\ Active(Snapshot(keys).rows) = Active(keys)
  BY <1>1, SnapshotSeals
<1>4. \A v \in Active(keys) : Lasting(v, clock)
  BY DEF Active, Lasting
<1>. QED
  BY <1>1, <1>2, <1>3, <1>4 DEF Lasts

LEMMA LastsStep ==
  ASSUME 0 \notin RequestDays, IInv, Lasts, [Next]_vars
  PROVE  Lasts'
<1>1. /\ \A r \in Replicas : view'[r] = view[r] \/ (view'[r] = Snapshot(keys') /\ clock' = clock)
      /\ \/ keys' = keys /\ clock' \in {clock, clock + 1}
         \/ (Rotate(clock) \/ MarkCompromised(clock) \/ SetGrace(clock)) /\ clock' = clock
  BY SnapshotSteps
<1>2. /\ IsTable(keys) /\ clock \in Nat /\ IsTable(keys') /\ Active(keys') # {}
      /\ \A r \in Replicas : view[r].loadedAt \in Nat /\ view'[r].loadedAt \in Nat
  <2>1. Tables /\ Tables'
    BY StepInv DEF IInv
  <2>. QED
    BY <2>1 DEF Tables, Seals
<1>3. ASSUME NEW v, NEW t \in Nat, t <= clock, Lasting(v, t) PROVE Lasting(v, t)'
  <2>1. CASE keys' = keys
    BY <1>3, <2>1 DEF Lasting
  <2>2. CASE Rotate(clock) \/ MarkCompromised(clock) \/ SetGrace(clock)
    BY <1>2, <1>3, <2>2, LastingKept
  <2>. QED
    BY <1>1, <2>1, <2>2
<1>4. SUFFICES ASSUME NEW r \in Replicas, NEW t \in Nat, t = view'[r].loadedAt
               PROVE  /\ t <= clock'
                      /\ \A v \in Active(view'[r].rows) : Lasting(v, t)'
  BY <1>2 DEF Lasts, Active, Lasting
<1>5. CASE view'[r] = view[r]
  <2>1. t <= clock /\ \A v \in Active(view[r].rows) : Lasting(v, t)
    BY <1>4, <1>5 DEF Lasts
  <2>. QED
    BY <1>1, <1>2, <1>3, <1>4, <1>5, <2>1
<1>6. CASE view'[r] = Snapshot(keys') /\ clock' = clock
  <2>1. view'[r].loadedAt = clock /\ Active(view'[r].rows) = Active(keys')
    BY <1>2, <1>6, SnapshotSeals
  <2>2. \A v \in Active(keys') : v \in DOMAIN keys' /\ IsActive(keys'[v])
    BY DEF Active
  <2>. QED
    BY <1>2, <1>4, <1>6, <2>1, <2>2 DEF Lasting
<1>. QED
  BY <1>1, <1>5, <1>6

(* With no grace period of zero days, an Encrypt whose reload is not       *)
(* refused seals under a key that the database still holds usable, however *)
(* old its snapshot is within the TTL.                                     *)
THEOREM SealedReadable ==
  ASSUME 0 \notin RequestDays
  PROVE  Spec => EncryptReadable
<1>1. IInv /\ Lasts /\ [Next]_vars => Lasts'
  BY LastsStep
<1>2. Spec => []Lasts
  BY <1>1, LastsInit, Invariance, PTL DEF Spec
<1>3. IInv /\ Lasts /\ [Next]_vars =>
        [\A w \in Writers :
           LET blob == writer'[w].blob
           IN  writer[w].step = "idle" /\ writer'[w].step = "update"
               /\ blob \notin {NULL, NoBlob} /\ ~writer'[w].degraded
                 => blob.version \in Usable(keys, clock)]_vars
  <2>. SUFFICES ASSUME IInv, Lasts, Next, NEW w \in Writers,
                       writer[w].step = "idle", writer'[w].step = "update",
                       writer'[w].blob \notin {NULL, NoBlob}, ~writer'[w].degraded
                PROVE  writer'[w].blob.version \in Usable(keys, clock)
    OBVIOUS
  <2>1. SealUpdate(w)
    <3>1. ASSUME NEW q \in Readers, Reading(q) PROVE UNCHANGED writer
      BY <3>1 DEF Reading, Fetch, DecryptWithRotation, SwapBlob, LockTimeout, VerifyStale,
                  CommitWriteBack, WriteBackFails
    <3>2. ASSUME NEW x \in Writers \ {w}, Writing(x) PROVE writer'[w] = writer[w]
      BY <3>2, Fields DEF Writing, SealUpdate, UpdateRow, CommitUpdate, RollbackUpdate, TypeOK
    <3>3. Writing(w)
      BY <3>1, <3>2 DEF Next, ServeRotation, Restart, ServeUpdate, FleetTick, fleetVars
    <3>4. ~RollbackUpdate(w) /\ ~UpdateRow(w) /\ ~CommitUpdate(w)
      BY DEF RollbackUpdate, UpdateRow, CommitUpdate
    <3>. QED
      BY <3>3, <3>4 DEF Writing
  <2>2. ~\E blob \in {NULL, NoBlob} :
          writer' = [writer EXCEPT ![w].step = "update", ![w].blob = blob]
    BY Fields DEF TypeOK, Writer
  <2>3. PICK r \in Replicas, value \in Values : \E e \in EncryptSet(r) :
          writer' = [writer EXCEPT ![w] =
            [step |-> "update", blob |-> Sealed(e.set, value), degraded |-> e.degraded]]
    BY <2>1, <2>2 DEF SealUpdate
  <2>4. PICK e \in EncryptSet(r) :
          writer' = [writer EXCEPT ![w] =
            [step |-> "update", blob |-> Sealed(e.set, value), degraded |-> e.degraded]]
    BY <2>3
  <2>5. writer'[w].blob.version = ActiveIn(e.set) /\ ~e.degraded
    BY <2>4, Fields DEF TypeOK, Sealed
  <2>6. /\ IsTable(keys) /\ Active(keys) # {} /\ clock \in Nat
        /\ Seals(view[r]) /\ view[r].loadedAt \in Nat
    BY Fields DEF Tables, Seals
  <2>7. CASE e.set = Snapshot(keys)
    <3>1. ActiveIn(e.set) \in Active(keys)
      BY <2>6, <2>7, SnapshotSeals, ActiveKey
    <3>. QED
      BY <2>5, <3>1 DEF Usable, Active
  <2>8. CASE e.set = view[r] /\ clock - view[r].loadedAt < KeySetTTL
    <3>. DEFINE v == ActiveIn(view[r])
    <3>1. v \in Active(view[r].rows)
      BY <2>6, ActiveKey
    <3>2. Lasting(v, view[r].loadedAt)
      BY <3>1 DEF Lasts
    <3>. HIDE DEF v
    <3>3. clock < view[r].loadedAt + Day
      BY <2>6, <2>8, TTLAssumption, DaysAssumption
    <3>4. v \in DOMAIN keys /\ keys[v].until \in Instant
      BY <2>6, <3>2 DEF Lasting, IsTable, KeyRow
    <3>5. CASE keys[v].until \in Nat /\ keys[v].until >= view[r].loadedAt + Day
      <4>1. keys[v].until > clock
        BY <2>6, <3>3, <3>5, DaysAssumption
      <4>2. v \in Usable(keys, clock)
        BY <3>4, <4>1 DEF Usable
      <4>. QED
        BY <2>5, <2>8, <4>2 DEF v
    <3>6. CASE IsActive(keys[v]) \/ keys[v].until = NULL
      <4>1. v \in Usable(keys, clock)
        BY <3>4, <3>6 DEF Usable
      <4>. QED
        BY <2>5, <2>8, <4>1 DEF v
    <3>. QED
      BY <3>2, <3>4, <3>5, <3>6 DEF Lasting, Instant
  <2>. QED
    BY <2>5, <2>7, <2>8, EncryptSets
<1>. QED
  BY <1>2, <1>3, Invariance, PTL DEF Spec, EncryptReadable
=============================================================================
