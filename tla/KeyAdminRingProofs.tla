-------------------------- MODULE KeyAdminRingProofs --------------------------
(***************************************************************************)
(* That the statements of KeyAdmin implement the operations of KeyRing,    *)
(* and what follows for the key table's history and for the answers given, *)
(* for every number of admins and processes and every bound.               *)
(***************************************************************************)
EXTENDS KeyAdminProofs

(* What a request asks for is what the handler lets through, and the key a *)
(* rotation has matched is at most as new as the active one.               *)
Asked(a) ==
  LET s == session[a]
  IN  /\ s.at <= clock
      /\ s.op = "rotate" /\ s.step # "idle"
           => [days |-> s.days, compromised |-> s.compromised] \in RotationTerms
      /\ s.step = "retire" => \A u \in Active(keys) : s.version <= u

RotatedRow(a) ==
  LET s == session[a]
  IN  RetiredRow(keys[s.version], s.at, s.days, s.compromised)

(* What its transaction has written is still what it would write now.      *)
Wrote(a) ==
  LET s == session[a]
      w == written[a]
  IN  /\ s.step = "insert" => w[s.version] = RotatedRow(a)
      /\ s.step = "commit" /\ s.op = "rotate" =>
           /\ s.material \in Materials \ OnFile(keys)
           /\ w[s.version] = RotatedRow(a)
           /\ \A n \in DOMAIN w \ DOMAIN keys :
                w[n] = FreshRow(s.material) /\ \A u \in DOMAIN keys : u < n
      /\ s.step = "commit" /\ s.op # "rotate" =>
           w[s.version] = UpdatedRow(a) /\ RowChecks(UpdatedRow(a))

(* A process goes on to its second load only once there are keys. *)
LosersReload == \A p \in Booters : boot[p].step = "reload" => keys # NoRows

HInv ==
  /\ IInv /\ SoundTable /\ BootVerdict /\ LosersReload
  /\ \A a \in Admins : Asked(a) /\ Wrote(a)

-----------------------------------------------------------------------------
(* Rows and tables *)

LEMMA OverlayFacts ==
  ASSUME NEW t, NEW w
  PROVE  /\ DOMAIN Overlay(t, w) = DOMAIN t \cup DOMAIN w
         /\ \A u \in DOMAIN w : Overlay(t, w)[u] = w[u]
         /\ \A u \in DOMAIN t \ DOMAIN w : Overlay(t, w)[u] = t[u]
BY DEF Overlay

LEMMA OverlayOne ==
  ASSUME NEW t, NEW w, NEW v, DOMAIN w = {v}
  PROVE  Overlay(t, w) = Put(t, v, w[v])
BY DEF Overlay, Put

LEMMA OverlayTwo ==
  ASSUME NEW t, NEW w, NEW v, NEW n, DOMAIN w = {v, n}, n # v
  PROVE  Overlay(t, w) = Put(Put(t, v, w[v]), n, w[n])
BY DEF Overlay, Put

-----------------------------------------------------------------------------
(* What KeyRing's operations do to the table *)

(* AppendOnly, of one step. *)
Appended ==
  /\ DOMAIN keys \subseteq DOMAIN keys'
  /\ \A v \in DOMAIN keys :
       /\ keys'[v].material = keys[v].material
       /\ ~IsActive(keys[v]) => keys'[v].retired = keys[v].retired
       /\ keys[v].compromised # NULL => keys'[v].compromised = keys[v].compromised
  /\ \A v \in DOMAIN keys' \ DOMAIN keys : \A w \in DOMAIN keys : w < v

(* An update of one retired row. *)
LEMMA PutKeeps ==
  ASSUME IsTable(keys), SoundTable, NEW v \in DOMAIN keys, NEW row, keys' = Put(keys, v, row),
         ~IsActive(keys[v]), RowChecks(row),
         row.material = keys[v].material, row.retired = keys[v].retired,
         keys[v].compromised # NULL => row.compromised = keys[v].compromised
  PROVE  SoundTable' /\ Appended
<1>1. /\ DOMAIN keys' = DOMAIN keys /\ keys'[v] = row
      /\ \A u \in DOMAIN keys : u # v => keys'[u] = keys[u]
  BY OnRow
<1>2. \A u \in DOMAIN keys : keys'[u].material = keys[u].material
  BY <1>1
<1>3. SoundTable'
  BY <1>1, <1>2 DEF SoundTable
<1>4. Appended
  BY <1>1, <1>2 DEF Appended
<1>. QED
  BY <1>3, <1>4

LEMMA RotateKeeps ==
  ASSUME IsTable(keys), SoundTable, NEW at \in Nat, Rotate(at)
  PROVE  SoundTable' /\ Appended
<1>1. PICK old \in Active(keys), new \in Versions, m \in Materials \ OnFile(keys),
           terms \in RotationTerms :
        /\ NewestVersion(new)
        /\ keys' = Put(Put(keys, old, RetiredRow(keys[old], at, terms.days, terms.compromised)),
                       new, FreshRow(m))
  BY DEF Rotate
<1>. DEFINE row == RetiredRow(keys[old], at, terms.days, terms.compromised)
            half == Put(keys, old, row)
<1>2. old \in DOMAIN keys /\ keys[old] \in KeyRow /\ keys[old].compromised = NULL
  BY DEF Active, IsTable, SoundTable, RowChecks, RetiredOnlyFlags
<1>3. RowChecks(row) /\ row.material = keys[old].material
  BY <1>2, RetiredRowSound DEF RotationTerms
<1>4. RowChecks(FreshRow(m)) /\ FreshRow(m).material = m
  BY FreshRowSound
<1>5. \A u \in DOMAIN keys : u \in Nat /\ u < new
  BY <1>1, VersionsAssumption DEF NewestVersion, IsTable
<1>6. new \notin DOMAIN keys /\ new \in Nat
  BY <1>5, VersionsAssumption
<1>7. keys' = Put(half, new, FreshRow(m))
  BY <1>1
<1>. HIDE DEF row, half
<1>8. /\ DOMAIN half = DOMAIN keys /\ half[old] = row
      /\ \A u \in DOMAIN keys : u # old => half[u] = keys[u]
  BY <1>2, OnRow DEF half
<1>9. /\ DOMAIN keys' = DOMAIN keys \cup {new} /\ keys'[new] = FreshRow(m)
      /\ keys'[old] = row /\ \A u \in DOMAIN keys : u # old => keys'[u] = keys[u]
  <2>1. /\ DOMAIN Put(half, new, FreshRow(m)) = DOMAIN half \cup {new}
        /\ Put(half, new, FreshRow(m))[new] = FreshRow(m)
        /\ \A u \in DOMAIN half : u # new => Put(half, new, FreshRow(m))[u] = half[u]
    BY DEF Put
  <2>2. DOMAIN keys' = DOMAIN keys \cup {new}
    BY <1>7, <1>8, <2>1, Zenon
  <2>3. keys'[new] = FreshRow(m) /\ \A u \in DOMAIN keys : keys'[u] = half[u]
    BY <1>6, <1>7, <1>8, <2>1
  <2>. QED
    BY <1>2, <1>8, <2>2, <2>3
<1>10. \A u \in DOMAIN keys : keys'[u].material = keys[u].material /\ keys'[u].material # m
  BY <1>3, <1>9 DEF OnFile
<1>11. SoundTable'
  <2>1. \A v \in DOMAIN keys' : RowChecks(keys'[v])
    BY <1>3, <1>4, <1>9 DEF SoundTable
  <2>2. \A v, w \in DOMAIN keys' : keys'[v].material = keys'[w].material => v = w
    BY <1>4, <1>9, <1>10 DEF SoundTable
  <2>. QED
    BY <2>1, <2>2 DEF SoundTable
<1>12. Appended
  BY <1>2, <1>5, <1>9, <1>10 DEF Appended, Active
<1>. QED
  BY <1>11, <1>12

LEMMA RingKeeps ==
  ASSUME IsTable(keys), SoundTable, clock \in Nat, [RingNext]_ringVars
  PROVE  SoundTable' /\ Appended
<1>1. CASE UNCHANGED keys
  BY <1>1 DEF SoundTable, Appended
<1>2. CASE Bootstrap
  <2>1. PICK v \in Versions, m \in Materials : keys' = Put(keys, v, FreshRow(m))
    BY <1>2 DEF Bootstrap
  <2>2. DOMAIN keys = {} /\ DOMAIN keys' = {v} /\ keys'[v] = FreshRow(m)
    BY <1>2, <2>1 DEF Bootstrap, Put
  <2>3. RowChecks(FreshRow(m))
    BY FreshRowSound
  <2>. QED
    BY <2>2, <2>3 DEF SoundTable, Appended
<1>3. ASSUME NEW at \in 0..clock, Rotate(at) PROVE SoundTable' /\ Appended
  BY <1>3, RotateKeeps
<1>4. ASSUME NEW at \in 0..clock, MarkCompromised(at) PROVE SoundTable' /\ Appended
  <2>1. PICK v \in DOMAIN keys \ Active(keys) : keys' = Put(keys, v, FlaggedRow(keys[v], at))
    BY <1>4 DEF MarkCompromised
  <2>2. keys[v] \in KeyRow /\ ~IsActive(keys[v]) /\ RowChecks(keys[v]) /\ at \in Nat
    BY DEF IsTable, Active, SoundTable
  <2>. QED
    BY <2>1, <2>2, FlaggedRowSound, PutKeeps
<1>5. ASSUME NEW at \in 0..clock, SetGrace(at) PROVE SoundTable' /\ Appended
  <2>1. PICK v \in DOMAIN keys \ Active(keys), days \in AllowedDays :
          /\ RowChecks(GraceRow(keys[v], at, days))
          /\ keys' = Put(keys, v, GraceRow(keys[v], at, days))
    BY <1>5 DEF SetGrace
  <2>2. keys[v] \in KeyRow /\ ~IsActive(keys[v])
    BY DEF IsTable, Active
  <2>. QED
    BY <2>1, <2>2, GraceRowKeeps, PutKeeps
<1>. QED
  BY <1>1, <1>2, <1>3, <1>4, <1>5 DEF RingNext, ringVars, Tick

-----------------------------------------------------------------------------
(* Every statement is a stutter of KeyRing, or one of its operations *)

LEMMA RequestTypes ==
  ASSUME TypeOK, NEW a \in Admins
  PROVE  /\ session[a] \in Session /\ session[a].at \in Nat /\ session[a].days \in AllowedDays
         /\ session[a].version \in Nat /\ session[a].compromised \in BOOLEAN
         /\ IsTable(keys) /\ IsTable(written[a])
         /\ \A v \in DOMAIN keys : keys[v] \in KeyRow /\ v \in Nat
         /\ clock \in Nat /\ sequence \in Nat
BY VersionsAssumption, MaxVersionAssumption DEF TypeOK, Session, IsTable

LEMMA CommitRotation ==
  ASSUME HInv, NEW a \in Admins, Commit(a), session[a].op = "rotate"
  PROVE  Rotate(session[a].at)
<1>. DEFINE s == session[a]
            v == s.version
            w == written[a]
            terms == [days |-> s.days, compromised |-> s.compromised]
<1>1. s.step = "commit" /\ keys' = Overlay(keys, w) /\ UNCHANGED clock
  BY DEF Commit
<1>2. Holding(a) /\ Asked(a) /\ Wrote(a) /\ IsTable(w)
  BY RequestTypes DEF HInv, IInv, Uncommitted
<1>3. Active(keys) = {v} /\ v \in DOMAIN keys
  BY <1>1, <1>2 DEF Holding, HoldsActive, Active
<1>4. PICK n \in DOMAIN w \ DOMAIN keys : DOMAIN w = {v, n}
  BY <1>1, <1>2 DEF Holding
<1>5. /\ s.material \in Materials \ OnFile(keys) /\ w[v] = RotatedRow(a)
      /\ w[n] = FreshRow(s.material) /\ NewestVersion(n)
  BY <1>1, <1>2, <1>4 DEF Wrote, NewestVersion
<1>6. n \in Versions /\ n # v
  BY <1>2, <1>3, <1>4 DEF IsTable
<1>7. terms \in RotationTerms /\ terms.days = s.days /\ terms.compromised = s.compromised
  BY <1>1, <1>2 DEF Asked
<1>8. keys' = Put(Put(keys, v, w[v]), n, w[n])
  BY <1>1, <1>4, <1>6, OverlayTwo
<1>9. keys' = Put(Put(keys, v, RetiredRow(keys[v], s.at, terms.days, terms.compromised)),
                  n, FreshRow(s.material))
  BY <1>5, <1>7, <1>8 DEF RotatedRow
<1>. HIDE DEF terms
<1>. QED
  BY <1>1, <1>3, <1>5, <1>6, <1>7, <1>9 DEF Rotate

LEMMA CommitUpdate ==
  ASSUME HInv, NEW a \in Admins, Commit(a), session[a].op # "rotate"
  PROVE  MarkCompromised(session[a].at) \/ SetGrace(session[a].at)
<1>. DEFINE s == session[a]
            v == s.version
            w == written[a]
<1>1. s.step = "commit" /\ keys' = Overlay(keys, w) /\ UNCHANGED clock
  BY DEF Commit
<1>2. Holding(a) /\ Wrote(a) /\ s.days \in AllowedDays /\ s \in Session
  BY RequestTypes DEF HInv, IInv, Uncommitted
<1>3. DOMAIN w = {v} /\ v \in DOMAIN keys \ Active(keys)
  BY <1>1, <1>2 DEF Holding, NamesRetired, Active
<1>4. w[v] = UpdatedRow(a) /\ RowChecks(UpdatedRow(a))
  BY <1>1, <1>2 DEF Wrote
<1>5. keys' = Put(keys, v, UpdatedRow(a))
  BY <1>1, <1>3, <1>4, OverlayOne
<1>6. CASE s.op = "mark"
  BY <1>1, <1>3, <1>5, <1>6 DEF UpdatedRow, MarkCompromised
<1>7. CASE s.op # "mark"
  BY <1>1, <1>2, <1>3, <1>4, <1>5, <1>7 DEF UpdatedRow, SetGrace
<1>. QED
  BY <1>6, <1>7

(* A first boot inserts into an empty table only. *)
LEMMA BootChanges ==
  ASSUME HInv, NEW p \in Booters, BootInsert(p), keys' # keys
  PROVE  /\ DOMAIN keys = {} /\ Bootstrap
         /\ sequence' = sequence + 1 /\ DOMAIN keys' = {sequence + 1}
         /\ IsActive(keys'[sequence + 1]) /\ Adopt(p, keys')
<1>. DEFINE n == sequence + 1
<1>1. /\ Active(keys) = {} /\ ~Exhausted /\ sequence' = n
      /\ keys' = Put(keys, n, FreshRow(boot[p].seed)) /\ Adopt(p, keys')
      /\ boot[p].step = "insert" /\ UNCHANGED clock
  BY DEF BootInsert, SeedConflicts, BootKeeps
<1>2. DOMAIN keys = {}
  BY <1>1, NoRowsDomain DEF HInv, IInv, OneActive
<1>3. boot[p].seed \in Materials /\ n \in Versions
  BY <1>1, MaxVersionAssumption DEF HInv, IInv, Inputs, TypeOK, Exhausted
<1>4. Bootstrap
  BY <1>1, <1>2, <1>3 DEF Bootstrap
<1>5. DOMAIN keys' = {n} /\ keys'[n] = FreshRow(boot[p].seed)
  BY <1>1, <1>2 DEF Put
<1>6. IsActive(keys'[n])
  BY <1>5, FreshRowSound
<1>. QED
  BY <1>1, <1>2, <1>4, <1>5, <1>6

(* Nothing but a COMMIT and a first boot's insert changes the table. *)
LEMMA OthersKeep ==
  ASSUME [AdminNext]_vars, keys' # keys
  PROVE  (\E a \in Admins : Commit(a)) \/ (\E p \in Booters : BootInsert(p))
<1>1. ASSUME NEW a \in Admins, Rotating(a) \/ Updating(a) \/ Fail(a) PROVE UNCHANGED keys
  BY <1>1 DEF Rotating, BeginRotate, MatchActive, RetireActive, InsertActive, Updating, BeginMark,
              BeginGrace, LoadRetiredKey, UpdateKey, Fail, Begin, Rollback
<1>2. ASSUME NEW p \in Booters, Booting(p) \/ Restart(p), ~BootInsert(p) PROVE UNCHANGED keys
  BY <1>2 DEF Booting, BootLoad, BootSeed, BootReload, Restart
<1>. QED
  BY <1>1, <1>2 DEF AdminNext, AdminTick, Tick, vars

LEMMA ClockSteps ==
  ASSUME [AdminNext]_vars, clock' # clock
  PROVE  AdminTick
<1>1. ASSUME NEW a \in Admins, Rotating(a) \/ Updating(a) \/ Fail(a) \/ Commit(a)
      PROVE  UNCHANGED clock
  BY <1>1 DEF Rotating, BeginRotate, MatchActive, RetireActive, InsertActive, Updating, BeginMark,
              BeginGrace, LoadRetiredKey, UpdateKey, Fail, Commit, Begin, Rollback
<1>2. ASSUME NEW p \in Booters, Booting(p) \/ Restart(p) PROVE UNCHANGED clock
  BY <1>2 DEF Booting, BootLoad, BootSeed, BootInsert, BootReload, Restart, BootKeeps
<1>. QED
  BY <1>1, <1>2 DEF AdminNext, vars

LEMMA RingStep ==
  ASSUME HInv, [AdminNext]_vars
  PROVE  [RingNext]_ringVars
<1>1. CASE clock' # clock
  BY <1>1, ClockSteps DEF AdminTick, RingNext
<1>2. CASE clock' = clock /\ keys' = keys
  BY <1>2 DEF ringVars
<1>3. CASE keys' # keys
  <2>1. ASSUME NEW a \in Admins, Commit(a) PROVE RingNext
    <3>1. TypeOK /\ Asked(a)
      BY DEF HInv, IInv
    <3>2. session[a].at \in Nat /\ clock \in Nat
      BY <3>1, RequestTypes
    <3>3. session[a].at \in 0..clock
      BY <3>1, <3>2 DEF Asked
    <3>. QED
      BY <2>1, <3>3, CommitRotation, CommitUpdate DEF RingNext
  <2>2. ASSUME NEW p \in Booters, BootInsert(p) PROVE RingNext
    BY <1>3, <2>2, BootChanges DEF RingNext
  <2>. QED
    BY <1>3, <2>1, <2>2, OthersKeep
<1>. QED
  BY <1>1, <1>2, <1>3

LEMMA TableStep ==
  ASSUME HInv, [AdminNext]_vars
  PROVE  SoundTable' /\ Appended
BY RingStep, RingKeeps DEF HInv, IInv, TypeOK

-----------------------------------------------------------------------------
(* What the other requests hold *)

LEMMA AskedKept ==
  ASSUME HInv, NEW b \in Admins, session'[b] = session[b], clock <= clock', clock' \in Nat,
         Appended, IsTable(keys')
  PROVE  Asked(b)'
<1>1. Asked(b) /\ Holding(b)
  BY DEF HInv, IInv, Uncommitted
<1>2. session[b].at <= clock'
  BY <1>1, RequestTypes DEF Asked, HInv, IInv
<1>3. ASSUME session[b].step = "retire", NEW u \in Active(keys')
      PROVE  session[b].version <= u
  <2>1. session[b].version \in DOMAIN keys /\ session[b].version \in Nat /\ u \in Nat
    BY <1>1, <1>3, RequestTypes, VersionsAssumption DEF Holding, HInv, IInv, Active, IsTable
  <2>2. CASE u \in DOMAIN keys
    <3>1. IsActive(keys[u])
      BY <1>3, <2>2 DEF Appended, Active, IsActive
    <3>. QED
      BY <1>1, <1>3, <2>2, <3>1 DEF Asked, Active
  <2>3. CASE u \notin DOMAIN keys
    BY <1>3, <2>1, <2>3 DEF Appended, Active
  <2>. QED
    BY <2>2, <2>3
<1>. QED
  BY <1>1, <1>2, <1>3 DEF Asked

LEMMA WroteKept ==
  ASSUME NEW b \in Admins, Wrote(b), session'[b] = session[b], written'[b] = written[b],
         keys' = keys
  PROVE  Wrote(b)'
BY DEF Wrote, RotatedRow, UpdatedRow, OnFile

(* Another transaction commits. *)
LEMMA WroteAcross ==
  ASSUME HInv, NEW a \in Admins, Commit(a), NEW b \in Admins \ {a}
  PROVE  Wrote(b)'
<1>. DEFINE v == session[b].version
            w == written[a]
<1>1. /\ session'[b] = session[b] /\ written'[b] = written[b]
      /\ keys' = Overlay(keys, w) /\ session[a].step = "commit"
  BY DEF Commit, EndRequest, HInv, IInv, TypeOK
<1>2. Wrote(b) /\ Holding(b) /\ Holding(a) /\ DOMAIN w \cap DOMAIN written[b] = {}
  BY DEF HInv, IInv, Uncommitted
<1>3. ASSUME session[b].step \in {"insert", "commit"}
      PROVE  v \in DOMAIN keys /\ v \in DOMAIN written[b] /\ v \notin DOMAIN w
  BY <1>2, <1>3 DEF Holding, HoldsActive, NamesRetired, Active
<1>4. session[b].step \in {"insert", "commit"} => keys'[v] = keys[v]
  BY <1>1, <1>3 DEF Overlay
<1>5. CASE session[b].step \notin {"insert", "commit"}
  BY <1>1, <1>5 DEF Wrote
<1>6. CASE session[b].step = "insert"
  BY <1>1, <1>2, <1>4, <1>6 DEF Wrote, RotatedRow
<1>7. CASE session[b].step = "commit" /\ session[b].op # "rotate"
  BY <1>1, <1>2, <1>4, <1>7 DEF Wrote, UpdatedRow
<1>8. CASE session[b].step = "commit" /\ session[b].op = "rotate"
  <2>1. Active(keys) = {v}
    BY <1>2, <1>8 DEF Holding, HoldsActive
  <2>2. session[a].op # "rotate"
    BY <1>1, <1>2, <1>3, <1>8, <2>1 DEF Holding, HoldsActive
  <2>3. PICK u \in DOMAIN keys : DOMAIN w = {u} /\ ~IsActive(keys[u]) /\ w[u] = UpdatedRow(a)
                                 /\ u = session[a].version
    BY <1>1, <1>2, <2>2 DEF Holding, NamesRetired, HInv, Wrote
  <2>4. UpdatedRow(a).material = keys[u].material
    <3>1. TypeOK
      BY DEF HInv, IInv
    <3>2. keys[u] \in KeyRow /\ session[a].at \in Nat
      BY <3>1, RequestTypes
    <3>3. FlaggedRow(keys[u], session[a].at).material = keys[u].material
      BY <2>3, <3>2, FlaggedRowSound
    <3>4. GraceRow(keys[u], session[a].at, session[a].days).material = keys[u].material
      BY <3>2, GraceRowKeeps
    <3>. QED
      BY <2>3, <3>3, <3>4 DEF UpdatedRow
  <2>5. DOMAIN keys' = DOMAIN keys
    BY <1>1, <2>3 DEF Overlay
  <2>6. \A x \in DOMAIN keys : keys'[x].material = keys[x].material
    <3>1. w[u].material = keys[u].material
      BY <2>3, <2>4
    <3>2. \A x \in DOMAIN keys : keys'[x] = IF x = u THEN w[u] ELSE keys[x]
      BY <1>1, <2>3 DEF Overlay
    <3>. QED
      BY <3>1, <3>2
  <2>7. OnFile(keys') = OnFile(keys)
    BY <2>5, <2>6 DEF OnFile
  <2>. QED
    BY <1>1, <1>2, <1>4, <1>8, <2>5, <2>7 DEF Wrote, RotatedRow
<1>. QED
  BY <1>5, <1>6, <1>7, <1>8

(* A first boot has inserted: no request was beyond its first statement.   *)
LEMMA WroteBoot ==
  ASSUME HInv, DOMAIN keys = {}, NEW b \in Admins, session'[b] = session[b]
  PROVE  Wrote(b)'
<1>1. Holding(b)
  BY DEF HInv, IInv, Uncommitted
<1>2. session[b].step \notin {"insert", "commit"}
  BY <1>1 DEF Holding, HoldsActive, NamesRetired, Active
<1>. QED
  BY <1>2 DEF Wrote

-----------------------------------------------------------------------------
(* What the acting request holds *)

LEMMA EndKept ==
  ASSUME TypeOK, NEW a \in Admins, NEW answer, EndRequest(a, answer), clock' \in Nat
  PROVE  Asked(a)' /\ Wrote(a)'
<1>1. session'[a] = Idle
  BY DEF EndRequest, TypeOK
<1>2. Idle.step = "idle" /\ Idle.at = 0
  BY DEF Idle
<1>. QED
  BY <1>1, <1>2 DEF Asked, Wrote

LEMMA OwnBeginRotate ==
  ASSUME HInv, NEW a \in Admins, BeginRotate(a)
  PROVE  Asked(a)' /\ Wrote(a)'
<1>1. TypeOK /\ clock \in Nat
  BY DEF HInv, IInv, TypeOK
<1>2. PICK terms \in RotationTerms, m \in Materials :
        Begin(a, [Idle EXCEPT !.step = "match", !.op = "rotate", !.at = clock,
                              !.days = terms.days, !.compromised = terms.compromised,
                              !.material = m])
  BY DEF BeginRotate
<1>3. /\ session'[a].step = "match" /\ session'[a].at = clock /\ clock' = clock
      /\ session'[a].days = terms.days /\ session'[a].compromised = terms.compromised
  BY <1>1, <1>2 DEF Begin, Idle, TypeOK
<1>4. [days |-> terms.days, compromised |-> terms.compromised] = terms
  BY DEF RotationTerms
<1>. QED
  BY <1>1, <1>3, <1>4 DEF Asked, Wrote

LEMMA OwnMatch ==
  ASSUME HInv, NEW a \in Admins, MatchActive(a)
  PROVE  Asked(a)' /\ Wrote(a)'
<1>1. TypeOK /\ clock \in Nat /\ Asked(a)
  BY DEF HInv, IInv, TypeOK
<1>2. session[a].op = "rotate" /\ session[a].step = "match"
  BY DEF HInv, IInv, Uncommitted, Holding, MatchActive
<1>3. CASE Rollback(a, "no_active_key")
  BY <1>1, <1>3, EndKept DEF Rollback
<1>4. CASE \E v \in Active(keys) :
             /\ session' = [session EXCEPT ![a].step = "retire", ![a].version = v]
             /\ UNCHANGED <<keys, clock>>
  <2>1. PICK v \in Active(keys) :
          /\ session' = [session EXCEPT ![a].step = "retire", ![a].version = v]
          /\ UNCHANGED <<keys, clock>>
    BY <1>4
  <2>2. /\ session'[a].step = "retire" /\ session'[a].version = v
        /\ session'[a].op = session[a].op /\ session'[a].at = session[a].at
        /\ session'[a].days = session[a].days
        /\ session'[a].compromised = session[a].compromised
    BY <1>1, <2>1 DEF TypeOK, Session
  <2>3. v \in Nat /\ Active(keys) = {v}
    <3>1. keys # NoRows
      BY <2>1, NoRowsDomain DEF Active
    <3>2. v \in Nat
      BY <1>1, <2>1, RequestTypes DEF Active
    <3>. QED
      BY <2>1, <3>1, <3>2 DEF HInv, IInv, OneActive
  <2>4. \A u \in Active(keys') : session'[a].version <= u
    BY <2>1, <2>2, <2>3
  <2>5. session'[a].at <= clock'
    BY <1>1, <2>1, <2>2 DEF Asked
  <2>6. [days |-> session'[a].days, compromised |-> session'[a].compromised] \in RotationTerms
    BY <1>1, <1>2, <2>2 DEF Asked
  <2>. QED
    BY <2>2, <2>4, <2>5, <2>6 DEF Asked, Wrote
<1>. QED
  BY <1>3, <1>4 DEF MatchActive

LEMMA OwnRetire ==
  ASSUME HInv, NEW a \in Admins, RetireActive(a)
  PROVE  Asked(a)' /\ Wrote(a)'
<1>1. TypeOK /\ clock \in Nat /\ Asked(a) /\ session[a].step = "retire"
  BY DEF HInv, IInv, TypeOK, RetireActive
<1>. DEFINE s == session[a]
            v == s.version
<1>2. CASE Rollback(a, "no_active_key")
  BY <1>1, <1>2, EndKept DEF Rollback
<1>3. CASE /\ written' = [written EXCEPT ![a] =
                Put(@, v, RetiredRow(keys[v], s.at, s.days, s.compromised))]
           /\ Advance(a, "insert") /\ UNCHANGED <<keys, clock>>
  <2>1. /\ session'[a].step = "insert" /\ session'[a].version = v
        /\ session'[a].op = s.op /\ session'[a].at = s.at /\ session'[a].days = s.days
        /\ session'[a].compromised = s.compromised
    BY <1>1, <1>3 DEF TypeOK, Session, Advance
  <2>2. written'[a][v] = RetiredRow(keys[v], s.at, s.days, s.compromised)
    BY <1>1, <1>3 DEF TypeOK, Put
  <2>. QED
    BY <1>1, <1>3, <2>1, <2>2 DEF Asked, Wrote, RotatedRow
<1>. QED
  BY <1>2, <1>3 DEF RetireActive

LEMMA OwnInsert ==
  ASSUME HInv, NEW a \in Admins, InsertActive(a)
  PROVE  Asked(a)' /\ Wrote(a)'
<1>. DEFINE s == session[a]
            v == s.version
            w == written[a]
            n == sequence + 1
<1>1. /\ TypeOK /\ clock \in Nat /\ Asked(a) /\ Wrote(a) /\ Holding(a) /\ s.step = "insert"
      /\ s.material \in Materials /\ DOMAIN keys \subseteq 1..sequence /\ sequence \in Nat
  <2>1. TypeOK /\ Inputs /\ Uncommitted /\ Asked(a) /\ Wrote(a) /\ s.step = "insert"
    BY DEF HInv, IInv, InsertActive
  <2>2. clock \in Nat /\ sequence \in Nat
    BY <2>1, RequestTypes
  <2>. QED
    BY <2>1, <2>2 DEF Inputs, Uncommitted
<1>2. CASE \E answer : Rollback(a, answer)
  BY <1>1, <1>2, EndKept DEF Rollback
<1>3. CASE /\ ~MaterialTaken(a)
           /\ written' = [written EXCEPT ![a] = Put(@, n, FreshRow(s.material))]
           /\ Advance(a, "commit") /\ UNCHANGED <<keys, clock>>
  <2>1. /\ session'[a].step = "commit" /\ session'[a].version = v
        /\ session'[a].op = s.op /\ session'[a].at = s.at /\ session'[a].days = s.days
        /\ session'[a].compromised = s.compromised /\ session'[a].material = s.material
    BY <1>1, <1>3 DEF TypeOK, Session, Advance
  <2>2. s.op = "rotate" /\ HoldsActive(a) /\ DOMAIN w = {v} /\ w[v] = RotatedRow(a)
    BY <1>1 DEF Holding, Wrote
  <2>3. v \in DOMAIN keys /\ v \in 1..sequence
    BY <1>1, <2>2 DEF HoldsActive, Active
  <2>4. /\ DOMAIN written'[a] = {v, n} /\ written'[a][n] = FreshRow(s.material)
        /\ written'[a][v] = w[v]
    <3>1. written'[a] = Put(w, n, FreshRow(s.material))
      BY <1>1, <1>3 DEF TypeOK
    <3>2. v # n
      BY <1>1, <2>3
    <3>. QED
      BY <2>2, <3>1, <3>2 DEF Put
  <2>5. w[v].material = keys[v].material
    <3>1. keys[v] \in KeyRow /\ s.at \in Nat /\ s.days \in AllowedDays /\ s.compromised \in BOOLEAN
      BY <1>1, <2>3, RequestTypes
    <3>. QED
      BY <2>2, <3>1, RetiredRowSound DEF RotatedRow
  <2>6. s.material \notin OnFile(keys)
    <3>1. SUFFICES ASSUME NEW u \in DOMAIN keys PROVE keys[u].material # s.material
      BY DEF OnFile
    <3>2. u \in DOMAIN View(a) /\ View(a)[u].material = keys[u].material
      BY <2>2, <2>5 DEF View, Overlay
    <3>. QED
      BY <1>3, <3>2 DEF MaterialTaken, OnFile
  <2>7. \A u \in DOMAIN keys : u < n
    BY <1>1
  <2>8. written'[a][v] = RotatedRow(a)'
    BY <1>3, <2>1, <2>2, <2>4 DEF RotatedRow
  <2>9. Asked(a)'
    BY <1>1, <1>3, <2>1 DEF Asked
  <2>10. \A x \in DOMAIN written'[a] \ DOMAIN keys' :
           written'[a][x] = FreshRow(s.material) /\ \A u \in DOMAIN keys' : u < x
    BY <1>3, <2>3, <2>4, <2>7
  <2>11. s.material \in Materials \ OnFile(keys')
    BY <1>1, <1>3, <2>6
  <2>. QED
    BY <2>1, <2>2, <2>8, <2>9, <2>10, <2>11 DEF Wrote
<1>. QED
  BY <1>2, <1>3 DEF InsertActive

LEMMA OwnUpdate ==
  ASSUME HInv, NEW a \in Admins, Updating(a)
  PROVE  Asked(a)' /\ Wrote(a)'
<1>1. TypeOK /\ clock \in Nat /\ Asked(a) /\ Wrote(a) /\ Holding(a)
  BY DEF HInv, IInv, TypeOK, Uncommitted
<1>. DEFINE s == session[a]
            v == s.version
<1>2. ASSUME NEW answer, Rollback(a, answer) PROVE Asked(a)' /\ Wrote(a)'
  BY <1>1, <1>2, EndKept DEF Rollback
<1>3. ASSUME NEW request, Begin(a, request), request.step = "load", request.op # "rotate",
             request.at = clock
      PROVE  Asked(a)' /\ Wrote(a)'
  <2>1. session'[a] = request /\ clock' = clock
    BY <1>1, <1>3 DEF Begin, TypeOK
  <2>. QED
    BY <1>1, <1>3, <2>1 DEF Asked, Wrote
<1>4. CASE BeginMark(a)
  BY <1>3, <1>4 DEF BeginMark, Idle
<1>5. CASE BeginGrace(a)
  BY <1>3, <1>5 DEF BeginGrace, Idle
<1>6. ASSUME NEW step \in {"update", "commit"}, Advance(a, step), s.step \in {"load", "update"},
             UNCHANGED <<keys, clock>>
      PROVE  /\ Asked(a)' /\ session'[a].step = step /\ session'[a].op = s.op /\ s.op # "rotate"
             /\ session'[a].version = v /\ UpdatedRow(a)' = UpdatedRow(a)
  <2>1. /\ session'[a].step = step /\ session'[a].version = v
        /\ session'[a].op = s.op /\ session'[a].at = s.at /\ session'[a].days = s.days
    BY <1>1, <1>6 DEF TypeOK, Session, Advance
  <2>2. s.op # "rotate"
    BY <1>1, <1>6 DEF Holding
  <2>3. UpdatedRow(a)' = UpdatedRow(a)
    BY <1>6, <2>1 DEF UpdatedRow
  <2>4. Asked(a)'
    BY <1>1, <1>6, <2>1, <2>2 DEF Asked
  <2>. QED
    BY <2>1, <2>2, <2>3, <2>4
<1>7. CASE LoadRetiredKey(a) /\ Advance(a, "update") /\ UNCHANGED <<keys, clock>>
  <2>1. s.step = "load"
    BY <1>7 DEF LoadRetiredKey
  <2>2. Asked(a)' /\ session'[a].step = "update"
    BY <1>6, <1>7, <2>1
  <2>. QED
    BY <2>2 DEF Wrote
<1>8. CASE /\ s.step = "update" /\ RowChecks(UpdatedRow(a))
           /\ written' = [written EXCEPT ![a] = Put(@, v, UpdatedRow(a))]
           /\ Advance(a, "commit") /\ UNCHANGED <<keys, clock>>
  <2>1. /\ Asked(a)' /\ session'[a].step = "commit" /\ session'[a].op = s.op /\ s.op # "rotate"
        /\ session'[a].version = v /\ UpdatedRow(a)' = UpdatedRow(a)
    BY <1>6, <1>8
  <2>2. written'[a][v] = UpdatedRow(a)
    BY <1>1, <1>8 DEF TypeOK, Put
  <2>. QED
    BY <1>8, <2>1, <2>2 DEF Wrote
<1>. QED
  BY <1>2, <1>4, <1>5, <1>7, <1>8 DEF Updating, LoadRetiredKey, UpdateKey

-----------------------------------------------------------------------------
(* What a start-up has concluded *)

(* BootVerdict, of one process. *)
Verdict(p) ==
  LET b == boot[p]
  IN  /\ b.step = "ready" =>
           b.adopted \in DOMAIN keys /\ EnvKey[p] \in {NULL, keys[b.adopted].material}
      /\ b.step = "failed" =>
           \/ b.adopted \in DOMAIN keys /\ EnvKey[p] \notin {NULL, keys[b.adopted].material}
           \/ b.adopted = 0 /\ sequence = MaxVersion

LEMMA NonEmpty ==
  ASSUME NEW t, IsTable(t)
  PROVE  t # NoRows <=> DOMAIN t # {}
<1>1. DOMAIN t = {} => t = NoRows
  BY DEF IsTable, NoRows
<1>. QED
  BY <1>1, NoRowsDomain

(* A verdict outlives every later change of the table. *)
LEMMA VerdictKept ==
  ASSUME NEW p \in Booters, Verdict(p), boot'[p] = boot[p], Appended,
         sequence \in Nat, sequence' \in 0..MaxVersion, sequence <= sequence'
  PROVE  Verdict(p)'
<1>1. sequence = MaxVersion => sequence' = MaxVersion
  BY MaxVersionAssumption
<1>2. \A v \in DOMAIN keys : v \in DOMAIN keys' /\ keys'[v].material = keys[v].material
  BY DEF Appended
<1>. QED
  BY <1>1, <1>2 DEF Verdict

(* buildKeySet over rows of the table, the active one among them. *)
LEMMA AdoptVerdict ==
  ASSUME TypeOK, NEW p \in Booters, NEW table, Adopt(p, table),
         NEW u \in DOMAIN table, Active(table) = {u},
         \A v \in DOMAIN table : v \in DOMAIN keys' /\ keys'[v] = table[v]
  PROVE  Verdict(p)' /\ boot'[p].step \in {"ready", "failed"}
<1>1. PICK v \in DOMAIN table :
        boot' = [boot EXCEPT ![p] = [Down EXCEPT
            !.step = IF EnvMismatch(p, table[v].material) THEN "failed" ELSE "ready",
            !.adopted = v]]
  BY DEF Adopt
<1>2. /\ boot'[p].step = IF EnvMismatch(p, table[v].material) THEN "failed" ELSE "ready"
      /\ boot'[p].adopted = v
  BY <1>1 DEF TypeOK, Down
<1>3. v \in DOMAIN keys' /\ keys'[v].material = table[v].material
  OBVIOUS
<1>. QED
  BY <1>2, <1>3 DEF Verdict, EnvMismatch

LEMMA BootToFields ==
  ASSUME TypeOK, NEW p \in Booters, NEW step, BootTo(p, step)
  PROVE  boot'[p].step = step /\ boot'[p].adopted = 0
BY DEF TypeOK, BootTo, Down

(* The active key is always usable, so a load of any rows adopts it. *)
LEMMA LoadVerdict ==
  ASSUME HInv, NEW p \in Booters, Load(p), keys' = keys, DOMAIN keys # {}
  PROVE  Verdict(p)' /\ boot'[p].step \in {"ready", "failed"}
<1>. DEFINE table == [v \in Usable(keys, clock) |-> keys[v]]
<1>1. TypeOK /\ IsTable(keys) /\ OneActive
  BY DEF HInv, IInv, TypeOK
<1>2. PICK u \in DOMAIN keys : Active(keys) = {u}
  BY <1>1, NonEmpty DEF OneActive
<1>3. u \in Usable(keys, clock) /\ Usable(keys, clock) \subseteq DOMAIN keys
  BY <1>2 DEF Usable, Active
<1>4. Active(table) = {u}
  BY <1>2, <1>3 DEF Active
<1>5. \A v \in DOMAIN table : v \in DOMAIN keys' /\ keys'[v] = table[v]
  BY <1>3
<1>6. u \in DOMAIN table /\ Adopt(p, table)
  BY <1>3 DEF Load
<1>. HIDE DEF table
<1>. QED
  BY <1>1, <1>4, <1>5, <1>6, AdoptVerdict

LEMMA BootOwn ==
  ASSUME HInv, NEW p \in Booters, Booting(p) \/ Restart(p)
  PROVE  Verdict(p)' /\ (boot'[p].step = "reload" => DOMAIN keys' # {})
<1>1. TypeOK /\ IsTable(keys)
  BY DEF HInv, IInv, TypeOK
<1>2. ASSUME NEW step \in {"load", "insert", "seed"}, boot'[p].step = step
      PROVE  Verdict(p)' /\ boot'[p].step # "reload"
  BY <1>2 DEF Verdict
<1>3. ASSUME BootTo(p, "reload"), DOMAIN keys' # {}
      PROVE  Verdict(p)' /\ DOMAIN keys' # {}
  BY <1>1, <1>3, BootToFields DEF Verdict
<1>4. CASE BootLoad(p)
  <2>1. CASE \E m : boot' = [boot EXCEPT ![p].step = "seed", ![p].seed = m]
    <3>1. boot'[p].step = "seed"
      BY <1>1, <2>1 DEF TypeOK, Boot
    <3>. QED
      BY <1>2, <3>1
  <2>2. CASE Usable(keys, clock) # {} /\ Load(p) /\ keys' = keys
    <3>1. DOMAIN keys # {}
      BY <2>2 DEF Usable
    <3>. QED
      BY <2>2, <3>1, LoadVerdict
  <2>. QED
    BY <1>4, <2>1, <2>2 DEF BootLoad
<1>5. CASE BootSeed(p)
  <2>1. CASE boot' = [boot EXCEPT ![p].step = "insert"]
    <3>1. boot'[p].step = "insert"
      BY <1>1, <2>1 DEF TypeOK, Boot
    <3>. QED
      BY <1>2, <3>1
  <2>2. CASE keys # NoRows /\ BootTo(p, "reload") /\ keys' = keys
    BY <1>1, <1>3, <2>2, NonEmpty
  <2>. QED
    BY <1>5, <2>1, <2>2 DEF BootSeed
<1>6. CASE BootInsert(p)
  <2>1. CASE keys' # keys
    <3>. DEFINE n == sequence + 1
    <3>1. DOMAIN keys' = {n} /\ IsActive(keys'[n]) /\ Adopt(p, keys')
      BY <1>6, <2>1, BootChanges
    <3>2. Active(keys') = {n} /\ n \in DOMAIN keys'
      BY <3>1 DEF Active
    <3>3. Verdict(p)' /\ boot'[p].step \in {"ready", "failed"}
      BY <1>1, <3>1, <3>2, AdoptVerdict
    <3>. QED
      BY <3>3
  <2>2. CASE keys' = keys /\ Exhausted /\ BootTo(p, "failed") /\ sequence' = sequence
    BY <1>1, <2>2, BootToFields DEF Verdict, Exhausted
  <2>3. CASE keys' = keys /\ SeedConflicts(p) /\ BootTo(p, "reload")
    BY <1>3, <2>3 DEF SeedConflicts, Active, OnFile
  <2>4. CASE keys' = keys /\ ~Exhausted /\ ~SeedConflicts(p)
    <3>1. keys' = Put(keys, sequence + 1, FreshRow(boot[p].seed)) /\ Active(keys) = {}
      BY <1>6, <2>4 DEF BootInsert, SeedConflicts
    <3>2. IsActive(FreshRow(boot[p].seed))
      BY FreshRowSound
    <3>. QED
      BY <2>4, <3>1, <3>2 DEF Put, Active
  <2>. QED
    BY <1>6, <2>1, <2>2, <2>3, <2>4 DEF BootInsert
<1>7. CASE BootReload(p)
  <2>1. DOMAIN keys # {} /\ keys' = keys /\ Load(p)
    BY <1>1, <1>7, NonEmpty DEF BootReload, HInv, LosersReload
  <2>. QED
    BY <2>1, LoadVerdict
<1>8. CASE Restart(p)
  BY <1>1, <1>2, <1>8, BootToFields DEF Restart
<1>. QED
  BY <1>4, <1>5, <1>6, <1>7, <1>8 DEF Booting

-----------------------------------------------------------------------------
(* The invariant *)

LEMMA HInit == AdminInit => HInv
<1>. SUFFICES ASSUME AdminInit
              PROVE  HInv
  OBVIOUS
<1>2. IInv
  BY InitInv
<1>3. DOMAIN keys = {}
  BY NoRowsDomain DEF AdminInit, RingInit
<1>4. SoundTable
  BY <1>3 DEF SoundTable
<1>5. \A p \in Booters : boot[p].step = "load"
  BY DEF AdminInit, Down
<1>6. BootVerdict /\ LosersReload
  BY <1>5 DEF BootVerdict, LosersReload
<1>7. ASSUME NEW a \in Admins PROVE Asked(a) /\ Wrote(a)
  BY DEF AdminInit, RingInit, Asked, Wrote, Idle
<1>. QED
  BY <1>2, <1>4, <1>6, <1>7 DEF HInv

LEMMA SequenceGrows ==
  ASSUME [AdminNext]_vars, sequence \in Nat
  PROVE  sequence <= sequence'
<1>1. ASSUME NEW a \in Admins, Rotating(a) \/ Updating(a) \/ Fail(a) \/ Commit(a)
      PROVE  sequence' \in {sequence, sequence + 1}
  BY <1>1 DEF Rotating, BeginRotate, MatchActive, RetireActive, InsertActive, Updating, BeginMark,
              BeginGrace, LoadRetiredKey, UpdateKey, Fail, Commit, Begin, Rollback
<1>2. ASSUME NEW p \in Booters, Booting(p) \/ Restart(p)
      PROVE  sequence' \in {sequence, sequence + 1}
  BY <1>2 DEF Booting, BootLoad, BootSeed, BootInsert, BootReload, Restart, BootKeeps
<1>. QED
  BY <1>1, <1>2 DEF AdminNext, AdminTick, vars

LEMMA StepFacts ==
  ASSUME HInv, [AdminNext]_vars
  PROVE  /\ IInv' /\ SoundTable' /\ Appended /\ IsTable(keys')
         /\ clock <= clock' /\ clock' \in Nat
         /\ sequence \in Nat /\ sequence <= sequence' /\ sequence' \in 0..MaxVersion
<1>1. IInv /\ IInv' /\ SoundTable' /\ Appended
  BY NextInv, TableStep DEF HInv
<1>2. TypeOK /\ TypeOK'
  BY <1>1 DEF IInv
<1>3. /\ clock \in Nat /\ clock' \in Nat /\ sequence \in Nat /\ IsTable(keys')
      /\ sequence' \in 0..MaxVersion
  BY <1>2, MaxVersionAssumption DEF TypeOK
<1>4. clock <= clock'
  BY <1>3, ClockSteps DEF AdminTick, Tick
<1>. QED
  BY <1>1, <1>3, <1>4, SequenceGrows

(* A request's step leaves the other requests alone. *)
LEMMA LocalToAdmin ==
  ASSUME TypeOK, NEW a \in Admins, Rotating(a) \/ Updating(a) \/ Commit(a) \/ Fail(a)
  PROVE  /\ \A b \in Admins \ {a} :
              session'[b] = session[b] /\ written'[b] = written[b] /\ reply'[b] = reply[b]
         /\ UNCHANGED boot
<1>1. ASSUME NEW answer, EndRequest(a, answer)
      PROVE  \A b \in Admins \ {a} :
               session'[b] = session[b] /\ written'[b] = written[b] /\ reply'[b] = reply[b]
  BY <1>1 DEF EndRequest, TypeOK
<1>2. ASSUME NEW request, Begin(a, request)
      PROVE  \A b \in Admins \ {a} :
               session'[b] = session[b] /\ written'[b] = written[b] /\ reply'[b] = reply[b]
  BY <1>2 DEF Begin, TypeOK
<1>3. CASE Rotating(a)
  BY <1>1, <1>2, <1>3 DEF Rotating, BeginRotate, MatchActive, RetireActive, InsertActive, Begin,
                          Rollback, Advance, TypeOK
<1>4. CASE Updating(a)
  BY <1>1, <1>2, <1>4 DEF Updating, BeginMark, BeginGrace, LoadRetiredKey, UpdateKey, Begin,
                          Rollback, Advance, TypeOK
<1>5. CASE Commit(a) \/ Fail(a)
  BY <1>1, <1>5 DEF Commit, Fail, Rollback
<1>. QED
  BY <1>3, <1>4, <1>5

LEMMA HStep ==
  ASSUME HInv, [AdminNext]_vars
  PROVE  HInv'
<1>1. /\ IInv' /\ SoundTable' /\ Appended /\ IsTable(keys')
      /\ clock <= clock' /\ clock' \in Nat
      /\ sequence \in Nat /\ sequence <= sequence' /\ sequence' \in 0..MaxVersion
  BY StepFacts
<1>2. TypeOK /\ IsTable(keys) /\ BootVerdict /\ LosersReload
  BY DEF HInv, IInv, TypeOK
<1>3. ASSUME NEW b \in Admins, session'[b] = session[b]
      PROVE  Asked(b)'
  BY <1>1, <1>3, AskedKept
<1>4. ASSUME NEW p \in Booters, boot'[p] = boot[p]
      PROVE  Verdict(p)' /\ (boot'[p].step = "reload" => DOMAIN keys' # {})
  <2>1. Verdict(p)
    BY <1>2 DEF BootVerdict, Verdict
  <2>2. Verdict(p)'
    BY <1>1, <1>4, <2>1, VerdictKept
  <2>3. boot[p].step = "reload" => DOMAIN keys # {}
    BY <1>2, NonEmpty DEF LosersReload
  <2>. QED
    BY <1>1, <1>4, <2>2, <2>3 DEF Appended
<1>5. SUFFICES /\ \A p \in Booters : Verdict(p)' /\ (boot'[p].step = "reload" => DOMAIN keys' # {})
               /\ \A b \in Admins : Asked(b)' /\ Wrote(b)'
  <2>1. (\A p \in Booters : Verdict(p)') => BootVerdict'
    BY DEF BootVerdict, Verdict
  <2>2. (\A p \in Booters : boot'[p].step = "reload" => DOMAIN keys' # {}) => LosersReload'
    BY <1>1, NonEmpty DEF LosersReload
  <2>. QED
    BY <1>1, <2>1, <2>2 DEF HInv
<1>6. ASSUME NEW a \in Admins, Rotating(a) \/ Updating(a) \/ Fail(a)
      PROVE  /\ \A p \in Booters : boot'[p] = boot[p]
             /\ \A b \in Admins : Asked(b)' /\ Wrote(b)'
  <2>1. /\ \A b \in Admins \ {a} : session'[b] = session[b] /\ written'[b] = written[b]
        /\ UNCHANGED boot
    BY <1>2, <1>6, LocalToAdmin
  <2>2. UNCHANGED keys
    BY <1>6 DEF Rotating, BeginRotate, MatchActive, RetireActive, InsertActive, Updating, BeginMark,
                BeginGrace, LoadRetiredKey, UpdateKey, Fail, Begin, Rollback
  <2>3. Asked(a)' /\ Wrote(a)'
    <3>1. CASE Rotating(a)
      BY <3>1, OwnBeginRotate, OwnMatch, OwnRetire, OwnInsert DEF Rotating
    <3>2. CASE Updating(a)
      BY <3>2, OwnUpdate
    <3>3. CASE Fail(a)
      BY <1>1, <1>2, <3>3, EndKept DEF Fail, Rollback
    <3>. QED
      BY <1>6, <3>1, <3>2, <3>3
  <2>4. ASSUME NEW b \in Admins \ {a} PROVE Asked(b)' /\ Wrote(b)'
    BY <1>3, <2>1, <2>2, WroteKept DEF HInv
  <2>. QED
    BY <2>1, <2>3, <2>4
<1>7. ASSUME NEW a \in Admins, Commit(a)
      PROVE  /\ \A p \in Booters : boot'[p] = boot[p]
             /\ \A b \in Admins : Asked(b)' /\ Wrote(b)'
  <2>1. (\A b \in Admins \ {a} : session'[b] = session[b]) /\ UNCHANGED boot
    BY <1>2, <1>7, LocalToAdmin
  <2>2. Asked(a)' /\ Wrote(a)'
    BY <1>1, <1>2, <1>7, EndKept DEF Commit
  <2>3. ASSUME NEW b \in Admins \ {a} PROVE Asked(b)' /\ Wrote(b)'
    BY <1>3, <1>7, <2>1, WroteAcross
  <2>. QED
    BY <2>1, <2>2, <2>3
<1>8. ASSUME NEW p \in Booters, Booting(p) \/ Restart(p)
      PROVE  /\ \A q \in Booters \ {p} : boot'[q] = boot[q]
             /\ \A b \in Admins : Asked(b)' /\ Wrote(b)'
  <2>1. UNCHANGED <<session, written>>
    BY <1>8 DEF Booting, BootLoad, BootSeed, BootInsert, BootReload, Restart, BootKeeps
  <2>2. \A q \in Booters \ {p} : boot'[q] = boot[q]
    BY <1>2, <1>8 DEF Booting, BootLoad, BootSeed, BootInsert, BootReload, Restart, BootTo, Load,
                      Adopt, TypeOK
  <2>3. keys' = keys \/ DOMAIN keys = {}
    <3>1. CASE BootInsert(p)
      BY <3>1, BootChanges
    <3>2. CASE ~BootInsert(p)
      BY <1>8, <3>2 DEF Booting, BootLoad, BootSeed, BootReload, Restart
    <3>. QED
      BY <3>1, <3>2
  <2>4. ASSUME NEW b \in Admins PROVE Asked(b)' /\ Wrote(b)'
    BY <1>3, <2>1, <2>3, WroteKept, WroteBoot DEF HInv
  <2>. QED
    BY <2>2, <2>4
<1>9. ASSUME UNCHANGED <<keys, session, written, boot>>
      PROVE  /\ \A p \in Booters : boot'[p] = boot[p]
             /\ \A b \in Admins : Asked(b)' /\ Wrote(b)'
  <2>1. ASSUME NEW b \in Admins PROVE Asked(b)' /\ Wrote(b)'
    BY <1>3, <1>9, WroteKept DEF HInv
  <2>. QED
    BY <1>9, <2>1
<1>10. CASE \E a \in Admins : Rotating(a) \/ Updating(a) \/ Commit(a) \/ Fail(a)
  BY <1>4, <1>6, <1>7, <1>10
<1>11. CASE \E p \in Booters : Booting(p) \/ Restart(p)
  BY <1>4, <1>8, <1>11, BootOwn
<1>12. CASE AdminTick \/ UNCHANGED vars
  BY <1>4, <1>9, <1>12 DEF AdminTick, Tick, vars
<1>. QED
  BY <1>10, <1>11, <1>12 DEF AdminNext

(* What requests have read and written, and start-ups concluded, at every  *)
(* point between two statements: the inductive invariant of this module.   *)
THEOREM HistoryInvariance == AdminSpec => []HInv
<1>1. HInv /\ [AdminNext]_vars => HInv'
  BY HStep
<1>. QED
  BY <1>1, HInit, PTL DEF AdminSpec

-----------------------------------------------------------------------------
(* The theorems *)

(* The committed table satisfies its CHECKs and never holds one key        *)
(* material twice, whatever requests and start-ups overlap or fail.        *)
THEOREM TableSound == AdminSpec => []SoundTable
<1>1. HInv => SoundTable
  BY DEF HInv
<1>. QED
  BY <1>1, HistoryInvariance, PTL

(* First boot converges: a process that fails to start has been given      *)
(* another key than the active one, or meets an exhausted identity column. *)
THEOREM FirstBootConverges == AdminSpec => []BootVerdict
<1>1. HInv => BootVerdict
  BY DEF HInv
<1>. QED
  BY <1>1, HistoryInvariance, PTL

(* The 404 / 409 split of loadRetiredKey, made on a row read without a     *)
(* lock, still holds when the UPDATE runs.                                 *)
THEOREM SplitKept == AdminSpec => []SplitHolds
<1>1. HInv => SplitHolds
  <2>. SUFFICES ASSUME HInv, NEW a \in Admins, session[a].step = "update"
                PROVE  /\ session[a].version \in DOMAIN keys \ Active(keys)
                       /\ ~RowChecks(UpdatedRow(a)) =>
                            /\ session[a].op = "grace" /\ session[a].days # NULL
                            /\ session[a].at + session[a].days * Day
                                 < keys[session[a].version].retired
    BY DEF SplitHolds
  <2>. DEFINE s == session[a]
              row == keys[s.version]
  <2>1. TypeOK /\ Holding(a) /\ SoundTable
    BY DEF HInv, IInv, Uncommitted
  <2>2. s.version \in DOMAIN keys /\ ~IsActive(row) /\ s.op # "rotate"
    BY <2>1 DEF Holding, NamesRetired
  <2>3. row \in KeyRow /\ s.at \in Nat /\ s.days \in AllowedDays /\ s \in Session
    BY <2>1, <2>2, RequestTypes
  <2>4. RowChecks(row) /\ row.retired \in Nat
    BY <2>1, <2>2, <2>3 DEF SoundTable, KeyRow, Instant, IsActive
  <2>5. ASSUME ~RowChecks(UpdatedRow(a))
        PROVE  /\ s.op = "grace" /\ s.days # NULL /\ s.at + s.days * Day < row.retired
    <3>1. s.op # "mark"
      BY <2>2, <2>3, <2>4, <2>5, FlaggedRowSound DEF UpdatedRow
    <3>2. s.op = "grace"
      BY <2>2, <2>3, <3>1 DEF Session, Op
    <3>. DEFINE new == GraceRow(row, s.at, s.days)
    <3>3. UpdatedRow(a) = new
      BY <3>1 DEF UpdatedRow
    <3>4. new.retired = row.retired /\ new.until = Deadline(s.at, s.days)
      BY <2>3 DEF GraceRow, KeyRow
    <3>5. ~RowChecks(new)
      BY <2>5, <3>3
    <3>. HIDE DEF new
    <3>6. new.until # NULL /\ ~(new.until >= new.retired)
      BY <2>2, <3>4, <3>5 DEF RowChecks, RetiredOnlyFlags, GraceAfterRetirement, IsActive
    <3>7. s.days # NULL /\ ~(s.at + s.days * Day >= row.retired)
      BY <3>4, <3>6 DEF Deadline
    <3>8. s.days \in Int /\ Day \in Int
      <4>1. s.days \in RequestDays
        BY <2>3, <3>7 DEF AllowedDays
      <4>2. Day \in Int
        BY DaysAssumption
      <4>3. RequestDays \subseteq Int
        BY DaysAssumption
      <4>. HIDE DEF s
      <4>. QED
        BY <4>1, <4>2, <4>3
    <3>9. s.days * Day \in Int
      BY <3>8
    <3>10. s.at + s.days * Day \in Int
      BY <2>3, <3>9
    <3>11. s.at + s.days * Day < row.retired
      BY <2>4, <3>7, <3>10
    <3>. QED
      BY <3>2, <3>7, <3>11
  <2>. QED
    BY <2>2, <2>5 DEF Active
<1>. QED
  BY <1>1, HistoryInvariance, PTL

(* History is append-only: no interleaving of operations, failures and     *)
(* first boots changes a row's material, moves a retirement or lifts a     *)
(* compromise flag, and a new key outranks every old one.                  *)
THEOREM HistoryAppendOnly == AdminSpec => AppendOnly
<1>1. HInv /\ [AdminNext]_vars => [Appended]_vars
  BY TableStep
<1>2. [Appended]_vars =>
        [/\ DOMAIN keys \subseteq DOMAIN keys'
         /\ \A v \in DOMAIN keys :
              /\ keys'[v].material = keys[v].material
              /\ ~IsActive(keys[v]) => keys'[v].retired = keys[v].retired
              /\ keys[v].compromised # NULL => keys'[v].compromised = keys[v].compromised
         /\ \A v \in DOMAIN keys' \ DOMAIN keys : \A w \in DOMAIN keys : w < v]_vars
  BY DEF Appended
<1>. QED
  BY <1>1, <1>2, HistoryInvariance, PTL DEF AdminSpec, AppendOnly

(* The statements of the admin routes and of first boot, interleaved in    *)
(* every order, implement the atomic operations of KeyRing.                *)
THEOREM Refinement == AdminSpec => ImplementsRing
<1>1. AdminInit => RingInit
  BY DEF AdminInit
<1>2. HInv /\ [AdminNext]_vars => [RingNext]_ringVars
  BY RingStep
<1>. QED
  BY <1>1, <1>2, HistoryInvariance, PTL DEF AdminSpec, ImplementsRing, RingSpec

(* Only the insert statement answers key_material_in_use, and only the     *)
(* retire statement no_active_key.                                         *)
LEMMA AnswersBy ==
  ASSUME TypeOK, [AdminNext]_vars, NEW a \in Admins, reply'[a] # reply[a]
  PROVE  /\ reply'[a] = "key_material_in_use" => InsertActive(a)
         /\ reply'[a] = "no_active_key" => MatchActive(a) \/ RetireActive(a)
<1>1. ASSUME NEW b \in Admins, NEW answer, EndRequest(b, answer), a # b PROVE FALSE
  BY <1>1 DEF EndRequest, TypeOK
<1>2. ASSUME NEW answer, EndRequest(a, answer) PROVE reply'[a] = answer
  BY <1>2 DEF EndRequest, TypeOK
<1>3. PICK b \in Admins : Rotating(b) \/ Updating(b) \/ Commit(b) \/ Fail(b)
  <2>1. ASSUME NEW p \in Booters, Booting(p) \/ Restart(p) PROVE UNCHANGED reply
    BY <2>1 DEF Booting, BootLoad, BootSeed, BootInsert, BootReload, Restart, BootKeeps
  <2>. QED
    BY <2>1 DEF AdminNext, AdminTick, vars
<1>4. b = a
  BY <1>3, LocalToAdmin
<1>5. ASSUME NEW request, Begin(a, request) PROVE reply'[a] = "none"
  BY <1>5 DEF Begin, TypeOK
<1>6. CASE BeginRotate(a) \/ BeginMark(a) \/ BeginGrace(a)
  BY <1>5, <1>6 DEF BeginRotate, BeginMark, BeginGrace
<1>7. CASE LoadRetiredKey(a) \/ UpdateKey(a) \/ Commit(a) \/ Fail(a)
  BY <1>2, <1>7 DEF LoadRetiredKey, UpdateKey, Commit, Fail, Rollback
<1>8. CASE MatchActive(a) \/ RetireActive(a)
  BY <1>2, <1>8 DEF MatchActive, RetireActive, Rollback
<1>9. CASE InsertActive(a)
  BY <1>2, <1>9 DEF InsertActive, Rollback
<1>. QED
  BY <1>3, <1>4, <1>6, <1>7, <1>8, <1>9 DEF Rotating, Updating

(* A rotation told that its material is on file was told the truth.        *)
THEOREM ConflictIsTrue == AdminSpec => ConflictNamesMaterial
<1>1. HInv /\ [AdminNext]_vars =>
        [\A a \in Admins :
           reply[a] # "key_material_in_use" /\ reply'[a] = "key_material_in_use"
             => session[a].material \in OnFile(keys)]_vars
  <2>. SUFFICES ASSUME HInv, [AdminNext]_vars, NEW a \in Admins,
                       reply[a] # "key_material_in_use", reply'[a] = "key_material_in_use"
                PROVE  session[a].material \in OnFile(keys)
    OBVIOUS
  <2>. DEFINE s == session[a]
              v == s.version
              w == written[a]
  <2>1. TypeOK /\ Holding(a) /\ Wrote(a)
    BY DEF HInv, IInv, Uncommitted
  <2>2. InsertActive(a) /\ s.step = "insert"
    BY <2>1, AnswersBy DEF InsertActive
  <2>3. HoldsActive(a) /\ DOMAIN w = {v} /\ w[v] = RotatedRow(a)
    BY <2>1, <2>2 DEF Holding, Wrote
  <2>4. v \in DOMAIN keys /\ Active(keys) = {v} /\ ~IsActive(w[v])
    BY <2>3 DEF HoldsActive, Active
  <2>5. ~ActiveTaken(a)
    BY <2>3, <2>4 DEF ActiveTaken, View, Overlay, Active
  <2>6. MaterialTaken(a)
    <3>1. CASE \E answer \in {"error"} : Rollback(a, answer)
      BY <2>1, <3>1 DEF Rollback, EndRequest, TypeOK
    <3>2. CASE UNCHANGED reply
      BY <3>2
    <3>. QED
      BY <2>2, <2>5, <3>1, <3>2 DEF InsertActive
  <2>7. w[v].material = keys[v].material
    <3>1. keys[v] \in KeyRow /\ s.at \in Nat /\ s.days \in AllowedDays /\ s.compromised \in BOOLEAN
      BY <2>1, <2>4, RequestTypes
    <3>. QED
      BY <2>3, <3>1, RetiredRowSound DEF RotatedRow
  <2>8. PICK u \in DOMAIN View(a) : View(a)[u].material = s.material
    BY <2>6 DEF MaterialTaken, OnFile
  <2>9. u \in DOMAIN keys /\ View(a)[u].material = keys[u].material
    BY <2>3, <2>4, <2>7 DEF View, Overlay
  <2>. QED
    BY <2>8, <2>9 DEF OnFile
<1>. QED
  BY <1>1, HistoryInvariance, PTL DEF AdminSpec, ConflictNamesMaterial

(* A rotation that loses the race for the active key loses it to a         *)
(* successor of the key it matched, and leaves the successor in place.     *)
THEOREM LoserHasSuccessor == AdminSpec => LoserLostToSuccessor
<1>1. HInv /\ [AdminNext]_vars =>
        [\A a \in Admins :
           reply[a] # "no_active_key" /\ reply'[a] = "no_active_key"
             => \/ keys = NoRows
                \/ \E v \in Active(keys) : session[a].version < v]_vars
  <2>. SUFFICES ASSUME HInv, [AdminNext]_vars, NEW a \in Admins,
                       reply[a] # "no_active_key", reply'[a] = "no_active_key",
                       keys # NoRows
                PROVE  \E v \in Active(keys) : session[a].version < v
    OBVIOUS
  <2>1. TypeOK /\ Holding(a) /\ Asked(a) /\ OneActive
    BY DEF HInv, IInv, Uncommitted
  <2>2. PICK u \in DOMAIN keys : Active(keys) = {u}
    BY <2>1 DEF OneActive
  <2>3. MatchActive(a) \/ RetireActive(a)
    BY <2>1, AnswersBy
  <2>4. ~MatchActive(a)
    BY <2>2 DEF MatchActive
  <2>5. session[a].step = "retire" /\ ~StillActive(session[a].version)
    BY <2>3, <2>4 DEF RetireActive
  <2>6. session[a].version <= u /\ session[a].version # u
    BY <2>1, <2>2, <2>5 DEF Asked, StillActive, Active
  <2>7. session[a].version \in Nat /\ u \in Nat
    BY <2>1, <2>2, RequestTypes
  <2>. QED
    BY <2>2, <2>6, <2>7
<1>. QED
  BY <1>1, HistoryInvariance, PTL DEF AdminSpec, LoserLostToSuccessor

-----------------------------------------------------------------------------
(* Row locks *)

(* A rotation past its retire statement holds the active row.              *)
LEMMA RotationHolds ==
  ASSUME HInv, NEW a \in Admins, session[a].op = "rotate", session[a].step \in {"insert", "commit"}
  PROVE  HoldsActive(a) /\ Active(keys) \subseteq DOMAIN written[a]
BY DEF HInv, IInv, Uncommitted, Holding, HoldsActive

(* The transactions cannot deadlock: a request that holds rows has no      *)
(* statement left that waits for a row, and a rotation's insert meets no   *)
(* uncommitted row in a unique index.                                      *)
THEOREM HoldersNeverWait == AdminSpec => []LockHoldersRun
<1>1. HInv => LockHoldersRun
  <2>. SUFFICES ASSUME HInv
                PROVE  LockHoldersRun
    OBVIOUS
  <2>1. ASSUME NEW a \in Admins PROVE Holding(a)
    BY DEF HInv, IInv, Uncommitted
  <2>2. ASSUME NEW a \in Admins, NEW b \in Admins, a # b, session[a].step = "insert"
        PROVE  DOMAIN written[b] \subseteq DOMAIN keys
    <3>. DEFINE v == session[a].version
    <3>1. session[a].op = "rotate" /\ Active(keys) = {v} /\ v \in DOMAIN written[a]
      BY <2>1, <2>2 DEF Holding, HoldsActive
    <3>2. v \notin DOMAIN written[b]
      BY <2>2, <3>1 DEF HInv, IInv, Uncommitted
    <3>3. ~(session[b].op = "rotate" /\ session[b].step \in {"insert", "commit"})
      BY <3>1, <3>2, RotationHolds
    <3>4. CASE session[b].step \in {"insert", "commit"}
      BY <2>1, <3>3, <3>4 DEF Holding, NamesRetired
    <3>5. CASE session[b].step \notin {"insert", "commit"}
      BY <2>1, <3>5, NoRowsDomain DEF Holding
    <3>. QED
      BY <3>4, <3>5
  <2>3. ASSUME NEW a \in Admins, written[a] # NoRows PROVE session[a].step \in {"insert", "commit"}
    BY <2>1, <2>3 DEF Holding
  <2>. QED
    BY <2>2, <2>3 DEF LockHoldersRun
<1>. QED
  BY <1>1, HistoryInvariance, PTL

-----------------------------------------------------------------------------
(* The lifecycle response *)

(* The row may be an earlier state of the other, of a key already retired. *)
Lags(old, row) ==
  /\ old.material = row.material /\ old.retired = row.retired
  /\ old.compromised \in {NULL, row.compromised}

(* The row a request has loaded is the committed one, or was. *)
Loaded(a) ==
  session[a].op # "rotate" /\ session[a].step \in {"update", "commit"}
    => Lags(seen[a], keys[session[a].version])

LEMMA LoadedKept ==
  ASSUME HInv, NEW a \in Admins, Loaded(a), Appended,
         session'[a] = session[a], seen'[a] = seen[a]
  PROVE  Loaded(a)'
<1>. DEFINE v == session[a].version
<1>. SUFFICES ASSUME session[a].op # "rotate", session[a].step \in {"update", "commit"}
              PROVE  Lags(seen[a], keys'[v])
  BY DEF Loaded
<1>1. Holding(a)
  BY DEF HInv, IInv, Uncommitted
<1>2. v \in DOMAIN keys /\ ~IsActive(keys[v])
  BY <1>1 DEF Holding, NamesRetired
<1>3. /\ keys'[v].material = keys[v].material /\ keys'[v].retired = keys[v].retired
      /\ keys[v].compromised # NULL => keys'[v].compromised = keys[v].compromised
  BY <1>2 DEF Appended
<1>4. Lags(seen[a], keys[v])
  BY DEF Loaded
<1>. QED
  BY <1>3, <1>4 DEF Lags

(* A request's own step loads the row, or keeps what it has loaded.        *)
LEMMA LoadedOwn ==
  ASSUME HInv, NEW a \in Admins, Loaded(a), Rotating(a) \/ Updating(a) \/ Commit(a) \/ Fail(a)
  PROVE  Loaded(a)'
<1>1. TypeOK /\ Holding(a)
  BY DEF HInv, IInv, Uncommitted
<1>2. ASSUME NEW answer, EndRequest(a, answer) PROVE Loaded(a)'
  BY <1>1, <1>2 DEF EndRequest, Idle, Loaded, TypeOK
<1>3. ASSUME NEW request, Begin(a, request), request.step \in {"match", "load"} PROVE Loaded(a)'
  BY <1>1, <1>3 DEF Begin, Loaded, TypeOK
<1>4. CASE BeginRotate(a) \/ BeginMark(a) \/ BeginGrace(a)
  BY <1>3, <1>4 DEF BeginRotate, BeginMark, BeginGrace, Idle
<1>5. ASSUME session[a].step \in {"match", "retire", "insert"}, session'[a].op = session[a].op
      PROVE  Loaded(a)'
  BY <1>1, <1>5 DEF Holding, Loaded
<1>6. CASE MatchActive(a)
  BY <1>1, <1>2, <1>5, <1>6 DEF MatchActive, Rollback, TypeOK, Session
<1>7. CASE RetireActive(a)
  BY <1>1, <1>2, <1>5, <1>7 DEF RetireActive, Rollback, Advance, TypeOK, Session
<1>8. CASE InsertActive(a)
  BY <1>1, <1>2, <1>5, <1>8 DEF InsertActive, Rollback, Advance, TypeOK, Session
<1>9. CASE LoadRetiredKey(a)
  <2>1. CASE \E answer : Rollback(a, answer)
    BY <1>2, <2>1 DEF Rollback
  <2>2. CASE ~\E answer : Rollback(a, answer)
    <3>1. /\ seen' = [seen EXCEPT ![a] = keys[session[a].version]]
          /\ Advance(a, "update") /\ UNCHANGED keys
      BY <1>9, <2>2 DEF LoadRetiredKey
    <3>2. session'[a].version = session[a].version
      BY <1>1, <3>1 DEF Advance, TypeOK, Session
    <3>3. seen'[a] = keys[session[a].version]
      BY <1>1, <3>1 DEF TypeOK
    <3>. QED
      BY <3>1, <3>2, <3>3 DEF Loaded, Lags
  <2>. QED
    BY <2>1, <2>2
<1>10. CASE UpdateKey(a)
  <2>1. CASE \E answer : Rollback(a, answer)
    BY <1>2, <2>1 DEF Rollback
  <2>2. CASE ~\E answer : Rollback(a, answer)
    <3>1. session[a].step = "update" /\ Advance(a, "commit") /\ UNCHANGED <<keys, seen>>
      BY <1>10, <2>2 DEF UpdateKey
    <3>2. session'[a].version = session[a].version /\ session'[a].op = session[a].op
      BY <1>1, <3>1 DEF Advance, TypeOK, Session
    <3>. QED
      BY <3>1, <3>2 DEF Loaded
  <2>. QED
    BY <2>1, <2>2
<1>11. CASE Commit(a) \/ Fail(a)
  BY <1>2, <1>11 DEF Commit, Fail, Rollback
<1>. QED
  BY <1>4, <1>6, <1>7, <1>8, <1>9, <1>10, <1>11 DEF Rotating, Updating

LEMMA LoadedStep ==
  ASSUME HInv, \A a \in Admins : Loaded(a), [AdminNext]_vars
  PROVE  \A a \in Admins : Loaded(a)'
<1>. SUFFICES ASSUME NEW a \in Admins PROVE Loaded(a)'
  OBVIOUS
<1>1. TypeOK /\ Appended
  BY TableStep DEF HInv, IInv
<1>2. CASE Rotating(a) \/ Updating(a) \/ Commit(a) \/ Fail(a)
  BY <1>2, LoadedOwn
<1>3. ASSUME NEW b \in Admins \ {a}, Rotating(b) \/ Updating(b) \/ Commit(b) \/ Fail(b)
      PROVE  Loaded(a)'
  <2>1. session'[a] = session[a]
    BY <1>1, <1>3, LocalToAdmin
  <2>2. seen'[a] = seen[a]
    <3>1. \A answer : EndRequest(b, answer) => seen'[a] = seen[a]
      BY <1>1 DEF EndRequest, TypeOK
    <3>. QED
      BY <1>1, <1>3, <3>1 DEF Rotating, BeginRotate, MatchActive, RetireActive, InsertActive,
         Updating, BeginMark, BeginGrace, LoadRetiredKey, UpdateKey, Fail, Commit, Begin, Rollback,
         TypeOK
  <2>. QED
    BY <1>1, <2>1, <2>2, LoadedKept
<1>4. ASSUME NEW p \in Booters, Booting(p) \/ Restart(p) PROVE Loaded(a)'
  <2>1. UNCHANGED <<session, seen>>
    BY <1>4 DEF Booting, BootLoad, BootSeed, BootInsert, BootReload, Restart, BootKeeps
  <2>. QED
    BY <1>1, <2>1, LoadedKept
<1>5. CASE AdminTick \/ UNCHANGED vars
  BY <1>1, <1>5, LoadedKept DEF AdminTick, vars
<1>. QED
  BY <1>2, <1>3, <1>4, <1>5 DEF AdminNext

(* Only COMMIT answers ok. *)
LEMMA OnlyCommitsAnswer ==
  ASSUME TypeOK, [AdminNext]_vars, NEW a \in Admins, reply[a] # "ok", reply'[a] = "ok"
  PROVE  Commit(a)
<1>1. ASSUME NEW answer, answer # "ok", EndRequest(a, answer) PROVE FALSE
  BY <1>1 DEF EndRequest, TypeOK
<1>2. PICK b \in Admins : Rotating(b) \/ Updating(b) \/ Commit(b) \/ Fail(b)
  <2>1. ASSUME NEW p \in Booters, Booting(p) \/ Restart(p) PROVE UNCHANGED reply
    BY <2>1 DEF Booting, BootLoad, BootSeed, BootInsert, BootReload, Restart, BootKeeps
  <2>. QED
    BY <2>1 DEF AdminNext, AdminTick, vars
<1>3. b = a
  BY <1>2, LocalToAdmin
<1>4. ASSUME NEW request, Begin(a, request) PROVE FALSE
  BY <1>4 DEF Begin, TypeOK
<1>5. ~(BeginRotate(a) \/ BeginMark(a) \/ BeginGrace(a))
  BY <1>4 DEF BeginRotate, BeginMark, BeginGrace
<1>6. ~(MatchActive(a) \/ RetireActive(a) \/ InsertActive(a))
  BY <1>1 DEF MatchActive, RetireActive, InsertActive, Rollback
<1>7. ~(LoadRetiredKey(a) \/ UpdateKey(a) \/ Fail(a))
  BY <1>1 DEF LoadRetiredKey, UpdateKey, Fail, Rollback
<1>. QED
  BY <1>2, <1>3, <1>5, <1>6, <1>7 DEF Rotating, Updating

(* The lifecycle response is wrong in one way only: it may lack what       *)
(* another request has set in the other column since the key was loaded.   *)
(* The column asked for, the retirement and any compromise date it names   *)
(* are the table's.                                                        *)
THEOREM ReportLagsOnly == AdminSpec => ReportOnlyLags
<1>. DEFINE LInv == \A a \in Admins : Loaded(a)
            Told(a) ==
              session[a].op \in {"mark", "grace"} /\ reply[a] = "none" /\ reply'[a] = "ok" =>
                LET told == ReportedRow(a)
                    row == keys'[session[a].version]
                IN  /\ told.material = row.material /\ told.retired = row.retired
                    /\ told.compromised \in {NULL, row.compromised}
                    /\ session[a].op = "mark" => told.compromised # NULL
                    /\ session[a].op = "grace" => told.until = row.until
<1>1. AdminInit => LInv
  BY DEF AdminInit, Loaded, Idle
<1>2. HInv /\ LInv /\ [AdminNext]_vars => LInv'
  BY LoadedStep
<1>3. HInv /\ LInv /\ [AdminNext]_vars => [\A a \in Admins : Told(a)]_vars
  <2>. SUFFICES ASSUME HInv, LInv, [AdminNext]_vars, NEW a \in Admins,
                       session[a].op \in {"mark", "grace"}, reply[a] = "none", reply'[a] = "ok"
                PROVE  Told(a)
    OBVIOUS
  <2>. DEFINE s == session[a]
              v == s.version
              told == ReportedRow(a)
              row == UpdatedRow(a)
  <2>1. TypeOK /\ Holding(a) /\ Wrote(a)
    BY DEF HInv, IInv, Uncommitted
  <2>2. Commit(a)
    BY <2>1, OnlyCommitsAnswer
  <2>3. s.step = "commit" /\ keys' = Overlay(keys, written[a])
    BY <2>2 DEF Commit
  <2>4. v \in DOMAIN keys /\ DOMAIN written[a] = {v} /\ written[a][v] = row
    BY <2>1, <2>3 DEF Holding, NamesRetired, Wrote
  <2>5. keys'[v] = row
    BY <2>3, <2>4 DEF Overlay
  <2>6. Lags(seen[a], keys[v]) /\ keys[v] \in KeyRow /\ s.at \in Nat
    BY <2>1, <2>3, <2>4, RequestTypes DEF Loaded
  <2>7. seen[a] \in [material : Materials \cup {NULL}, retired : Instant,
                    until : Instant, compromised : Instant]
    BY <2>1 DEF TypeOK
  <2>8. CASE s.op = "mark"
    <3>1. /\ told.material = seen[a].material /\ told.retired = seen[a].retired
          /\ told.compromised = row.compromised
      BY <2>4, <2>7, <2>8 DEF ReportedRow
    <3>2. /\ row.material = keys[v].material /\ row.retired = keys[v].retired
          /\ row.compromised # NULL
      BY <2>6, <2>8, NullAssumption DEF UpdatedRow, FlaggedRow, KeyRow
    <3>. QED
      BY <2>5, <2>6, <2>8, <3>1, <3>2 DEF Lags
  <2>9. CASE s.op = "grace"
    <3>1. /\ told.material = seen[a].material /\ told.retired = seen[a].retired
          /\ told.compromised = seen[a].compromised /\ told.until = row.until
      BY <2>4, <2>7, <2>9 DEF ReportedRow
    <3>2. /\ row.material = keys[v].material /\ row.retired = keys[v].retired
          /\ row.compromised = keys[v].compromised
      BY <2>6, <2>9 DEF UpdatedRow, GraceRow, KeyRow
    <3>. QED
      BY <2>5, <2>6, <2>9, <3>1, <3>2 DEF Lags
  <2>. QED
    BY <2>8, <2>9
<1>. QED
  BY <1>1, <1>2, <1>3, HistoryInvariance, PTL DEF AdminSpec, ReportOnlyLags
=============================================================================
