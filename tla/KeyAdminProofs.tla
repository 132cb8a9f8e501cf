--------------------------- MODULE KeyAdminProofs ---------------------------
(***************************************************************************)
(* Theorems about KeyAdmin, for every number of admins and processes and   *)
(* every bound: the committed key table never has two active keys, nor     *)
(* none once there is a first, whatever rotations, updates and first boots *)
(* overlap, fail half-way or lose their acknowledgement.                   *)
(***************************************************************************)
EXTENDS KeyAdmin, KeyRingProofs

LEMMA OverlayTable ==
  ASSUME NEW t, IsTable(t), NEW u, IsTable(u)
  PROVE  IsTable(Overlay(t, u))
BY DEF IsTable, Overlay

LEMMA UpdatedRowTypes ==
  ASSUME TypeOK, NEW a \in Admins, session[a].version \in DOMAIN keys
  PROVE  /\ UpdatedRow(a) \in KeyRow
         /\ IsActive(UpdatedRow(a)) <=> IsActive(keys[session[a].version])
<1>1. keys[session[a].version] \in KeyRow /\ session[a] \in Session
  BY DEF TypeOK, IsTable
<1>. QED
  BY <1>1, RowTypes DEF UpdatedRow, Session

-----------------------------------------------------------------------------
(* Type correctness *)

LEMMA IdleTypes ==
  /\ Idle \in Session
  /\ FreshRow(NULL) \in [material : Materials \cup {NULL}, retired : Instant, until : Instant,
                         compromised : Instant]
  /\ Down \in Boot
BY DEF Idle, Session, SessionStep, Op, AllowedDays, FreshRow, Instant, Down, Boot, BootStep

LEMMA RollbackTypes ==
  ASSUME TypeOK, NEW a \in Admins, NEW answer \in Reply, EndRequest(a, answer),
         IsTable(keys'), clock' \in Nat, sequence' \in 0..MaxVersion, UNCHANGED boot
  PROVE  TypeOK'
BY IdleTypes, NoRowsTable DEF TypeOK, EndRequest, IsTable

LEMMA AdvanceTypes ==
  ASSUME TypeOK, NEW a \in Admins, NEW step \in SessionStep, Advance(a, step)
  PROVE  session' \in [Admins -> Session]
BY DEF TypeOK, Advance, Session

LEMMA BootTypes ==
  ASSUME TypeOK, NEW p \in Booters, NEW step \in BootStep, BootTo(p, step)
  PROVE  boot' \in [Booters -> Boot]
BY IdleTypes DEF TypeOK, BootTo, Boot, Down

LEMMA AdoptTypes ==
  ASSUME TypeOK, NEW p \in Booters, NEW table, DOMAIN table \subseteq Versions, Adopt(p, table)
  PROVE  boot' \in [Booters -> Boot]
<1>1. CASE BootTo(p, "failed")
  BY <1>1, BootTypes DEF BootStep
<1>2. CASE ~BootTo(p, "failed")
  <2>1. PICK v \in DOMAIN table :
          \E step \in {"failed", "ready"} :
            boot' = [boot EXCEPT ![p] = [Down EXCEPT !.step = step, !.adopted = v]]
    BY <1>2 DEF Adopt
  <2>2. v \in Nat
    BY VersionsAssumption
  <2>. QED
    BY <2>1, <2>2, IdleTypes DEF TypeOK, Boot, BootStep, Down
<1>. QED
  BY <1>1, <1>2

LEMMA TypeInit == AdminInit => TypeOK
BY IdleTypes, NoRowsTable, MaxVersionAssumption
   DEF AdminInit, RingInit, TypeOK, Reply, NoRows, IsTable

(* The inductive invariant.  Inputs: a rotation carries its key material   *)
(* until it has been inserted, a first boot its seed.                      *)
Inputs ==
  /\ \A a \in Admins : session[a].step \in {"match", "retire", "insert"}
                          => session[a].material \in Materials
  /\ \A p \in Booters : boot[p].step \in {"seed", "insert"} => boot[p].seed \in Materials

IInv == TypeOK /\ Inputs /\ Uncommitted /\ OneActive

LEMMA TypeRotate ==
  ASSUME IInv, NEW a \in Admins, Rotating(a)
  PROVE  TypeOK'
<1>. USE DEF IInv
<1>1. CASE BeginRotate(a)
  <2>1. PICK terms \in RotationTerms, m \in Materials :
          Begin(a, [Idle EXCEPT !.step = "match", !.op = "rotate", !.at = clock,
                                !.days = terms.days, !.compromised = terms.compromised,
                                !.material = m])
    BY <1>1 DEF BeginRotate
  <2>2. terms.days \in AllowedDays /\ terms.compromised \in BOOLEAN
    BY DEF RotationTerms
  <2>3. session' \in [Admins -> Session]
    BY <2>1, <2>2, IdleTypes DEF Begin, TypeOK, Session, SessionStep, Op, Idle
  <2>. QED
    BY <2>1, <2>3 DEF Begin, TypeOK, Reply, IsTable
<1>2. CASE MatchActive(a)
  <2>1. CASE Rollback(a, "no_active_key")
    BY <1>2, <2>1, RollbackTypes DEF MatchActive, Rollback, Reply, TypeOK
  <2>2. ASSUME NEW v \in Active(keys),
               session' = [session EXCEPT ![a].step = "retire", ![a].version = v],
               UNCHANGED <<keys, clock, seen, written, reply, boot, sequence>>
        PROVE  TypeOK'
    <3>1. v \in Nat
      BY VersionsAssumption DEF Active, TypeOK, IsTable
    <3>2. session[a] \in Session
      BY DEF TypeOK
    <3>3. [session[a] EXCEPT !.step = "retire", !.version = v] \in Session
      BY <3>1, <3>2 DEF Session, SessionStep
    <3>4. session' = [session EXCEPT ![a] = [session[a] EXCEPT !.step = "retire", !.version = v]]
      BY <2>2, <3>2 DEF TypeOK, Session
    <3>5. session' \in [Admins -> Session]
      BY <3>3, <3>4 DEF TypeOK
    <3>. QED
      BY <2>2, <3>5 DEF TypeOK, IsTable
  <2>. QED
    BY <1>2, <2>1, <2>2 DEF MatchActive
<1>3. CASE RetireActive(a)
  <2>1. CASE Rollback(a, "no_active_key")
    BY <1>3, <2>1, RollbackTypes DEF RetireActive, Rollback, Reply, TypeOK
  <2>2. CASE ~Rollback(a, "no_active_key")
    <3> DEFINE s == session[a]
               row == RetiredRow(keys[s.version], s.at, s.days, s.compromised)
    <3>1. /\ written' = [written EXCEPT ![a] = Put(@, s.version, row)]
          /\ Advance(a, "insert")
          /\ UNCHANGED <<keys, clock, sequence, seen, reply, boot>>
      BY <1>3, <2>2 DEF RetireActive
    <3>2. s.version \in DOMAIN keys /\ s.version \in Versions
      BY <1>3 DEF RetireActive, Uncommitted, Holding, TypeOK, IsTable
    <3>3. keys[s.version] \in KeyRow /\ s \in Session
      BY <3>2 DEF TypeOK, IsTable
    <3>4. row \in KeyRow
      BY <3>3, RowTypes DEF Session
    <3>5. IsTable(Put(written[a], s.version, row))
      BY <3>2, <3>4, PutTable DEF TypeOK
    <3>6. session' \in [Admins -> Session]
      BY <3>1, AdvanceTypes DEF SessionStep
    <3>. QED
      BY <3>1, <3>5, <3>6 DEF TypeOK, IsTable
  <2>. QED
    BY <2>1, <2>2
<1>4. CASE InsertActive(a)
  <2>1. CASE \E answer \in {"error", "key_material_in_use"} : Rollback(a, answer)
    <3>1. sequence' \in 0..MaxVersion
      BY <1>4, MaxVersionAssumption DEF InsertActive, Exhausted, TypeOK
    <3>. QED
      BY <2>1, <3>1, RollbackTypes DEF Rollback, Reply, TypeOK, IsTable
  <2>2. CASE ~\E answer \in {"error", "key_material_in_use"} : Rollback(a, answer)
    <3> DEFINE row == FreshRow(session[a].material)
    <3>0. ~Exhausted => sequence < MaxVersion
      BY MaxVersionAssumption DEF Exhausted, TypeOK
    <3>1. /\ sequence < MaxVersion /\ sequence' = sequence + 1
          /\ written' = [written EXCEPT ![a] = Put(@, sequence + 1, row)]
          /\ Advance(a, "commit")
          /\ UNCHANGED <<keys, clock, seen, reply, boot>>
      BY <1>4, <2>2, <3>0 DEF InsertActive
    <3>2. sequence + 1 \in Versions /\ sequence' \in 0..MaxVersion
      BY <3>1, MaxVersionAssumption DEF TypeOK
    <3>3. row \in KeyRow
      BY <1>4, FreshRowTypes DEF InsertActive, Inputs
    <3>4. IsTable(Put(written[a], sequence + 1, row))
      BY <3>2, <3>3, PutTable DEF TypeOK
    <3>5. session' \in [Admins -> Session]
      BY <3>1, AdvanceTypes DEF SessionStep
    <3>. QED
      BY <3>1, <3>2, <3>4, <3>5 DEF TypeOK, IsTable
  <2>. QED
    BY <2>1, <2>2
<1>. QED
  BY <1>1, <1>2, <1>3, <1>4 DEF Rotating

LEMMA TypeUpdate ==
  ASSUME IInv, NEW a \in Admins, Updating(a)
  PROVE  TypeOK'
<1>. USE DEF IInv
<1>1. CASE BeginMark(a) \/ BeginGrace(a)
  <2>1. PICK request \in Session : Begin(a, request)
    <3>1. ASSUME NEW v \in Versions, NEW days \in AllowedDays
          PROVE  /\ [Idle EXCEPT !.step = "load", !.op = "mark", !.at = clock, !.version = v]
                      \in Session
                 /\ [Idle EXCEPT !.step = "load", !.op = "grace", !.at = clock, !.version = v,
                                 !.days = days] \in Session
      BY IdleTypes, VersionsAssumption DEF TypeOK, Session, SessionStep, Op, Idle
    <3>2. NULL \in AllowedDays
      BY DEF AllowedDays
    <3>. QED
      BY <1>1, <3>1, <3>2 DEF BeginMark, BeginGrace
  <2>. QED
    BY <2>1 DEF Begin, TypeOK, Reply, IsTable
<1>2. CASE LoadRetiredKey(a)
  <2>1. CASE \E answer \in {"not_found", "version_active"} : Rollback(a, answer)
    BY <1>2, <2>1, RollbackTypes DEF LoadRetiredKey, Rollback, Reply, TypeOK, IsTable
  <2>2. CASE ~\E answer \in {"not_found", "version_active"} : Rollback(a, answer)
    <3> DEFINE v == session[a].version
    <3>1. /\ v \in DOMAIN keys
          /\ seen' = [seen EXCEPT ![a] = keys[v]]
          /\ Advance(a, "update")
          /\ UNCHANGED <<keys, clock, sequence, written, reply, boot>>
      BY <1>2, <2>2 DEF LoadRetiredKey
    <3>2. keys[v] \in [material : Materials \cup {NULL}, retired : Instant, until : Instant,
                       compromised : Instant]
      BY <3>1 DEF TypeOK, IsTable, KeyRow
    <3>3. session' \in [Admins -> Session]
      BY <3>1, AdvanceTypes DEF SessionStep
    <3>. QED
      BY <3>1, <3>2, <3>3 DEF TypeOK, IsTable
  <2>. QED
    BY <2>1, <2>2
<1>3. CASE UpdateKey(a)
  <2>1. CASE Rollback(a, "error")
    BY <1>3, <2>1, RollbackTypes DEF UpdateKey, Rollback, Reply, TypeOK, IsTable
  <2>2. CASE ~Rollback(a, "error")
    <3> DEFINE v == session[a].version
    <3>1. /\ written' = [written EXCEPT ![a] = Put(@, v, UpdatedRow(a))]
          /\ Advance(a, "commit")
          /\ UNCHANGED <<keys, clock, sequence, seen, reply, boot>>
      BY <1>3, <2>2 DEF UpdateKey
    <3>2. v \in DOMAIN keys /\ v \in Versions
      BY <1>3 DEF UpdateKey, Uncommitted, Holding, NamesRetired, TypeOK, IsTable
    <3>3. UpdatedRow(a) \in KeyRow
      BY <3>2, UpdatedRowTypes
    <3>4. IsTable(Put(written[a], v, UpdatedRow(a)))
      BY <3>2, <3>3, PutTable DEF TypeOK
    <3>5. session' \in [Admins -> Session]
      BY <3>1, AdvanceTypes DEF SessionStep
    <3>. QED
      BY <3>1, <3>4, <3>5 DEF TypeOK, IsTable
  <2>. QED
    BY <2>1, <2>2
<1>. QED
  BY <1>1, <1>2, <1>3 DEF Updating

LEMMA TypeEnd ==
  ASSUME IInv, NEW a \in Admins, Commit(a) \/ Fail(a)
  PROVE  TypeOK'
<1>. USE DEF IInv
<1>1. CASE Commit(a)
  <2>1. IsTable(keys')
    BY <1>1, OverlayTable DEF Commit, TypeOK
  <2>2. PICK answer \in {"ok", "error"} : EndRequest(a, answer)
    BY <1>1 DEF Commit
  <2>3. clock' \in Nat /\ sequence' \in 0..MaxVersion /\ UNCHANGED boot
    BY <1>1 DEF Commit, TypeOK
  <2>. QED
    BY <2>1, <2>2, <2>3, RollbackTypes DEF Reply
<1>2. CASE Fail(a)
  BY <1>2, RollbackTypes DEF Fail, Rollback, Reply, TypeOK, IsTable
<1>. QED
  BY <1>1, <1>2

LEMMA TypeBoot ==
  ASSUME IInv, NEW p \in Booters, Booting(p) \/ Restart(p)
  PROVE  TypeOK'
<1>. USE DEF IInv
<1>1. /\ UNCHANGED <<clock, session, seen, written, reply>>
      /\ IsTable(keys') /\ sequence' \in 0..MaxVersion /\ boot' \in [Booters -> Boot]
      => TypeOK'
  BY DEF TypeOK, IsTable
<1>2. DOMAIN keys \subseteq Versions /\ IsTable(keys) /\ sequence \in 0..MaxVersion
  BY DEF TypeOK, IsTable
<1>3. ASSUME Load(p)
      PROVE  boot' \in [Booters -> Boot]
  <2> DEFINE table == [v \in Usable(keys, clock) |-> keys[v]]
  <2>1. DOMAIN table \subseteq Versions
    BY <1>2 DEF Usable
  <2>. HIDE DEF table
  <2>. QED
    BY <1>3, <2>1, AdoptTypes DEF Load, table
<1>4. CASE BootLoad(p)
  <2>1. ASSUME NEW m \in Materials,
               boot' = [boot EXCEPT ![p].step = "seed", ![p].seed = m]
        PROVE  boot' \in [Booters -> Boot]
    <3>1. [boot[p] EXCEPT !.step = "seed", !.seed = m] \in Boot
      BY DEF TypeOK, Boot, BootStep
    <3>2. boot' = [boot EXCEPT ![p] = [boot[p] EXCEPT !.step = "seed", !.seed = m]]
      BY <2>1 DEF TypeOK, Boot
    <3>. QED
      BY <3>1, <3>2 DEF TypeOK
  <2>2. boot' \in [Booters -> Boot]
    BY <1>3, <1>4, <2>1, EnvKeyAssumption DEF BootLoad
  <2>. QED
    BY <1>1, <1>2, <1>4, <2>2 DEF BootLoad, BootKeeps, IsTable
<1>5. CASE BootSeed(p)
  <2>1. boot' \in [Booters -> Boot]
    BY <1>5, BootTypes DEF BootSeed, TypeOK, Boot, BootStep
  <2>. QED
    BY <1>1, <1>2, <1>5, <2>1 DEF BootSeed, BootKeeps, IsTable
<1>6. CASE BootInsert(p)
  <2> DEFINE table == Put(keys, sequence + 1, FreshRow(boot[p].seed))
  <2>1. sequence' \in 0..MaxVersion
    BY <1>6, MaxVersionAssumption DEF BootInsert, Exhausted, TypeOK
  <2>2. sequence < MaxVersion => IsTable(table)
    <3>1. FreshRow(boot[p].seed) \in KeyRow
      BY <1>6, FreshRowTypes DEF BootInsert, Inputs
    <3>2. sequence < MaxVersion => sequence + 1 \in Versions
      BY MaxVersionAssumption DEF TypeOK
    <3>. QED
      BY <1>2, <3>1, <3>2, PutTable
  <2>. HIDE DEF table
  <2>0. ~Exhausted => sequence < MaxVersion
    BY MaxVersionAssumption DEF Exhausted, TypeOK
  <2>3. \/ UNCHANGED keys /\ \E step \in {"failed", "reload"} : BootTo(p, step)
        \/ sequence < MaxVersion /\ keys' = table /\ Adopt(p, table)
    BY <1>6, <2>0 DEF BootInsert, SeedConflicts, table
  <2>4. boot' \in [Booters -> Boot]
    BY <2>2, <2>3, BootTypes, AdoptTypes DEF BootStep, IsTable
  <2>5. IsTable(keys')
    BY <1>2, <2>2, <2>3 DEF IsTable
  <2>. QED
    BY <1>1, <1>6, <2>1, <2>4, <2>5 DEF BootInsert, BootKeeps
<1>7. CASE BootReload(p)
  BY <1>1, <1>2, <1>3, <1>7 DEF BootReload, BootKeeps, IsTable
<1>8. CASE Restart(p)
  <2>1. boot' \in [Booters -> Boot]
    BY <1>8, BootTypes DEF Restart, BootStep
  <2>. QED
    BY <1>1, <1>2, <1>8, <2>1 DEF Restart, BootKeeps, IsTable
<1>. QED
  BY <1>4, <1>5, <1>6, <1>7, <1>8 DEF Booting

LEMMA TypeStep ==
  ASSUME IInv, [AdminNext]_vars
  PROVE  TypeOK'
<1>1. CASE AdminTick
  BY <1>1 DEF AdminTick, Tick, IInv, TypeOK, IsTable
<1>2. CASE UNCHANGED vars
  BY <1>2 DEF vars, IInv, TypeOK, IsTable
<1>. QED
  BY <1>1, <1>2, TypeRotate, TypeUpdate, TypeEnd, TypeBoot DEF AdminNext

LEMMA InputsStep ==
  ASSUME IInv, [AdminNext]_vars
  PROVE  Inputs'
<1>. USE DEF IInv
<1>1. ASSUME NEW a \in Admins, NEW answer, EndRequest(a, answer), UNCHANGED boot
      PROVE  Inputs'
  BY <1>1 DEF EndRequest, Idle, Inputs, TypeOK
<1>2. ASSUME NEW a \in Admins, NEW step, Advance(a, step), UNCHANGED boot,
             step \in {"match", "retire", "insert"} => session[a].material \in Materials
      PROVE  Inputs'
  BY <1>2 DEF Advance, Inputs, TypeOK, Session
<1>3. ASSUME NEW a \in Admins, NEW request, Begin(a, request),
             request.step \in {"match", "retire", "insert"} => request.material \in Materials
      PROVE  Inputs'
  BY <1>3 DEF Begin, Inputs, TypeOK
<1>4. ASSUME NEW a \in Admins, Rotating(a)
      PROVE  Inputs'
  <2>1. CASE BeginRotate(a)
    BY <1>3, <2>1 DEF BeginRotate, Idle
  <2>2. CASE MatchActive(a)
    BY <1>1, <2>2 DEF MatchActive, Rollback, Inputs, TypeOK, Session
  <2>3. CASE RetireActive(a)
    BY <1>1, <1>2, <2>3 DEF RetireActive, Rollback, Inputs
  <2>4. CASE InsertActive(a)
    BY <1>1, <1>2, <2>4 DEF InsertActive, Rollback, Inputs
  <2>. QED
    BY <1>4, <2>1, <2>2, <2>3, <2>4 DEF Rotating
<1>5. ASSUME NEW a \in Admins, Updating(a)
      PROVE  Inputs'
  <2>1. CASE BeginMark(a) \/ BeginGrace(a)
    BY <1>3, <2>1 DEF BeginMark, BeginGrace, Idle
  <2>2. CASE LoadRetiredKey(a)
    BY <1>1, <1>2, <2>2 DEF LoadRetiredKey, Rollback
  <2>3. CASE UpdateKey(a)
    BY <1>1, <1>2, <2>3 DEF UpdateKey, Rollback
  <2>. QED
    BY <1>5, <2>1, <2>2, <2>3 DEF Updating
<1>6. ASSUME NEW a \in Admins, Commit(a) \/ Fail(a)
      PROVE  Inputs'
  BY <1>1, <1>6 DEF Commit, Fail, Rollback
<1>7. ASSUME NEW p \in Booters, NEW step, BootTo(p, step), step \notin {"seed", "insert"},
             UNCHANGED session
      PROVE  Inputs'
  BY <1>7 DEF BootTo, Down, Inputs, TypeOK
<1>8. ASSUME NEW p \in Booters, NEW table, Adopt(p, table), UNCHANGED session
      PROVE  Inputs'
  <2>1. CASE BootTo(p, "failed")
    BY <1>7, <1>8, <2>1
  <2>2. CASE ~BootTo(p, "failed")
    <3>1. PICK v \in DOMAIN table, step \in {"failed", "ready"} :
            boot' = [boot EXCEPT ![p] = [Down EXCEPT !.step = step, !.adopted = v]]
      BY <1>8, <2>2 DEF Adopt
    <3>. QED
      BY <1>8, <3>1 DEF Down, Inputs, TypeOK
  <2>. QED
    BY <2>1, <2>2
<1>9. ASSUME NEW p \in Booters, Booting(p) \/ Restart(p)
      PROVE  Inputs'
  <2>1. CASE BootLoad(p)
    <3>1. ASSUME NEW m \in Materials, boot' = [boot EXCEPT ![p].step = "seed", ![p].seed = m]
          PROVE  Inputs'
      BY <2>1, <3>1 DEF BootLoad, BootKeeps, Inputs, TypeOK, Boot
    <3>. QED
      BY <1>8, <2>1, <3>1, EnvKeyAssumption DEF BootLoad, BootKeeps, Load
  <2>2. CASE BootSeed(p)
    BY <1>7, <2>2 DEF BootSeed, BootKeeps, Inputs, TypeOK, Boot
  <2>3. CASE BootInsert(p)
    BY <1>7, <1>8, <2>3 DEF BootInsert, BootKeeps
  <2>4. CASE BootReload(p)
    BY <1>8, <2>4 DEF BootReload, BootKeeps, Load
  <2>5. CASE Restart(p)
    BY <1>7, <2>5 DEF Restart, BootKeeps
  <2>. QED
    BY <1>9, <2>1, <2>2, <2>3, <2>4, <2>5 DEF Booting
<1>10. CASE AdminTick \/ UNCHANGED vars
  BY <1>10 DEF AdminTick, vars, Inputs
<1>. QED
  BY <1>4, <1>5, <1>6, <1>9, <1>10 DEF AdminNext

-----------------------------------------------------------------------------
(* Row locks *)

(* What a holds is not disturbed by a step that leaves it and the          *)
(* committed rows alone.                                                   *)
LEMMA HoldingKept ==
  ASSUME NEW a \in Admins, Holding(a), session'[a] = session[a], written'[a] = written[a],
         keys' = keys, sequence \in Nat, sequence' \in Nat, sequence <= sequence'
  PROVE  Holding(a)'
BY DEF Holding, HoldsActive, NamesRetired, Active

(* A transaction that is over holds nothing. *)
LEMMA EndHolds ==
  ASSUME TypeOK, NEW a \in Admins, NEW answer, EndRequest(a, answer)
  PROVE  Holding(a)' /\ DOMAIN written'[a] = {}
BY NoRowsDomain DEF TypeOK, EndRequest, Holding, Idle

(* A step of admin a that commits nothing preserves Uncommitted when it    *)
(* preserves what a itself holds and takes no row another holds.           *)
LEMMA LocalStep ==
  ASSUME IInv, NEW a \in Admins, Holding(a)',
         keys' = keys, sequence' \in {sequence, sequence + 1},
         \A b \in Admins \ {a} : session'[b] = session[b] /\ written'[b] = written[b],
         \A b \in Admins \ {a} : DOMAIN written'[a] \cap DOMAIN written[b] = {}
  PROVE  Uncommitted' /\ OneActive'
<1>1. sequence \in Nat /\ sequence' \in Nat /\ sequence <= sequence'
  BY MaxVersionAssumption DEF IInv, TypeOK
<1>2. ASSUME NEW b \in Admins
      PROVE  Holding(b)'
  BY <1>1, HoldingKept DEF IInv, Uncommitted
<1>3. \A b, c \in Admins : b # c => DOMAIN written'[b] \cap DOMAIN written'[c] = {}
  BY DEF IInv, Uncommitted
<1>4. DOMAIN keys' \subseteq 1..sequence'
  BY <1>1 DEF IInv, Uncommitted
<1>5. OneActive'
  BY DEF IInv, OneActive, Active
<1>. QED
  BY <1>2, <1>3, <1>4, <1>5 DEF Uncommitted

LEMMA RollbackStep ==
  ASSUME IInv, NEW a \in Admins, NEW answer, Rollback(a, answer),
         sequence' \in {sequence, sequence + 1}
  PROVE  Uncommitted' /\ OneActive'
<1>1. Holding(a)' /\ DOMAIN written'[a] = {}
  BY EndHolds DEF IInv, Rollback
<1>2. /\ keys' = keys
      /\ \A b \in Admins \ {a} : session'[b] = session[b] /\ written'[b] = written[b]
  BY DEF IInv, TypeOK, Rollback, EndRequest
<1>. QED
  BY <1>1, <1>2, LocalStep

(* Steps that write nothing. *)
LEMMA ReadStep ==
  ASSUME IInv, NEW a \in Admins, NEW s, session' = [session EXCEPT ![a] = s],
         session[a].step \notin {"insert", "commit"}, s.step \notin {"insert", "commit"},
         s.step \in {"match", "retire"} => s.op = "rotate",
         s.step \in {"load", "update"} => s.op # "rotate",
         s.step = "retire" => s.version \in DOMAIN keys,
         s.step = "update" => s.version \in DOMAIN keys /\ ~IsActive(keys[s.version]),
         UNCHANGED <<keys, sequence, written>>
  PROVE  Uncommitted' /\ OneActive'
<1>1. session'[a] = s
  BY DEF IInv, TypeOK
<1>2. Holding(a)'
  BY <1>1 DEF IInv, Uncommitted, Holding, NamesRetired
<1>3. \A b \in Admins \ {a} : session'[b] = session[b] /\ written'[b] = written[b]
  BY DEF IInv, TypeOK
<1>4. \A b \in Admins \ {a} : DOMAIN written'[a] \cap DOMAIN written[b] = {}
  BY DEF IInv, Uncommitted
<1>. QED
  BY <1>2, <1>3, <1>4, LocalStep

LEMMA RotateStep ==
  ASSUME IInv, NEW a \in Admins, Rotating(a)
  PROVE  Uncommitted' /\ OneActive'
<1> DEFINE v == session[a].version
<1>1. CASE BeginRotate(a)
  <2>1. PICK terms \in RotationTerms, m \in Materials :
          Begin(a, [Idle EXCEPT !.step = "match", !.op = "rotate", !.at = clock,
                                !.days = terms.days, !.compromised = terms.compromised,
                                !.material = m])
    BY <1>1 DEF BeginRotate
  <2>. QED
    BY <2>1, ReadStep DEF Begin, Idle
<1>2. CASE MatchActive(a)
  <2>1. ASSUME NEW u \in Active(keys),
               session' = [session EXCEPT ![a].step = "retire", ![a].version = u],
               UNCHANGED <<keys, sequence, written>>, session[a].step = "match"
        PROVE  Uncommitted' /\ OneActive'
    <3> DEFINE s == [session[a] EXCEPT !.step = "retire", !.version = u]
    <3>1. session[a] \in Session /\ session[a].op = "rotate" /\ u \in DOMAIN keys
      BY <2>1 DEF IInv, TypeOK, Uncommitted, Holding, Active
    <3>2. session' = [session EXCEPT ![a] = s]
      BY <2>1, <3>1 DEF IInv, TypeOK, Session
    <3>3. s.step = "retire" /\ s.op = "rotate" /\ s.version = u
      BY <3>1 DEF Session
    <3>. HIDE DEF s
    <3>. QED
      BY <2>1, <3>1, <3>2, <3>3, ReadStep
  <2>. QED
    BY <1>2, <2>1, RollbackStep DEF MatchActive
<1>3. CASE RetireActive(a)
  <2> DEFINE row == RetiredRow(keys[v], session[a].at, session[a].days, session[a].compromised)
  <2>1. CASE Rollback(a, "no_active_key")
    BY <1>3, <2>1, RollbackStep DEF RetireActive
  <2>2. CASE ~Rollback(a, "no_active_key")
    <3>1. /\ written' = [written EXCEPT ![a] = Put(@, v, row)]
          /\ session' = [session EXCEPT ![a].step = "insert"]
          /\ session[a].step = "retire" /\ IsActive(keys[v]) /\ ~LockedByOther(a, v)
          /\ UNCHANGED <<keys, sequence>>
      BY <1>3, <2>2 DEF RetireActive, StillActive, Advance
    <3>2. v \in DOMAIN keys /\ written[a] = NoRows /\ session[a].op = "rotate"
      BY <3>1 DEF IInv, Uncommitted, Holding
    <3>3. Active(keys) = {v}
      <4>1. v \in Active(keys) /\ keys # NoRows
        BY <3>1, <3>2, NoRowsDomain DEF Active
      <4>. QED
        BY <4>1 DEF IInv, OneActive
    <3>4. ~IsActive(row)
      BY <3>2, RowTypes DEF IInv, TypeOK, IsTable, Session
    <3>5. written'[a] = Put(NoRows, v, row)
      BY <3>1, <3>2 DEF IInv, TypeOK
    <3>6. DOMAIN written'[a] = {v} /\ written'[a][v] = row
      <4>. HIDE DEF row, v
      <4>1. DOMAIN Put(NoRows, v, row) = DOMAIN NoRows \cup {v} /\ Put(NoRows, v, row)[v] = row
        BY DEF Put
      <4>. QED
        BY <3>5, <4>1, NoRowsDomain
    <3>7. /\ session'[a].step = "insert" /\ session'[a].op = "rotate"
          /\ session'[a].version = v
      BY <3>1, <3>2 DEF IInv, TypeOK, Session
    <3>8. v \in 1..sequence'
      BY <3>1, <3>2 DEF IInv, Uncommitted
    <3>. HIDE DEF row
    <3>9. Holding(a)'
      BY <3>1, <3>3, <3>4, <3>6, <3>7, <3>8 DEF Holding, HoldsActive
    <3>10. \A b \in Admins \ {a} :
             /\ session'[b] = session[b] /\ written'[b] = written[b]
             /\ DOMAIN written'[a] \cap DOMAIN written[b] = {}
      BY <3>1, <3>6 DEF IInv, TypeOK, LockedByOther
    <3>. QED
      BY <3>1, <3>9, <3>10, LocalStep
  <2>. QED
    BY <2>1, <2>2
<1>4. CASE InsertActive(a)
  <2> DEFINE n == sequence + 1
             row == FreshRow(session[a].material)
  <2>1. sequence' \in {sequence, sequence + 1}
    BY <1>4 DEF InsertActive
  <2>2. CASE \E answer \in {"error", "key_material_in_use"} : Rollback(a, answer)
    BY <2>1, <2>2, RollbackStep
  <2>3. CASE ~\E answer \in {"error", "key_material_in_use"} : Rollback(a, answer)
    <3>1. /\ sequence' = n /\ keys' = keys
          /\ written' = [written EXCEPT ![a] = Put(@, n, row)]
          /\ session' = [session EXCEPT ![a].step = "commit"]
          /\ session[a].step = "insert"
      BY <1>4, <2>3 DEF InsertActive, Advance
    <3>2. HoldsActive(a) /\ DOMAIN written[a] = {v} /\ session[a].op = "rotate"
      BY <3>1 DEF IInv, Uncommitted, Holding
    <3>3. sequence \in Nat /\ n \notin 1..sequence /\ n \in 1..n /\ 1..sequence \subseteq 1..n
      BY MaxVersionAssumption DEF IInv, TypeOK
    <3>4. \A b \in Admins : n \notin DOMAIN written[b]
      BY <3>3 DEF IInv, Uncommitted, Holding
    <3>5. n \notin DOMAIN keys /\ n # v
      BY <3>2, <3>3, <3>4 DEF IInv, Uncommitted
    <3>6. IsActive(row)
      BY <3>1, FreshRowTypes DEF IInv, Inputs
    <3>7. written'[a] = Put(written[a], n, row)
      BY <3>1 DEF IInv, TypeOK
    <3>8. /\ DOMAIN written'[a] = {v, n} /\ written'[a][n] = row
          /\ written'[a][v] = written[a][v]
      <4>. HIDE DEF row, n, v
      <4>1. /\ DOMAIN Put(written[a], n, row) = DOMAIN written[a] \cup {n}
            /\ Put(written[a], n, row)[n] = row
            /\ \A w \in DOMAIN written[a] : w # n => Put(written[a], n, row)[w] = written[a][w]
        BY DEF Put
      <4>. QED
        BY <3>2, <3>5, <3>7, <4>1
    <3>9. /\ session'[a].step = "commit" /\ session'[a].op = "rotate"
          /\ session'[a].version = v
      BY <3>1, <3>2 DEF IInv, TypeOK, Session
    <3>10. v \in 1..sequence
      BY <3>2 DEF IInv, Uncommitted, Holding
    <3>11. HoldsActive(a)'
      BY <3>1, <3>2, <3>8, <3>9 DEF HoldsActive
    <3>. HIDE DEF row, n
    <3>12. Holding(a)'
      BY <3>1, <3>3, <3>5, <3>6, <3>8, <3>9, <3>10, <3>11 DEF Holding
    <3>13. \A b \in Admins \ {a} :
             /\ session'[b] = session[b] /\ written'[b] = written[b]
             /\ DOMAIN written'[a] \cap DOMAIN written[b] = {}
      BY <3>1, <3>2, <3>4, <3>8 DEF IInv, TypeOK, Uncommitted
    <3>. QED
      BY <2>1, <3>1, <3>12, <3>13, LocalStep
  <2>. QED
    BY <2>2, <2>3
<1>. QED
  BY <1>1, <1>2, <1>3, <1>4 DEF Rotating

LEMMA UpdateStep ==
  ASSUME IInv, NEW a \in Admins, Updating(a)
  PROVE  Uncommitted' /\ OneActive'
<1> DEFINE v == session[a].version
<1>1. CASE BeginMark(a) \/ BeginGrace(a)
  BY <1>1, ReadStep DEF BeginMark, BeginGrace, Begin, Idle
<1>2. CASE LoadRetiredKey(a)
  <2>1. CASE \E answer \in {"not_found", "version_active"} : Rollback(a, answer)
    BY <1>2, <2>1, RollbackStep DEF LoadRetiredKey
  <2>2. CASE ~\E answer \in {"not_found", "version_active"} : Rollback(a, answer)
    <3> DEFINE s == [session[a] EXCEPT !.step = "update"]
    <3>1. /\ v \in DOMAIN keys \ Active(keys) /\ session[a].step = "load"
          /\ session' = [session EXCEPT ![a].step = "update"]
          /\ UNCHANGED <<keys, sequence, written>>
      BY <1>2, <2>2 DEF LoadRetiredKey, Advance
    <3>2. session[a] \in Session /\ session[a].op # "rotate" /\ ~IsActive(keys[v])
      BY <3>1 DEF IInv, TypeOK, Uncommitted, Holding, Active
    <3>3. s.step = "update" /\ s.op # "rotate" /\ s.version = v
      BY <3>2 DEF Session
    <3>4. session' = [session EXCEPT ![a] = s]
      BY <3>1
    <3>. HIDE DEF s
    <3>. QED
      BY <3>1, <3>2, <3>3, <3>4, ReadStep
  <2>. QED
    BY <2>1, <2>2
<1>3. CASE UpdateKey(a)
  <2>1. CASE Rollback(a, "error")
    BY <1>3, <2>1, RollbackStep DEF UpdateKey
  <2>2. CASE ~Rollback(a, "error")
    <3> DEFINE row == UpdatedRow(a)
    <3>1. /\ written' = [written EXCEPT ![a] = Put(@, v, row)]
          /\ session' = [session EXCEPT ![a].step = "commit"]
          /\ session[a].step = "update" /\ ~LockedByOther(a, v)
          /\ UNCHANGED <<keys, sequence>>
      BY <1>3, <2>2 DEF UpdateKey, Advance
    <3>2. /\ written[a] = NoRows /\ session[a].op # "rotate"
          /\ v \in DOMAIN keys /\ ~IsActive(keys[v])
      BY <3>1 DEF IInv, Uncommitted, Holding, NamesRetired
    <3>3. ~IsActive(row)
      BY <3>2, UpdatedRowTypes DEF IInv
    <3>4. written'[a] = Put(NoRows, v, row)
      BY <3>1, <3>2 DEF IInv, TypeOK
    <3>5. DOMAIN written'[a] = {v} /\ written'[a][v] = row
      <4>. HIDE DEF row, v
      <4>1. DOMAIN Put(NoRows, v, row) = DOMAIN NoRows \cup {v} /\ Put(NoRows, v, row)[v] = row
        BY DEF Put
      <4>. QED
        BY <3>4, <4>1, NoRowsDomain
    <3>6. session'[a].step = "commit" /\ session'[a].op # "rotate" /\ session'[a].version = v
      BY <3>1, <3>2 DEF IInv, TypeOK, Session
    <3>7. v \in 1..sequence'
      BY <3>1, <3>2 DEF IInv, Uncommitted
    <3>. HIDE DEF row
    <3>8. Holding(a)'
      BY <3>1, <3>2, <3>3, <3>5, <3>6, <3>7 DEF Holding, NamesRetired
    <3>9. \A b \in Admins \ {a} :
            /\ session'[b] = session[b] /\ written'[b] = written[b]
            /\ DOMAIN written'[a] \cap DOMAIN written[b] = {}
      BY <3>1, <3>5 DEF IInv, TypeOK, LockedByOther
    <3>. QED
      BY <3>1, <3>8, <3>9, LocalStep
  <2>. QED
    BY <2>1, <2>2
<1>. QED
  BY <1>1, <1>2, <1>3 DEF Updating

(* COMMIT.  A rotation replaces the one active key by its new one, an      *)
(* update leaves the active key alone; nobody else can be holding it.      *)
LEMMA CommitStep ==
  ASSUME IInv, NEW a \in Admins, Commit(a)
  PROVE  Uncommitted' /\ OneActive'
<1> DEFINE v == session[a].version
           w == written[a]
<1>1. /\ session[a].step = "commit" /\ keys' = Overlay(keys, w) /\ sequence' = sequence
      /\ \E answer \in {"ok", "error"} : EndRequest(a, answer)
  BY DEF Commit
<1>2. /\ DOMAIN keys' = DOMAIN keys \cup DOMAIN w
      /\ \A u \in DOMAIN w : keys'[u] = w[u]
      /\ \A u \in DOMAIN keys \ DOMAIN w : keys'[u] = keys[u]
  BY <1>1 DEF Overlay
<1>3. Holding(a) /\ v \in DOMAIN w /\ ~IsActive(w[v]) /\ v \in DOMAIN keys /\ keys # NoRows
  BY <1>1, NoRowsDomain DEF IInv, Uncommitted, Holding, HoldsActive, NamesRetired, Active
<1>4. Holding(a)' /\ DOMAIN written'[a] = {}
  BY <1>1, EndHolds DEF IInv
<1>5. \A b \in Admins \ {a} :
        /\ session'[b] = session[b] /\ written'[b] = written[b] /\ Holding(b)
        /\ DOMAIN written[b] \cap DOMAIN w = {}
  BY <1>1 DEF IInv, TypeOK, EndRequest, Uncommitted
<1>6. DOMAIN keys' \subseteq 1..sequence'
  BY <1>1, <1>2, <1>3 DEF IInv, Uncommitted, Holding
<1>7. \A b, c \in Admins : b # c => DOMAIN written'[b] \cap DOMAIN written'[c] = {}
  BY <1>4, <1>5 DEF IInv, Uncommitted
<1>8. PICK u \in DOMAIN keys : Active(keys) = {u}
  BY <1>3 DEF IInv, OneActive
<1>. HIDE DEF v, w
<1>9. CASE session[a].op = "rotate"
  <2>1. PICK n \in DOMAIN w \ DOMAIN keys : DOMAIN w = {v, n} /\ IsActive(w[n])
    BY <1>1, <1>3, <1>9 DEF Holding, v, w
  <2>2. u = v
    BY <1>1, <1>3, <1>8, <1>9 DEF Holding, HoldsActive, v, w
  <2>3. Active(keys') = {n}
    BY <1>2, <1>3, <1>8, <2>1, <2>2 DEF Active
  <2>4. OneActive'
    BY <1>2, <2>1, <2>3 DEF OneActive, Active
  <2>5. ASSUME NEW b \in Admins \ {a}
        PROVE  Holding(b)'
    <3>1. ~HoldsActive(b)
      BY <1>3, <1>5, <1>8, <2>2 DEF HoldsActive, w
    <3>2. NamesRetired(b) => NamesRetired(b)'
      BY <1>2, <1>5, <1>8, <2>1, <2>2 DEF NamesRetired, Active
    <3>. QED
      BY <1>1, <1>2, <1>5, <3>1, <3>2 DEF Holding
  <2>. QED
    BY <1>4, <1>6, <1>7, <2>4, <2>5 DEF Uncommitted
<1>10. CASE session[a].op # "rotate"
  <2>1. DOMAIN w = {v} /\ ~IsActive(keys[v])
    BY <1>1, <1>3, <1>10 DEF Holding, NamesRetired, v, w
  <2>2. Active(keys') = Active(keys) /\ DOMAIN keys' = DOMAIN keys
    BY <1>2, <1>3, <2>1 DEF Active
  <2>3. OneActive'
    BY <1>8, <2>2 DEF OneActive
  <2>4. ASSUME NEW b \in Admins \ {a}
        PROVE  Holding(b)'
    <3>1. HoldsActive(b) => HoldsActive(b)'
      BY <1>5, <2>2 DEF HoldsActive
    <3>2. NamesRetired(b) => NamesRetired(b)'
      BY <1>2, <1>3, <2>1, <1>5 DEF NamesRetired
    <3>. QED
      BY <1>1, <1>5, <2>2, <3>1, <3>2 DEF Holding
  <2>. QED
    BY <1>4, <1>6, <1>7, <2>3, <2>4 DEF Uncommitted
<1>. QED
  BY <1>9, <1>10

(* Start-up.  It inserts only into an empty table, when no request can be  *)
(* beyond its first statement.                                             *)
LEMMA BootStepInv ==
  ASSUME IInv, NEW p \in Booters, Booting(p) \/ Restart(p)
  PROVE  Uncommitted' /\ OneActive'
<1>1. sequence \in Nat
  BY MaxVersionAssumption DEF IInv, TypeOK
<1>2. UNCHANGED <<session, written>>
  BY DEF Booting, BootLoad, BootSeed, BootInsert, BootReload, Restart, BootKeeps
<1>3. ASSUME keys' = keys, sequence' \in {sequence, sequence + 1}
      PROVE  Uncommitted' /\ OneActive'
  <2>1. \A a \in Admins : Holding(a)'
    BY <1>1, <1>2, <1>3, HoldingKept DEF IInv, Uncommitted
  <2>2. DOMAIN keys' \subseteq 1..sequence'
    BY <1>1, <1>3 DEF IInv, Uncommitted
  <2>3. \A a, b \in Admins : a # b => DOMAIN written'[a] \cap DOMAIN written'[b] = {}
    BY <1>2 DEF IInv, Uncommitted
  <2>4. OneActive'
    BY <1>3 DEF IInv, OneActive, Active
  <2>. QED
    BY <2>1, <2>2, <2>3, <2>4 DEF Uncommitted
<1>4. CASE BootInsert(p) /\ keys' # keys
  <2> DEFINE n == sequence + 1
             row == FreshRow(boot[p].seed)
  <2>1. /\ Active(keys) = {} /\ sequence' = n /\ keys' = Put(keys, n, row)
        /\ boot[p].step = "insert"
    BY <1>4 DEF BootInsert, Exhausted, SeedConflicts
  <2>2. DOMAIN keys = {}
    BY <2>1, NoRowsDomain DEF IInv, OneActive
  <2>3. IsActive(row)
    BY <2>1, FreshRowTypes DEF IInv, Inputs
  <2>. HIDE DEF row
  <2>4. DOMAIN keys' = {n} /\ keys'[n] = row
    BY <2>1, <2>2 DEF Put
  <2>5. OneActive'
    BY <2>3, <2>4 DEF OneActive, Active
  <2>6. DOMAIN keys' \subseteq 1..sequence' /\ 1..sequence \subseteq 1..sequence'
    BY <1>1, <2>1, <2>4
  <2>7. ASSUME NEW a \in Admins
        PROVE  Holding(a)'
    <3>1. ~HoldsActive(a) /\ ~NamesRetired(a) /\ Holding(a)
      BY <2>1, <2>2 DEF HoldsActive, NamesRetired, IInv, Uncommitted
    <3>2. session[a].step \notin {"insert", "commit", "update", "retire"}
      BY <2>2, <3>1 DEF Holding
    <3>. QED
      BY <1>2, <2>6, <3>1, <3>2 DEF Holding
  <2>8. \A a, b \in Admins : a # b => DOMAIN written'[a] \cap DOMAIN written'[b] = {}
    BY <1>2 DEF IInv, Uncommitted
  <2>. QED
    BY <2>5, <2>6, <2>7, <2>8 DEF Uncommitted
<1>5. CASE BootInsert(p) /\ keys' = keys
  BY <1>3, <1>5 DEF BootInsert
<1>6. CASE ~BootInsert(p)
  BY <1>3, <1>6 DEF Booting, BootLoad, BootSeed, BootReload, Restart
<1>. QED
  BY <1>4, <1>5, <1>6

-----------------------------------------------------------------------------
(* Theorems *)

LEMMA InitInv == AdminInit => IInv
<1>. SUFFICES ASSUME AdminInit
              PROVE  IInv
  OBVIOUS
<1>1. TypeOK
  BY TypeInit
<1>2. Inputs
  BY DEF AdminInit, Inputs, Idle, Down
<1>3. Uncommitted /\ OneActive
  BY NoRowsDomain DEF AdminInit, RingInit, Uncommitted, Holding, OneActive, Idle
<1>. QED
  BY <1>1, <1>2, <1>3 DEF IInv

LEMMA NextInv ==
  ASSUME IInv, [AdminNext]_vars
  PROVE  IInv'
<1>1. CASE AdminTick \/ UNCHANGED vars
  <2>1. UNCHANGED <<keys, sequence, session, written>>
    BY <1>1 DEF AdminTick, Tick, vars
  <2>2. \A a \in Admins : Holding(a)'
    BY <2>1 DEF IInv, Uncommitted, Holding, HoldsActive, NamesRetired, Active
  <2>3. Uncommitted' /\ OneActive'
    BY <2>1, <2>2 DEF IInv, Uncommitted, OneActive, Active
  <2>. QED
    BY <2>3, TypeStep, InputsStep DEF IInv
<1>2. ASSUME NEW a \in Admins, Fail(a)
      PROVE  Uncommitted' /\ OneActive'
  BY <1>2, RollbackStep DEF Fail
<1>. QED
  BY <1>1, <1>2, TypeStep, InputsStep, RotateStep, UpdateStep, CommitStep, BootStepInv
     DEF AdminNext, IInv

(* IInv holds in every reachable state. *)
THEOREM Invariance == AdminSpec => []IInv
<1>1. IInv /\ [AdminNext]_vars => IInv'
  BY NextInv
<1>. QED
  BY <1>1, InitInv, PTL DEF AdminSpec

(* Every state is well typed: rows, requests and start-ups only ever take  *)
(* the shapes the table, the handler and the bootstrap give them.          *)
THEOREM TypeCorrect == AdminSpec => []TypeOK
<1>1. IInv => TypeOK
  BY DEF IInv
<1>. QED
  BY <1>1, Invariance, PTL

(* From the first boot on, the key table has exactly one active key, for   *)
(* any number of concurrent rotations, updates and first boots.            *)
THEOREM ExactlyOneActive == AdminSpec => []OneActive
<1>1. IInv => OneActive
  BY DEF IInv
<1>. QED
  BY <1>1, Invariance, PTL

(* A rotation that has retired the active key cannot meet                  *)
(* field_crypto_keys_one_active when it inserts the new one.               *)
THEOREM InsertNeverMeetsActive == AdminSpec => []RetireGuardsInsert
<1>1. IInv => RetireGuardsInsert
  BY DEF IInv, Uncommitted, Holding, HoldsActive, RetireGuardsInsert, ActiveTaken, View,
     Overlay, Active
<1>. QED
  BY <1>1, Invariance, PTL

(* The discipline of the row locks that the other theorems rest on. *)
THEOREM LockDiscipline == AdminSpec => []Uncommitted
<1>1. IInv => Uncommitted
  BY DEF IInv
<1>. QED
  BY <1>1, Invariance, PTL
=============================================================================
