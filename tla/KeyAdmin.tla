------------------------------ MODULE KeyAdmin ------------------------------
(***************************************************************************)
(* The admin routes on field_crypto_keys (rotate, mark-compromised, grace) *)
(* and the first-boot insert, as concurrent READ COMMITTED transactions.   *)
(*                                                                         *)
(* One step is one SQL statement or a COMMIT.  A statement reads committed *)
(* rows and its own transaction's; an UPDATE that meets a row another      *)
(* transaction has changed waits for it, and then looks again only at the  *)
(* rows it had matched before it waited.                                   *)
(***************************************************************************)
EXTENDS KeyRing

CONSTANTS
  Admins,     \* sessions that serve admin requests, one at a time each
  Booters,    \* processes that start up
  EnvKey,     \* per process, the material CORE_FIELD_KEY_HEX names, NULL when unset
  MaxVersion  \* the last value of the identity column (2^31 - 1 for INTEGER)

ASSUME EnvKeyAssumption == EnvKey \in [Booters -> Materials \cup {NULL}]
ASSUME MaxVersionAssumption == MaxVersion \in Nat /\ Versions = 1..MaxVersion

VARIABLES
  sequence,  \* the identity value drawn last; a rollback does not return it
  session,   \* per admin, the request being served
  seen,      \* per admin, the row loadRetiredKey returned
  written,   \* per admin, the rows changed and not committed: its row locks
  reply,     \* per admin, how the last request was answered
  boot       \* per process, how far start-up has come

vars == <<keys, clock, sequence, session, seen, written, reply, boot>>

Op == {"rotate", "mark", "grace"}
SessionStep == {"idle", "match", "retire", "insert", "load", "update", "commit"}
Reply == {"none", "ok", "no_active_key", "key_material_in_use", "not_found",
          "version_active", "error"}
BootStep == {"load", "seed", "insert", "reload", "ready", "failed"}

(* at is the transaction's now(); version is the row the request names or, *)
(* for a rotation, the row its retire statement matched.                   *)
Session ==
  [step : SessionStep, op : Op, at : Nat, version : Nat, days : AllowedDays,
   compromised : BOOLEAN, material : Materials \cup {NULL}]

(* seed is the material to insert, adopted the version found active, 0     *)
(* before one was found.                                                   *)
Boot == [step : BootStep, seed : Materials \cup {NULL}, adopted : Nat]

Idle ==
  [step |-> "idle", op |-> "rotate", at |-> 0, version |-> 0, days |-> NULL,
   compromised |-> FALSE, material |-> NULL]
Down == [step |-> "load", seed |-> NULL, adopted |-> 0]

AdminInit ==
  /\ RingInit
  /\ sequence = 0
  /\ session = [a \in Admins |-> Idle]
  /\ seen = [a \in Admins |-> FreshRow(NULL)]
  /\ written = [a \in Admins |-> NoRows]
  /\ reply = [a \in Admins |-> "none"]
  /\ boot = [p \in Booters |-> Down]

-----------------------------------------------------------------------------

Overlay(table, rows) ==
  [v \in DOMAIN table \cup DOMAIN rows |-> IF v \in DOMAIN rows THEN rows[v] ELSE table[v]]

(* The table as transaction a sees it: committed rows under its own. *)
View(a) == Overlay(keys, written[a])

LockedByOther(a, v) == \E b \in Admins \ {a} : v \in DOMAIN written[b]

(* As EndRequest, but the transaction is left open. *)
LeakRequest(a, answer) ==
  /\ session' = [session EXCEPT ![a] = Idle]
  /\ seen' = [seen EXCEPT ![a] = FreshRow(NULL)]
  /\ reply' = [reply EXCEPT ![a] = answer]
  /\ UNCHANGED written

(* The request is over; the transaction's changes and locks are gone. *)
EndRequest(a, answer) ==
  /\ session' = [session EXCEPT ![a] = Idle]
  /\ seen' = [seen EXCEPT ![a] = FreshRow(NULL)]
  /\ written' = [written EXCEPT ![a] = NoRows]
  /\ reply' = [reply EXCEPT ![a] = answer]

Rollback(a, answer) == EndRequest(a, answer) /\ UNCHANGED <<keys, clock, boot>>

Begin(a, request) ==
  /\ session[a].step = "idle"
  /\ session' = [session EXCEPT ![a] = request]
  /\ reply' = [reply EXCEPT ![a] = "none"]
  /\ UNCHANGED <<keys, clock, sequence, seen, written, boot>>

(* The identity column has no value left to draw. *)
NeverExhausted == FALSE
Exhausted == sequence = MaxVersion

Advance(a, step) == session' = [session EXCEPT ![a].step = step]

-----------------------------------------------------------------------------
(* POST /field-crypto-keys/rotations *)

BeginRotate(a) ==
  \E terms \in RotationTerms, m \in Materials :
    Begin(a, [Idle EXCEPT !.step = "match", !.op = "rotate", !.at = clock, !.days = terms.days,
                          !.compromised = terms.compromised, !.material = m])

(* RetireActiveFieldCryptoKey begins: its snapshot matches the active row. *)
MatchActive(a) ==
  /\ session[a].step = "match"
  /\ \/ /\ Active(keys) = {}
        /\ Rollback(a, "no_active_key")
     \/ \E v \in Active(keys) :
          /\ session' = [session EXCEPT ![a].step = "retire", ![a].version = v]
          /\ UNCHANGED <<keys, clock, seen, written, reply, boot>>
  /\ UNCHANGED sequence

(* retired_at IS NULL, evaluated again on the committed row. *)
MatchedBefore(v) == TRUE
NewestDrawn(v) == v = sequence
StillActive(v) == IsActive(keys[v])

(* It gets the row lock and looks again. *)
RetireActive(a) ==
  LET s == session[a]
      v == s.version
  IN  /\ s.step = "retire"
      /\ ~LockedByOther(a, v)
      /\ \/ /\ ~StillActive(v)
            /\ Rollback(a, "no_active_key")
         \/ /\ StillActive(v)
            /\ written' = [written EXCEPT ![a] =
                 Put(@, v, RetiredRow(keys[v], s.at, s.days, s.compromised))]
            /\ Advance(a, "insert")
            /\ UNCHANGED <<keys, clock, seen, reply, boot>>
      /\ UNCHANGED sequence

(* The unique index on key_bytes, and field_crypto_keys_one_active. *)
AnyMaterial(a) == FALSE
MaterialTaken(a) == session[a].material \in OnFile(View(a))
ActiveTaken(a) == Active(View(a)) # {}

(* InsertActiveFieldCryptoKey: the version is drawn whether or not the     *)
(* insert then meets a unique violation.                                   *)
InsertActive(a) ==
  /\ session[a].step = "insert"
  /\ \/ /\ Exhausted
        /\ Rollback(a, "error")
        /\ UNCHANGED sequence
     \/ /\ ~Exhausted
        /\ sequence' = sequence + 1
        /\ \/ /\ MaterialTaken(a) \/ ActiveTaken(a)
              /\ Rollback(a, "key_material_in_use")
           \/ /\ ~MaterialTaken(a) /\ ~ActiveTaken(a)
              /\ written' = [written EXCEPT ![a] =
                   Put(@, sequence + 1, FreshRow(session[a].material))]
              /\ Advance(a, "commit")
              /\ UNCHANGED <<keys, clock, seen, reply, boot>>

-----------------------------------------------------------------------------
(* POST /field-crypto-keys/{version}/mark-compromised and PUT .../grace *)

BeginMark(a) ==
  \E v \in Versions :
    Begin(a, [Idle EXCEPT !.step = "load", !.op = "mark", !.at = clock, !.version = v])

BeginGrace(a) ==
  \E v \in Versions, days \in AllowedDays :
    Begin(a, [Idle EXCEPT !.step = "load", !.op = "grace", !.at = clock, !.version = v,
                          !.days = days])

(* loadRetiredKey: a plain SELECT, which locks nothing. *)
LoadRetiredKey(a) ==
  LET v == session[a].version
  IN  /\ session[a].step = "load"
      /\ \/ /\ v \notin DOMAIN keys
            /\ Rollback(a, "not_found")
         \/ /\ v \in Active(keys)
            /\ Rollback(a, "version_active")
         \/ /\ v \in DOMAIN keys \ Active(keys)
            /\ seen' = [seen EXCEPT ![a] = keys[v]]
            /\ Advance(a, "update")
            /\ UNCHANGED <<keys, clock, written, reply, boot>>
      /\ UNCHANGED sequence

(* The UPDATE's row, from the committed one; not from the row loaded. *)
RowFromLoaded(a) ==
  LET s == session[a]
  IN  IF s.op = "mark" THEN FlaggedRow(seen[a], s.at) ELSE GraceRow(seen[a], s.at, s.days)
UpdatedRow(a) ==
  LET s == session[a]
  IN  IF s.op = "mark" THEN FlaggedRow(keys[s.version], s.at)
                       ELSE GraceRow(keys[s.version], s.at, s.days)

(* MarkFieldCryptoKeyCompromised or SetFieldCryptoKeyDecryptableUntil, on  *)
(* the latest committed row.  No row to update and a row a CHECK refuses   *)
(* are both internal errors.                                               *)
UpdateKey(a) ==
  LET v == session[a].version
  IN  /\ session[a].step = "update"
      /\ ~LockedByOther(a, v)
      /\ \/ /\ v \in Active(keys) \/ ~RowChecks(UpdatedRow(a))
            /\ Rollback(a, "error")
         \/ /\ v \notin Active(keys) /\ RowChecks(UpdatedRow(a))
            /\ written' = [written EXCEPT ![a] = Put(@, v, UpdatedRow(a))]
            /\ Advance(a, "commit")
            /\ UNCHANGED <<keys, clock, seen, reply, boot>>
      /\ UNCHANGED sequence

(* The state the handler answers with and hands to the observers: the row  *)
(* it loaded, with the one column its UPDATE returned.                     *)
ReportedRow(a) ==
  LET row == written[a][session[a].version]
  IN  IF session[a].op = "mark" THEN [seen[a] EXCEPT !.compromised = row.compromised]
                                ELSE [seen[a] EXCEPT !.until = row.until]

-----------------------------------------------------------------------------
(* The end of every request *)

(* COMMIT: the client is told so, unless the acknowledgement is lost. *)
Commit(a) ==
  /\ session[a].step = "commit"
  /\ keys' = Overlay(keys, written[a])
  /\ \E answer \in {"ok", "error"} : EndRequest(a, answer)
  /\ UNCHANGED <<clock, sequence, boot>>

(* A statement, an observer or COMMIT fails, the request is cancelled, or  *)
(* the process dies.                                                       *)
Fail(a) ==
  /\ session[a].step # "idle"
  /\ Rollback(a, "error")
  /\ UNCHANGED sequence

-----------------------------------------------------------------------------
(* NewFromEnvOrGenerate *)

BootKeeps == UNCHANGED <<clock, session, seen, written, reply>>

BootTo(p, step) == boot' = [boot EXCEPT ![p] = [Down EXCEPT !.step = step]]

(* checkEnvSeed *)
EnvUnchecked(p, material) == FALSE
EnvMismatch(p, material) == EnvKey[p] \notin {NULL, material}

(* buildKeySet and checkEnvSeed over the keys just loaded. *)
Adopt(p, table) ==
  \/ /\ ~\E v \in DOMAIN table : Active(table) = {v}
     /\ BootTo(p, "failed")
  \/ \E v \in DOMAIN table :
       /\ Active(table) = {v}
       /\ boot' = [boot EXCEPT ![p] = [Down EXCEPT
            !.step = IF EnvMismatch(p, table[v].material) THEN "failed" ELSE "ready",
            !.adopted = v]]

Load(p) == Adopt(p, [v \in Usable(keys, clock) |-> keys[v]])

(* The first LoadUsableKeys: no rows, and the environment's key or a       *)
(* generated one becomes the seed.                                         *)
BootLoad(p) ==
  /\ boot[p].step = "load"
  /\ \/ /\ Usable(keys, clock) = {}
        /\ \E m \in IF EnvKey[p] = NULL THEN Materials ELSE {EnvKey[p]} :
             boot' = [boot EXCEPT ![p].step = "seed", ![p].seed = m]
     \/ Usable(keys, clock) # {} /\ Load(p)
  /\ BootKeeps /\ UNCHANGED <<keys, sequence>>

(* InsertInitialFieldCryptoKey begins: NOT EXISTS, in its own snapshot. *)
BootSeed(p) ==
  /\ boot[p].step = "seed"
  /\ \/ keys = NoRows /\ boot' = [boot EXCEPT ![p].step = "insert"]
     \/ keys # NoRows /\ BootTo(p, "reload")
  /\ BootKeeps /\ UNCHANGED <<keys, sequence>>

SeedOnFile(p) == boot[p].seed \in OnFile(keys)
SeedConflicts(p) == Active(keys) # {} \/ boot[p].seed \in OnFile(keys)

(* The row goes into the unique indexes, ON CONFLICT DO NOTHING, once no   *)
(* rotation is in the middle of changing the active row.                   *)
BootInsert(p) ==
  /\ boot[p].step = "insert"
  /\ \A a \in Admins : session[a].op = "rotate" => written[a] = NoRows
  /\ \/ /\ Exhausted
        /\ BootTo(p, "failed")
        /\ UNCHANGED <<keys, sequence>>
     \/ /\ ~Exhausted
        /\ sequence' = sequence + 1
        /\ IF SeedConflicts(p)
           THEN BootTo(p, "reload") /\ UNCHANGED keys
           ELSE LET table == Put(keys, sequence + 1, FreshRow(boot[p].seed))
                IN  keys' = table /\ Adopt(p, table)
  /\ BootKeeps

(* The LoadUsableKeys of a process that lost the race. *)
BootReload(p) ==
  /\ boot[p].step = "reload"
  /\ Load(p)
  /\ BootKeeps /\ UNCHANGED <<keys, sequence>>

(* The process dies, at any point, and starts again. *)
Restart(p) ==
  /\ BootTo(p, "load")
  /\ BootKeeps /\ UNCHANGED <<keys, sequence>>

-----------------------------------------------------------------------------

AdminTick == Tick /\ UNCHANGED <<sequence, session, seen, written, reply, boot>>

Rotating(a) == BeginRotate(a) \/ MatchActive(a) \/ RetireActive(a) \/ InsertActive(a)
Updating(a) == BeginMark(a) \/ BeginGrace(a) \/ LoadRetiredKey(a) \/ UpdateKey(a)
Booting(p) == BootLoad(p) \/ BootSeed(p) \/ BootInsert(p) \/ BootReload(p)

AdminNext ==
  \/ \E a \in Admins : Rotating(a) \/ Updating(a) \/ Commit(a) \/ Fail(a)
  \/ \E p \in Booters : Booting(p) \/ Restart(p)
  \/ AdminTick

AdminSpec == AdminInit /\ [][AdminNext]_vars

(* A statement that can run is run, and one that waits for a row lock is   *)
(* let through in turn: the lock manager queues waiters.  Nothing obliges  *)
(* a client to begin, a clock to advance or a process to be restarted.     *)
AdminFairness ==
  /\ \A a \in Admins :
       /\ WF_vars(MatchActive(a) \/ InsertActive(a) \/ LoadRetiredKey(a) \/ Commit(a))
       /\ SF_vars(RetireActive(a) \/ UpdateKey(a))
  /\ \A p \in Booters :
       WF_vars(BootLoad(p) \/ BootSeed(p) \/ BootReload(p)) /\ SF_vars(BootInsert(p))

FairAdminSpec == AdminSpec /\ AdminFairness

-----------------------------------------------------------------------------
(* Properties *)

(* The variables hold rows, requests and answers of the declared shapes. *)
TypeOK ==
  /\ IsTable(keys) /\ clock \in Nat /\ sequence \in 0..MaxVersion
  /\ session \in [Admins -> Session]
  /\ seen \in [Admins -> [material : Materials \cup {NULL}, retired : Instant,
                          until : Instant, compromised : Instant]]
  /\ DOMAIN written = Admins /\ \A a \in Admins : IsTable(written[a])
  /\ reply \in [Admins -> Reply]
  /\ boot \in [Booters -> Boot]

(* Once a first key exists the committed table holds exactly one active    *)
(* key, whatever rotations and first boots overlap or fail half-way.       *)
OneActive == keys # NoRows => \E v \in DOMAIN keys : Active(keys) = {v}

(* Every committed row satisfies the CHECKs, and no two rows share key     *)
(* material: a retired key does not come back under a new version.         *)
SoundTable ==
  /\ \A v \in DOMAIN keys : RowChecks(keys[v])
  /\ \A v, w \in DOMAIN keys : keys[v].material = keys[w].material => v = w

(* Row locks and the active row: at most one transaction has retired the   *)
(* committed active key, and whoever is about to insert has done so, so    *)
(* the insert cannot meet field_crypto_keys_one_active.                    *)
RetireGuardsInsert ==
  \A a \in Admins : session[a].step = "insert" => ~ActiveTaken(a)

(* The active row is a's, retired and not yet committed. *)
HoldsActive(a) ==
  LET v == session[a].version
  IN  Active(keys) = {v} /\ v \in DOMAIN written[a] /\ ~IsActive(written[a][v])

(* The row a's request names is on file, retired for good. *)
NamesRetired(a) ==
  session[a].version \in DOMAIN keys /\ ~IsActive(keys[session[a].version])

Holding(a) ==
  LET step == session[a].step
      rotates == session[a].op = "rotate"
      v == session[a].version
      w == written[a]
  IN  /\ DOMAIN w \subseteq 1..sequence
      /\ step \notin {"insert", "commit"} => w = NoRows
      /\ step \in {"match", "retire", "insert"} => rotates
      /\ step \in {"load", "update"} => ~rotates
      /\ step = "retire" => v \in DOMAIN keys
      /\ step = "insert" => HoldsActive(a) /\ DOMAIN w = {v}
      /\ step = "commit" /\ rotates =>
           /\ HoldsActive(a)
           /\ \E n \in DOMAIN w \ DOMAIN keys : DOMAIN w = {v, n} /\ IsActive(w[n])
      /\ step = "update" => NamesRetired(a)
      /\ step = "commit" /\ ~rotates =>
           NamesRetired(a) /\ DOMAIN w = {v} /\ ~IsActive(w[v])

(* What open transactions have written, each under its row locks: nobody   *)
(* holds another's row; a rotation holds the active row, retired, and from *)
(* its insert on one new active row; an update holds the retired row it    *)
(* names.  Every version, committed or not, has been drawn.                *)
Uncommitted ==
  /\ DOMAIN keys \subseteq 1..sequence
  /\ \A a, b \in Admins : a # b => DOMAIN written[a] \cap DOMAIN written[b] = {}
  /\ \A a \in Admins : Holding(a)

(* The transactions cannot deadlock: whoever holds a row is past the last  *)
(* statement that may wait for one, and the insert of a rotation meets no  *)
(* uncommitted row in field_crypto_keys's unique indexes, which it would   *)
(* have to wait for while it holds the retired one.                        *)
LockHoldersRun ==
  /\ \A a \in Admins : written[a] # NoRows => session[a].step \in {"insert", "commit"}
  /\ \A a, b \in Admins :
       a # b /\ session[a].step = "insert" => DOMAIN written[b] \subseteq DOMAIN keys

(* A rotation told that its key material is on file was told the truth: no *)
(* concurrent rotation or first boot produces that answer.                 *)
ConflictNamesMaterial ==
  [][\A a \in Admins :
       reply[a] # "key_material_in_use" /\ reply'[a] = "key_material_in_use"
         => session[a].material \in OnFile(keys)]_vars

(* History is append-only across operations: a row's material never        *)
(* changes, a retired key is never re-activated or re-dated, a compromise  *)
(* flag is never moved or lifted, and a new key outranks every old one.    *)
AppendOnly ==
  [][/\ DOMAIN keys \subseteq DOMAIN keys'
     /\ \A v \in DOMAIN keys :
          /\ keys'[v].material = keys[v].material
          /\ ~IsActive(keys[v]) => keys'[v].retired = keys[v].retired
          /\ keys[v].compromised # NULL => keys'[v].compromised = keys[v].compromised
     /\ \A v \in DOMAIN keys' \ DOMAIN keys : \A w \in DOMAIN keys : w < v]_vars

(* A rotation that loses a race loses it to a successor: it is turned away *)
(* for want of an active key only when the table is empty or the key it    *)
(* matched has been replaced, and then it has not retired the replacement. *)
LoserLostToSuccessor ==
  [][\A a \in Admins :
       reply[a] # "no_active_key" /\ reply'[a] = "no_active_key"
         => \/ keys = NoRows
            \/ \E v \in Active(keys) : session[a].version < v]_vars

(* The 404 / 409 split made by loadRetiredKey still holds when the UPDATE  *)
(* runs: a key found retired cannot be active by then, so the UPDATE is    *)
(* refused only by the CHECK, when a zero-day window meets a transaction   *)
(* older than the retirement.                                              *)
SplitHolds ==
  \A a \in Admins :
    session[a].step = "update" =>
      /\ session[a].version \in DOMAIN keys \ Active(keys)
      /\ ~RowChecks(UpdatedRow(a)) =>
           /\ session[a].op = "grace" /\ session[a].days # NULL
           /\ session[a].at + session[a].days * Day < keys[session[a].version].retired

(* First boot converges: a process fails to start only because its         *)
(* environment names material that is not the active key's, or the         *)
(* identity column is exhausted; never for want of a usable key after      *)
(* losing the race.                                                        *)
BootVerdict ==
  \A p \in Booters :
    LET b == boot[p]
    IN  /\ b.step = "ready" =>
             b.adopted \in DOMAIN keys /\ EnvKey[p] \in {NULL, keys[b.adopted].material}
        /\ b.step = "failed" =>
             \/ b.adopted \in DOMAIN keys /\ EnvKey[p] \notin {NULL, keys[b.adopted].material}
             \/ b.adopted = 0 /\ sequence = MaxVersion

(* No request waits for ever on another's row lock, and no start-up on a   *)
(* rotation's.                                                             *)
Answered == \A a \in Admins : session[a].step # "idle" ~> session[a].step = "idle"
BootDecided ==
  \A p \in Booters : boot[p].step = "insert" ~> boot[p].step # "insert"

(* The committed table changes only as KeyRing says. *)
ImplementsRing == RingSpec

(* How far the lifecycle response may be trusted: the column the request   *)
(* set, the retirement and any compromise date it names are those the      *)
(* table holds for good.  What another request has set since the key was   *)
(* loaded may be missing, a flag or a deadline; a flag that never was, or  *)
(* was moved, is not reported.                                             *)
ReportOnlyLags ==
  [][\A a \in Admins :
       session[a].op \in {"mark", "grace"} /\ reply[a] = "none" /\ reply'[a] = "ok" =>
         LET told == ReportedRow(a)
             row == keys'[session[a].version]
         IN  /\ told.material = row.material /\ told.retired = row.retired
             /\ told.compromised \in {NULL, row.compromised}
             /\ session[a].op = "mark" => told.compromised # NULL
             /\ session[a].op = "grace" => told.until = row.until]_vars

(* What the lifecycle response says of a key (openapi.fragment.yaml: a     *)
(* null decryptable_until "means no deadline") is what the transaction     *)
(* that answers has committed for it.                                      *)
ReportIsCommitted ==
  [][\A a \in Admins :
       session[a].op \in {"mark", "grace"} /\ reply[a] = "none" /\ reply'[a] = "ok"
         => ReportedRow(a) = keys'[session[a].version]]_vars
=============================================================================
