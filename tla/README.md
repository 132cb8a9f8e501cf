# core-module: verification project

TLA+ models of the core module's own logic, TLC runs over small instances of
them, and machine-checked proofs of every safety property those runs check. Paths are relative to the
repository root, with `src/` in front.

1. [The system](#the-system)
2. [Modules and the code they model](#modules-and-the-code-they-model)
3. [Runs](#runs)
4. [Fairness](#fairness)
5. [Proofs](#proofs)
6. [Where the code and its documents disagree](#where-the-code-and-its-documents-disagree)
7. [What is not modelled](#what-is-not-modelled)
8. [Plan](#plan)

## The system

core-module is a Go service (chi, pgx, PostgreSQL) with a TypeScript client
library. It keeps *entities* (natural persons, corporations, service accounts,
apps) under authorization, audited through observers, and encrypts two columns
(`natural_persons.ssn`, `corporations.ein`) under rotating keys kept in the
database. What cannot be repaired afterwards is in the last part: a lost key or
a blob nobody can open. The entity endpoints add transactions of several
statements over several tables, observers inside them, and one pool of
connections that everything shares.

| component | state | operations | talks to |
|---|---|---|---|
| Key table (`model/migrations/0017`, `model/queries/field_crypto_keys.sql`) | rows `version, key_bytes, retired_at, decryptable_until, compromised_at`; the identity sequence | retire, insert, insert-initial, mark, set deadline, load usable | the admin handler, first boot, every cipher's reload |
| Key admin handler (`api/httpapi/field_crypto_keys.go`) | one transaction per request | rotate, mark-compromised, grace, list | key table, observers, the local cipher's `Reload` |
| First boot (`api/internal/fieldcrypto/generate.go`) | none of its own | load, insert if empty, reload, check the environment's seed | key table |
| Cipher (`api/internal/fieldcrypto/fieldcrypto.go`) | snapshot pointer, `reloadMu`, `lastLoadAttempt` | Encrypt, Decrypt, DecryptWithRotation, Reload | key table |
| RotatingCipher (`api/service/rotating_cipher.go`) | none; a short transaction per write-back | decryptRotating, writeBack, verifyStale | cipher, entity rows |
| Transactions (`api/txhelper/txhelper.go`) | the open transaction, its pool connection | Run, RunSerializable | everything that writes |
| Entity services (`api/service/*.go`) | rows of `entities`, `legal_entities` and the kind's own table | create, read, update, archive | transactions, observers, cipher, RotatingCipher, authorization |
| Entity handlers (`api/httpapi/{natural_persons,corporations,service_accounts,entities}.go`) | none | decode, call the service, read back what was updated | entity services |
| Observers (`api/observer/observer.go`) | registry filled at start-up | in-transaction fan-out, post-commit dispatch | the operation's transaction |
| Apps (`api/httpapi/apps.go`) | `apps` rows | create, update, archive | transactions, observers |
| Authorization (`api/authz/setup/*.go`) | grants, groups | closure over groups and resources | entity services |
| Types, display (`api/types`, `api/display`) | type tree, registries | ancestor walk, lookup | entity services |
| Entity schema (`model/migrations/0008..0013`) | rows and triggers | type and ownership triggers | entity services |
| GUI library (`gui/src/lib`) | token, toast queue, style package | request, redirect on 401, enqueue, load styles | the HTTP API |

What makes each correct, and where it is hard:

* **Key table and its transactions.** Exactly one active key once there is any;
  key material never on file twice; retirement and compromise never undone. Hard:
  READ COMMITTED statements that wait for a row lock and look again at the row
  they had matched; two transactions between retire and insert; a failure
  between them; several first boots; a sequence that a rollback does not return.
* **Admin handler.** Every request is answered, and truthfully: "that material
  is in use", "that version is active", "there is no active key". Hard: the 404/409
  split is made on a row read without a lock, and the answer is put together
  from two statements with two snapshots.
* **Cipher.** A reload that returns nil shows the caller everything committed
  before it; snapshots only move forward; Encrypt's snapshot is not older than
  the TTL; the load budget counts the attempts it should. Hard: waiters that
  return without a query of their own, loads that are slow, fail, or are cancelled.
* **RotatingCipher.** A read never changes what is stored except for its key,
  never resurrects an overwritten value, never leaves a compromised ciphertext
  behind while returning the plaintext, and ends. Hard: overlapping reads and
  updates on replicas with different snapshots, lock timeouts with a retry, COMMIT
  that fails or whose acknowledgement is lost.
* **Entity services, apps.** No reader finds half an entity; slugs are unique;
  updates of different members do not undo each other; every request ends. Hard:
  up to three tables and readers that go table by table; read-then-write in READ
  COMMITTED; waits for rows, index entries, connections and a mutex at once.
* **Observers.** Under the default policy a change is committed only with every
  observer's record; what a request reports as done is in the tables. Hard: SQL
  failures inside the shared transaction, observers in parallel on its one
  connection.
* **GUI library.** The last style package asked for wins; one redirect for many
  401s.

The authorization functions and the type and display registries are listed for
completeness: the first are SQL that one statement evaluates, the others do not
change after start-up.

`PROJECT.json` lists the single hazards with their lines and the properties that
watch each.

## Modules and the code they model

```
KeyRing ------ what the key table promises (atomic operations) + the SQL clauses
  |
  +-- KeyAdmin ------ the same operations statement by statement; implements KeyRing
  +-- RotateOnRead -- a fleet of ciphers over KeyRing's table
KeySetReload - one cipher's reload in detail

EntityStore -- what clients of the entity endpoints rely on
  |
  +-- Entities ------ handlers, services, transactions, observers, pool;
                      implements EntityStore

MCKeyAdmin, MCRotateOnRead, MCKeySetReload, MCEntities     the TLC instances

KeyRingProofs ------- facts about rows and tables, used by the next three
  +-- KeyAdminProofs ------- the committed table and the transactions' locks
  |     +-- KeyAdminRingProofs -- history, answers, the refinement of KeyRing
  +-- RotateOnReadProofs --- what a read does to a column
        +-- RotateOnReadFleetProofs -- what replicas know, and how old knowledge must be to do harm
EntitiesProofs ------ whole entities, reports and records; the refinement of EntityStore
  +-- EntitiesWaitProofs -- deadlocks, the pool, stalls; what overtakes an update
KeySetReloadProofs
```

The three detailed modules of the first half meet at `KeyRing`: `KeyAdmin` shows that the admin
transactions change the committed table only as `KeyRing` says, so
`RotateOnRead` can use `KeyRing`'s atomic operations; `KeySetReload` shows what a
reload yields, which `RotateOnRead` takes as one step.

**KeyRing.** The first half translates the rows, the CHECK constraints and the
SET clauses of the queries to operators (`RetiredRow`, `FlaggedRow`, `GraceRow`,
`Usable`, ...) and the handler's range checks to `AllowedDays` and
`RotationTerms`. The second half is the abstract specification: `Bootstrap`,
`Rotate`, `MarkCompromised`, `SetGrace`, `Tick`. `now()` is the instant a
transaction began, so the operations take it as a parameter that may lie before
`clock`. Key bytes are abstract materials; only whether two are equal matters.

**KeyAdmin.** One step is one SQL statement or a COMMIT.

| code | action |
|---|---|
| `Rotate`: begin; `RetireActiveFieldCryptoKey`; `InsertActiveFieldCryptoKey` | `BeginRotate`; `MatchActive`, `RetireActive`; `InsertActive` |
| `MarkCompromised`, `SetGrace`: begin; `loadRetiredKey`; the UPDATE | `BeginMark`, `BeginGrace`; `LoadRetiredKey`; `UpdateKey` |
| `txhelper.Run`: COMMIT, or an error from a statement, an observer or COMMIT | `Commit`, `Fail` |
| `NewFromEnvOrGenerate`: load; insert-initial; reload; `checkEnvSeed` | `BootLoad`; `BootSeed`, `BootInsert`; `BootReload`; `EnvMismatch` |
| a process dies | `Fail` for its requests, `Restart` for its start-up |

An UPDATE is two steps where PostgreSQL has two: the snapshot matches rows
(`MatchActive`), and the row is looked at again once its lock is free
(`RetireActive`). The same holds for `INSERT ... WHERE NOT EXISTS ... ON
CONFLICT DO NOTHING` (`BootSeed`, `BootInsert`). Uncommitted rows live in
`written`, which is also the set of row locks. The sequence moves at every
attempt to insert, whether or not the insert survives.

**KeySetReload.** The table is a count of committed changes, and a snapshot is
the number of changes it includes plus `loadedAt`: that is all staleness and
collapsing depend on. Encrypt and openBlob outside `reload` are single steps
(they read an atomic pointer), `reload` is split where it can be interleaved:
`Enter` takes the time, `Collapse`/`Attempt` hold the mutex, `Query` runs at the
store, `Install`, `LoadFails` and `LoadCancelled` are its three outcomes.

**RotateOnRead.** The column of one row, the row lock, a snapshot per replica,
reads and updates. A read is `Fetch`, `DecryptWithRotation`, `SwapBlob` (with
`LockTimeout`, at most one retry), `VerifyStale`, `CommitWriteBack` or
`WriteBackFails`; an update is `SealUpdate`, `UpdateRow`, then commit or
rollback. A blob carries its key version, plaintext and a nonce, so two seals of
one value differ and the compare-and-swap on the bytes is equality of blobs. An
admin transaction, a Reload and a read take less than a clock tick
(`writeBackTimeout` is 250 ms, a tick is half of the TTL's order or more), which
is why `FleetTick` waits for reads to end. "Degraded" is an Encrypt whose reload
failed or was refused by the budget. Clearing a column stores zero-length bytes
(`service/natural_person.go:307-314`), which decrypts to "no value" just as NULL
does; `NoBlob` is both. Writers are not tied to a replica after sealing, because
nothing they do later depends on one.

**EntityStore.** The abstract specification: a partial map from ids to whole
entities, with `Create`, `Change` and `Archive` (which nothing undoes), and for
apps the uniqueness of slugs.

**Entities.** A handler, with the service it calls, is the list of its steps in
the order of the code (`NaturalPersonCreate`, `UpdateApp`, ...), so the order of
statements is read off the definition that `map` gives the code's lines; each
kind of step is one action, and between two of them any other request may move.

| code | steps | action |
|---|---|---|
| decoding, path and body checks | `receive` | `Receive` (what they let through) |
| `Authorize`, `GetEntityByUUID` | `authorize`, `resolve` | `Authorize`, `Resolve` |
| `txhelper.Run`: begin, COMMIT, any early return | `begin`, `commit` | `Begin`, `Commit`; `End` is the rollback |
| `CreateEntity`, `CreateLegalEntity`, `Create...` of the kind | `entity`, `legal_entity`, `insert` | `CreateEntity`, `CreateLegalEntity`, `Insert` |
| the read an update merges with | `select` (services, in the transaction), `load` (apps, before it) | `Select`, `Load`, `Merged` |
| the UPDATE, and the index on `apps.slug` | `update`, `unique` | `Update`, `Unique` (with `Contenders`, `Taken`) |
| `ArchiveEntity` | `archive` | `ArchiveEntity` |
| `UpdateApp`'s best-effort re-fetch | `refetch` | `Refetch` |
| `Cipher.Encrypt`, `Decrypt` with a reload | `encrypt`, `profile` | `Encrypt`, `Profile`, then `Lock` and `Query` |
| `ObserverGroup.Observe`, `ObserveAfterCommit` | `observe`, `notify` | `dispatch`, `Notify` |
| a failed statement, a client gone, a crash | | `Fail` |
| PostgreSQL's deadlock detector | | `DeadlockVictim` |

Committed rows are `entities`, `legal_entities`, `subtypes`; what a transaction
has written stays in its `call` until `Commit` (`wrote` is also its locks). A
transaction holds a connection of the pool from `begin` to `commit`, every
statement outside one needs a free one for the moment, and so does the reload
that Encrypt may ask for *inside* one. A behaviour is about one kind of entity:
kinds share no rows but those of `entities`, whose ids are never shared, so requests
about two kinds meet only at the pool and the mutex, where the kind does not
matter. For the same reason a request that names an entity of another kind is
left out. It changes nothing: the services' `GetByEntityUUID` resolves any entity
and returns the profile of its own kind (`service/profile.go:62-98`), an update finds no row of its
kind in its transaction and is answered 404, as are the app endpoints; archiving
through `/entities` is the same statement for every kind and is modelled for
each. `dispatch` states what the parallel observers leave
rather than how they ran: each has recorded the change, has failed without harm
to the transaction, or has failed in a statement, which aborts the transaction
whatever the policy says of the error. Encrypted columns appear here as steps
only; what is in them is `RotateOnRead`'s subject. So is the write-back that a
GET of a person or corporation may run: `Profile` has its key reload and leaves out its
transaction, which begins when the GET holds no other connection and each attempt of
which, of two at most, `writeBackTimeout` ends after 250 ms
(`service/rotating_cipher.go:319`), so it can delay a request but nothing can wait
on it for ever.

Operators that only state how the code could be wrong (`MatchedBefore`,
`OverRefund`, ...) stand directly before the definition they could replace; the
specifications do not use them. They are how each property was tested for
being able to fail: PROJECT.json `mutants` pairs each property with one.

## Runs

| run | question | instance |
|---|---|---|
| `KeyAdminRotate` | Do concurrent rotations, flags, failures and first boots keep one active key, unique material, sound locks and truthful refusals? | 2 admins, 2 starting processes, 3 materials, 3 versions, no clock |
| `KeyAdminDeadlines` | The same transactions with deadlines: CHECKs, the 404/409 split, history, and the refinement of `KeyRing` | 2 admins, 1 process, 2 materials, days -1..2 with a maximum of 1, clock 0..2 |
| `KeyAdminAnswers` | Is every request answered and every start-up decided, when two processes name different keys in their environments? | 2 admins, 2 processes, 2 materials, 2 versions, no clock, fair |
| `KeySetReload` | Are reloads fresh, snapshots monotone, the budget right, and does every call return? | 2 goroutines, TTL 2, interval 1, one table change, clock 0..3, fair |
| `RotateOnReadFleet` | Is new ciphertext readable across replicas of different age, and how old must a snapshot be for a flag to be missed or a lapsed key used? | 2 replicas, 1 read, 1 update, 2 values, 2 versions, 3 seals, TTL 1, day 2, clock 0..2 |
| `RotateOnReadRace` | Two reads on two replicas against each other and an update that may hold its lock for ever: does the column keep its value, is compromised ciphertext gone, do they end? | 2 replicas, 2 reads, 1 update, 2 values, 3 seals, no clock, fair |
| `Entities` | Do the entity requests implement a store of whole entities, is what they report and audit what they commit, and do they all end? | 2 requests, 2 observers, both policies, all four kinds, 2 connections, 2 apps or 1 entity of another kind, fair |
| `KeyAdminReport`, `RotateOnReadExpired`, `RotateOnReadFlag`, `RotateOnReadVerify`, `EntitiesNilMembers` | Five statements of the repository the code does not keep; see [below](#where-the-code-and-its-documents-disagree) | |

What the properties say:

* `OneActive`, `SoundTable`, `RetireGuardsInsert`, `Uncommitted`: the committed
  table and what open transactions have changed, for every interleaving.
* `LockHoldersRun`: whoever holds a row of `field_crypto_keys` has no statement left
  that may wait for a row, and a rotation's insert finds no uncommitted row in the
  unique indexes to wait for. So the admin transactions and first boots cannot
  deadlock; nothing in the code says so, it follows from the order of the
  statements and from `StillActive`, which sends the loser of a race away before it
  inserts.
* `ConflictNamesMaterial`: the handler turns *any* unique violation into
  `key_material_in_use`. The comment on the SQLSTATE names a second cause, "the
  one-active partial index (a concurrent rotation that slipped past the retire step)"
  (`httpapi/field_crypto_keys.go:440-444`); the run, with `RetireGuardsInsert`, shows that
  no rotation slips past and only the material is ever the cause.
* `LoserLostToSuccessor`: a rotation that lost the race is turned away, and never
  retires the key that won.
* `SplitHolds`: between the unlocked read and the UPDATE a retired key cannot
  become active. The only late refusal is the CHECK: a zero-day window from a
  transaction that began before the retirement it now edits.
* `AppendOnly`, `ImplementsRing`: what may never happen to a row, and the
  refinement.
* `ReportOnlyLags`: what remains true of a lifecycle response although it is made
  of a row read before the UPDATE (`KeyAdminReport`). The column asked for, the
  retirement and any compromise date it names are the table's for good; only
  what another request has set in the other column may be missing.
* `BootVerdict`, `BootDecided`, `Answered`: a start-up fails only for its
  environment's key or an exhausted sequence; nobody waits for ever.
* `ReloadIsFresh`, `SnapshotMonotone`, `BudgetIsLastCharge`, `EncryptWithinTTL`,
  `CallsReturn`: what `fieldcrypto.go`'s comments argue for in prose.
* `ColumnKeepsValue`, `CompromisedGone`, `EncryptReadable`, `ReadsEnd`: what a
  read may do to a row, and what it may answer.
* `FlagMissedByOlder`: how a flag comes to be missed (`RotateOnReadFlag`): only by
  a snapshot loaded no later than the flag was set. A read that tolerates a failed
  write-back on a replica that has reloaded since is excluded.
* `DegradedForADay`: an update seals under a key that has *lapsed* (its deadline
  is over and left it the day a rotation grants) only when its reload failed or was
  refused, and only with a snapshot a whole day old. Unlike `EncryptReadable` this
  does not depend on which windows `PUT .../grace` may set, see below.
* `SnapshotsLag`: whatever a replica knows of the keys is in the table for good, and
  the column is under a key on file however old the snapshot it was sealed out of.
  `Rotate` reloads this process's cipher after the COMMIT
  (`httpapi/field_crypto_keys.go:378`); after a reload inside the transaction blobs
  could be sealed under a key that a rollback then takes away.
* `StoreIsWhole`: the refinement of `EntityStore`. `View` shows an entity as
  whole only if all of its rows are there and as `Torn` if some are, and no step
  of the abstract store produces a torn one.
* `ReportedIsStored`: a request that gets past COMMIT has done what it set out
  to, also where `PolicySwallow` or the re-fetch have passed over a failed
  statement: the transaction is then aborted, and its COMMIT is what fails.
* `AuditedAtomically`, `AfterIsCommitted`: observers' records and the after-state
  they are given belong to what is committed, in the same transaction.
* `ArchivedOnce`: an archive that waited for another's row lock changes nothing.
* `OvertakenByUpdates`: how an update comes to undo another (`EntitiesNilMembers`).
  From the read to the UPDATE the row an update is about to write is the committed
  one with the request's members replaced, until another *update* of the entity
  commits: no archive, no failed or rolled-back request and no other entity's request comes in
  between. An update that was not overtaken leaves the members it does not name.
* `DeadlocksAreSwaps`: in any set of transactions that wait for each other there are
  updates of apps that take each other's slugs. No other pair of requests can
  deadlock, on rows, index entries or both.
* `StallsExplained`: rows, index entries, connections and the reload mutex are
  waited for by the same requests, and every one of them may be waiting at once in
  two ways only, such a deadlock or `Starved` (below). It holds because Encrypt
  comes before the first row lock of an update; with the two swapped (the mutant) a
  third way appears, in which a lock holder waits for a connection.
* `RequestsEnd`: every request ends or the pool is `Starved`: every connection is
  held by a transaction that waits, inside Encrypt, for one more connection or for
  the mutex of the one that does. The run reaches that state, with as many
  concurrent creates or updates of encrypted columns as there are connections,
  each asking for a reload. `src/plan/plan-summary-fieldcrypto-key-rotation.md:348`
  describes the same shape for another caller, the second connection of a write-back run
  for somebody who holds a transaction open, and notes that the module's own handlers do not
  do that; Encrypt's reload inside the services' transactions is not
  mentioned there. In the program the deadline of a request ends it; the property does
  not count on one.

**Bounds and why they are enough.** Two transactions are what a lock wait needs;
each property names at most two. Three materials and versions give a rotation
over a rotation, so a loser can meet the winner's key; a lost boot race or a
rolled-back insert consumes versions, so `MaxVersion` is also reached, which is
the exhausted identity column. The days -1..2 with a maximum of 1 lie at and just
outside both ends of the range the handler lets through (0 for grace, 1 for
rotation). `MaxClock = 2` lets a transaction begin before a retirement, run
after it, and see a deadline pass. In `KeySetReload` a TTL of two ticks with an
interval of one separates "stale", "rate limited" and "allowed", and three ticks
let a load straddle both. `MaxSeals` bounds the blobs ever sealed: three allow
an update, a write-back and another writer between them. `RotateOnReadFleet` has
a day of two TTLs, as the real floor of one day is many TTLs of 60 s;
`TTLAssumption` states the part that is used. `RotateOnReadRace` has no clock, as what
it asks does not depend on one: deadlines and the TTL only decide which snapshot a request
uses, and in it a replica may have the one before or after a rotation and a flag. In `Entities` a second request is what every wait in it needs (a
row, an index entry, the mutex, a connection), two connections are the fewest for
which one transaction's reload can go through while another transaction is open,
and two apps are needed for a slug conflict and for two updates that exchange
their slugs; nothing relates two entities of the other kinds. Two observers are
what "some recorded it and some did not" takes. An update of a person, corporation
or service account gives one of two values or no value, which is enough for a
merge to differ from what is stored; an app's gives any slug. The second member
of an update (`MCHalves`) matters in `EntitiesNilMembers` alone. `CHECK_DEADLOCK FALSE` is set
nowhere: in every model something (a new request, a restart) can always happen.

`SYMMETRY` permutes materials, admins, processes, replicas and values in the runs
without liveness properties only, and only where the model names none of them.

`EncryptReadable` deserves a caveat. It holds because a *rotation's* grace period
is at least a day. `PUT .../grace` with 0 days closes the window of a retired key
at once; a replica that has not reloaded then seals blobs under a key nobody may
use. The run has `RequestDays = {1}`: an operator who does that is outside it.
`DegradedForADay` is what is left when such an operator is inside: the run has the
same instance, its theorem (below) has any windows.

## Fairness

* `KeyAdmin!AdminFairness`: every enabled statement runs (weak fairness); a
  statement that waits for a row lock gets it eventually (strong fairness on
  `RetireActive`, `UpdateKey`, `BootInsert`), because PostgreSQL's lock manager
  queues waiters. Nothing obliges a client to send a request, a clock to advance,
  a transaction to fail, or a process to restart.
* `KeySetReload!Fairness`: goroutines run, the store answers (or fails, or the
  context ends), and the mutex is handed to waiters in turn (strong fairness on
  `Collapse \/ Attempt`): `sync.Mutex` switches to FIFO hand-over once a waiter has
  starved for a millisecond.
* `RotateOnRead!Fairness`: only the read's own steps. Updates may hold the row
  lock for ever; `lock_timeout` is what makes reads end all the same.
* `Entities!Fairness`: strong fairness of each request's next step, because row
  locks, waits for index entries, the connection pool and the mutex all serve those
  who wait in turn, and weak fairness of the deadlock detector. No client has to
  send anything; `Fail` is not fair, so nothing ends thanks to a failure.

## Proofs

### Key table and its admin transactions

`KeyAdminProofs` proves, for any sets of sessions, processes, materials and
any version bound:

| theorem | says |
|---|---|
| `Invariance` | `AdminSpec => []IInv` |
| `TypeCorrect` | `AdminSpec => []TypeOK` |
| `ExactlyOneActive` | `AdminSpec => []OneActive` |
| `InsertNeverMeetsActive` | `AdminSpec => []RetireGuardsInsert` |
| `LockDiscipline` | `AdminSpec => []Uncommitted` |

from the assumptions the modules name (`NullAssumption`, `VersionsAssumption`,
`DaysAssumption`, `ClockAssumption`, `EnvKeyAssumption`, `MaxVersionAssumption`),
which TLC evaluates in every run of `MCKeyAdmin`. `KeyAdminRingProofs` and
`RotateOnReadProofs` rest on those of them that `KeyRing` names, too.

The inductive invariant is

```
IInv == TypeOK /\ Inputs /\ Uncommitted /\ OneActive
```

`OneActive` alone is not inductive: a commit that adds a new active row keeps it
only if the same transaction retires the old one, and only if the old one is
*still* the committed active row. That is `Holding`: a rotation at its insert or
commit step has the active row, retired, among its own. It stays true because
nobody else can change that row meanwhile, which is the disjointness of the
`written` domains, and because a new version is above `sequence`, which bounds
every version, committed or not: so another transaction's insert cannot collide
with it. `Inputs` says what a request carries (the range of its
deadline and material), which the row types need. `InsertNeverMeetsActive`
follows from `Holding`: the view of a transaction at its insert has no active row,
so the `one_active` index cannot be what refuses it.

The proof has one lemma per action, each split by the conjuncts the action can
disturb, and lemmas about tables (`Put`, `Overlay`, `Active`) cited by name; those
that do not depend on the transactions are in `KeyRingProofs`.

`KeyAdminRingProofs` goes on from there to the history and the answers:

| theorem | says |
|---|---|
| `HistoryInvariance` | `AdminSpec => []HInv` |
| `Refinement` | `AdminSpec => ImplementsRing` |
| `TableSound` | `AdminSpec => []SoundTable` |
| `HistoryAppendOnly` | `AdminSpec => AppendOnly` |
| `FirstBootConverges` | `AdminSpec => []BootVerdict` |
| `SplitKept` | `AdminSpec => []SplitHolds` |
| `ConflictIsTrue` | `AdminSpec => ConflictNamesMaterial` |
| `LoserHasSuccessor` | `AdminSpec => LoserLostToSuccessor` |

```
HInv == /\ IInv /\ SoundTable /\ BootVerdict /\ LosersReload
        /\ \A a \in Admins : Asked(a) /\ Wrote(a)
```

`Wrote` is the heart of it: what a transaction has written is still what it would
write *now*. The rows a transaction has read stay as they were because it holds
their locks, and its new row stays new because every version on file is at most the
sequence and whoever adds key material has the active row locked. So at its COMMIT the overlay of what it wrote is one `Put` (mark, grace) or two (rotate) on the
table of that moment, which is what `KeyRing` does in one step; every other step of
a request is a stutter. The remaining theorems follow from that: a commit appends to
the history, and a request that is turned away is turned away by a committed row.
`Asked` holds that a transaction began no later than `clock`, which `SplitHolds`
needs, and that the key a rotation matched is never newer than the active one.

Two more theorems of this module are about locks and the lack of one:

| theorem | says |
|---|---|
| `HoldersNeverWait` | `AdminSpec => []LockHoldersRun` |
| `ReportLagsOnly` | `AdminSpec => ReportOnlyLags` |

The first follows from `Holding`: a second rotation with a new row of its own would
hold the same active row. The second says how far the lifecycle response can be wrong, with any number of requests
about one key at a time. `loadRetiredKey` takes no lock, so the row a request
has read need not be the committed one; but it *was* (`Loaded`), and between two states of
a retired key's row lies only what `Lags` allows: its material and
retirement do not change, and a flag may be set and is never moved, which is
`Appended` of every commit. At the request's own COMMIT the column it set comes from
what it wrote (`Wrote`), not from what it read. `ReportIsCommitted`, which says that
nothing may be missing, is not kept; `KeyAdminReport` is the run.

### Entity requests

`EntitiesProofs` proves, for any finite set of requests, any observers and values, any
pool size, any number of entities and any bodies of updates:

| theorem | says |
|---|---|
| `Invariance` | `Spec => []IInv` |
| `TypeCorrect` | `Spec => []TypeOK` |
| `StoreImplemented` | `Spec => StoreIsWhole`, the refinement of `EntityStore` |
| `ReportStored` | `Spec => ReportedIsStored` |
| `AuditAtomic` | `Spec => AuditedAtomically` |
| `AfterCommitted` | `Spec => AfterIsCommitted` |
| `ArchivalOnce` | `Spec => ArchivedOnce` |

from `KindAssumption`, `PolicyAssumption`, `BoundAssumption` and `NullAssumption`.

```
IInv == /\ TypeOK
        /\ \A s : Fits(call[s]) /\ Agrees(call[s])
        /\ \A s, t : s # t => Apart(call[s], call[t])
        /\ Whole
```

`Fits` ties what a request has written, recorded and read to how far it is in its
handler: at its commit step a create has written all of its rows, an update has a
complete row, the after-state is that row unless the transaction is aborted, and
under the default policy every observer has recorded it. `Agrees` ties a request
to the committed tables (the id of a create is still unused, the entity it
archives is still live, the slug it has claimed is nobody's), and `Apart` one
request to another, which is what keeps `Agrees` true when the other commits.
`Whole` is what the tables then amount to. None of the theorems' formulas is
inductive without these: that a commit leaves a whole entity depends on every
statement before it, and on no other transaction holding the same id, slug or row.

The rest of the argument is about order, and there the handlers being data pays:
`HandlersOrdered` states, once and for every handler, what must have come before
each of its steps (`Follows`) and which steps it may contain (`Belongs`), by
evaluating the lists. A lemma per action uses those facts rather than the handlers;
steps that write no row share `QuietStep`, those that write share `WriteStep`.
`CommitEffect` reduces a commit to four cases (a creation, a change, an archival,
nothing), and the refinement, `Whole'`, `Agrees'` and the action properties follow
from the cases. For the refinement, every other step leaves the view unchanged and
each case is the `EntityStore` action of that name or a stutter.

`EntitiesWaitProofs` goes on from there to who waits for whom, for any number of
requests and any pool:

| theorem | says |
|---|---|
| `OnlySwapsDeadlock` | `Spec => []DeadlocksAreSwaps` |
| `PoolSuffices` | `Spec => []PoolHolds`, `FreeConnections \in Nat` |
| `StallsAreExplained` | `Spec => []StallsExplained` |
| `OnlyUpdatesOvertake` | `Spec => OvertakenByUpdates` |

Again order is what counts. `HandlersQueue` evaluates the lists for the steps in
which a request may have to wait (`Waits`): nothing has been locked before an
update or an archive, nor before a step that needs a connection unless the
transaction is over, and the index is entered once. So a request that is waited for
and waits itself is at its `unique` step with its row locked (`AwaitedWaits`), and it is
no `createApp`, whose row nobody else can see; what is left is `updateApp`. The set
of those in a deadlock is the swap. For `StallsExplained` take all who wait
for a row or an entry: whoever they wait for needs no connection
(`HolderNeedsNoConnection`), so waits for a row or an entry too, and they are a
deadlock. If there are none, somebody waits for a connection, so none is free
(`PoolSuffices`: not fewer than none, which is a fact about cardinalities and
why `BoundAssumption` asks for finitely many `Sessions`), and whoever holds one does
so in Encrypt.

`OnlyUpdatesOvertake` says what the missing lock of the updates can cost, however
many of them are about one entity. `UpToDate` holds when the row is read
(`JustRead`) and through every step of the update's own before its COMMIT
(`UpdateStep`). Among the other requests' steps only COMMITs change the tables, and
by `CommitEffect` only four ways: a creation has an id of its own, an archival changes
no row of the kind, a failed transaction changes nothing, so what is left is
another update of the entity (`OthersSpare`). `NilKept` is the other half, the COMMIT of
one that is still up to date.

### One cipher's reload

`KeySetReloadProofs` proves, for any set of goroutines, any TTL and interval and any
bounds, from `GoroutineAssumption`, `IntervalAssumption` and `BoundAssumption`:

| theorem | says |
|---|---|
| `Invariance` | `Spec => []IInv` |
| `TypeCorrect` | `Spec => []TypeOK` |
| `FreshReload` | `Spec => []ReloadIsFresh` |
| `SoundBudget` | `Spec => []BudgetIsLastCharge` |
| `BoundedStaleness` | `Spec => []EncryptWithinTTL` |
| `MonotoneSnapshot` | `Spec => SnapshotMonotone` |

```
IInv == /\ TypeOK /\ Exclusive /\ Current /\ ReloadIsFresh /\ BudgetIsLastCharge
        /\ \A g \in Goroutines : Proper(g)
```

A waiter that finds a snapshot newer than its own entry returns without a query
(`Collapse`), so `ReloadIsFresh` needs a fact about a query somebody else made. That
is `Current`, and `Loaded` for rows that are not installed yet: what a load misses was
committed at or after the instant recorded *before* its query, hence after the
entry of everybody who collapses onto it. `Exclusive` (only the mutex holder is between
`Attempt` and `Install`) makes that instant, and the budget to restore on a
cancelled load, still those of the attempt that uses them.

### Re-encrypt-on-read

`RotateOnReadProofs` proves, for any fleet, any finite set of reads, any set of
updates and any bounds, from `RequestAssumption`, `ValueAssumption`,
`TTLAssumption`, `SealsAssumption` and those of `KeyRing`:

| theorem | says |
|---|---|
| `Invariance` | `Spec => []IInv` |
| `TypeCorrect` | `Spec => []TypeOK` |
| `ValueKept` | `Spec => []ColumnKeepsValue` |
| `NoCompromisedLeft` | `Spec => CompromisedGone` |
| `SealedReadable` | `Spec => EncryptReadable`, if `0 \notin RequestDays` |

```
IInv == /\ TypeOK /\ Tables /\ Budget /\ ColumnKeepsValue /\ Fresh
        /\ \A q \in Readers : Reads(q)
        /\ \A w \in Writers : Writes(w)
```

The compare-and-swap is on the bytes of the blob, and what could go wrong with one is
that the bytes come back. `Fresh` excludes it: a blob that a request has sealed
and not stored is not in the column, was never read from it, and is nobody
else's, so a blob that has left the column never returns. `Reads` is then stable:
a read has the row lock only over the blob it read, and is past its swap without
the lock only if that blob is gone. `Budget` reserves a nonce for every read that
may still seal (this is the model's bound, and why `Readers` has to be finite).

`SealedReadable` adds `Lasts`: the key a replica seals under is still active, or
keeps its deadline for a day after the snapshot was loaded. Rotations keep it because
of the floor on their grace period, the deadline route only without zero-day
windows, which is what the hypothesis says and the caveat under Runs is about. A day is
at least the TTL (`TTLAssumption`), so within the TTL the deadline is ahead.

`RotateOnReadFleetProofs` adds what the replicas know, and how old what they know has to be
for it to do harm:

| theorem | says |
|---|---|
| `KnowledgeInvariance` | `Spec => []KInv` |
| `NoBlobLosesItsKey` | `Spec => []SnapshotsLag` |
| `FlagMissedNeedsOlder` | `Spec => FlagMissedByOlder` |
| `LapsedSealNeedsADay` | `Spec => DegradedForADay` |
| `LapsedWriteBackNeedsADay` | `Spec => StaleForADay` |

`KInv` says of every snapshot that its rows were the table's and that what is missing
from it happened no earlier than it was loaded (`Known`), and of every blob, in the column or
still in a request's hands, that its key is on file (`Keyed`). The theorems need
no assumption on the snapshots' age nor on `RequestDays`; they say what age it takes.
For a flag `Known` is the answer (`Misses`). For a lapsed key it is the retirement that is
missing: a replica that seals under a key takes it for active, the table has retired it,
so the snapshot is as old as the retirement, and a key that has lapsed was retired a
day ago at least (`LapsedLags`). Windows cut short by `PUT .../grace` are not
lapsed in this sense, which is why zero-day windows need not be excluded here as
they must be for `SealedReadable`. An update also reloads once its
snapshot is a TTL old, and a TTL is at most a day, so only a degraded one remains. `StaleForADay` is
the same bound for write-backs, which look at no TTL. It is proved only: a
lapsed write-back takes a rotation after the one that the read meets,
hence three versions, with which a run of the fleet does not finish in
reasonable time. `RotateOnReadExpired` and `RotateOnReadFlag` are the runs in which snapshots
are that old.

### Model-checked only

Liveness (`Answered`, `BootDecided`, `CallsReturn`, `ReadsEnd`, `RequestsEnd`), which
the prover does not reach. Every invariant and every action property of the passing
runs, and both refinements, have a theorem. Of the five statements that the code does
not keep, four have a theorem that bounds how far it departs from them:
`ReportLagsOnly` for `ReportIsCommitted`, `OnlyUpdatesOvertake` for `NilMembersKept`,
`FlagMissedNeedsOlder` for `FlagHonoured`, `LapsedSealNeedsADay` and
`LapsedWriteBackNeedsADay` for `WriteBackReadable`. None of these assumes anything beyond the
specification. `OnlyToVersion` has none: any two replicas with different snapshots
are enough for it to fail.

## Where the code and its documents disagree

* **`KeyAdminReport`.** `SetGrace` and `MarkCompromised` answer with the row that
  `loadRetiredKey` read before the UPDATE, plus the one column the UPDATE returned
  (`api/httpapi/field_crypto_keys.go:484, 575`). An update another admin commits
  between the two statements is in the table and not in the answer, nor in the
  audit record. The API description says what `decryptable_until` in that answer
  means (`api/openapi.fragment.yaml:968-969`).
* **`RotateOnReadExpired`.** A write-back seals under the active key of the
  snapshot the read decrypted with, and nothing bounds that snapshot's age on a
  replica that only decrypts: the TTL is checked by `Encrypt` alone. After a
  rotation with a deadline such a replica replaces readable blobs with blobs under a key past
  its deadline. The comment that justifies the one-day floor
  (`field_crypto_keys.go:272-289`) assumes convergence within the TTL.
* **`RotateOnReadFlag`.** For the same reason a compromise flag set after the
  rotation never reaches that replica, and it goes on returning plaintext after a failed
  write-back, against `model/migrations/0017_field_crypto_keys.sql:55-58`.
* **`RotateOnReadVerify`.** `verifyStale` takes any version but its own
  `ToVersion` as one no legitimate writer leaves
  (`service/rotating_cipher.go:396-400`); a writer on a replica with an older or newer snapshot does.

* **`EntitiesNilMembers`.** `UpdateByEntityUUID` reads the row in its
  transaction without a lock and writes every plain column back, so of two
  concurrent updates that name different members the second restores what the
  first one changed (`service/natural_person.go:284`; the corporation's likewise,
  and `UpdateApp` with its read before the transaction, `httpapi/apps.go:306`).
  "Nil fields are left unchanged" is said at `service/natural_person.go:31`, 257 and
  `service/corporation.go:31`.

Seen while modelling, not runs: under `PolicySwallow` the observer's comment says
"log and continue", but after a failed SQL statement the operation continues into
a COMMIT that PostgreSQL turns into a rollback: the request fails all the same. A
second archive changes no row and is still handed to the observers as a delete.
A slug conflict of `createApp` and `updateApp` is answered as an internal error.
And `reload` checks its budget before it waits for
`reloadMu` and not again afterwards (`fieldcrypto.go:390, 426` against `433-449`), so a
goroutine that waited through a failed load tries again at once, closer than
the "shortest gap" of the comment at line 123. `BudgetIsLastCharge` is about what
is charged, and holds.

## What is not modelled

* **Values.** AES-GCM, the wire format of blobs, key bytes; names and ids are
  members of small sets. Formatting, logging, the response envelope and which
  status code an error gets.
* **In front of the handlers.** Authentication, decoding and validation appear as
  the requests they let through; `Authorize` as its two outcomes.
* **Authorization functions** (`authz/setup`). SQL text: a recursive query over
  groups that PostgreSQL evaluates. The Go code only installs it.
* **Types and display registries.** Filled at start-up, read afterwards.
* **Code without a caller here.** `LegalEntityService` (never constructed),
  `CreateInTx` (for other modules), `RunSerializable`, `MustObserve`, `MayObserve`,
  `UnarchiveEntity`, and the schema's type and ownership triggers, which
  guard against statements no service issues. `NewFromKey` has no store.
* **The observers themselves.** They are registered by the program that uses this
  module; a post-commit one may also be lost in a crash or overtaken by another
  request's, and no document promises otherwise.
* **Timers.** The write-back's `writeBackTimeout` and the server's
  `lock_timeout` are both 250 ms; either may end the attempt in the model, and
  whether the retry is reached in practice is a matter of milliseconds.
* **GUI** (`gui/`). A TypeScript library for one browser page: token, toasts, style
  sheets. It shares no state with the service.

## Plan

Done: `KeyRing`, `KeyAdmin`, `KeySetReload`, `RotateOnRead`, `EntityStore`,
`Entities`, and the proofs about each of them. `Entities` took in what had been
planned as separate models of the observers' transaction and of the connection
pool: what is hard about those is that they meet in one request.

What could follow: encrypted columns with their blobs inside `Entities`, so that an
update's merge and a write-back meet on one row (today `RotateOnRead` takes the row's
other columns out of the picture); and requests about two kinds at one pool.
