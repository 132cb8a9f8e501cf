---------------------------- MODULE KeySetReload ----------------------------
(***************************************************************************)
(* How one process keeps its snapshot of the key table fresh: the reload   *)
(* mutex, the budget of load attempts and the snapshot pointer of a        *)
(* Cipher, under goroutines that encrypt, decrypt and serve rotations.     *)
(*                                                                         *)
(* The table is only a number here, counting its committed changes; a blob *)
(* sealed under the key that change n made active can be opened by a       *)
(* snapshot that includes change n.                                        *)
(***************************************************************************)
EXTENDS Integers

CONSTANTS
  Goroutines,
  NoGoroutine,
  KeySetTTL,          \* keySetTTL, in ticks
  MinReloadInterval,  \* minReloadInterval, in ticks
  MaxChanges,         \* bound: the table changes at most so often
  MaxClock            \* bound: the clock stops here

ASSUME GoroutineAssumption == NoGoroutine \notin Goroutines
ASSUME IntervalAssumption == KeySetTTL \in Nat /\ MinReloadInterval \in Nat
ASSUME BoundAssumption == MaxChanges \in Nat /\ MaxClock \in Nat

(* Definitions that only mutation uses stand directly before the one they  *)
(* replace.                                                                *)

VARIABLES
  clock,
  changes,      \* changes committed to the table so far
  changedAt,    \* history: when change n was committed
  set,          \* the snapshot: the changes it includes, and loadedAt
  lastAttempt,  \* lastLoadAttempt
  charged,      \* history: the last attempt that counts against the budget
  mutex,        \* who holds reloadMu
  call,         \* per goroutine, the call it is making
  returned      \* history: the last call to return

vars == <<clock, changes, changedAt, set, lastAttempt, charged, mutex, call, returned>>

Kind == {"encrypt", "open", "reload"}
Step == {"idle", "enter", "wait", "query", "install"}
Result == {"held", "limited", "reloaded", "stale", "failed", "unusable", "unknown"}

(* wants is the number of changes the call needs the snapshot to include:  *)
(* for open, the one that made the blob's key; otherwise, all of those     *)
(* committed when the call was made.  entered and startedAt are times;     *)
(* previous is the budget to restore; got the changes the load returned.   *)
Call ==
  [kind : Kind, step : Step, wants : Nat, entered : Nat, startedAt : Nat, previous : Nat,
   got : Nat]

Idle ==
  [kind |-> "reload", step |-> "idle", wants |-> 0, entered |-> 0, startedAt |-> 0,
   previous |-> 0, got |-> 0]

(* used is the number of changes in the snapshot the call ended up using. *)
Return == [result : Result, wants : Nat, used : Nat]

Init ==
  /\ clock = 0 /\ changes = 0
  /\ changedAt = [n \in 1..MaxChanges |-> 0]
  /\ set = [includes |-> 0, loadedAt |-> 0]
  /\ lastAttempt = 0 /\ charged = 0
  /\ mutex = NoGoroutine
  /\ call = [g \in Goroutines |-> Idle]
  /\ returned = [result |-> "held", wants |-> 0, used |-> 0]

-----------------------------------------------------------------------------

ReloadAllowed == clock - lastAttempt >= MinReloadInterval

Stale == clock - set.loadedAt >= KeySetTTL

Unchanged == UNCHANGED <<clock, changes, changedAt>>

FreeAlways == TRUE
Free == mutex = NoGoroutine

UnlockForgotten == UNCHANGED mutex
Unlock == mutex' = NoGoroutine

Start(g, kind, wants) ==
  /\ call[g].step = "idle"
  /\ call' = [call EXCEPT ![g] = [Idle EXCEPT !.kind = kind, !.step = "enter", !.wants = wants]]
  /\ Unchanged /\ UNCHANGED <<set, lastAttempt, charged, mutex, returned>>

(* A call that is over without a reload. *)
Immediate(g, wants, result) ==
  /\ call[g].step = "idle"
  /\ returned' = [result |-> result, wants |-> wants, used |-> set.includes]
  /\ Unchanged /\ UNCHANGED <<set, lastAttempt, charged, mutex, call>>

(* Encrypt: the snapshot held is used unless it is past its TTL, and then  *)
(* too when the budget allows no load.                                     *)
Encrypt(g) ==
  \/ ~Stale /\ Immediate(g, changes, "held")
  \/ Stale /\ ~ReloadAllowed /\ Immediate(g, changes, "limited")
  \/ Stale /\ ReloadAllowed /\ Start(g, "encrypt", changes)

(* openBlob of a blob whose key the snapshot includes, or does not. *)
OpenBlob(g) ==
  \E n \in 0..changes :
    \/ n <= set.includes /\ Immediate(g, n, "held")
    \/ n > set.includes /\ ~ReloadAllowed /\ Immediate(g, n, "unusable")
    \/ n > set.includes /\ ReloadAllowed /\ Start(g, "open", n)

(* Reload, as the handler calls it after its rotation has committed. *)
Reload(g) == Start(g, "reload", changes)

-----------------------------------------------------------------------------
(* reload *)

Enter(g) ==
  /\ call[g].step = "enter"
  /\ call' = [call EXCEPT ![g].step = "wait", ![g].entered = clock]
  /\ Unchanged /\ UNCHANGED <<set, lastAttempt, charged, mutex, returned>>

Finish(g, snapshot, result) ==
  /\ returned' = [result |-> result, wants |-> call[g].wants, used |-> snapshot.includes]
  /\ call' = [call EXCEPT ![g] = Idle]

(* What the caller makes of a reload that returned nil, or an error. *)
Succeed(g, snapshot) ==
  Finish(g, snapshot, IF call[g].kind = "open" /\ snapshot.includes < call[g].wants
                      THEN "unknown" ELSE "reloaded")
GiveUp(g) == Finish(g, set, IF call[g].kind = "encrypt" THEN "stale" ELSE "failed")

(* A newer snapshot was installed while this goroutine waited. *)
NotOlder(g) == set.loadedAt >= call[g].entered
Newer(g) == set.loadedAt > call[g].entered

Collapse(g) ==
  /\ call[g].step = "wait" /\ Free /\ Newer(g)
  /\ Succeed(g, set)
  /\ Unchanged /\ UNCHANGED <<set, lastAttempt, charged, mutex>>

Attempt(g) ==
  /\ call[g].step = "wait" /\ Free /\ ~Newer(g)
  /\ mutex' = g
  /\ call' = [call EXCEPT ![g].step = "query", ![g].previous = lastAttempt,
                          ![g].startedAt = clock]
  /\ lastAttempt' = clock
  /\ Unchanged /\ UNCHANGED <<set, charged, returned>>

(* The store runs the query ... *)
Query(g) ==
  /\ call[g].step = "query"
  /\ call' = [call EXCEPT ![g].step = "install", ![g].got = changes]
  /\ Unchanged /\ UNCHANGED <<set, lastAttempt, charged, mutex, returned>>

(* ... and some time later the snapshot built from its rows is installed.  *)
FinishedAt(g) == clock
LoadedAt(g) == call[g].startedAt

Install(g) ==
  /\ call[g].step = "install"
  /\ set' = [includes |-> call[g].got, loadedAt |-> LoadedAt(g)]
  /\ Succeed(g, set')
  /\ charged' = call[g].startedAt
  /\ Unlock
  /\ Unchanged /\ UNCHANGED lastAttempt

(* The table cannot be reached, or its rows make no key set. *)
LoadFails(g) ==
  /\ call[g].step \in {"query", "install"}
  /\ GiveUp(g)
  /\ charged' = call[g].startedAt
  /\ Unlock
  /\ Unchanged /\ UNCHANGED <<set, lastAttempt>>

(* The caller's context is over: the attempt is not charged. *)
ForgetBudget(g) == 0
OverRefund(g) == call[g].previous - MinReloadInterval
Refund(g) == call[g].previous

LoadCancelled(g) ==
  /\ call[g].step \in {"query", "install"}
  /\ GiveUp(g)
  /\ lastAttempt' = Refund(g)
  /\ Unlock
  /\ Unchanged /\ UNCHANGED <<set, charged>>

-----------------------------------------------------------------------------

(* A peer, or this process's own handler, commits a change to the table. *)
Change ==
  /\ changes < MaxChanges
  /\ changes' = changes + 1
  /\ changedAt' = [changedAt EXCEPT ![changes + 1] = clock]
  /\ UNCHANGED <<clock, set, lastAttempt, charged, mutex, call, returned>>

Tick ==
  /\ clock < MaxClock
  /\ clock' = clock + 1
  /\ UNCHANGED <<changes, changedAt, set, lastAttempt, charged, mutex, call, returned>>

Loading(g) ==
  Enter(g) \/ Collapse(g) \/ Attempt(g) \/ Query(g) \/ Install(g) \/ LoadFails(g)
  \/ LoadCancelled(g)

Next ==
  \/ \E g \in Goroutines : Encrypt(g) \/ OpenBlob(g) \/ Reload(g) \/ Loading(g)
  \/ Change
  \/ Tick

Spec == Init /\ [][Next]_vars

(* A goroutine that can run does, the store answers or fails, and a        *)
(* sync.Mutex hands over to waiters in turn once they starve.              *)
Fairness ==
  \A g \in Goroutines :
    /\ WF_vars(Enter(g))
    /\ SF_vars(Collapse(g) \/ Attempt(g))
    /\ WF_vars(Query(g))
    /\ WF_vars(Install(g))

FairSpec == Spec /\ Fairness

-----------------------------------------------------------------------------
(* Properties *)

(* The variables hold values of the declared shapes. *)
TypeOK ==
  /\ clock \in Nat /\ changes \in 0..MaxChanges
  /\ changedAt \in [1..MaxChanges -> Nat]
  /\ set \in [includes : Nat, loadedAt : Nat]
  /\ lastAttempt \in Nat /\ charged \in Nat
  /\ mutex \in Goroutines \cup {NoGoroutine}
  /\ call \in [Goroutines -> Call] /\ returned \in Return

(* A reload that returns nil leaves the caller a snapshot that includes    *)
(* everything committed before the call, even when it issued no query of   *)
(* its own: the process that served a rotation uses the new key at once,   *)
(* and a blob sealed by a peer under a committed key is not "unknown".     *)
ReloadIsFresh ==
  returned.result \in {"reloaded", "unknown"} => returned.used >= returned.wants

(* The snapshot never goes back to an older state of the table: a slow     *)
(* load cannot overwrite a later one's result.                             *)
SnapshotMonotone ==
  [][set'.includes >= set.includes /\ set'.loadedAt >= set.loadedAt]_set

(* The budget between loads is that of the last attempt that counts:       *)
(* restoring it after a cancelled load never uncharges somebody else's.    *)
BudgetIsLastCharge == mutex = NoGoroutine => lastAttempt = charged

(* A snapshot that Encrypt uses without a reload was superseded, if at     *)
(* all, less than the TTL ago, however long its query took to be answered: *)
(* defaultKeySetTTL bounds how long Encrypt uses a retired key.            *)
EncryptWithinTTL ==
  ~Stale => \A n \in 1..changes : n > set.includes => clock - changedAt[n] < KeySetTTL

(* Every call returns: nobody keeps reloadMu, nobody waits for it for ever.*)
CallsReturn == \A g \in Goroutines : call[g].step # "idle" ~> call[g].step = "idle"
=============================================================================
