-------------------------- MODULE KeySetReloadProofs --------------------------
(***************************************************************************)
(* The safety of KeySetReload, for any number of goroutines, any TTL and   *)
(* interval, and any bound on the table's changes and on the clock.        *)
(***************************************************************************)
EXTENDS KeySetReload, TLAPS

(* Whoever loads holds reloadMu, and nobody else does. *)
Loads(c) == c.step \in {"query", "install"}
Exclusive == \A g \in Goroutines : Loads(call[g]) <=> mutex = g

(* What the attempt in progress has done to the budget, and what is to be  *)
(* restored.  Nothing newer than its start has been installed.             *)
Attempted(c) ==
  /\ set.loadedAt <= c.startedAt /\ c.startedAt <= clock
  /\ lastAttempt = c.startedAt /\ c.previous = charged

(* Its query, once answered, misses only what was committed since it began, *)
(* and so nothing that a goroutine which entered before is waiting for.    *)
Loaded(c) ==
  /\ set.includes <= c.got /\ c.got <= changes /\ c.wants <= c.got
  /\ \A n \in 1..changes : n > c.got => changedAt[n] >= c.startedAt
  /\ \A h \in Goroutines :
       call[h].step = "wait" /\ c.startedAt > call[h].entered => call[h].wants <= c.got

(* The same of the snapshot, with respect to its loadedAt. *)
Current ==
  /\ set.loadedAt <= clock /\ set.includes <= changes
  /\ \A n \in 1..changes : n > set.includes => changedAt[n] >= set.loadedAt
  /\ \A h \in Goroutines :
       call[h].step = "wait" /\ set.loadedAt > call[h].entered => call[h].wants <= set.includes

(* Where each goroutine is in its call. *)
Proper(g) ==
  /\ call[g].step # "idle" => call[g].wants <= changes
  /\ Loads(call[g]) => Attempted(call[g])
  /\ call[g].step = "install" => Loaded(call[g])

IInv ==
  /\ TypeOK /\ Exclusive /\ Current /\ ReloadIsFresh /\ BudgetIsLastCharge
  /\ \A g \in Goroutines : Proper(g)

-----------------------------------------------------------------------------

LEMMA InitInv == Init => IInv
<1>1. SUFFICES ASSUME Init PROVE IInv
  OBVIOUS
<1>2. Idle \in Call /\ Idle.step = "idle"
  BY DEF Idle, Call, Kind, Step
<1>3. TypeOK
  BY <1>1, <1>2, BoundAssumption DEF Init, TypeOK, Return, Result
<1>4. Exclusive
  BY <1>1, <1>2, GoroutineAssumption DEF Init, Exclusive, Loads
<1>5. Current
  BY <1>1, <1>2 DEF Init, Current
<1>6. ReloadIsFresh /\ BudgetIsLastCharge
  BY <1>1 DEF Init, ReloadIsFresh, BudgetIsLastCharge
<1>7. \A g \in Goroutines : Proper(g)
  BY <1>1, <1>2 DEF Init, Proper, Loads
<1>. QED
  BY <1>3, <1>4, <1>5, <1>6, <1>7 DEF IInv

(* A call that needs no reload only returns. *)
LEMMA ImmediateInv ==
  ASSUME IInv, NEW g \in Goroutines, NEW wants \in Nat,
         NEW result \in {"held", "limited", "unusable"}, Immediate(g, wants, result)
  PROVE  IInv'
<1>1. /\ UNCHANGED <<clock, changes, changedAt, set, lastAttempt, charged, mutex, call>>
      /\ returned' = [result |-> result, wants |-> wants, used |-> set.includes]
  BY DEF Immediate, Unchanged
<1>2. TypeOK' /\ ReloadIsFresh'
  BY <1>1 DEF IInv, TypeOK, Return, Result, ReloadIsFresh
<1>3. Exclusive' /\ Current' /\ BudgetIsLastCharge'
  BY <1>1 DEF IInv, Exclusive, Loads, Current, BudgetIsLastCharge
<1>4. \A h \in Goroutines : Proper(h)'
  BY <1>1 DEF IInv, Proper, Loads, Attempted, Loaded
<1>. QED
  BY <1>2, <1>3, <1>4 DEF IInv

(* A goroutine that moves on outside the mutex, and changes nothing else. *)
LEMMA OutsideStep ==
  ASSUME IInv, NEW g \in Goroutines, NEW c \in Call, call' = [call EXCEPT ![g] = c],
         UNCHANGED <<clock, changes, changedAt, set, lastAttempt, charged, mutex, returned>>,
         ~Loads(call[g]), ~Loads(c), c.wants <= changes,
         c.step = "wait" => c.entered = clock
  PROVE  IInv'
<1>1. /\ call \in [Goroutines -> Call] /\ call' \in [Goroutines -> Call]
      /\ call'[g] = c /\ \A h \in Goroutines \ {g} : call'[h] = call[h]
  BY DEF IInv, TypeOK
<1>2. TypeOK'
  BY <1>1 DEF IInv, TypeOK
<1>3. ReloadIsFresh' /\ BudgetIsLastCharge'
  BY DEF IInv, ReloadIsFresh, BudgetIsLastCharge
<1>4. Exclusive'
  BY <1>1 DEF IInv, Exclusive, Loads
<1>5. Current'
  <2>1. ~(set.loadedAt > clock) /\ set.loadedAt \in Nat /\ clock \in Nat
    BY DEF IInv, Current, TypeOK
  <2>. QED
    BY <1>1, <2>1 DEF IInv, Current
<1>6. ASSUME NEW h \in Goroutines PROVE Proper(h)'
  <2>1. CASE h = g
    BY <1>1, <2>1 DEF Proper, Loads
  <2>2. CASE h # g
    <3>1. call'[h] = call[h] /\ Proper(h) /\ call[h] \in Call
      BY <1>1, <2>2 DEF IInv
    <3>2. Loads(call[h]) => Attempted(call[h])'
      BY <3>1 DEF Proper, Attempted
    <3>3. call[h].step = "install" => Loaded(call[h])'
      <4>1. SUFFICES ASSUME call[h].step = "install" PROVE Loaded(call[h])'
        OBVIOUS
      <4>2. /\ Loaded(call[h]) /\ call[h].startedAt <= clock
            /\ call[h].startedAt \in Nat /\ clock \in Nat
        BY <3>1, <4>1 DEF Proper, Loads, Attempted, Call, IInv, TypeOK
      <4>3. ~(call[h].startedAt > clock)
        BY <4>2
      <4>4. ASSUME NEW k \in Goroutines, call'[k].step = "wait",
                   call[h].startedAt > call'[k].entered
            PROVE  call'[k].wants <= call[h].got
        <5>1. CASE k = g
          BY <1>1, <4>3, <4>4, <5>1
        <5>2. CASE k # g
          BY <1>1, <4>2, <4>4, <5>2 DEF Loaded
        <5>. QED
          BY <5>1, <5>2
      <4>. QED
        BY <3>1, <4>2, <4>4 DEF Loaded
    <3>. QED
      BY <3>1, <3>2, <3>3 DEF Proper, Loads
  <2>. QED
    BY <2>1, <2>2
<1>. QED
  BY <1>2, <1>3, <1>4, <1>5, <1>6 DEF IInv

LEMMA StartInv ==
  ASSUME IInv, NEW g \in Goroutines, NEW kind \in Kind, NEW wants \in 0..changes,
         Start(g, kind, wants)
  PROVE  IInv'
<1>. DEFINE c == [Idle EXCEPT !.kind = kind, !.step = "enter", !.wants = wants]
<1>1. c \in Call /\ c.step = "enter" /\ c.wants = wants
  <2>1. wants \in Nat
    BY DEF IInv, TypeOK
  <2>2. Idle \in Call
    BY DEF Idle, Call, Kind, Step
  <2>. QED
    BY <2>1, <2>2 DEF Call, Step
<1>2. call' = [call EXCEPT ![g] = c] /\ call[g].step = "idle"
  BY DEF Start
<1>3. UNCHANGED <<clock, changes, changedAt, set, lastAttempt, charged, mutex, returned>>
  BY DEF Start, Unchanged
<1>4. wants <= changes
  BY DEF IInv, TypeOK
<1>. HIDE DEF c
<1>. QED
  BY <1>1, <1>2, <1>3, <1>4, OutsideStep DEF Loads

LEMMA EnterInv ==
  ASSUME IInv, NEW g \in Goroutines, Enter(g)
  PROVE  IInv'
<1>. DEFINE c == [call[g] EXCEPT !.step = "wait", !.entered = clock]
<1>1. call[g] \in Call /\ call \in [Goroutines -> Call] /\ clock \in Nat
  BY DEF IInv, TypeOK
<1>2. c \in Call /\ c.step = "wait" /\ c.entered = clock /\ c.wants = call[g].wants
  BY <1>1 DEF Call, Step
<1>3. call' = [call EXCEPT ![g] = c] /\ call[g].step = "enter"
  BY <1>1 DEF Enter, Call
<1>4. UNCHANGED <<clock, changes, changedAt, set, lastAttempt, charged, mutex, returned>>
  BY DEF Enter, Unchanged
<1>5. c.wants <= changes
  BY <1>2, <1>3 DEF IInv, Proper
<1>. HIDE DEF c
<1>. QED
  BY <1>2, <1>3, <1>4, <1>5, OutsideStep DEF Loads

-----------------------------------------------------------------------------
(* What a goroutine returns after a reload. *)

LEMMA FinishTypes ==
  ASSUME TypeOK, NEW g \in Goroutines, NEW snapshot \in [includes : Nat, loadedAt : Nat],
         NEW result \in Result, Finish(g, snapshot, result)
  PROVE  /\ call' \in [Goroutines -> Call] /\ returned' \in Return
         /\ call'[g] = Idle /\ \A h \in Goroutines \ {g} : call'[h] = call[h]
         /\ returned'.result = result /\ returned'.wants = call[g].wants
         /\ returned'.used = snapshot.includes
<1>1. Idle \in Call
  BY DEF Idle, Call, Kind, Step
<1>2. call[g] \in Call /\ call \in [Goroutines -> Call]
  BY DEF TypeOK
<1>. QED
  BY <1>1, <1>2 DEF Finish, Return, Call

LEMMA IdleProper ==
  ASSUME NEW g \in Goroutines, call'[g] = Idle
  PROVE  Proper(g)'
BY DEF Proper, Loads, Idle

LEMMA CollapseInv ==
  ASSUME IInv, NEW g \in Goroutines, Collapse(g)
  PROVE  IInv'
<1>1. PICK result \in Result : Finish(g, set, result)
  BY DEF Collapse, Succeed, Result
<1>2. /\ UNCHANGED <<clock, changes, changedAt, set, lastAttempt, charged, mutex>>
      /\ call[g].step = "wait" /\ set.loadedAt > call[g].entered
  BY DEF Collapse, Unchanged, Newer
<1>3. /\ call' \in [Goroutines -> Call] /\ returned' \in Return
      /\ call'[g] = Idle /\ \A h \in Goroutines \ {g} : call'[h] = call[h]
      /\ returned'.wants = call[g].wants /\ returned'.used = set.includes
  BY <1>1, FinishTypes DEF IInv, TypeOK
<1>4. TypeOK'
  BY <1>2, <1>3 DEF IInv, TypeOK
<1>5. Idle.step = "idle"
  BY DEF Idle
<1>6. ReloadIsFresh' /\ BudgetIsLastCharge'
  <2>1. call[g].wants <= set.includes /\ call[g].wants \in Nat /\ set.includes \in Nat
    BY <1>2 DEF IInv, Current, TypeOK, Call
  <2>. QED
    BY <1>2, <1>3, <2>1 DEF ReloadIsFresh, BudgetIsLastCharge, IInv
<1>7. Exclusive'
  BY <1>2, <1>3, <1>5 DEF IInv, Exclusive, Loads
<1>8. Current'
  BY <1>2, <1>3, <1>5 DEF IInv, Current
<1>9. ASSUME NEW h \in Goroutines PROVE Proper(h)'
  <2>1. CASE h = g
    BY <1>3, <2>1, IdleProper
  <2>2. CASE h # g
    <3>1. call'[h] = call[h] /\ Proper(h)
      BY <1>3, <2>2 DEF IInv
    <3>2. Loads(call[h]) => Attempted(call[h])'
      BY <1>2, <3>1 DEF Proper, Attempted
    <3>3. call[h].step = "install" => Loaded(call[h])'
      BY <1>2, <1>3, <1>5, <3>1 DEF Proper, Loaded
    <3>. QED
      BY <1>2, <3>1, <3>2, <3>3 DEF Proper, Loads
  <2>. QED
    BY <2>1, <2>2
<1>. QED
  BY <1>4, <1>6, <1>7, <1>8, <1>9 DEF IInv

(* While the mutex is held, nobody else is at a load. *)
LEMMA HolderOnly ==
  ASSUME IInv, NEW g \in Goroutines, Loads(call[g])
  PROVE  /\ mutex = g /\ mutex # NoGoroutine
         /\ \A h \in Goroutines \ {g} : ~Loads(call[h])
BY GoroutineAssumption DEF IInv, Exclusive

LEMMA AttemptInv ==
  ASSUME IInv, NEW g \in Goroutines, Attempt(g)
  PROVE  IInv'
<1>. DEFINE c == [call[g] EXCEPT !.step = "query", !.previous = lastAttempt,
                                 !.startedAt = clock]
<1>1. call[g] \in Call /\ call \in [Goroutines -> Call] /\ clock \in Nat /\ lastAttempt \in Nat
  BY DEF IInv, TypeOK
<1>2. /\ c \in Call /\ c.step = "query" /\ c.startedAt = clock /\ c.previous = lastAttempt
      /\ c.wants = call[g].wants
  BY <1>1 DEF Call, Step
<1>3. call' = [call EXCEPT ![g] = c] /\ call[g].step = "wait" /\ mutex = NoGoroutine
  BY <1>1 DEF Attempt, Call, Free
<1>4. /\ UNCHANGED <<clock, changes, changedAt, set, charged, returned>>
      /\ mutex' = g /\ lastAttempt' = clock
  BY DEF Attempt, Unchanged
<1>. HIDE DEF c
<1>5. /\ call' \in [Goroutines -> Call] /\ call'[g] = c
      /\ \A h \in Goroutines \ {g} : call'[h] = call[h]
  BY <1>1, <1>2, <1>3
<1>6. TypeOK'
  BY <1>1, <1>4, <1>5 DEF IInv, TypeOK
<1>7. ReloadIsFresh' /\ BudgetIsLastCharge'
  BY <1>4, GoroutineAssumption DEF IInv, ReloadIsFresh, BudgetIsLastCharge
<1>8. \A h \in Goroutines : ~Loads(call[h])
  BY <1>3, GoroutineAssumption DEF IInv, Exclusive
<1>9. Exclusive'
  BY <1>2, <1>4, <1>5, <1>8 DEF Exclusive, Loads
<1>10. Current'
  BY <1>2, <1>4, <1>5 DEF IInv, Current
<1>11. ASSUME NEW h \in Goroutines PROVE Proper(h)'
  <2>1. CASE h = g
    <3>1. lastAttempt = charged
      BY <1>3 DEF IInv, BudgetIsLastCharge
    <3>2. call[g].wants <= changes /\ set.loadedAt <= clock
      BY <1>3 DEF IInv, Proper, Current
    <3>. QED
      BY <1>1, <1>2, <1>4, <1>5, <2>1, <3>1, <3>2 DEF Proper, Attempted
  <2>2. CASE h # g
    BY <1>4, <1>5, <1>8, <2>2 DEF IInv, Proper, Loads
  <2>. QED
    BY <2>1, <2>2
<1>. QED
  BY <1>6, <1>7, <1>9, <1>10, <1>11 DEF IInv

LEMMA QueryInv ==
  ASSUME IInv, NEW g \in Goroutines, Query(g)
  PROVE  IInv'
<1>. DEFINE c == [call[g] EXCEPT !.step = "install", !.got = changes]
<1>1. call[g] \in Call /\ call \in [Goroutines -> Call] /\ changes \in Nat
  BY DEF IInv, TypeOK
<1>2. /\ c \in Call /\ c.step = "install" /\ c.got = changes /\ c.wants = call[g].wants
      /\ c.startedAt = call[g].startedAt /\ c.previous = call[g].previous
  BY <1>1 DEF Call, Step
<1>3. call' = [call EXCEPT ![g] = c] /\ call[g].step = "query"
  BY <1>1 DEF Query, Call
<1>4. UNCHANGED <<clock, changes, changedAt, set, lastAttempt, charged, mutex, returned>>
  BY DEF Query, Unchanged
<1>. HIDE DEF c
<1>5. /\ call' \in [Goroutines -> Call] /\ call'[g] = c
      /\ \A h \in Goroutines \ {g} : call'[h] = call[h]
  BY <1>1, <1>2, <1>3
<1>6. TypeOK'
  BY <1>4, <1>5 DEF IInv, TypeOK
<1>7. ReloadIsFresh' /\ BudgetIsLastCharge'
  BY <1>4 DEF IInv, ReloadIsFresh, BudgetIsLastCharge
<1>8. Exclusive'
  BY <1>2, <1>3, <1>4, <1>5 DEF IInv, Exclusive, Loads
<1>9. Current'
  BY <1>2, <1>4, <1>5 DEF IInv, Current
<1>10. Loads(call[g]) /\ \A h \in Goroutines \ {g} : ~Loads(call[h])
  BY <1>3, HolderOnly DEF Loads
<1>11. ASSUME NEW h \in Goroutines PROVE Proper(h)'
  <2>1. CASE h = g
    <3>1. Attempted(call[g]) /\ call[g].wants <= changes /\ set.includes <= changes
      BY <1>3, <1>10 DEF IInv, Proper, Current
    <3>2. Attempted(call[g])'
      BY <1>2, <1>4, <3>1, <1>5, <2>1 DEF Attempted
    <3>3. \A k \in Goroutines : call'[k].step = "wait" => call'[k].wants <= changes
      BY <1>2, <1>5 DEF IInv, Proper
    <3>4. \A n \in 1..changes : ~(n > changes)
      BY <1>1
    <3>. QED
      BY <1>1, <1>2, <1>4, <1>5, <2>1, <3>1, <3>2, <3>3, <3>4 DEF Proper, Loaded
  <2>2. CASE h # g
    BY <1>4, <1>5, <1>10, <2>2 DEF IInv, Proper, Loads
  <2>. QED
    BY <2>1, <2>2
<1>. QED
  BY <1>6, <1>7, <1>8, <1>9, <1>11 DEF IInv

(* A load that ends, with a snapshot or without, frees the mutex. *)
LEMMA LoadEnds ==
  ASSUME IInv, NEW g \in Goroutines, Loads(call[g]), Unlock,
         call'[g] = Idle, \A h \in Goroutines \ {g} : call'[h] = call[h], UNCHANGED changes
  PROVE  /\ Exclusive'
         /\ \A h \in Goroutines : Proper(h)'
<1>1. Idle.step = "idle"
  BY DEF Idle
<1>2. \A h \in Goroutines \ {g} : ~Loads(call[h])
  BY HolderOnly
<1>3. Exclusive'
  BY <1>1, <1>2, GoroutineAssumption DEF Exclusive, Loads, Unlock
<1>4. ASSUME NEW h \in Goroutines \ {g} PROVE Proper(h)'
  BY <1>2 DEF IInv, Proper, Loads
<1>. QED
  BY <1>3, <1>4, IdleProper

LEMMA InstallInv ==
  ASSUME IInv, NEW g \in Goroutines, Install(g)
  PROVE  IInv'
<1>1. /\ call[g] \in Call /\ call[g].step = "install" /\ Loads(call[g])
      /\ Attempted(call[g]) /\ Loaded(call[g])
  BY DEF IInv, TypeOK, Install, Proper, Loads
<1>2. /\ UNCHANGED <<clock, changes, changedAt, lastAttempt>> /\ Unlock
      /\ set' = [includes |-> call[g].got, loadedAt |-> call[g].startedAt]
      /\ charged' = call[g].startedAt
  BY DEF Install, Unchanged, LoadedAt
<1>3. set' \in [includes : Nat, loadedAt : Nat] /\ charged' \in Nat
  BY <1>1, <1>2 DEF Call
<1>4. PICK result \in Result : Finish(g, set', result)
  BY DEF Install, Succeed, Result
<1>5. /\ call' \in [Goroutines -> Call] /\ returned' \in Return
      /\ call'[g] = Idle /\ \A h \in Goroutines \ {g} : call'[h] = call[h]
      /\ returned'.wants = call[g].wants /\ returned'.used = set'.includes
  BY <1>3, <1>4, FinishTypes DEF IInv
<1>6. TypeOK'
  BY <1>2, <1>3, <1>5 DEF IInv, TypeOK, Unlock
<1>7. ReloadIsFresh'
  BY <1>1, <1>2, <1>5 DEF ReloadIsFresh, Loaded, Call
<1>8. BudgetIsLastCharge'
  BY <1>1, <1>2 DEF BudgetIsLastCharge, Attempted
<1>9. Idle.step = "idle"
  BY DEF Idle
<1>10. Current'
  BY <1>1, <1>2, <1>5, <1>9 DEF Current, Loaded, Attempted
<1>11. Exclusive' /\ \A h \in Goroutines : Proper(h)'
  BY <1>1, <1>2, <1>5, LoadEnds
<1>. QED
  BY <1>6, <1>7, <1>8, <1>10, <1>11 DEF IInv

LEMMA GiveUpInv ==
  ASSUME IInv, NEW g \in Goroutines, LoadFails(g) \/ LoadCancelled(g)
  PROVE  IInv'
<1>1. call[g] \in Call /\ Loads(call[g]) /\ Attempted(call[g])
  BY DEF IInv, TypeOK, LoadFails, LoadCancelled, Proper, Loads
<1>2. UNCHANGED <<clock, changes, changedAt, set>> /\ Unlock
  BY DEF LoadFails, LoadCancelled, Unchanged
<1>3. \/ charged' = call[g].startedAt /\ lastAttempt' = lastAttempt
      \/ charged' = charged /\ lastAttempt' = call[g].previous
  BY DEF LoadFails, LoadCancelled, Refund
<1>4. PICK result \in {"stale", "failed"} : Finish(g, set, result)
  BY DEF LoadFails, LoadCancelled, GiveUp
<1>5. /\ call' \in [Goroutines -> Call] /\ returned' \in Return
      /\ call'[g] = Idle /\ \A h \in Goroutines \ {g} : call'[h] = call[h]
      /\ returned'.result = result
  BY <1>4, FinishTypes DEF IInv, TypeOK, Result
<1>6. TypeOK'
  BY <1>1, <1>2, <1>3, <1>5 DEF IInv, TypeOK, Unlock, Call
<1>7. ReloadIsFresh'
  BY <1>5 DEF ReloadIsFresh
<1>8. BudgetIsLastCharge'
  BY <1>1, <1>3 DEF BudgetIsLastCharge, Attempted
<1>9. Idle.step = "idle"
  BY DEF Idle
<1>10. Current'
  BY <1>2, <1>5, <1>9 DEF IInv, Current
<1>11. Exclusive' /\ \A h \in Goroutines : Proper(h)'
  BY <1>1, <1>2, <1>5, LoadEnds
<1>. QED
  BY <1>6, <1>7, <1>8, <1>10, <1>11 DEF IInv

-----------------------------------------------------------------------------
(* The table changes, and time passes. *)

LEMMA ChangeInv ==
  ASSUME IInv, Change
  PROVE  IInv'
<1>1. /\ changes < MaxChanges /\ changes' = changes + 1
      /\ changedAt' = [changedAt EXCEPT ![changes + 1] = clock]
      /\ UNCHANGED <<clock, set, lastAttempt, charged, mutex, call, returned>>
  BY DEF Change
<1>2. /\ changes \in Nat /\ MaxChanges \in Nat /\ clock \in Nat
      /\ changedAt \in [1..MaxChanges -> Nat] /\ call \in [Goroutines -> Call]
      /\ changes + 1 \in 1..MaxChanges
  BY <1>1, BoundAssumption DEF IInv, TypeOK
<1>3. TypeOK'
  BY <1>1, <1>2 DEF IInv, TypeOK
<1>4. changedAt'[changes + 1] = clock /\ \A n \in 1..changes : changedAt'[n] = changedAt[n]
  BY <1>1, <1>2
<1>5. Exclusive' /\ ReloadIsFresh' /\ BudgetIsLastCharge'
  BY <1>1 DEF IInv, Exclusive, Loads, ReloadIsFresh, BudgetIsLastCharge
<1>6. ASSUME NEW n \in 1..changes' PROVE n \in 1..changes \/ n = changes + 1
  BY <1>1, <1>2
<1>7. Current'
  BY <1>1, <1>2, <1>4, <1>6 DEF IInv, Current, TypeOK
<1>8. ASSUME NEW g \in Goroutines PROVE Proper(g)'
  <2>1. Proper(g) /\ call[g] \in Call
    BY <1>2 DEF IInv
  <2>2. Loads(call[g]) => Attempted(call[g])'
    BY <1>1, <2>1 DEF Proper, Attempted
  <2>3. call[g].step = "install" => Loaded(call[g])'
    <3>1. SUFFICES ASSUME call[g].step = "install" PROVE Loaded(call[g])'
      OBVIOUS
    <3>2. Loaded(call[g]) /\ call[g].startedAt <= clock
      BY <2>1, <3>1 DEF Proper, Loads, Attempted
    <3>3. \A n \in 1..changes' : n > call[g].got => changedAt'[n] >= call[g].startedAt
      BY <1>4, <1>6, <3>2 DEF Loaded
    <3>. QED
      BY <1>1, <1>2, <2>1, <3>2, <3>3 DEF Loaded, Call
  <2>. QED
    BY <1>1, <1>2, <2>1, <2>2, <2>3 DEF Proper, Loads, Call
<1>. QED
  BY <1>3, <1>5, <1>7, <1>8 DEF IInv

LEMMA TickInv ==
  ASSUME IInv, Tick
  PROVE  IInv'
<1>1. /\ clock' = clock + 1 /\ clock \in Nat
      /\ UNCHANGED <<changes, changedAt, set, lastAttempt, charged, mutex, call, returned>>
  BY DEF Tick, IInv, TypeOK
<1>2. TypeOK'
  BY <1>1 DEF IInv, TypeOK
<1>3. Exclusive' /\ ReloadIsFresh' /\ BudgetIsLastCharge'
  BY <1>1 DEF IInv, Exclusive, Loads, ReloadIsFresh, BudgetIsLastCharge
<1>4. Current'
  BY <1>1 DEF IInv, Current, TypeOK
<1>5. ASSUME NEW g \in Goroutines PROVE Proper(g)'
  <2>1. Proper(g) /\ call[g] \in Call
    BY DEF IInv, TypeOK
  <2>2. Attempted(call[g]) => Attempted(call[g])'
    BY <1>1, <2>1 DEF Attempted, Call
  <2>3. Loaded(call[g]) => Loaded(call[g])'
    BY <1>1 DEF Loaded
  <2>. QED
    BY <1>1, <2>1, <2>2, <2>3 DEF Proper, Loads
<1>. QED
  BY <1>2, <1>3, <1>4, <1>5 DEF IInv

LEMMA StepInv == IInv /\ [Next]_vars => IInv'
<1>1. SUFFICES ASSUME IInv, [Next]_vars PROVE IInv'
  OBVIOUS
<1>2. CASE UNCHANGED vars
  BY <1>1, <1>2 DEF vars, IInv, TypeOK, Exclusive, Loads, Current, ReloadIsFresh,
                    BudgetIsLastCharge, Proper, Attempted, Loaded
<1>3. changes \in Nat /\ changes \in 0..changes
  BY <1>1 DEF IInv, TypeOK
<1>4. ASSUME NEW g \in Goroutines, Encrypt(g) PROVE IInv'
  BY <1>1, <1>3, <1>4, ImmediateInv, StartInv DEF Encrypt, Kind
<1>5. ASSUME NEW g \in Goroutines, OpenBlob(g) PROVE IInv'
  <2>1. PICK n \in 0..changes :
          \/ \E result \in {"held", "unusable"} : Immediate(g, n, result)
          \/ Start(g, "open", n)
    BY <1>5 DEF OpenBlob
  <2>. QED
    BY <1>1, <1>3, <2>1, ImmediateInv, StartInv DEF Kind
<1>6. ASSUME NEW g \in Goroutines, Reload(g) PROVE IInv'
  BY <1>1, <1>3, <1>6, StartInv DEF Reload, Kind
<1>7. ASSUME NEW g \in Goroutines, Loading(g) PROVE IInv'
  BY <1>1, <1>7, EnterInv, CollapseInv, AttemptInv, QueryInv, InstallInv, GiveUpInv DEF Loading
<1>. QED
  BY <1>1, <1>2, <1>4, <1>5, <1>6, <1>7, ChangeInv, TickInv DEF Next

-----------------------------------------------------------------------------

(* The inductive invariant holds in every reachable state. *)
THEOREM Invariance == Spec => []IInv
BY InitInv, StepInv, PTL DEF Spec

(* The variables hold values of their types. *)
THEOREM TypeCorrect == Spec => []TypeOK
<1>1. IInv => TypeOK
  BY DEF IInv
<1>. QED
  BY <1>1, Invariance, PTL

(* A reload that returns nil has shown its caller everything committed     *)
(* before the call, whether it loaded or found another's load newer.       *)
THEOREM FreshReload == Spec => []ReloadIsFresh
<1>1. IInv => ReloadIsFresh
  BY DEF IInv
<1>. QED
  BY <1>1, Invariance, PTL

(* The budget is that of the last attempt that counts, whatever was        *)
(* cancelled in between.                                                   *)
THEOREM SoundBudget == Spec => []BudgetIsLastCharge
<1>1. IInv => BudgetIsLastCharge
  BY DEF IInv
<1>. QED
  BY <1>1, Invariance, PTL

(* Encrypt, which asks for no reload before the TTL is over, never uses a  *)
(* snapshot superseded that long ago.                                      *)
THEOREM BoundedStaleness == Spec => []EncryptWithinTTL
<1>1. ASSUME IInv PROVE EncryptWithinTTL
  <2>1. SUFFICES ASSUME ~Stale, NEW n \in 1..changes, n > set.includes
                 PROVE  clock - changedAt[n] < KeySetTTL
    BY DEF EncryptWithinTTL
  <2>2. changedAt[n] >= set.loadedAt
    BY <1>1, <2>1 DEF IInv, Current
  <2>3. clock \in Nat /\ set.loadedAt \in Nat /\ changedAt[n] \in Nat
    BY <1>1, BoundAssumption DEF IInv, TypeOK
  <2>4. clock - set.loadedAt < KeySetTTL
    BY <2>1, <2>3, IntervalAssumption DEF Stale
  <2>. QED
    BY <2>2, <2>3, <2>4, IntervalAssumption
<1>. QED
  BY <1>1, Invariance, PTL

(* No load, however slow, puts an older snapshot over a newer one. *)
THEOREM MonotoneSnapshot == Spec => SnapshotMonotone
<1>. DEFINE Forward == set'.includes >= set.includes /\ set'.loadedAt >= set.loadedAt
<1>1. ASSUME IInv, [Next]_vars PROVE [Forward]_set
  <2>1. SUFFICES ASSUME set' # set PROVE Forward
    OBVIOUS
  <2>2. PICK g \in Goroutines : Install(g)
    BY <1>1, <2>1 DEF Next, vars, Encrypt, OpenBlob, Reload, Immediate, Start, Loading, Enter,
                      Collapse, Attempt, Query, LoadFails, LoadCancelled, Change, Tick
  <2>3. set' = [includes |-> call[g].got, loadedAt |-> call[g].startedAt]
    BY <2>2 DEF Install, LoadedAt
  <2>4. Attempted(call[g]) /\ Loaded(call[g]) /\ call[g] \in Call
    BY <1>1, <2>2 DEF IInv, TypeOK, Install, Proper, Loads
  <2>. QED
    BY <1>1, <2>3, <2>4 DEF Attempted, Loaded, Call, IInv, TypeOK
<1>. QED
  BY <1>1, Invariance, PTL DEF Spec, SnapshotMonotone
=============================================================================
