-------------------------- MODULE EntitiesWaitProofs --------------------------
(***************************************************************************)
(* Theorems about who waits for whom in Entities: which deadlocks there    *)
(* can be, that the pool is never overdrawn, and in which ways everyone    *)
(* may come to wait on everyone; and what keeps an update from being lost. *)
(***************************************************************************)
EXTENDS EntitiesProofs, FiniteSetTheorems

-----------------------------------------------------------------------------
(* Where in the handlers' lists a request may have to wait *)

LockSteps == {"insert", "update", "unique", "archive"}

TxSteps ==
  {"entity", "legal_entity", "select", "encrypt", "insert", "update", "unique", "archive",
   "refetch", "observe", "commit"}

(* The steps in which a request may have to wait, and those in a           *)
(* transaction: what the handlers' lists have before them.                 *)
Waits(h, i) ==
  /\ Handler[h][i] \in {"update", "archive"} => \A x \in LockSteps : ~Before(h, i, x)
  /\ Handler[h][i] = "unique" =>
       /\ ~Before(h, i, "unique") /\ ~Before(h, i, "archive")
       /\ h = "createApp" => Before(h, i, "entity")
  /\ Handler[h][i] \in {"resolve", "load", "list", "begin", "encrypt", "profile"} =>
       Before(h, i, "commit") \/ \A x \in LockSteps : ~Before(h, i, x)
  /\ Handler[h][i] \in TxSteps =>
       h \in Writers /\ i > 2 /\ Handler[h][i-1] \in TxSteps \cup {"begin"}

Queues(h) == \A i \in 1..Len(Handler[h]) : Waits(h, i)

LEMMA HandlersQueue == \A h \in DOMAIN Handler : Queues(h)
<1>. USE DEF Handler, Queues, Waits, Before, LockSteps, TxSteps, Writers, Creates, Changes,
            Rewrites, Archives
<1>1. Queues("createNaturalPerson")
  <2>1. /\ Len(createNaturalPerson) = 10
        /\ createNaturalPerson[3] = "begin" /\ createNaturalPerson[4] = "entity"
        /\ \A i \in 1..10 :
             /\ createNaturalPerson[i] = "insert" <=> i = 7
             /\ createNaturalPerson[i] = "begin" <=> i = 3
             /\ createNaturalPerson[i] = "encrypt" <=> i = 6
             /\ createNaturalPerson[i] \in TxSteps <=> i \in 4..9
             /\ createNaturalPerson[i] \notin
                  {"update", "unique", "archive", "resolve", "load", "list", "profile"}
    BY DEF createNaturalPerson, NaturalPersonCreate, createNaturalPersonInTx
  <2>2. Handler["createNaturalPerson"] = createNaturalPerson
    OBVIOUS
  <2>. HIDE DEF Handler, TxSteps
  <2>3. ASSUME NEW i \in 1..10 PROVE Waits("createNaturalPerson", i)
    <3>1. \A x \in LockSteps : i <= 7 => ~Before("createNaturalPerson", i, x)
      BY <2>1, <2>2
    <3>2. i \in 4..9 => i > 2 /\ createNaturalPerson[i - 1] \in TxSteps \cup {"begin"}
      BY <2>1
    <3>. HIDE DEF Before, LockSteps
    <3>3. "createNaturalPerson" \in Writers
      OBVIOUS
    <3>. HIDE DEF Writers
    <3>. QED
      BY <2>1, <2>2, <3>1, <3>2, <3>3
  <2>. HIDE DEF Waits
  <2>. QED
    BY <2>1, <2>2, <2>3
<1>2. Queues("getNaturalPerson")
  BY DEF getNaturalPerson, NaturalPersonGet
<1>3. Queues("updateNaturalPerson")
  BY DEF updateNaturalPerson, NaturalPersonUpdate, NaturalPersonGet
<1>4. Queues("createCorporation")
  BY DEF createCorporation, CorporationCreate
<1>5. Queues("getCorporation")
  BY DEF getCorporation, CorporationGet
<1>6. Queues("updateCorporation")
  BY DEF updateCorporation, CorporationUpdate, CorporationGet
<1>7. Queues("createServiceAccount")
  BY DEF createServiceAccount, ServiceAccountCreate
<1>8. Queues("getServiceAccount")
  BY DEF getServiceAccount, ServiceAccountGet
<1>9. Queues("updateServiceAccount")
  BY DEF updateServiceAccount, ServiceAccountUpdate, ServiceAccountGet
<1>10. Queues("getEntity")
  BY DEF getEntity, EntityProfile
<1>11. Queues("archiveEntity")
  BY DEF archiveEntity, EntityArchive
<1>12. Queues("createApp")
  BY DEF AppCreate
<1>13. Queues("listApps")
  BY DEF AppList
<1>14. Queues("getApp")
  BY DEF GetApp, loadAppByUUIDParam
<1>15. Queues("updateApp")
  BY DEF UpdateApp, loadAppByUUIDParam
<1>16. Queues("deleteApp")
  BY DEF DeleteApp, loadAppByUUIDParam
<1>17. DOMAIN Handler =
         {"createNaturalPerson", "getNaturalPerson", "updateNaturalPerson", "createCorporation",
          "getCorporation", "updateCorporation", "createServiceAccount", "getServiceAccount",
          "updateServiceAccount", "getEntity", "archiveEntity", "createApp", "listApps",
          "getApp", "updateApp", "deleteApp"}
  OBVIOUS
<1>. HIDE DEF Handler, Queues
<1>. QED
  BY <1>1, <1>2, <1>3, <1>4, <1>5, <1>6, <1>7, <1>8, <1>9, <1>10, <1>11, <1>12, <1>13, <1>14,
     <1>15, <1>16, <1>17

-----------------------------------------------------------------------------
(* Deadlocks *)

LEMMA Queued ==
  ASSUME IInv, NEW s \in Sessions, call[s].handler # "none"
  PROVE  /\ Waits(call[s].handler, call[s].at)
         /\ call[s].wrote \cap {"subtypes", "index", "archived_at"} # {} =>
              /\ ~Did(call[s], "commit")
              /\ \E x \in LockSteps : Before(call[s].handler, call[s].at, x)
         /\ "index" \in call[s].wrote => Before(call[s].handler, call[s].at, "unique")
         /\ "archived_at" \in call[s].wrote => Before(call[s].handler, call[s].at, "archive")
         /\ ~Did(call[s], "commit") /\ Before(call[s].handler, call[s].at, "entity") =>
              entities[call[s].id] = NULL /\ subtypes[call[s].id] = NULL
<1>1. Waits(call[s].handler, call[s].at)
  BY Here, HandlersQueue DEF Queues
<1>2. Fits(call[s]) /\ Agrees(call[s]) /\ Whole
      /\ \A x : Did(call[s], x) <=> Before(call[s].handler, call[s].at, x)
  BY Here DEF IInv
<1>3. call[s].wrote # {} => ~Did(call[s], "commit") /\ Written(call[s])
  BY <1>2 DEF Fits
<1>4. ~Did(call[s], "commit") => Written(call[s])
  BY <1>2 DEF Fits
<1>5. ~Did(call[s], "commit") /\ Before(call[s].handler, call[s].at, "entity") =>
        entities[call[s].id] = NULL /\ subtypes[call[s].id] = NULL
  BY <1>2, <1>4 DEF Written, Agrees, Whole
<1>. QED
  BY <1>1, <1>2, <1>3, <1>5 DEF Written, LockSteps

(* Whoever is waited for has behind it the step that took what is wanted.  *)
LEMMA Awaited ==
  ASSUME IInv, NEW s \in Sessions, NEW t \in WaitsFor(s)
  PROVE  /\ Step(s) \in {"update", "archive", "unique"}
         /\ t \in Sessions /\ t # s
         /\ call[s].handler # "none" /\ call[t].handler # "none"
         /\ call[t].wrote \cap {"subtypes", "index", "archived_at"} # {}
<1>1. /\ Step(s) \in {"update", "archive", "unique"} /\ t \in Sessions /\ t # s
      /\ call[t].wrote \cap {"subtypes", "index", "archived_at"} # {}
  BY DEF WaitsFor, Holders, Contenders
<1>2. call[s].handler # "none"
  BY <1>1 DEF Step
<1>3. call[t].handler # "none"
  BY <1>1 DEF IInv, Fits, Idle
<1>. QED
  BY <1>1, <1>2, <1>3

(* Who is waited for by one that waits itself is an update of an app about *)
(* to take its slug.                                                       *)
LEMMA AwaitedWaits ==
  ASSUME IInv, NEW s \in Sessions, NEW t \in WaitsFor(s), WaitsFor(t) # {}
  PROVE  /\ call[t].handler = "updateApp" /\ Step(t) = "unique"
         /\ Step(s) = "unique" => subtypes[call[t].id].first = call[s].row.first
<1>1. /\ Step(s) \in {"update", "archive", "unique"}
      /\ t \in Sessions /\ t # s
      /\ call[s].handler # "none" /\ call[t].handler # "none"
      /\ call[t].wrote \cap {"subtypes", "index", "archived_at"} # {}
      /\ Step(t) \in {"update", "archive", "unique"}
  BY Awaited
<1>2. /\ Waits(call[t].handler, call[t].at) /\ Belongs(call[t].handler, call[t].at)
      /\ Step(t) = Handler[call[t].handler][call[t].at]
      /\ ~Did(call[t], "commit")
      /\ \E x \in LockSteps : Before(call[t].handler, call[t].at, x)
      /\ "index" \in call[t].wrote => Before(call[t].handler, call[t].at, "unique")
      /\ "archived_at" \in call[t].wrote => Before(call[t].handler, call[t].at, "archive")
      /\ Before(call[t].handler, call[t].at, "entity") =>
              entities[call[t].id] = NULL /\ subtypes[call[t].id] = NULL
  BY <1>1, Queued, Here
<1>3. /\ Step(t) = "unique" /\ "index" \notin call[t].wrote /\ "archived_at" \notin call[t].wrote
      /\ call[t].handler \in AppWrites
  BY <1>1, <1>2 DEF Waits, Belongs
<1>4. call[t].handler = "createApp" =>
        entities[call[t].id] = NULL /\ subtypes[call[t].id] = NULL
  BY <1>2, <1>3 DEF Waits
<1>5. CASE Step(s) = "unique"
  <2>1. subtypes[call[t].id] # NULL /\ subtypes[call[t].id].first = call[s].row.first
    BY <1>3, <1>5 DEF WaitsFor, Contenders
  <2>. QED
    BY <1>3, <1>4, <2>1 DEF AppWrites
<1>6. CASE Step(s) = "update"
  <2>1. call[t].id = call[s].id
    BY <1>6 DEF WaitsFor, Holders
  <2>2. entities[call[s].id] # NULL
    BY <1>1, <1>6, Here DEF Follows, Belongs, Agrees
  <2>. QED
    BY <1>3, <1>4, <1>6, <2>1, <2>2 DEF AppWrites
<1>7. CASE Step(s) = "archive"
  BY <1>3, <1>7 DEF WaitsFor, Holders
<1>. QED
  BY <1>1, <1>5, <1>6, <1>7

LEMMA Swaps == IInv => DeadlocksAreSwaps
<1>. SUFFICES ASSUME IInv, NEW waiting \in SUBSET Sessions, Deadlocked(waiting)
              PROVE  \E swap \in SUBSET waiting :
                       /\ swap # {}
                       /\ \A s \in swap :
                            /\ call[s].handler = "updateApp"
                            /\ \E t \in swap \ {s} :
                                 subtypes[call[t].id].first = call[s].row.first
  BY DEF DeadlocksAreSwaps
<1>. DEFINE swap == {s \in waiting : call[s].handler = "updateApp" /\ Step(s) = "unique"}
<1>1. ASSUME NEW s \in waiting
      PROVE  \E t \in swap \ {s} :
               Step(s) = "unique" => subtypes[call[t].id].first = call[s].row.first
  <2>1. PICK t \in WaitsFor(s) : t \in waiting
    BY DEF Deadlocked
  <2>2. WaitsFor(t) # {} /\ t # s
    BY <2>1, Awaited DEF Deadlocked
  <2>3. /\ call[t].handler = "updateApp" /\ Step(t) = "unique"
        /\ Step(s) = "unique" => subtypes[call[t].id].first = call[s].row.first
    BY <2>1, <2>2, AwaitedWaits
  <2>. QED
    BY <2>1, <2>2, <2>3
<1>2. swap # {}
  BY <1>1 DEF Deadlocked
<1>3. swap \in SUBSET waiting
  OBVIOUS
<1>4. ASSUME NEW s \in swap
      PROVE  /\ call[s].handler = "updateApp"
             /\ \E t \in swap \ {s} : subtypes[call[t].id].first = call[s].row.first
  BY <1>1
<1>. HIDE DEF swap
<1>. QED
  BY <1>2, <1>3, <1>4

(* Transactions deadlock in one way only, whatever the number of requests   *)
(* and entities: updates of apps that take each other's slugs.  Nobody      *)
(* else holds a row or an index entry while it waits for another.           *)
THEOREM OnlySwapsDeadlock == Spec => []DeadlocksAreSwaps
BY Invariance, Swaps, PTL

-----------------------------------------------------------------------------
(* The pool *)

(* A request takes its handler's steps one after the other, unless it is   *)
(* over, new, or of a handler that has no transaction.                     *)
LEMMA OneByOne ==
  ASSUME IInv, NEW s \in Sessions, Receive(s) \/ Serve(s) \/ DeadlockVictim(s) \/ Fail(s)
  PROVE  /\ \A t \in Sessions \ {s} : call'[t] = call[t]
         /\ \/ call'[s].handler = "none" \/ call'[s].at = 2
            \/ call'[s].handler \notin Writers
            \/ /\ call[s].handler # "none" /\ call'[s].handler = call[s].handler
               /\ call'[s].at \in {call[s].at, call[s].at + 1}
<1>. DEFINE Goal ==
       /\ \A t \in Sessions \ {s} : call'[t] = call[t]
       /\ \/ call'[s].handler = "none" \/ call'[s].at = 2
          \/ call'[s].handler \notin Writers
          \/ /\ call[s].handler # "none" /\ call'[s].handler = call[s].handler
             /\ call'[s].at \in {call[s].at, call[s].at + 1}
<1>1. call \in [Sessions -> Call] /\ call[s] \in Call
  BY DEF IInv, TypeOK
<1>2. CASE End(s)
  BY <1>1, <1>2 DEF End, Idle
<1>3. CASE Receive(s)
  <2>. DEFINE new(h) == [Idle EXCEPT !.handler = h, !.at = 2]
  <2>1. PICK h \in Routes :
          \/ \E row \in Row : Stay(s, [new(h) EXCEPT !.row = row])
          \/ \E id \in 1..Capacity[kind], body \in Bodies[kind] :
               Stay(s, [new(h) EXCEPT !.id = id, !.body = body])
          \/ \E id \in 1..Capacity[kind] : Stay(s, [new(h) EXCEPT !.id = id])
          \/ Stay(s, new(h))
    BY <1>3 DEF Receive
  <2>. QED
    BY <1>1, <2>1 DEF Stay, Idle
<1>4. ASSUME NEW e, e.handler = call[s].handler, e.at \in {call[s].at, call[s].at + 1},
             call' = [call EXCEPT ![s] = e], call[s].handler # "none"
      PROVE  Goal
  BY <1>1, <1>4
<1>5. ASSUME NEW d, DOMAIN d = DOMAIN call[s], d.handler = call[s].handler, d.at = call[s].at,
             GoOn(s, d) \/ Stay(s, d), call[s].handler # "none"
      PROVE  Goal
  <2>. DEFINE e == [d EXCEPT !.at = @ + 1]
  <2>1. e.at = call[s].at + 1 /\ e.handler = call[s].handler
    BY <1>1, <1>5 DEF Call
  <2>2. \/ call' = [call EXCEPT ![s] = Idle] \/ call' = [call EXCEPT ![s] = e]
        \/ call' = [call EXCEPT ![s] = d]
    BY <1>5 DEF GoOn, Stay
  <2>. HIDE DEF e, Goal
  <2>3. CASE End(s)
    BY <1>2, <2>3 DEF Goal
  <2>. QED
    BY <1>4, <1>5, <2>1, <2>2, <2>3 DEF End
<1>6. ASSUME NEW x, \/ GoOn(s, [call[s] EXCEPT !.row = x])
                    \/ Stay(s, [call[s] EXCEPT !.reload = x])
                    \/ GoOn(s, [call[s] EXCEPT !.reload = x])
                    \/ GoOn(s, [call[s] EXCEPT !.after = x])
                    \/ GoOn(s, [call[s] EXCEPT !.aborted = x])
                    \/ GoOn(s, [call[s] EXCEPT !.recorded = x])
                    \/ GoOn(s, [call[s] EXCEPT !.wrote = x]),
             call[s].handler # "none"
      PROVE  Goal
  <2>. HIDE DEF Goal
  <2>. QED
    BY <1>1, <1>5, <1>6 DEF Call
<1>7. ASSUME NEW x, NEW y, \/ GoOn(s, [call[s] EXCEPT !.wrote = x, !.after = y])
                           \/ GoOn(s, [call[s] EXCEPT !.id = y, !.wrote = x]),
             call[s].handler # "none"
      PROVE  Goal
  <2>. HIDE DEF Goal
  <2>. QED
    BY <1>1, <1>5, <1>7 DEF Call
<1>8. ASSUME GoOn(s, call[s]), call[s].handler # "none" PROVE Goal
  <2>. HIDE DEF Goal
  <2>. QED
    BY <1>5, <1>8
<1>9. CASE Label(s)
  <2>1. call[s].handler # "none" /\ call[s].handler \notin Writers
    BY <1>9, Here DEF Label, Step, Belongs, Writers, Creates, Rewrites, Changes, Archives
  <2>2. PICK i : GoOn(s, [call[s] EXCEPT !.at = i])
    <3>1. call[s] = [call[s] EXCEPT !.at = call[s].at]
      BY <1>1 DEF Call
    <3>. QED
      BY <1>9, <3>1 DEF Label
  <2>. QED
    BY <1>1, <2>1, <2>2 DEF GoOn, Call, Idle
<1>10. ASSUME Commit(s) PROVE Goal
  <2>1. call[s].handler # "none"
    BY <1>10 DEF Commit, Step
  <2>2. PICK d : /\ d = [Idle EXCEPT !.handler = call[s].handler, !.at = call[s].at,
                                     !.id = call[s].id]
                 /\ GoOn(s, d) \/ End(s)
    BY <1>10 DEF Commit
  <2>3. DOMAIN d = DOMAIN call[s] /\ d.handler = call[s].handler /\ d.at = call[s].at
    BY <1>1, <2>2 DEF Idle, Call
  <2>4. CASE GoOn(s, d)
    <3>. HIDE DEF Goal
    <3>. QED
      BY <1>5, <2>1, <2>3, <2>4
  <2>. QED
    BY <1>2, <2>2, <2>4
<1>11. ASSUME Lock(s) \/ Query(s) PROVE Goal
  <2>1. call[s].handler # "none"
    BY <1>11 DEF Lock, Query, IInv, Fits, Idle
  <2>2. PICK x : \/ Stay(s, [call[s] EXCEPT !.reload = x])
                 \/ GoOn(s, [call[s] EXCEPT !.reload = x])
    BY <1>11 DEF Lock, Query
  <2>. HIDE DEF Goal
  <2>. QED
    BY <1>6, <2>1, <2>2
<1>12. ASSUME Serve(s), ~Label(s), ~Commit(s), ~Lock(s), ~Query(s) PROVE Goal
  <2>1. Step(s) # "idle" => call[s].handler # "none"
    BY DEF Step
  <2>2. End(s) => Goal
    BY <1>2
  <2>3. GoOn(s, call[s]) /\ Step(s) # "idle" => Goal
    BY <1>8, <2>1
  <2>4. \A x : \/ GoOn(s, [call[s] EXCEPT !.row = x]) /\ Step(s) # "idle"
               \/ Stay(s, [call[s] EXCEPT !.reload = x]) /\ Step(s) # "idle"
               \/ GoOn(s, [call[s] EXCEPT !.after = x]) /\ Step(s) # "idle"
               \/ GoOn(s, [call[s] EXCEPT !.aborted = x]) /\ Step(s) # "idle"
               \/ GoOn(s, [call[s] EXCEPT !.recorded = x]) /\ Step(s) # "idle"
               \/ GoOn(s, [call[s] EXCEPT !.wrote = x]) /\ Step(s) # "idle"
               => Goal
    BY <1>6, <2>1
  <2>5. \A x, y : \/ GoOn(s, [call[s] EXCEPT !.wrote = x, !.after = y]) /\ Step(s) # "idle"
                  \/ GoOn(s, [call[s] EXCEPT !.id = y, !.wrote = x]) /\ Step(s) # "idle"
                  => Goal
    BY <1>7, <2>1
  <2>. HIDE DEF Goal
  <2>6. CASE \/ Authorize(s) \/ Resolve(s) \/ Refuse(s) \/ List(s) \/ Begin(s) \/ Notify(s)
    BY <2>2, <2>3, <2>6 DEF Authorize, Resolve, Refuse, List, Begin, Notify
  <2>7. CASE Encrypt(s) \/ Profile(s)
    BY <2>2, <2>3, <2>4, <2>7 DEF Encrypt, Profile
  <2>8. CASE Unique(s) \/ ArchiveEntity(s)
    BY <2>2, <2>3, <2>4, <2>8 DEF Unique, ArchiveEntity
  <2>9. CASE Load(s) \/ Select(s) \/ CreateLegalEntity(s)
    BY <2>2, <2>3, <2>4, <2>9 DEF Load, Select, CreateLegalEntity
  <2>10. CASE CreateEntity(s)
    BY <2>2, <2>5, <2>10 DEF CreateEntity
  <2>11. CASE Insert(s) \/ Update(s)
    BY <2>5, <2>11 DEF Insert, Update
  <2>12. CASE Refetch(s) \/ dispatch(s)
    BY <2>2, <2>4, <2>12 DEF Refetch, dispatch
  <2>. QED
    BY <1>12, <2>6, <2>7, <2>8, <2>9, <2>10, <2>11, <2>12 DEF Serve
<1>. QED
  BY <1>2, <1>3, <1>9, <1>10, <1>11, <1>12 DEF Fail, DeadlockVictim

(* A transaction starts with BEGIN, and no other way. *)
LEMMA OnlyBeginTakes ==
  ASSUME IInv, IInv', NEW s \in Sessions,
         Receive(s) \/ Serve(s) \/ DeadlockVictim(s) \/ Fail(s)
  PROVE  /\ \A t \in Sessions \ {s} : InTx(t)' <=> InTx(t)
         /\ InTx(s)' /\ ~InTx(s) => FreeConnections > 0
<1>1. \A t \in Sessions \ {s} : InTx(t)' <=> InTx(t)
  BY OneByOne DEF InTx, Step
<1>2. SUFFICES ASSUME InTx(s)', ~InTx(s) PROVE FreeConnections > 0
  BY <1>1
<1>. DEFINE h == call'[s].handler
            at == call'[s].at
<1>3. /\ h # "none" /\ h \in DOMAIN Handler /\ at \in 1..Len(Handler[h])
      /\ Handler[h][at] \in TxSteps
  <2>1. call'[s] \in Call /\ (call'[s].handler = "none" => call'[s] = Idle)
        /\ (call'[s].handler # "none" => call'[s].at \in 1..Len(Handler[call'[s].handler]))
    BY DEF IInv, TypeOK, Fits
  <2>2. call'[s].handler # "none" /\ Handler[call'[s].handler][call'[s].at] \in TxSteps
    BY <1>2 DEF InTx, Step, TxSteps
  <2>. QED
    BY <2>1, <2>2 DEF Call
<1>4. at > 2 /\ h \in Writers /\ Handler[h][at - 1] \in TxSteps \cup {"begin"}
  BY <1>3, HandlersQueue DEF Queues, Waits
<1>5. /\ call[s].handler # "none" /\ call[s].handler = h
      /\ at = call[s].at \/ at = call[s].at + 1
  BY <1>3, <1>4, OneByOne
<1>6. Step(s) = Handler[h][call[s].at] /\ Step(s) \notin TxSteps
  BY <1>2, <1>5 DEF Step, InTx, TxSteps
<1>7. call[s].at \in 1..16
  BY DEF IInv, TypeOK, Call
<1>8. Step(s) = "begin"
  <2>1. at = call[s].at + 1
    BY <1>3, <1>5, <1>6
  <2>2. at - 1 = call[s].at
    BY <1>7, <2>1
  <2>. QED
    BY <1>4, <1>6, <2>2
<1>9. call[s].reload = "no"
  BY <1>5, <1>8, Here DEF Fits
<1>10. ~Receive(s) /\ ~DeadlockVictim(s) /\ ~Fail(s)
  <2>1. call[s] # Idle
    BY <1>5 DEF Idle
  <2>2. ~End(s)
    BY <1>3 DEF End, Idle, IInv, TypeOK
  <2>. QED
    BY <2>1, <2>2 DEF Receive, DeadlockVictim, Fail
<1>11. Begin(s)
  BY <1>8, <1>9, <1>10 DEF Serve, Authorize, Resolve, Load, Label, Refuse, List, CreateEntity,
     CreateLegalEntity, Insert, Select, Update, Unique, ArchiveEntity, Refetch, Encrypt, Profile,
     Lock, Query, dispatch, Commit, Notify
<1>. QED
  BY <1>11 DEF Begin

Transactions == {s \in Sessions : InTx(s)}
PoolHolds == FreeConnections \in Nat

LEMMA Counted ==
  ASSUME NEW A \in SUBSET Sessions
  PROVE  IsFiniteSet(A) /\ Cardinality(A) \in Nat
BY BoundAssumption, FS_Subset, FS_CardinalityType

LEMMA PoolStep == IInv /\ IInv' /\ PoolHolds /\ [Next]_vars => PoolHolds'
<1>. SUFFICES ASSUME IInv, IInv', PoolHolds, [Next]_vars PROVE PoolHolds'
  OBVIOUS
<1>1. /\ PoolSize \in Nat /\ FreeConnections = PoolSize - Cardinality(Transactions)
      /\ FreeConnections' = PoolSize - Cardinality(Transactions')
      /\ Transactions \in SUBSET Sessions /\ Transactions' \in SUBSET Sessions
  BY BoundAssumption DEF FreeConnections, Transactions
<1>2. /\ IsFiniteSet(Transactions) /\ Cardinality(Transactions) \in Nat
      /\ IsFiniteSet(Transactions') /\ Cardinality(Transactions') \in Nat
  BY <1>1, Counted
<1>3. CASE UNCHANGED vars
  BY <1>3 DEF vars, PoolHolds, FreeConnections, InTx, Step
<1>4. ASSUME NEW s \in Sessions, Receive(s) \/ Serve(s) \/ DeadlockVictim(s) \/ Fail(s)
      PROVE  PoolHolds'
  <2>1. /\ \A t \in Sessions \ {s} : InTx(t)' <=> InTx(t)
        /\ InTx(s)' /\ ~InTx(s) => FreeConnections > 0
    BY <1>4, OnlyBeginTakes
  <2>2. CASE Transactions' \subseteq Transactions
    <3>1. Cardinality(Transactions') <= Cardinality(Transactions)
      BY <1>2, <2>2, FS_Subset
    <3>. QED
      BY <1>1, <1>2, <3>1 DEF PoolHolds
  <2>3. CASE ~(Transactions' \subseteq Transactions)
    <3>1. /\ s \notin Transactions /\ FreeConnections > 0
          /\ Transactions' \subseteq Transactions \cup {s}
      BY <2>1, <2>3 DEF Transactions
    <3>2. IsFiniteSet(Transactions \cup {s})
          /\ Cardinality(Transactions \cup {s}) = Cardinality(Transactions) + 1
      BY <1>2, <3>1, FS_AddElement
    <3>3. Cardinality(Transactions') <= Cardinality(Transactions \cup {s})
      BY <3>1, <3>2, FS_Subset
    <3>. QED
      BY <1>1, <1>2, <3>1, <3>2, <3>3 DEF PoolHolds
  <2>. QED
    BY <2>2, <2>3
<1>. QED
  BY <1>3, <1>4 DEF Next

LEMMA PoolInit == Init => PoolHolds
<1>. SUFFICES ASSUME Init PROVE PoolHolds
  OBVIOUS
<1>1. Transactions = {}
  BY DEF Init, Transactions, InTx, Step, Idle
<1>2. Cardinality(Transactions) = 0
  BY <1>1, FS_EmptySet
<1>. QED
  BY <1>2, BoundAssumption DEF PoolHolds, FreeConnections, Transactions

(* The pool never hands out more connections than it has. *)
THEOREM PoolSuffices == Spec => []PoolHolds
<1>1. IInv /\ [Next]_vars => IInv'
  BY StepInv
<1>. QED
  BY <1>1, InitInv, PoolInit, PoolStep, PTL DEF Spec

(* A transaction that holds what others wait for, waits for nothing but    *)
(* rows and index entries itself.                                          *)
LEMMA HolderNeedsNoConnection ==
  ASSUME IInv, NEW s \in Sessions, NEW t \in WaitsFor(s)
  PROVE  call[t].reload = "no" /\ ~NeedsConnection(t) /\ call[t] # Idle
<1>1. /\ t \in Sessions /\ call[t].handler # "none"
      /\ call[t].wrote \cap {"subtypes", "index", "archived_at"} # {}
  BY Awaited
<1>2. /\ Waits(call[t].handler, call[t].at)
      /\ Step(t) = Handler[call[t].handler][call[t].at]
      /\ ~Before(call[t].handler, call[t].at, "commit")
      /\ \E x \in LockSteps : Before(call[t].handler, call[t].at, x)
  BY <1>1, Queued, Here
<1>3. Step(t) \notin {"resolve", "load", "list", "begin", "encrypt", "profile"}
  BY <1>2 DEF Waits
<1>4. call[t].reload \in {"no", "mutex", "query"}
      /\ (call[t].reload # "no" => Step(t) \in {"encrypt", "profile"})
  BY <1>1, Here DEF Fits, Call
<1>. QED
  BY <1>1, <1>3, <1>4 DEF NeedsConnection, Idle

LEMMA Stalls == IInv /\ PoolHolds => StallsExplained
<1>. SUFFICES ASSUME IInv, PoolHolds, \E s \in Sessions : call[s] # Idle,
                     \A s \in Sessions : call[s] # Idle => Blocked(s),
                     ~\E waiting \in SUBSET Sessions : Deadlocked(waiting)
              PROVE  Starved
  BY DEF StallsExplained
<1>. DEFINE waiting == {s \in Sessions : WaitsFor(s) # {}}
<1>1. waiting = {}
  <2>1. ASSUME NEW s \in waiting PROVE WaitsFor(s) \cap waiting # {}
    <3>1. PICK t : t \in WaitsFor(s)
      OBVIOUS
    <3>2. t \in Sessions /\ call[t].reload = "no" /\ ~NeedsConnection(t) /\ call[t] # Idle
      BY <3>1, Awaited, HolderNeedsNoConnection
    <3>3. WaitsFor(t) # {}
      BY <3>2 DEF Blocked
    <3>. QED
      BY <3>1, <3>2, <3>3
  <2>2. waiting \in SUBSET Sessions
    OBVIOUS
  <2>. HIDE DEF waiting
  <2>. QED
    BY <2>1, <2>2 DEF Deadlocked
<1>2. ASSUME NEW s \in Sessions, call[s] # Idle
      PROVE  \/ NeedsConnection(s) /\ FreeConnections <= 0
             \/ call[s].reload = "mutex" /\ \E t \in Sessions : call[t].reload = "query"
  BY <1>1, <1>2 DEF Blocked
<1>3. FreeConnections = 0
  <2>1. ASSUME NEW s \in Sessions, call[s].reload = "query" PROVE FreeConnections <= 0
    BY <1>2, <2>1 DEF Idle
  <2>2. FreeConnections <= 0
    BY <1>2, <2>1
  <2>. QED
    BY <2>2 DEF PoolHolds
<1>4. ASSUME NEW s \in Sessions, InTx(s) PROVE call[s].reload # "no"
  <2>1. call[s] # Idle
    BY <1>4 DEF InTx, Step, Idle
  <2>2. Step(s) \notin {"resolve", "load", "list", "begin", "profile"}
    BY <1>4 DEF InTx
  <2>. QED
    BY <1>2, <2>1, <2>2 DEF NeedsConnection
<1>. QED
  BY <1>3, <1>4 DEF Starved

(* When everyone waits on everyone, there is a deadlock for the server to  *)
(* end, or transactions in Encrypt have used up the pool.                  *)
THEOREM StallsAreExplained == Spec => []StallsExplained
BY Invariance, PoolSuffices, Stalls, PTL

-----------------------------------------------------------------------------
(* Updates of one entity *)

(* What a step of its own may do to an update that goes on. *)
SameUpdate(s) ==
  /\ call'[s].handler = call[s].handler /\ call'[s].id = call[s].id
  /\ call'[s].body = call[s].body /\ call'[s].row = call[s].row

JustRead(s) ==
  /\ subtypes[call[s].id] # NULL
  /\ call'[s].handler = call[s].handler /\ call'[s].id = call[s].id
  /\ call'[s].body = call[s].body
  /\ call'[s].row = Merged(subtypes[call[s].id], call[s].body)

LEMMA UpdateStep ==
  ASSUME IInv, NEW s \in Sessions, Receive(s) \/ Serve(s) \/ DeadlockVictim(s) \/ Fail(s),
         Updating(s)'
  PROVE  ~Commit(s) /\ (SameUpdate(s) \/ JustRead(s))
<1>1. call \in [Sessions -> Call] /\ call[s] \in Call
  BY DEF IInv, TypeOK
<1>2. ~End(s)
  BY <1>1 DEF End, Idle, Updating, Changes
<1>3. ~Receive(s)
  <2>. SUFFICES ASSUME Receive(s) PROVE FALSE
    OBVIOUS
  <2>. DEFINE new(h) == [Idle EXCEPT !.handler = h, !.at = 2]
  <2>1. PICK h \in Routes :
          \/ h \in Creates /\ \E row \in Row : Stay(s, [new(h) EXCEPT !.row = row])
          \/ \E id \in 1..Capacity[kind], body \in Bodies[kind] :
               Stay(s, [new(h) EXCEPT !.id = id, !.body = body])
          \/ \E id \in 1..Capacity[kind] : Stay(s, [new(h) EXCEPT !.id = id])
          \/ Stay(s, new(h))
    BY DEF Receive
  <2>. QED
    BY <1>1, <2>1 DEF Stay, Idle, Updating, Creates, Changes
<1>4. ASSUME NEW d, DOMAIN d = DOMAIN call[s], d.handler = call[s].handler, d.id = call[s].id,
             d.body = call[s].body, d.row = call[s].row, GoOn(s, d) \/ Stay(s, d)
      PROVE  SameUpdate(s)
  <2>. DEFINE e == [d EXCEPT !.at = @ + 1]
  <2>1. e.handler = d.handler /\ e.id = d.id /\ e.body = d.body /\ e.row = d.row
    BY <1>1, <1>4 DEF Call
  <2>2. call' = [call EXCEPT ![s] = e] \/ call' = [call EXCEPT ![s] = d]
    BY <1>2, <1>4 DEF GoOn, Stay, End
  <2>. HIDE DEF e
  <2>3. call'[s] = e \/ call'[s] = d
    BY <1>1, <2>2
  <2>. QED
    BY <1>4, <2>1, <2>3 DEF SameUpdate
<1>5. \A x, y : \/ Stay(s, [call[s] EXCEPT !.reload = x])
                \/ GoOn(s, [call[s] EXCEPT !.reload = x])
                \/ GoOn(s, [call[s] EXCEPT !.after = x])
                \/ GoOn(s, [call[s] EXCEPT !.aborted = x])
                \/ GoOn(s, [call[s] EXCEPT !.recorded = x])
                \/ GoOn(s, [call[s] EXCEPT !.wrote = x])
                \/ GoOn(s, [call[s] EXCEPT !.wrote = x, !.after = y])
                \/ GoOn(s, [call[s] EXCEPT !.at = x])
                \/ GoOn(s, call[s])
                => SameUpdate(s)
  <2>. SUFFICES ASSUME NEW x, NEW y,
                  \/ Stay(s, [call[s] EXCEPT !.reload = x])
                  \/ GoOn(s, [call[s] EXCEPT !.reload = x])
                  \/ GoOn(s, [call[s] EXCEPT !.after = x])
                  \/ GoOn(s, [call[s] EXCEPT !.aborted = x])
                  \/ GoOn(s, [call[s] EXCEPT !.recorded = x])
                  \/ GoOn(s, [call[s] EXCEPT !.wrote = x])
                  \/ GoOn(s, [call[s] EXCEPT !.wrote = x, !.after = y])
                  \/ GoOn(s, [call[s] EXCEPT !.at = x])
                  \/ GoOn(s, call[s])
                PROVE SameUpdate(s)
    OBVIOUS
  <2>. QED
    BY <1>1, <1>4 DEF Call
<1>6. ASSUME GoOn(s, [call[s] EXCEPT !.row = Merged(subtypes[call[s].id], call[s].body)]),
             subtypes[call[s].id] # NULL
      PROVE  JustRead(s)
  <2>. DEFINE d == [call[s] EXCEPT !.row = Merged(subtypes[call[s].id], call[s].body)]
              e == [d EXCEPT !.at = @ + 1]
  <2>1. /\ e.handler = call[s].handler /\ e.id = call[s].id /\ e.body = call[s].body
        /\ e.row = Merged(subtypes[call[s].id], call[s].body)
    BY <1>1 DEF Call
  <2>2. call' = [call EXCEPT ![s] = e]
    BY <1>2, <1>6 DEF GoOn, End
  <2>. HIDE DEF e
  <2>. QED
    BY <1>1, <1>6, <2>1, <2>2 DEF JustRead
<1>7. ~Commit(s)
  <2>. SUFFICES ASSUME Commit(s) PROVE FALSE
    OBVIOUS
  <2>1. PICK d : d.row = NULL /\ DOMAIN d = DOMAIN call[s] /\ GoOn(s, d)
    <3>1. GoOn(s, [Idle EXCEPT !.handler = call[s].handler, !.at = call[s].at, !.id = call[s].id])
      BY <1>2 DEF Commit
    <3>. QED
      BY <1>1, <3>1 DEF Idle, Call
  <2>2. call' = [call EXCEPT ![s] = [d EXCEPT !.at = @ + 1]]
    BY <1>2, <2>1 DEF GoOn, End
  <2>3. [d EXCEPT !.at = @ + 1].row = NULL
    BY <1>1, <2>1 DEF Call
  <2>. QED
    BY <1>1, <2>2, <2>3 DEF Updating
<1>8. ~CreateEntity(s)
  <2>. SUFFICES ASSUME CreateEntity(s) PROVE FALSE
    OBVIOUS
  <2>1. call[s].handler \in Creates
    BY Here DEF CreateEntity, Step, Belongs
  <2>2. PICK x, y : GoOn(s, [call[s] EXCEPT !.id = x, !.wrote = y])
    BY <1>2 DEF CreateEntity
  <2>3. call'[s].handler = call[s].handler
    BY <1>1, <1>2, <2>2 DEF GoOn, End, Call
  <2>. QED
    BY <2>1, <2>3 DEF Updating, Creates, Changes
<1>9. Serve(s) /\ ~Commit(s) /\ ~CreateEntity(s)
  BY <1>2, <1>3, <1>7, <1>8 DEF Fail, DeadlockVictim
<1>10. CASE Load(s) \/ Select(s)
  BY <1>2, <1>5, <1>6, <1>7, <1>10 DEF Load, Select
<1>11. CASE \/ Authorize(s) \/ Resolve(s) \/ Refuse(s) \/ List(s) \/ Begin(s) \/ Notify(s)
            \/ Label(s)
  BY <1>2, <1>5, <1>7, <1>11 DEF Authorize, Resolve, Refuse, List, Begin, Notify, Label
<1>12. CASE Encrypt(s) \/ Profile(s) \/ Lock(s) \/ Query(s)
  BY <1>2, <1>5, <1>7, <1>12 DEF Encrypt, Profile, Lock, Query
<1>13. CASE Unique(s) \/ ArchiveEntity(s) \/ CreateLegalEntity(s) \/ Insert(s) \/ Update(s)
  BY <1>2, <1>5, <1>7, <1>13 DEF Unique, ArchiveEntity, CreateLegalEntity, Insert, Update
<1>14. CASE Refetch(s) \/ dispatch(s)
  BY <1>2, <1>5, <1>7, <1>14 DEF Refetch, dispatch
<1>. QED
  BY <1>7, <1>9, <1>10, <1>11, <1>12, <1>13, <1>14 DEF Serve

(* Another request's COMMIT leaves the row an update has read, or is that  *)
(* of an update itself.                                                    *)
LEMMA OthersSpare ==
  ASSUME IInv, NEW s \in Sessions, NEW t \in Sessions \ {s},
         Commit(s), Updating(t), UpToDate(t), subtypes'[call[t].id] # subtypes[call[t].id]
  PROVE  /\ call[s].handler \in Changes /\ call[s].id = call[t].id
         /\ subtypes'[call[s].id] = call[s].row
<1>1. ~call[s].aborted
  BY DEF Commit, Local, tables
<1>2. \/ CommitsCreation(call[s]) \/ CommitsChange(call[s])
      \/ CommitsArchival(call[s]) \/ CommitsNothing(call[s])
  BY <1>1, CommitEffect
<1>3. subtypes \in [Ids -> Row \cup {NULL}] /\ Whole /\ call[s].id \in Ids
      /\ subtypes[call[t].id] # NULL /\ call[t].id \in Ids
  BY <1>1, CommitEffect DEF IInv, TypeOK, UpToDate, Fits, Updating
<1>4. call[t].id = call[s].id
  BY <1>2, <1>3 DEF CommitsCreation, CommitsChange, CommitsArchival, CommitsNothing
<1>5. ~CommitsCreation(call[s])
  BY <1>3, <1>4 DEF CommitsCreation, Whole
<1>6. CommitsChange(call[s])
  BY <1>2, <1>5 DEF CommitsArchival, CommitsNothing
<1>. QED
  BY <1>3, <1>4, <1>6 DEF CommitsChange, Rewrites, Changes

LEMMA ServedLocally ==
  ASSUME NEW s \in Sessions, Receive(s) \/ Serve(s) \/ DeadlockVictim(s) \/ Fail(s), ~Commit(s)
  PROVE  UNCHANGED subtypes
<1>1. CASE Receive(s) \/ DeadlockVictim(s) \/ Fail(s)
  BY <1>1 DEF Receive, DeadlockVictim, Fail, Local, tables
<1>2. CASE Serve(s)
  BY <1>2 DEF Serve, Authorize, Resolve, Load, Label, Refuse, List, Begin, CreateEntity,
     CreateLegalEntity, Insert, Select, Update, Unique, ArchiveEntity, Refetch, Encrypt, Profile,
     Lock, Query, dispatch, Notify, Local, tables
<1>. QED
  BY <1>1, <1>2

(* Nothing overtakes an update but another's COMMIT. *)
LEMMA Overtaking ==
  ASSUME IInv, [Next]_vars, NEW t \in Sessions, UpToDate(t), ~UpToDate(t)'
  PROVE  \E s \in Sessions \ {t} :
           /\ Step(s) = "commit" /\ call[s].handler \in Changes
           /\ call[s].id = call[t].id /\ subtypes'[call[s].id] = call[s].row
<1>1. CASE UNCHANGED vars
  BY <1>1 DEF vars, UpToDate, Updating
<1>2. ASSUME NEW s \in Sessions, Receive(s) \/ Serve(s) \/ DeadlockVictim(s) \/ Fail(s)
      PROVE  /\ s # t /\ Step(s) = "commit" /\ call[s].handler \in Changes
             /\ call[s].id = call[t].id /\ subtypes'[call[s].id] = call[s].row
  <2>0. Updating(t)'
    BY DEF UpToDate
  <2>1. ASSUME s = t PROVE FALSE
    <3>1. ~Commit(t) /\ (SameUpdate(t) \/ JustRead(t))
      BY <1>2, <2>0, <2>1, UpdateStep
    <3>2. UNCHANGED subtypes
      BY <1>2, <2>1, <3>1, ServedLocally
    <3>3. CASE SameUpdate(t)
      BY <2>0, <3>2, <3>3 DEF SameUpdate, UpToDate, Updating
    <3>4. CASE JustRead(t)
      BY <3>2, <3>4 DEF JustRead, UpToDate
    <3>. QED
      BY <3>1, <3>3, <3>4
  <2>2. call'[t] = call[t]
    BY <1>2, <2>1, OneByOne
  <2>3. Updating(t)
    BY <2>0, <2>2 DEF Updating
  <2>4. subtypes'[call[t].id] # subtypes[call[t].id]
    BY <2>2, <2>3 DEF UpToDate, Updating
  <2>5. Commit(s)
    BY <1>2, <2>4, ServedLocally
  <2>. QED
    BY <2>1, <2>3, <2>4, <2>5, OthersSpare DEF Commit
<1>. QED
  BY <1>1, <1>2 DEF Next

(* The COMMIT of one that is not overtaken. *)
LEMMA NilKept ==
  ASSUME IInv, [Next]_vars, NEW s \in Sessions,
         Step(s) = "commit", Step(s)' # "commit", Updating(s), UpToDate(s)
  PROVE  LET c == call[s] IN
         /\ c.body.first = NULL => subtypes'[c.id].first = subtypes[c.id].first
         /\ c.body.second = NULL => subtypes'[c.id].second = subtypes[c.id].second
<1>1. CASE UNCHANGED subtypes
  BY <1>1
<1>2. CASE subtypes' # subtypes
  <2>1. PICK t \in Sessions : Commit(t) /\ ~call[t].aborted
    BY <1>2, OnlyCommits DEF tables
  <2>2. t = s
    <3>1. t # s => call'[s] = call[s]
      BY <2>1, OneByOne DEF Serve
    <3>. QED
      BY <3>1 DEF Step
  <2>3. /\ subtypes' = [subtypes EXCEPT ![call[s].id] = call[s].row]
           \/ subtypes' = subtypes
        /\ call[s].id \in Ids /\ subtypes \in [Ids -> Row \cup {NULL}]
    BY <2>1, <2>2, CommitEffect DEF CommitsCreation, CommitsChange, CommitsArchival,
       CommitsNothing, IInv, TypeOK
  <2>. QED
    BY <1>2, <2>3 DEF UpToDate, Merged
<1>. QED
  BY <1>1, <1>2

(* The services select without a lock, so an update may undo another; but  *)
(* only another update, committed since the row was read, can make it      *)
(* change a member that its request does not name.                         *)
THEOREM OnlyUpdatesOvertake == Spec => OvertakenByUpdates
<1>. DEFINE Bounded ==
  \A s \in Sessions :
       /\ UpToDate(s) /\ ~UpToDate(s)' =>
            \E t \in Sessions \ {s} :
              /\ Step(t) = "commit" /\ call[t].handler \in Changes
              /\ call[t].id = call[s].id /\ subtypes'[call[t].id] = call[t].row
       /\ Step(s) = "commit" /\ Step(s)' # "commit" /\ Updating(s) /\ UpToDate(s) =>
            LET c == call[s] IN
            /\ c.body.first = NULL => subtypes'[c.id].first = subtypes[c.id].first
            /\ c.body.second = NULL => subtypes'[c.id].second = subtypes[c.id].second
<1>1. IInv /\ [Next]_vars => [Bounded]_vars
  BY Overtaking, NilKept
<1>. QED
  BY <1>1, Invariance, PTL DEF Spec, OvertakenByUpdates
===============================================================================
