---------------------------- MODULE EntitiesProofs ----------------------------
(***************************************************************************)
(* Theorems about Entities, for any number of requests, observers and      *)
(* entities: the requests implement EntityStore, what is reported is       *)
(* stored, and what is stored was recorded by the observers in the same    *)
(* transaction.                                                            *)
(***************************************************************************)
EXTENDS Entities, TLAPS

-----------------------------------------------------------------------------
(* The order of the steps in the handlers' lists *)

Archives == {"archiveEntity", "deleteApp"}
LegalCreates == {"createNaturalPerson", "createCorporation"}
AppWrites == {"createApp", "updateApp"}

(* A service account cannot be updated. *)
Rewrites == Changes \ {"updateServiceAccount"}
Writers == Creates \cup Rewrites \cup Archives

WriteSteps == {"entity", "legal_entity", "insert", "update", "unique", "archive"}

Before(h, i, x) == \E j \in 1..(i-1) : Handler[h][j] = x

(* What a step of a list must, and what it must not, have before it. *)
Follows(h, i) ==
  /\ Handler[h][i] = "commit" =>
       /\ ~Before(h, i, "commit") /\ Before(h, i, "observe")
       /\ h \in Creates => Before(h, i, "entity") /\ Before(h, i, "insert")
       /\ h \in Rewrites =>
            Before(h, i, "update") /\ (Before(h, i, "load") \/ Before(h, i, "select"))
       /\ h \in Archives => Before(h, i, "archive")
       /\ h \in Rewrites \cup Archives => Before(h, i, "resolve")
       /\ h \in LegalCreates => Before(h, i, "legal_entity")
       /\ h \in AppWrites => Before(h, i, "unique")
  /\ Handler[h][i] \in {"entity", "load", "select"} =>
       \A x \in WriteSteps : ~Before(h, i, x)
  /\ Handler[h][i] \in WriteSteps \cup {"observe", "refetch", "load", "select"} =>
       ~Before(h, i, "commit")
  /\ Handler[h][i] \in {"update", "archive"} => Before(h, i, "resolve")
  /\ Handler[h][i] = "update" => Before(h, i, "load") \/ Before(h, i, "select")
  /\ Handler[h][i] = "refetch" => Before(h, i, "update")

(* Which handlers have which steps. *)
Belongs(h, i) ==
  /\ Handler[h][i] \in WriteSteps \cup {"commit", "observe", "refetch"} => h \in Writers
  /\ Handler[h][i] \in {"entity", "insert"} => h \in Creates
  /\ Handler[h][i] = "legal_entity" => h \in LegalCreates
  /\ Handler[h][i] \in {"select", "update"} => h \in Rewrites
  /\ Handler[h][i] = "unique" => h \in AppWrites
  /\ Handler[h][i] = "archive" => h \in Archives
  /\ Handler[h][i] = "refetch" => h = "updateApp"
  /\ Handler[h][i] = "label" => h = "updateServiceAccount"

Ordered(h) ==
  /\ Len(Handler[h]) \in 2..16 /\ Handler[h][1] = "receive"
  /\ \A i \in 1..Len(Handler[h]) : Follows(h, i) /\ Belongs(h, i)

LEMMA HandlersOrdered == \A h \in DOMAIN Handler : Ordered(h)
<1>. USE DEF Handler, Ordered, Follows, Belongs, Before, Creates, Changes, Archives, LegalCreates,
             AppWrites, Rewrites, Writers, WriteSteps
<1>1. Ordered("createNaturalPerson")
  <2>1. /\ Len(createNaturalPerson) = 10 /\ createNaturalPerson[1] = "receive"
        /\ \A i \in 1..10 :
             /\ createNaturalPerson[i] = "entity" <=> i = 4
             /\ createNaturalPerson[i] = "legal_entity" <=> i = 5
             /\ createNaturalPerson[i] = "insert" <=> i = 7
             /\ createNaturalPerson[i] = "observe" <=> i = 8
             /\ createNaturalPerson[i] = "commit" <=> i = 9
             /\ createNaturalPerson[i] \notin
                  {"update", "unique", "archive", "load", "select", "refetch", "label"}
    BY DEF createNaturalPerson, NaturalPersonCreate, createNaturalPersonInTx
  <2>2. Handler["createNaturalPerson"] = createNaturalPerson
    OBVIOUS
  <2>. HIDE DEF Handler
  <2>3. \A i \in 1..10 : Belongs("createNaturalPerson", i)
    BY <2>1, <2>2
  <2>4. \A i \in 1..10 : Follows("createNaturalPerson", i)
    BY <2>1, <2>2
  <2>5. Len(Handler["createNaturalPerson"]) = 10 /\ createNaturalPerson[1] = "receive"
    BY <2>1, <2>2
  <2>. HIDE DEF Follows, Belongs
  <2>. QED
    BY <2>2, <2>3, <2>4, <2>5
<1>2. Ordered("getNaturalPerson")
  BY DEF getNaturalPerson, NaturalPersonGet
<1>3. Ordered("updateNaturalPerson")
  BY DEF updateNaturalPerson, NaturalPersonUpdate, NaturalPersonGet
<1>4. Ordered("createCorporation")
  BY DEF createCorporation, CorporationCreate
<1>5. Ordered("getCorporation")
  BY DEF getCorporation, CorporationGet
<1>6. Ordered("updateCorporation")
  BY DEF updateCorporation, CorporationUpdate, CorporationGet
<1>7. Ordered("createServiceAccount")
  BY DEF createServiceAccount, ServiceAccountCreate
<1>8. Ordered("getServiceAccount")
  BY DEF getServiceAccount, ServiceAccountGet
<1>9. Ordered("updateServiceAccount")
  BY DEF updateServiceAccount, ServiceAccountUpdate, ServiceAccountGet
<1>10. Ordered("getEntity")
  BY DEF getEntity, EntityProfile
<1>11. Ordered("archiveEntity")
  BY DEF archiveEntity, EntityArchive
<1>12. Ordered("createApp")
  BY DEF AppCreate
<1>13. Ordered("listApps")
  BY DEF AppList
<1>14. Ordered("getApp")
  BY DEF GetApp, loadAppByUUIDParam
<1>15. Ordered("updateApp")
  BY DEF UpdateApp, loadAppByUUIDParam
<1>16. Ordered("deleteApp")
  BY DEF DeleteApp, loadAppByUUIDParam
<1>17. DOMAIN Handler =
         {"createNaturalPerson", "getNaturalPerson", "updateNaturalPerson", "createCorporation",
          "getCorporation", "updateCorporation", "createServiceAccount", "getServiceAccount",
          "updateServiceAccount", "getEntity", "archiveEntity", "createApp", "listApps",
          "getApp", "updateApp", "deleteApp"}
  OBVIOUS
<1>. HIDE DEF Handler, Ordered
<1>. QED
  BY <1>1, <1>2, <1>3, <1>4, <1>5, <1>6, <1>7, <1>8, <1>9, <1>10, <1>11, <1>12, <1>13, <1>14,
     <1>15, <1>16, <1>17

-----------------------------------------------------------------------------
(* The inductive invariant *)

(* The request has that step behind it. *)
Did(c, x) == c.handler # "none" /\ Before(c.handler, c.at, x)

(* What its transaction has written follows from how far a request is.     *)
Written(c) ==
  /\ "entities" \in c.wrote <=> Did(c, "entity")
  /\ "legal_entities" \in c.wrote <=> Did(c, "legal_entity")
  /\ "subtypes" \in c.wrote <=> Did(c, "insert") \/ Did(c, "update")
  /\ "index" \in c.wrote <=> Did(c, "unique")
  /\ "archived_at" \in c.wrote => Did(c, "archive")

Fits(c) ==
  /\ IF c.handler = "none" THEN c = Idle
     ELSE c.handler \in Routes /\ c.at \in 1..Len(Handler[c.handler])
  /\ c.reload # "no" => Handler[c.handler][c.at] \in {"encrypt", "profile"}
  /\ c.handler \in Changes \cup Archives => c.id \in Ids
  /\ Did(c, "commit") => c.wrote = {}
  /\ ~Did(c, "commit") =>
       /\ c.handler \in Creates => c.row \in Row
       /\ c.handler \in Rewrites /\ (Did(c, "load") \/ Did(c, "select")) => c.row \in Row
       /\ Written(c)
       /\ policy = "propagate" /\ Did(c, "observe") /\ ~c.aborted => c.recorded = Observers
  /\ "subtypes" \in c.wrote => c.after = c.row

(* What it has written is still to be written to the tables, and theirs to *)
(* take: nobody else's commit has got in the way.                          *)
Agrees(c) ==
  /\ c.handler \in Rewrites \cup Archives /\ Did(c, "resolve") => entities[c.id] # NULL
  /\ "entities" \in c.wrote => c.id \in Ids /\ entities[c.id] = NULL
  /\ "archived_at" \in c.wrote => entities[c.id] = "live"
  /\ Did(c, "archive") /\ ~Did(c, "commit") /\ "archived_at" \notin c.wrote
       => entities[c.id] = "archived"
  /\ "index" \in c.wrote =>
       \A id \in Ids \ {c.id} : subtypes[id] # NULL => subtypes[id].first # c.row.first

(* No two transactions write what only one may. *)
Apart(c, d) ==
  /\ "entities" \in c.wrote /\ "entities" \in d.wrote => c.id # d.id
  /\ "archived_at" \in c.wrote /\ "archived_at" \in d.wrote => c.id # d.id
  /\ "index" \in c.wrote /\ "index" \in d.wrote => c.row.first # d.row.first

(* The committed tables hold whole entities, and a slug once.              *)
Whole ==
  /\ \A id \in Ids :
       /\ entities[id] = NULL <=> subtypes[id] = NULL
       /\ id \in legal_entities <=> Legal /\ entities[id] # NULL
  /\ kind = "app" =>
       \A i, j \in Ids :
         i # j /\ subtypes[i] # NULL /\ subtypes[j] # NULL => subtypes[i].first # subtypes[j].first

IInv ==
  /\ TypeOK
  /\ \A s \in Sessions : Fits(call[s]) /\ Agrees(call[s])
  /\ \A s, t \in Sessions : s # t => Apart(call[s], call[t])
  /\ Whole

-----------------------------------------------------------------------------
(* Requests and their positions *)

LEMMA IdleFits == Idle \in Call /\ Fits(Idle) /\ Agrees(Idle)
BY DEF Idle, Call, NoBody, Fits, Agrees, Did, Written, Creates, Rewrites, Changes, Archives

LEMMA IdleApart == ASSUME NEW c \in Call PROVE Apart(Idle, c) /\ Apart(c, Idle)
BY DEF Idle, Apart

LEMMA RoutesHandled == ASSUME kind \in Kinds PROVE Routes \subseteq DOMAIN Handler
BY KindAssumption DEF Routes, Handler

Onward(c) == [c EXCEPT !.at = @ + 1]

LEMMA NoneUnhandled == "none" \notin DOMAIN Handler
BY DEF Handler

LEMMA KindIds == ASSUME kind \in Kinds PROVE 1..Capacity[kind] \subseteq Ids
BY DEF Ids

LEMMA NextPlace ==
  ASSUME NEW n \in 2..16, NEW i \in 1..n, i # n
  PROVE  i + 1 \in 1..n /\ i + 1 \in 1..16
OBVIOUS

LEMMA SecondPlace == ASSUME NEW n \in 2..16 PROVE 2 \in 1..n
OBVIOUS

(* A request that goes on, and is not over, has its step behind it.        *)
LEMMA OnwardDid ==
  ASSUME NEW c \in Call, c.handler \in DOMAIN Handler, c.at \in 1..Len(Handler[c.handler]),
         c.at # Len(Handler[c.handler])
  PROVE  /\ Onward(c) \in Call /\ Onward(c).at \in 1..Len(Handler[c.handler])
         /\ \A x : Did(Onward(c), x) <=> Did(c, x) \/ Handler[c.handler][c.at] = x
<1>1. Len(Handler[c.handler]) \in 2..16 /\ c.handler # "none"
  BY HandlersOrdered DEF Ordered, Handler
<1>2. c.at + 1 \in 1..Len(Handler[c.handler]) /\ c.at + 1 \in 1..16
  BY <1>1, NextPlace
<1>3. Onward(c).at = c.at + 1 /\ Onward(c).handler = c.handler /\ Onward(c) \in Call
  BY <1>2 DEF Call, Onward
<1>4. \A x : Did(Onward(c), x) <=> Did(c, x) \/ Handler[c.handler][c.at] = x
  BY <1>1, <1>2, <1>3 DEF Did, Before
<1>. QED
  BY <1>2, <1>3, <1>4

LEMMA ApartSymmetric == ASSUME NEW c, NEW d, Apart(c, d) PROVE Apart(d, c)
BY DEF Apart

(* A request that goes on without touching the tables. *)
LEMMA LocalStep ==
  ASSUME IInv, NEW s \in Sessions, NEW c \in Call, call' = [call EXCEPT ![s] = c], Local,
         Fits(c), Agrees(c), \A t \in Sessions \ {s} : Apart(c, call[t])
  PROVE  IInv'
<1>1. /\ UNCHANGED <<kind, policy, entities, legal_entities, subtypes>>
      /\ call \in [Sessions -> Call] /\ call' \in [Sessions -> Call]
      /\ call'[s] = c /\ \A t \in Sessions \ {s} : call'[t] = call[t]
  BY DEF Local, tables, fixed, IInv, TypeOK
<1>2. TypeOK'
  BY <1>1 DEF IInv, TypeOK
<1>3. \A e : (Fits(e) => Fits(e)') /\ (Agrees(e) => Agrees(e)')
  <2>1. Routes' = Routes
    BY <1>1 DEF Routes
  <2>. SUFFICES ASSUME NEW e PROVE (Fits(e) => Fits(e)') /\ (Agrees(e) => Agrees(e)')
    OBVIOUS
  <2>2. Fits(e) => Fits(e)'
    BY <1>1, <2>1 DEF Fits
  <2>3. Agrees(e) => Agrees(e)'
    BY <1>1 DEF Agrees
  <2>. QED
    BY <2>2, <2>3
<1>4. \A t \in Sessions : Fits(call'[t]) /\ Agrees(call'[t])
  BY <1>1 DEF IInv
<1>5. (\A t \in Sessions : Fits(call[t]) /\ Agrees(call[t]))'
  BY <1>1, <1>3, <1>4
<1>6. (\A t, u \in Sessions : t # u => Apart(call[t], call[u]))'
  BY <1>1, ApartSymmetric DEF IInv
<1>7. Whole'
  BY <1>1 DEF IInv, Whole, Legal
<1>. QED
  BY <1>2, <1>5, <1>6, <1>7 DEF IInv

LEMMA EndStep ==
  ASSUME IInv, NEW s \in Sessions, End(s), Local
  PROVE  IInv'
BY LocalStep, IdleFits, IdleApart DEF End, IInv, TypeOK

LEMMA Here ==
  ASSUME IInv, NEW s \in Sessions, call[s].handler # "none"
  PROVE  /\ call[s] \in Call /\ Fits(call[s]) /\ Agrees(call[s])
         /\ call[s].handler \in DOMAIN Handler
         /\ call[s].at \in 1..Len(Handler[call[s].handler])
         /\ Step(s) = Handler[call[s].handler][call[s].at]
         /\ Follows(call[s].handler, call[s].at) /\ Belongs(call[s].handler, call[s].at)
         /\ \A x : Did(call[s], x) <=> Before(call[s].handler, call[s].at, x)
<1>1. call[s] \in Call /\ Fits(call[s]) /\ Agrees(call[s]) /\ kind \in Kinds
  BY DEF IInv, TypeOK
<1>2. call[s].handler \in DOMAIN Handler /\ call[s].at \in 1..Len(Handler[call[s].handler])
  BY <1>1, RoutesHandled DEF Fits
<1>3. Follows(call[s].handler, call[s].at) /\ Belongs(call[s].handler, call[s].at)
  BY <1>2, HandlersOrdered DEF Ordered
<1>. QED
  BY <1>1, <1>2, <1>3 DEF Step, Did

LEMMA GoOnStep ==
  ASSUME IInv, NEW s \in Sessions, call[s].handler # "none", Local,
         NEW d \in Call, d.handler = call[s].handler, d.at = call[s].at, GoOn(s, d),
         d.at # Len(Handler[d.handler]) =>
           /\ Fits(Onward(d)) /\ Agrees(Onward(d))
           /\ \A t \in Sessions \ {s} : Apart(Onward(d), call[t])
  PROVE  IInv'
<1>1. d.handler \in DOMAIN Handler /\ d.at \in 1..Len(Handler[d.handler])
  BY Here
<1>2. CASE d.at = Len(Handler[d.handler])
  <2>1. End(s)
    BY <1>2 DEF GoOn, End
  <2>. QED
    BY <2>1, EndStep
<1>3. CASE d.at # Len(Handler[d.handler])
  <2>1. call' = [call EXCEPT ![s] = Onward(d)]
    BY <1>3 DEF GoOn, Onward
  <2>2. Onward(d) \in Call
    BY <1>1, <1>3, OnwardDid
  <2>. QED
    BY <1>3, <2>1, <2>2, LocalStep
<1>. QED
  BY <1>2, <1>3

-----------------------------------------------------------------------------
(* The steps that leave the tables alone *)

LEMMA OnwardSame ==
  ASSUME NEW c \in Call
  PROVE  /\ Onward(c).handler = c.handler /\ Onward(c).id = c.id /\ Onward(c).row = c.row
         /\ Onward(c).after = c.after /\ Onward(c).wrote = c.wrote
         /\ Onward(c).recorded = c.recorded /\ Onward(c).aborted = c.aborted
         /\ Onward(c).reload = c.reload
BY DEF Call, Onward

(* A step that writes nothing. *)
LEMMA Passed ==
  ASSUME NEW c \in Call, c.handler \in DOMAIN Handler, c.at \in 1..Len(Handler[c.handler]),
         c.at # Len(Handler[c.handler]), Fits(c), Agrees(c), c.reload = "no",
         NEW x, x = Handler[c.handler][c.at], x \notin WriteSteps \cup {"commit"},
         x = "resolve" => c.handler \notin Rewrites \cup Archives \/ entities[c.id] # NULL,
         x \in {"load", "select"} => c.handler \notin Rewrites \/ c.row \in Row,
         x = "observe" => policy # "propagate" \/ c.aborted \/ c.recorded = Observers
  PROVE  /\ Fits(Onward(c)) /\ Agrees(Onward(c))
         /\ \A e : Apart(c, e) => Apart(Onward(c), e)
<1>1. /\ Onward(c) \in Call /\ Onward(c).at \in 1..Len(Handler[c.handler])
      /\ \A y : Did(Onward(c), y) <=> Did(c, y) \/ x = y
  BY OnwardDid
<1>2. c.handler # "none"
  BY DEF Handler
<1>3. Written(c) => Written(Onward(c))
  BY <1>1, OnwardSame DEF Written, WriteSteps
<1>4. Fits(Onward(c))
  BY <1>1, <1>2, <1>3, OnwardSame DEF Fits
<1>5. Agrees(Onward(c))
  BY <1>1, OnwardSame DEF Agrees, WriteSteps
<1>6. \A e : Apart(c, e) => Apart(Onward(c), e)
  BY OnwardSame DEF Apart
<1>. QED
  BY <1>4, <1>5, <1>6

(* What Fits and Agrees do not look at. *)
LEMMA Kept ==
  ASSUME NEW c \in Call, NEW d \in Call, c.handler # "none", Fits(c), Agrees(c),
         d.handler = c.handler, d.at = c.at, d.id = c.id, d.row = c.row, d.wrote = c.wrote,
         d.after = c.after \/ d.after = d.row, c.aborted => d.aborted,
         d.reload # "no" => Handler[c.handler][c.at] \in {"encrypt", "profile"},
         d.recorded = c.recorded \/ d.recorded = Observers \/ policy # "propagate"
  PROVE  Fits(d) /\ Agrees(d) /\ \A e : Apart(c, e) => Apart(d, e)
<1>1. \A x : Did(d, x) <=> Did(c, x)
  BY DEF Did
<1>2. Written(c) => Written(d)
  BY <1>1 DEF Written
<1>3. c.aborted \in BOOLEAN /\ d.aborted \in BOOLEAN
  BY DEF Call
<1>4. Fits(d)
  BY <1>1, <1>2, <1>3 DEF Fits
<1>. QED
  BY <1>1, <1>4 DEF Agrees, Apart

LEMMA QuietStep ==
  ASSUME IInv, NEW s \in Sessions, call[s].handler # "none", Local,
         Step(s) \notin WriteSteps \cup {"commit"},
         NEW d \in Call, GoOn(s, d),
         d.handler = call[s].handler, d.at = call[s].at, d.id = call[s].id, d.row = call[s].row,
         d.wrote = call[s].wrote, d.after = call[s].after \/ d.after = d.row,
         call[s].aborted => d.aborted, d.reload = "no",
         d.recorded = call[s].recorded \/ d.recorded = Observers \/ policy # "propagate",
         Step(s) = "resolve" =>
           d.handler \notin Rewrites \cup Archives \/ entities[d.id] # NULL,
         Step(s) \in {"load", "select"} => d.handler \notin Rewrites \/ d.row \in Row,
         Step(s) = "observe" => policy # "propagate" \/ d.aborted \/ d.recorded = Observers
  PROVE  IInv'
<1>1. Fits(d) /\ Agrees(d) /\ \A e : Apart(call[s], e) => Apart(d, e)
  BY Here, Kept
<1>2. d.at # Len(Handler[d.handler]) =>
        /\ Fits(Onward(d)) /\ Agrees(Onward(d))
        /\ \A e : Apart(d, e) => Apart(Onward(d), e)
  BY <1>1, Here, Passed
<1>3. \A t \in Sessions \ {s} : Apart(call[s], call[t])
  BY DEF IInv
<1>. QED
  BY <1>1, <1>2, <1>3, GoOnStep

LEMMA StayStep ==
  ASSUME IInv, NEW s \in Sessions, call[s].handler # "none", Local,
         Step(s) \in {"encrypt", "profile"}, NEW r \in {"mutex", "query"},
         Stay(s, [call[s] EXCEPT !.reload = r])
  PROVE  IInv'
<1>. DEFINE d == [call[s] EXCEPT !.reload = r]
<1>1. /\ d \in Call /\ d.handler = call[s].handler /\ d.at = call[s].at /\ d.id = call[s].id
      /\ d.row = call[s].row /\ d.wrote = call[s].wrote /\ d.after = call[s].after
      /\ d.aborted = call[s].aborted /\ d.recorded = call[s].recorded
  BY Here DEF Call
<1>. HIDE DEF d
<1>2. Fits(d) /\ Agrees(d) /\ \A e : Apart(call[s], e) => Apart(d, e)
  BY <1>1, Here, Kept
<1>3. \A t \in Sessions \ {s} : Apart(call[s], call[t])
  BY DEF IInv
<1>. QED
  BY <1>1, <1>2, <1>3, LocalStep DEF Stay, d

LEMMA Born ==
  ASSUME IInv, NEW s \in Sessions, Local, NEW h \in Routes, NEW c \in Call, Stay(s, c),
         c.reload = "no", c.handler = h, c.at = 2, c.wrote = {}, h \in Creates => c.row \in Row,
         h \in Changes \cup Archives => c.id \in Ids
  PROVE  IInv'
<1>1. kind \in Kinds /\ h \in DOMAIN Handler /\ h # "none"
  BY RoutesHandled, NoneUnhandled DEF IInv, TypeOK
<1>2. Len(Handler[h]) \in 2..16 /\ Handler[h][1] = "receive"
  BY <1>1, HandlersOrdered DEF Ordered
<1>3. \A x : Did(c, x) <=> x = "receive"
  BY <1>1, <1>2 DEF Did, Before
<1>4. Written(c)
  BY <1>3 DEF Written
<1>5. 2 \in 1..Len(Handler[h])
  BY <1>2, SecondPlace
<1>6. Fits(c)
  BY <1>1, <1>3, <1>4, <1>5 DEF Fits
<1>7. Agrees(c)
  BY <1>3 DEF Agrees
<1>8. \A t \in Sessions : Apart(c, call[t])
  BY DEF Apart
<1>. QED
  BY <1>6, <1>7, <1>8, LocalStep DEF Stay

LEMMA ReceiveInv ==
  ASSUME IInv, NEW s \in Sessions, Receive(s)
  PROVE  IInv'
<1>. DEFINE new(h) == [Idle EXCEPT !.handler = h, !.at = 2]
<1>1. PICK h \in Routes :
        \/ h \in Creates /\ \E row \in Row : Stay(s, [new(h) EXCEPT !.row = row])
        \/ h \in Changes /\ \E id \in 1..Capacity[kind], body \in Bodies[kind] :
             Stay(s, [new(h) EXCEPT !.id = id, !.body = body])
        \/ /\ h \in Routes \ (Creates \cup Changes \cup {"listApps"})
           /\ \E id \in 1..Capacity[kind] : Stay(s, [new(h) EXCEPT !.id = id])
        \/ h = "listApps" /\ Stay(s, new(h))
  BY DEF Receive
<1>2. kind \in Kinds /\ h \in DOMAIN Handler
  BY RoutesHandled DEF IInv, TypeOK
<1>3. /\ 1..Capacity[kind] \subseteq Ids
      /\ Bodies[kind] \subseteq [first : Firsts \cup {NULL}, second : Seconds \cup {NULL}]
  BY <1>2, KindIds, BoundAssumption
<1>4. Local
  BY DEF Receive
<1>5. /\ new(h) \in Call /\ new(h).handler = h /\ new(h).at = 2 /\ new(h).wrote = {}
      /\ new(h).reload = "no"
  <2>1. Idle \in Call /\ Idle.wrote = {} /\ Idle.reload = "no"
    BY IdleFits DEF Idle
  <2>2. 2 \in 1..16 /\ h \in {"none"} \cup DOMAIN Handler
    BY <1>2
  <2>3. new(h) \in Call
    BY <2>1, <2>2 DEF Call
  <2>4. new(h).handler = h /\ new(h).at = 2 /\ new(h).wrote = {} /\ new(h).reload = "no"
    BY <2>1, <2>2 DEF Call
  <2>. QED
    BY <2>3, <2>4
<1>. HIDE DEF new
<1>6. ASSUME h \in Creates, NEW row \in Row, Stay(s, [new(h) EXCEPT !.row = row])
      PROVE  IInv'
  <2>. DEFINE c == [new(h) EXCEPT !.row = row]
  <2>1. /\ c \in Call /\ c.handler = h /\ c.at = 2 /\ c.wrote = {}
        /\ c.reload = "no" /\ c.row \in Row
    BY <1>5 DEF Call
  <2>2. h \notin Changes \cup Archives
    BY <1>6 DEF Creates, Rewrites, Changes, Archives
  <2>. HIDE DEF c
  <2>. QED
    BY <1>4, <1>6, <2>1, <2>2, Born DEF c
<1>7. ASSUME h \in Changes, NEW id \in 1..Capacity[kind], NEW body \in Bodies[kind],
             Stay(s, [new(h) EXCEPT !.id = id, !.body = body])
      PROVE  IInv'
  <2>. DEFINE c == [new(h) EXCEPT !.id = id, !.body = body]
  <2>1. id \in Ids /\ body \in [first : Firsts \cup {NULL}, second : Seconds \cup {NULL}]
    BY <1>3
  <2>2. /\ c \in Call /\ c.handler = h /\ c.at = 2 /\ c.wrote = {}
        /\ c.reload = "no" /\ c.id \in Ids
    BY <1>5, <2>1 DEF Call
  <2>3. h \notin Creates
    BY <1>7 DEF Creates, Changes
  <2>. HIDE DEF c
  <2>. QED
    BY <1>4, <1>7, <2>2, <2>3, Born DEF c
<1>8. ASSUME h \notin Creates, NEW id \in 1..Capacity[kind], Stay(s, [new(h) EXCEPT !.id = id])
      PROVE  IInv'
  <2>. DEFINE c == [new(h) EXCEPT !.id = id]
  <2>1. /\ c \in Call /\ c.handler = h /\ c.at = 2 /\ c.wrote = {}
        /\ c.reload = "no" /\ c.id \in Ids
    BY <1>3, <1>5 DEF Call
  <2>. HIDE DEF c
  <2>. QED
    BY <1>4, <1>8, <2>1, Born DEF c
<1>9. CASE h = "listApps" /\ Stay(s, new(h))
  BY <1>4, <1>5, <1>9, Born DEF Creates, Rewrites, Changes, Archives
<1>. QED
  BY <1>1, <1>6, <1>7, <1>8, <1>9

(* The steps that only go on, fail, or wait for the mutex. *)
LEMMA PassiveInv ==
  ASSUME IInv, NEW s \in Sessions,
         \/ Authorize(s) \/ Resolve(s) \/ Refuse(s) \/ List(s) \/ Begin(s) \/ Refetch(s)
         \/ Encrypt(s) \/ Profile(s) \/ Notify(s) \/ dispatch(s)
  PROVE  IInv'
<1>1. Local /\ call[s].handler # "none"
  BY DEF Authorize, Resolve, Refuse, List, Begin, Refetch, Encrypt, Profile, Notify, dispatch, Step
<1>2. call[s] \in Call /\ call \in [Sessions -> Call]
  BY DEF IInv, TypeOK
<1>13. call[s].reload = "no"
  BY <1>1, Here DEF Fits, Authorize, Resolve, Refuse, List, Begin, Refetch, Encrypt, Profile,
     Notify, dispatch
<1>3. CASE End(s)
  BY <1>1, <1>3, EndStep
<1>4. CASE /\ GoOn(s, call[s])
           /\ Step(s) \notin WriteSteps \cup {"commit", "load", "select", "observe"}
           /\ (Step(s) = "resolve" => entities[call[s].id] # NULL)
  BY <1>13, <1>1, <1>2, <1>4, QuietStep
<1>5. CASE Stay(s, [call[s] EXCEPT !.reload = "mutex"]) /\ Step(s) \in {"encrypt", "profile"}
  BY <1>1, <1>5, StayStep
<1>6. CASE Step(s) = "refetch" /\ GoOn(s, [call[s] EXCEPT !.after = call[s].row])
  <2>. DEFINE d == [call[s] EXCEPT !.after = call[s].row]
  <2>1. d \in Call /\ d.handler = call[s].handler /\ d.at = call[s].at /\ d.id = call[s].id
        /\ d.row = call[s].row /\ d.wrote = call[s].wrote /\ d.after = d.row
        /\ d.reload = "no" /\ d.aborted = call[s].aborted /\ d.recorded = call[s].recorded
    BY <1>13, <1>2 DEF Call
  <2>. HIDE DEF d
  <2>. QED
    BY <1>1, <1>6, <2>1, QuietStep DEF d, WriteSteps
<1>7. CASE Step(s) \in {"refetch", "observe"} /\ GoOn(s, [call[s] EXCEPT !.aborted = TRUE])
  <2>. DEFINE d == [call[s] EXCEPT !.aborted = TRUE]
  <2>1. d \in Call /\ d.handler = call[s].handler /\ d.at = call[s].at /\ d.id = call[s].id
        /\ d.row = call[s].row /\ d.wrote = call[s].wrote /\ d.after = call[s].after
        /\ d.reload = "no" /\ d.aborted /\ d.recorded = call[s].recorded
    BY <1>13, <1>2 DEF Call
  <2>. HIDE DEF d
  <2>. QED
    BY <1>1, <1>7, <2>1, QuietStep DEF d, WriteSteps
<1>8. ASSUME Step(s) = "observe", NEW recorded \in SUBSET Observers,
             GoOn(s, [call[s] EXCEPT !.recorded = recorded]),
             policy # "propagate" \/ recorded = Observers
      PROVE  IInv'
  <2>. DEFINE d == [call[s] EXCEPT !.recorded = recorded]
  <2>1. d \in Call /\ d.handler = call[s].handler /\ d.at = call[s].at /\ d.id = call[s].id
        /\ d.row = call[s].row /\ d.wrote = call[s].wrote /\ d.after = call[s].after
        /\ d.reload = "no" /\ d.aborted = call[s].aborted /\ d.recorded = recorded
    BY <1>13, <1>2 DEF Call
  <2>. HIDE DEF d
  <2>. QED
    BY <1>1, <1>8, <2>1, QuietStep DEF d, WriteSteps
<1>9. CASE dispatch(s)
  BY <1>3, <1>7, <1>8, <1>9 DEF dispatch
<1>10. CASE Refetch(s)
  BY <1>6, <1>7, <1>10 DEF Refetch
<1>11. CASE Encrypt(s) \/ Profile(s)
  BY <1>3, <1>4, <1>5, <1>11 DEF Encrypt, Profile, WriteSteps
<1>12. CASE Authorize(s) \/ Resolve(s) \/ Refuse(s) \/ List(s) \/ Begin(s) \/ Notify(s)
  BY <1>3, <1>4, <1>12 DEF Authorize, Resolve, Refuse, List, Begin, Notify, WriteSteps
<1>. QED
  BY <1>9, <1>10, <1>11, <1>12

LEMMA MutexInv ==
  ASSUME IInv, NEW s \in Sessions, Lock(s) \/ Query(s)
  PROVE  IInv'
<1>1. Local /\ call[s] \in Call /\ Fits(call[s]) /\ call[s].reload # "no"
  BY DEF Lock, Query, IInv, TypeOK
<1>2. call[s].handler # "none"
  BY <1>1 DEF Fits, Idle
<1>3. Step(s) \in {"encrypt", "profile"}
  BY <1>1, <1>2, Here DEF Fits
<1>4. CASE Lock(s)
  BY <1>1, <1>2, <1>3, <1>4, StayStep DEF Lock
<1>5. CASE Query(s)
  <2>. DEFINE d == [call[s] EXCEPT !.reload = "no"]
  <2>1. d \in Call /\ d.handler = call[s].handler /\ d.at = call[s].at /\ d.id = call[s].id
        /\ d.row = call[s].row /\ d.wrote = call[s].wrote /\ d.after = call[s].after
        /\ d.reload = "no" /\ d.aborted = call[s].aborted /\ d.recorded = call[s].recorded
    BY <1>1 DEF Call
  <2>2. GoOn(s, d)
    BY <1>5 DEF Query
  <2>. HIDE DEF d
  <2>. QED
    BY <1>1, <1>2, <1>3, <2>1, <2>2, QuietStep DEF WriteSteps
<1>. QED
  BY <1>4, <1>5

(* A handler that is no Writer writes nothing. *)
LEMMA Barren ==
  ASSUME NEW c \in Call, c.handler \in DOMAIN Handler \ Writers,
         c.at \in 1..Len(Handler[c.handler]), NEW x \in WriteSteps \cup {"commit", "observe"}
  PROVE  ~Did(c, x)
<1>1. SUFFICES ASSUME NEW j \in 1..(c.at - 1), Handler[c.handler][j] = x PROVE FALSE
  BY DEF Did, Before
<1>2. j \in 1..Len(Handler[c.handler])
  BY HandlersOrdered DEF Ordered
<1>. QED
  BY <1>1, <1>2, HandlersOrdered DEF Ordered, Belongs

(* updateServiceAccount may skip its lookups: it writes nothing anyway.    *)
LEMMA LabelInv ==
  ASSUME IInv, NEW s \in Sessions, Label(s)
  PROVE  IInv'
<1>1. Local /\ Step(s) = "label" /\ call[s].handler # "none"
  BY DEF Label, Step
<1>2. /\ call[s] \in Call /\ Fits(call[s]) /\ call[s].handler = "updateServiceAccount"
      /\ call[s].handler \in DOMAIN Handler /\ call[s].handler \in Routes
      /\ call[s].at \in 1..Len(Handler[call[s].handler]) /\ call[s].reload = "no"
      /\ call[s].id \in Ids
  BY <1>1, Here DEF Belongs, Fits, Changes
<1>3. call[s].handler \notin Writers /\ call[s].handler \notin Creates \cup Rewrites \cup Archives
  BY <1>2 DEF Writers, Creates, Rewrites, Archives
<1>4. CASE GoOn(s, call[s])
  BY <1>1, <1>2, <1>4, QuietStep DEF WriteSteps
<1>5. CASE GoOn(s, [call[s] EXCEPT !.at = CHOOSE i \in DOMAIN updateServiceAccount :
                                            updateServiceAccount[i] = "refuse"])
  <2>. DEFINE at == CHOOSE i \in DOMAIN updateServiceAccount : updateServiceAccount[i] = "refuse"
              d == [call[s] EXCEPT !.at = at]
  <2>1. Handler["updateServiceAccount"] = updateServiceAccount
    BY DEF Handler
  <2>2. /\ DOMAIN updateServiceAccount = 1..7 /\ Len(updateServiceAccount) = 7
        /\ updateServiceAccount[5] = "refuse"
        /\ \A i \in 1..7 : updateServiceAccount[i] = "refuse" => i = 5
    BY DEF updateServiceAccount, ServiceAccountUpdate, ServiceAccountGet
  <2>3. at = 5
    BY <2>2
  <2>. HIDE DEF at
  <2>4. /\ d \in Call /\ d.handler = call[s].handler /\ d.at = 5 /\ d.wrote = call[s].wrote
        /\ d.reload = "no" /\ d.id = call[s].id
    BY <1>2, <2>3 DEF Call
  <2>5. GoOn(s, d)
    BY <1>5 DEF at
  <2>. HIDE DEF d
  <2>6. /\ Onward(d) \in Call /\ Onward(d).at = 6 /\ Onward(d).handler = call[s].handler
        /\ Onward(d).wrote = call[s].wrote /\ Onward(d).reload = "no"
        /\ Onward(d).id = call[s].id
    BY <2>4 DEF Call, Onward
  <2>15. Len(Handler[call[s].handler]) = 7
    BY <1>2, <2>1, <2>2
  <2>7. call' = [call EXCEPT ![s] = Onward(d)]
    BY <2>4, <2>5, <2>15 DEF GoOn, Onward
  <2>8. Onward(d).at \in 1..Len(Handler[Onward(d).handler])
    BY <2>6, <2>15
  <2>9. \A x \in WriteSteps \cup {"commit", "observe"} : ~Did(Onward(d), x) /\ ~Did(call[s], x)
    BY <1>2, <1>3, <2>6, <2>8, Barren
  <2>10. Written(Onward(d)) /\ \A y : y \in call[s].wrote => y \notin
             {"entities", "legal_entities", "subtypes", "index", "archived_at"}
    BY <1>2, <2>6, <2>9 DEF Fits, Written, WriteSteps
  <2>. DEFINE e == Onward(d)
  <2>. HIDE DEF e
  <2>11. /\ ~Did(e, "commit") /\ ~Did(e, "observe") /\ ~Did(e, "archive")
         /\ Written(e) /\ e.reload = "no" /\ e.handler = call[s].handler
         /\ e.id \in Ids
         /\ "subtypes" \notin e.wrote /\ "entities" \notin e.wrote
         /\ "archived_at" \notin e.wrote /\ "index" \notin e.wrote
         /\ e.at \in 1..Len(Handler[e.handler])
    BY <1>2, <2>6, <2>8, <2>9, <2>10 DEF e, WriteSteps
  <2>12. Fits(e)
    BY <1>1, <1>2, <1>3, <2>11 DEF Fits
  <2>14. Agrees(e)
    BY <1>3, <2>11 DEF Agrees
  <2>13. \A t \in Sessions \ {s} : Apart(Onward(d), call[t])
    BY <2>6, <2>10 DEF Apart
  <2>. QED
    BY <1>1, <2>6, <2>7, <2>12, <2>13, <2>14, LocalStep DEF e
<1>. QED
  BY <1>4, <1>5 DEF Label

-----------------------------------------------------------------------------
(* The steps of a transaction *)

(* A step that may write, or choose what is to be written. *)
LEMMA WrittenOnward ==
  ASSUME IInv, NEW s \in Sessions, call[s].handler # "none",
         NEW x, x = Step(s), x \in WriteSteps \cup {"load", "select"},
         NEW d \in Call, d.handler = call[s].handler, d.at = call[s].at,
         d.at # Len(Handler[d.handler]), d.recorded = call[s].recorded,
         d.aborted = call[s].aborted, d.reload = call[s].reload,
         d.row = call[s].row \/ d.row \in Row, d.id = call[s].id \/ d.id \in Ids,
         x \in {"load", "select"} => d.handler \notin Rewrites \/ d.row \in Row,
         "entities" \in d.wrote <=> "entities" \in call[s].wrote \/ x = "entity",
         "legal_entities" \in d.wrote <=> "legal_entities" \in call[s].wrote \/ x = "legal_entity",
         "subtypes" \in d.wrote <=> "subtypes" \in call[s].wrote \/ x \in {"insert", "update"},
         "index" \in d.wrote <=> "index" \in call[s].wrote \/ x = "unique",
         "archived_at" \in d.wrote => "archived_at" \in call[s].wrote \/ x = "archive",
         "subtypes" \in d.wrote => d.after = d.row
  PROVE  /\ Fits(Onward(d)) /\ ~Did(Onward(d), "commit")
         /\ Onward(d).handler = d.handler /\ Onward(d).id = d.id
         /\ Onward(d).row = d.row /\ Onward(d).wrote = d.wrote
         /\ \A y : Did(Onward(d), y) <=> Did(call[s], y) \/ x = y
<1>1. /\ Fits(call[s]) /\ call[s].handler \in DOMAIN Handler
      /\ call[s].at \in 1..Len(Handler[call[s].handler])
      /\ x = Handler[call[s].handler][call[s].at] /\ ~Did(call[s], "commit")
  BY Here DEF Follows
<1>2. \A y : Did(d, y) <=> Did(call[s], y)
  BY DEF Did
<1>3. /\ Onward(d).at \in 1..Len(Handler[d.handler])
      /\ \A y : Did(Onward(d), y) <=> Did(call[s], y) \/ x = y
  BY <1>1, <1>2, OnwardDid
<1>4. /\ Onward(d).handler = d.handler /\ Onward(d).id = d.id /\ Onward(d).row = d.row
      /\ Onward(d).wrote = d.wrote /\ Onward(d).after = d.after
      /\ Onward(d).recorded = d.recorded /\ Onward(d).aborted = d.aborted
      /\ Onward(d).reload = d.reload
  BY OnwardSame
<1>5. ~Did(Onward(d), "commit") /\ d.reload = "no"
  BY <1>1, <1>3 DEF WriteSteps, Fits
<1>6. Written(Onward(d))
  BY <1>1, <1>3, <1>4 DEF Fits, Written, WriteSteps
<1>7. (Did(Onward(d), "load") \/ Did(Onward(d), "select")) /\ d.handler \in Rewrites
        => d.row \in Row
  BY <1>1, <1>3 DEF Fits
<1>8. d.handler \in Creates => d.row \in Row
  BY <1>1 DEF Fits
<1>9. d.handler \in Changes \cup Archives => d.id \in Ids
  BY <1>1 DEF Fits
<1>10. d.handler \in Routes /\ d.handler # "none"
  BY <1>1 DEF Fits
<1>11. Did(Onward(d), "observe") <=> Did(call[s], "observe")
  BY <1>3 DEF WriteSteps
<1>12. policy = "propagate" /\ Did(Onward(d), "observe") /\ ~d.aborted => d.recorded = Observers
  BY <1>1, <1>11 DEF Fits
<1>13. Fits(Onward(d))
  BY <1>3, <1>4, <1>5, <1>6, <1>7, <1>8, <1>9, <1>10, <1>12 DEF Fits
<1>. QED
  BY <1>3, <1>4, <1>5, <1>13

LEMMA ReadInv ==
  ASSUME IInv, NEW s \in Sessions, Load(s) \/ Select(s)
  PROVE  IInv'
<1>. DEFINE c == call[s]
            read == subtypes[c.id]
            d == [c EXCEPT !.row = Merged(read, c.body)]
<1>1. Local /\ c.handler # "none" /\ Step(s) \in {"load", "select"}
  BY DEF Load, Select, Step
<1>2. CASE End(s)
  BY <1>1, <1>2, EndStep
<1>3. c \in Call /\ subtypes \in [Ids -> Row \cup {NULL}]
  BY DEF IInv, TypeOK
<1>4. CASE c.handler \notin Rewrites /\ GoOn(s, c)
  <2>1. c.reload = "no"
    BY <1>1, Here DEF Fits
  <2>. HIDE DEF c
  <2>. QED
    BY <1>1, <1>3, <1>4, <2>1, QuietStep DEF WriteSteps, c
<1>5. CASE c.handler \in Changes /\ read # NULL /\ GoOn(s, d)
  <2>1. c.id \in Ids /\ read \in Row
    BY <1>1, <1>3, <1>5, Here DEF Fits
  <2>2. c.body \in [first : Firsts \cup {NULL}, second : Seconds \cup {NULL}]
    BY <1>3 DEF Call
  <2>3. Merged(read, c.body) \in Row
    BY <2>1, <2>2 DEF Merged, Row
  <2>4. /\ d \in Call /\ d.handler = c.handler /\ d.at = c.at /\ d.id = c.id /\ d.wrote = c.wrote
        /\ d.recorded = c.recorded /\ d.aborted = c.aborted /\ d.reload = c.reload
        /\ d.row \in Row
    BY <1>3, <2>3 DEF Call
  <2>5. Agrees(c) /\ Fits(c) /\ \A x \in WriteSteps \cup {"commit"} : ~Did(c, x)
    BY <1>1, Here DEF Follows, WriteSteps
  <2>6. /\ "entities" \notin c.wrote /\ "legal_entities" \notin c.wrote /\ "subtypes" \notin c.wrote
        /\ "index" \notin c.wrote /\ "archived_at" \notin c.wrote
    BY <2>5 DEF Fits, Written, WriteSteps
  <2>. HIDE DEF c, d
  <2>7. GoOn(s, d)
    BY <1>5
  <2>8. SUFFICES ASSUME d.at # Len(Handler[d.handler])
                 PROVE  /\ Fits(Onward(d)) /\ Agrees(Onward(d))
                        /\ \A t \in Sessions \ {s} : Apart(Onward(d), call[t])
    BY <1>1, <2>4, <2>7, GoOnStep DEF c
  <2>9. /\ Fits(Onward(d)) /\ Onward(d).handler = c.handler /\ Onward(d).id = c.id
        /\ Onward(d).wrote = c.wrote
        /\ \A y : Did(Onward(d), y) <=> Did(c, y) \/ Step(s) = y
    BY <1>1, <2>4, <2>6, <2>8, WrittenOnward DEF c, WriteSteps
  <2>10. Agrees(Onward(d))
    BY <1>1, <2>5, <2>6, <2>9 DEF Agrees, WriteSteps
  <2>11. \A t \in Sessions \ {s} : Apart(Onward(d), call[t])
    BY <2>6, <2>9 DEF Apart
  <2>. QED
    BY <2>9, <2>10, <2>11
<1>6. CASE Load(s)
  BY <1>1, <1>2, <1>4, <1>5, <1>6 DEF Load, Rewrites
<1>7. CASE Select(s)
  <2>1. c.handler \in Changes
    BY <1>1, <1>7, Here DEF Select, Belongs, Rewrites
  <2>. QED
    BY <1>1, <1>2, <1>5, <1>7, <2>1 DEF Select
<1>. QED
  BY <1>6, <1>7

LEMMA CreateEntityInv ==
  ASSUME IInv, NEW s \in Sessions, CreateEntity(s)
  PROVE  IInv'
<1>1. Local /\ call[s].handler # "none" /\ Step(s) = "entity"
  BY DEF CreateEntity, Step
<1>2. CASE End(s)
  BY <1>1, <1>2, EndStep
<1>3. ASSUME NEW id \in 1..Capacity[kind], Fresh(id),
             GoOn(s, [call[s] EXCEPT !.id = id, !.wrote = @ \cup {"entities"}])
      PROVE  IInv'
  <2>. DEFINE c == call[s]
              d == [c EXCEPT !.id = id, !.wrote = @ \cup {"entities"}]
  <2>1. /\ id \in Ids /\ entities[id] = NULL
        /\ \A t \in Sessions : call[t].id = id => call[t].wrote = {}
    BY <1>3, KindIds DEF Fresh, IInv, TypeOK
  <2>2. c \in Call
    BY DEF IInv, TypeOK
  <2>3. /\ d \in Call /\ d.handler = c.handler /\ d.at = c.at /\ d.row = c.row /\ d.after = c.after
        /\ d.recorded = c.recorded /\ d.aborted = c.aborted /\ d.reload = c.reload
        /\ d.id = id /\ d.wrote = c.wrote \cup {"entities"}
    BY <2>1, <2>2 DEF Call
  <2>4. GoOn(s, d)
    BY <1>3
  <2>5. /\ Agrees(c) /\ Fits(c) /\ c.handler \in Creates
        /\ \A x \in WriteSteps \cup {"commit"} : ~Did(c, x)
    BY <1>1, Here DEF Follows, Belongs, WriteSteps
  <2>6. /\ "entities" \notin c.wrote /\ "legal_entities" \notin c.wrote /\ "subtypes" \notin c.wrote
        /\ "index" \notin c.wrote /\ "archived_at" \notin c.wrote
    BY <2>5 DEF Fits, Written, WriteSteps
  <2>. HIDE DEF c, d
  <2>7. SUFFICES ASSUME d.at # Len(Handler[d.handler])
                 PROVE  /\ Fits(Onward(d)) /\ Agrees(Onward(d))
                        /\ \A t \in Sessions \ {s} : Apart(Onward(d), call[t])
    BY <1>1, <2>3, <2>4, GoOnStep DEF c
  <2>8. /\ Fits(Onward(d)) /\ Onward(d).handler = c.handler /\ Onward(d).id = id
        /\ Onward(d).wrote = c.wrote \cup {"entities"}
        /\ \A y : Did(Onward(d), y) <=> Did(c, y) \/ Step(s) = y
    BY <1>1, <2>1, <2>3, <2>6, <2>7, WrittenOnward DEF c, WriteSteps
  <2>9. c.handler \notin Rewrites \cup Archives
    BY <2>5 DEF Creates, Rewrites, Changes, Archives
  <2>10. Agrees(Onward(d))
    BY <1>1, <2>1, <2>5, <2>6, <2>8, <2>9 DEF Agrees, WriteSteps
  <2>11. \A t \in Sessions \ {s} : Apart(Onward(d), call[t])
    BY <2>1, <2>6, <2>8 DEF Apart
  <2>. QED
    BY <2>8, <2>10, <2>11
<1>. QED
  BY <1>2, <1>3 DEF CreateEntity

(* A step that writes to the row the request is about. *)
LEMMA WriteStep ==
  ASSUME IInv, NEW s \in Sessions, call[s].handler # "none", Local,
         NEW x \in WriteSteps \ {"entity"}, x = Step(s),
         NEW what \in {"legal_entities", "subtypes", "index", "archived_at"},
         NEW after \in Row \cup {NULL},
         what = "subtypes" => after = call[s].row, what # "subtypes" => after = call[s].after,
         what = "legal_entities" <=> x = "legal_entity",
         what = "subtypes" <=> x \in {"insert", "update"},
         what = "index" <=> x = "unique",
         what = "archived_at" <=> x = "archive",
         GoOn(s, [call[s] EXCEPT !.wrote = @ \cup {what}, !.after = after]),
         x = "archive" =>
           entities[call[s].id] = "live" /\ Holders(s, "archived_at") = {},
         x = "unique" => ~Taken(s) /\ Contenders(s) = {}
  PROVE  IInv'
<1>. DEFINE c == call[s]
            d == [c EXCEPT !.wrote = @ \cup {what}, !.after = after]
<1>1. c \in Call /\ Agrees(c) /\ Fits(c) /\ ~Did(c, "commit")
  BY Here DEF Follows
<1>2. /\ d \in Call /\ d.handler = c.handler /\ d.at = c.at /\ d.row = c.row /\ d.after = after
      /\ d.recorded = c.recorded /\ d.aborted = c.aborted /\ d.reload = c.reload
      /\ d.id = c.id /\ d.wrote = c.wrote \cup {what}
  BY <1>1 DEF Call
<1>3. GoOn(s, d)
  OBVIOUS
<1>4. \A t \in Sessions \ {s} : Apart(c, call[t])
  BY DEF IInv
<1>5. /\ what = "archived_at" => entities[c.id] = "live"
      /\ \A t \in Sessions \ {s} :
           what = "archived_at" => "archived_at" \notin call[t].wrote \/ call[t].id # c.id
  BY DEF Holders
<1>6. /\ what = "index" =>
           \A id \in Ids \ {c.id} : subtypes[id] # NULL => subtypes[id].first # c.row.first
      /\ \A t \in Sessions \ {s} : what = "index" /\ "index" \in call[t].wrote =>
           call[t].row.first # c.row.first
  BY DEF Taken, Contenders
<1>. HIDE DEF c, d
<1>7. SUFFICES ASSUME d.at # Len(Handler[d.handler])
               PROVE  /\ Fits(Onward(d)) /\ Agrees(Onward(d))
                      /\ \A t \in Sessions \ {s} : Apart(Onward(d), call[t])
  BY <1>1, <1>2, <1>3, GoOnStep DEF c
<1>8. "subtypes" \in d.wrote => d.after = d.row
  BY <1>1, <1>2 DEF Fits, c
<1>9. /\ Fits(Onward(d)) /\ Onward(d).handler = c.handler /\ Onward(d).id = c.id
      /\ Onward(d).row = c.row /\ Onward(d).wrote = c.wrote \cup {what}
      /\ \A y : Did(Onward(d), y) <=> Did(c, y) \/ x = y
  BY <1>1, <1>2, <1>7, <1>8, WrittenOnward DEF c, WriteSteps
<1>10. Agrees(Onward(d))
  BY <1>1, <1>5, <1>6, <1>9 DEF Agrees, WriteSteps
<1>11. \A t \in Sessions \ {s} : Apart(Onward(d), call[t])
  BY <1>4, <1>5, <1>6, <1>9 DEF Apart
<1>. QED
  BY <1>9, <1>10, <1>11

LEMMA WriteInv ==
  ASSUME IInv, NEW s \in Sessions,
         CreateLegalEntity(s) \/ Insert(s) \/ Update(s) \/ Unique(s) \/ ArchiveEntity(s)
  PROVE  IInv'
<1>1. /\ Local /\ call[s].handler # "none"
      /\ Step(s) \in {"legal_entity", "insert", "update", "unique", "archive"}
  BY DEF CreateLegalEntity, Insert, Update, Unique, ArchiveEntity, Step
<1>2. /\ call[s] \in Call /\ Agrees(call[s]) /\ Fits(call[s]) /\ ~Did(call[s], "commit")
      /\ Follows(call[s].handler, call[s].at) /\ Belongs(call[s].handler, call[s].at)
      /\ Step(s) = Handler[call[s].handler][call[s].at]
      /\ \A x : Did(call[s], x) <=> Before(call[s].handler, call[s].at, x)
  BY <1>1, Here DEF Follows, WriteSteps
<1>3. /\ call[s].row \in Row \cup {NULL} /\ call[s].after \in Row \cup {NULL}
      /\ entities \in [Ids -> {NULL, "live", "archived"}]
  BY <1>2 DEF Call, IInv, TypeOK
<1>4. \A w : [call[s] EXCEPT !.wrote = w] = [call[s] EXCEPT !.wrote = w, !.after = call[s].after]
  BY <1>2 DEF Call
<1>5. CASE CreateLegalEntity(s)
  <2>1. GoOn(s, [call[s] EXCEPT !.wrote = @ \cup {"legal_entities"}, !.after = call[s].after])
    BY <1>4, <1>5 DEF CreateLegalEntity
  <2>. QED
    BY <1>1, <1>3, <1>5, <2>1, WriteStep DEF CreateLegalEntity, WriteSteps
<1>6. CASE Insert(s) \/ Update(s)
  BY <1>1, <1>3, <1>6, WriteStep DEF Insert, Update, WriteSteps
<1>7. CASE Unique(s)
  <2>1. ASSUME GoOn(s, [call[s] EXCEPT !.wrote = @ \cup {"index"}]), ~Taken(s) PROVE IInv'
    <3>1. GoOn(s, [call[s] EXCEPT !.wrote = @ \cup {"index"}, !.after = call[s].after])
      BY <1>4, <2>1
    <3>. QED
      BY <1>1, <1>3, <1>7, <2>1, <3>1, WriteStep DEF Unique, WriteSteps
  <2>. QED
    BY <1>1, <1>7, <2>1, EndStep DEF Unique
<1>8. CASE ArchiveEntity(s)
  <2>1. ASSUME GoOn(s, [call[s] EXCEPT !.wrote = @ \cup {"archived_at"}]),
               entities[call[s].id] = "live"
        PROVE  IInv'
    <3>1. GoOn(s, [call[s] EXCEPT !.wrote = @ \cup {"archived_at"}, !.after = call[s].after])
      BY <1>4, <2>1
    <3>2. /\ Step(s) = "archive" /\ Holders(s, "archived_at") = {}
      BY <1>8 DEF ArchiveEntity
    <3>3. "archive" \in WriteSteps \ {"entity"} /\ call[s].after \in Row \cup {NULL}
      BY <1>3 DEF WriteSteps
    <3>. QED
      BY <1>1, <2>1, <3>1, <3>2, <3>3, WriteStep
  <2>2. ASSUME GoOn(s, call[s]), entities[call[s].id] # "live" PROVE IInv'
    <3>. DEFINE c == call[s]
    <3>0. Step(s) = "archive"
      BY <1>8 DEF ArchiveEntity
    <3>1. c.handler \in Archives /\ c.id \in Ids /\ Did(c, "resolve")
      <4>1. c.handler \in Archives
        BY <1>2, <3>0 DEF Belongs
      <4>2. Did(c, "resolve")
        BY <1>2, <3>0 DEF Follows
      <4>. QED
        BY <1>2, <4>1, <4>2 DEF Fits
    <3>2. entities[c.id] = "archived" /\ "archived_at" \notin c.wrote
      BY <1>2, <1>3, <2>2, <3>1 DEF Agrees
    <3>4. c \in Call /\ Agrees(c) /\ Fits(c) /\ GoOn(s, c)
      BY <1>2, <2>2
    <3>5. \A t \in Sessions \ {s} : Apart(c, call[t])
      BY DEF IInv
    <3>. HIDE DEF c
    <3>6. SUFFICES ASSUME c.at # Len(Handler[c.handler])
                   PROVE  /\ Fits(Onward(c)) /\ Agrees(Onward(c))
                          /\ \A t \in Sessions \ {s} : Apart(Onward(c), call[t])
      BY <1>1, <3>4, GoOnStep DEF c
    <3>7. "subtypes" \in c.wrote => c.after = c.row
      BY <3>4 DEF Fits
    <3>8. /\ Fits(Onward(c)) /\ Onward(c).handler = c.handler /\ Onward(c).id = c.id
          /\ Onward(c).row = c.row /\ Onward(c).wrote = c.wrote
          /\ \A y : Did(Onward(c), y) <=> Did(c, y) \/ "archive" = y
      BY <1>1, <3>0, <3>4, <3>6, <3>7, WrittenOnward DEF c, WriteSteps
    <3>9. Agrees(Onward(c))
      BY <3>2, <3>4, <3>8 DEF Agrees
    <3>10. \A t \in Sessions \ {s} : Apart(Onward(c), call[t])
      BY <3>5, <3>8 DEF Apart
    <3>. QED
      BY <3>8, <3>9, <3>10
  <2>. QED
    BY <1>8, <2>1, <2>2 DEF ArchiveEntity
<1>. QED
  BY <1>5, <1>6, <1>7, <1>8

-----------------------------------------------------------------------------
(* The commit *)

LEMMA KindRoutes ==
  ASSUME kind \in Kinds, NEW h \in Routes
  PROVE  /\ h \in AppWrites => kind = "app"
         /\ kind = "app" /\ h \in Creates \cup Rewrites => h \in AppWrites
         /\ h \in Creates => (Legal <=> h \in LegalCreates)
BY KindAssumption DEF Routes, AppWrites, Creates, Rewrites, Changes, LegalCreates, Legal

LEMMA DidBelongs ==
  ASSUME NEW c \in Call, c.handler \in DOMAIN Handler, c.at \in 1..Len(Handler[c.handler])
  PROVE  /\ Did(c, "entity") \/ Did(c, "insert") => c.handler \in Creates
         /\ Did(c, "legal_entity") => c.handler \in LegalCreates
         /\ Did(c, "update") => c.handler \in Rewrites
         /\ Did(c, "unique") => c.handler \in AppWrites
         /\ Did(c, "archive") => c.handler \in Archives
<1>1. \A j \in 1..(c.at - 1) : Belongs(c.handler, j)
  BY HandlersOrdered DEF Ordered
<1>. QED
  BY <1>1 DEF Did, Before, Belongs

(* What the commit of a transaction that is not aborted does. *)
CommitsCreation(c) ==
  /\ c.handler \in Creates /\ "entities" \in c.wrote /\ c.row \in Row /\ entities[c.id] = NULL
  /\ entities' = [entities EXCEPT ![c.id] = "live"]
  /\ legal_entities' = legal_entities \cup (IF Legal THEN {c.id} ELSE {})
  /\ subtypes' = [subtypes EXCEPT ![c.id] = c.row]

CommitsChange(c) ==
  /\ c.handler \in Rewrites /\ c.row \in Row /\ entities[c.id] # NULL
  /\ subtypes' = [subtypes EXCEPT ![c.id] = c.row]
  /\ UNCHANGED <<entities, legal_entities>>

CommitsArchival(c) ==
  /\ c.handler \in Archives /\ "archived_at" \in c.wrote /\ entities[c.id] = "live"
  /\ entities' = [entities EXCEPT ![c.id] = "archived"]
  /\ UNCHANGED <<legal_entities, subtypes>>

CommitsNothing(c) ==
  /\ c.handler \in Archives /\ entities[c.id] = "archived"
  /\ UNCHANGED <<entities, legal_entities, subtypes>>

LEMMA CommitEffect ==
  ASSUME IInv, NEW s \in Sessions, Commit(s), ~call[s].aborted
  PROVE  /\ call[s].id \in Ids /\ UNCHANGED <<kind, policy>>
         /\ \/ CommitsCreation(call[s]) \/ CommitsChange(call[s])
            \/ CommitsArchival(call[s]) \/ CommitsNothing(call[s])
         /\ kind = "app" /\ call[s].handler \notin Archives => "index" \in call[s].wrote
         /\ "subtypes" \in call[s].wrote => call[s].after = call[s].row
         /\ policy = "propagate" => call[s].recorded = Observers
<1>. DEFINE c == call[s]
<1>1. Step(s) = "commit" /\ c.handler # "none"
  BY DEF Commit, Step
<1>2. /\ c \in Call /\ Fits(c) /\ Agrees(c) /\ c.handler \in DOMAIN Handler
      /\ c.at \in 1..Len(Handler[c.handler])
      /\ Follows(c.handler, c.at) /\ Belongs(c.handler, c.at)
      /\ Step(s) = Handler[c.handler][c.at]
      /\ \A x : Did(c, x) <=> Before(c.handler, c.at, x)
  BY <1>1, Here
<1>3. /\ ~Did(c, "commit") /\ Did(c, "observe") /\ c.handler \in Writers /\ c.handler \in Routes
      /\ c.handler \in Creates => Did(c, "entity") /\ Did(c, "insert")
      /\ c.handler \in Rewrites => Did(c, "update") /\ (Did(c, "load") \/ Did(c, "select"))
      /\ c.handler \in Archives => Did(c, "archive")
      /\ c.handler \in LegalCreates => Did(c, "legal_entity")
      /\ c.handler \in AppWrites => Did(c, "unique")
      /\ c.handler \in Rewrites \cup Archives => Did(c, "resolve")
  BY <1>1, <1>2 DEF Follows, Belongs, Fits
<1>4. kind \in Kinds /\ TypeOK
  BY DEF IInv, TypeOK
<1>5. /\ entities' = [entities EXCEPT ![c.id] = CASE "entities" \in c.wrote -> "live"
                                                  [] "archived_at" \in c.wrote -> "archived"
                                                  [] OTHER -> @]
      /\ legal_entities' = legal_entities \cup (IF "legal_entities" \in c.wrote THEN {c.id} ELSE {})
      /\ subtypes' = [subtypes EXCEPT ![c.id] = IF "subtypes" \in c.wrote THEN c.row ELSE @]
      /\ UNCHANGED <<kind, policy>>
  BY DEF Commit, fixed
<1>6. Written(c) /\ (policy = "propagate" => c.recorded = Observers)
      /\ ("subtypes" \in c.wrote => c.after = c.row)
  BY <1>2, <1>3 DEF Fits
<1>7. CASE c.handler \in Creates
  <2>1. c.handler \notin Rewrites \cup Archives /\ (Legal <=> c.handler \in LegalCreates)
    BY <1>3, <1>4, <1>7, KindRoutes DEF Creates, Rewrites, Changes, Archives
  <2>2. /\ "entities" \in c.wrote /\ "archived_at" \notin c.wrote /\ "subtypes" \in c.wrote
        /\ "legal_entities" \in c.wrote <=> Legal
    BY <1>2, <1>3, <1>6, <1>7, <2>1, DidBelongs DEF Written
  <2>3. c.id \in Ids /\ entities[c.id] = NULL /\ c.row \in Row
    BY <1>2, <1>3, <1>7, <2>2 DEF Agrees, Fits
  <2>4. kind = "app" => "index" \in c.wrote
    BY <1>3, <1>4, <1>6, <1>7, KindRoutes DEF Written
  <2>5. entities' = [entities EXCEPT ![c.id] = "live"]
    BY <1>5, <2>2
  <2>6. legal_entities' = legal_entities \cup (IF Legal THEN {c.id} ELSE {})
    BY <1>5, <2>2
  <2>7. subtypes' = [subtypes EXCEPT ![c.id] = c.row]
    BY <1>5, <2>2
  <2>8. CommitsCreation(c)
    BY <1>7, <2>2, <2>3, <2>5, <2>6, <2>7 DEF CommitsCreation
  <2>. QED
    BY <1>5, <1>6, <2>3, <2>4, <2>8
<1>8. CASE c.handler \in Rewrites
  <2>1. c.handler \notin Creates \cup Archives
    BY <1>8 DEF Creates, Rewrites, Changes, Archives
  <2>2. /\ "entities" \notin c.wrote /\ "archived_at" \notin c.wrote
        /\ "subtypes" \in c.wrote /\ "legal_entities" \notin c.wrote
    BY <1>2, <1>3, <1>6, <1>8, <2>1, DidBelongs DEF Written, LegalCreates, Creates
  <2>3. c.id \in Ids /\ entities[c.id] # NULL
    BY <1>2, <1>3, <1>8 DEF Agrees, Fits, Rewrites
  <2>4. kind = "app" => "index" \in c.wrote
    BY <1>3, <1>4, <1>6, <1>8, KindRoutes DEF Written
  <2>5. c.row \in Row
    BY <1>2, <1>3, <1>8 DEF Fits
  <2>6. UNCHANGED <<entities, legal_entities>> /\ subtypes' = [subtypes EXCEPT ![c.id] = c.row]
    <3>1. entities' = entities
      BY <1>4, <1>5, <2>2 DEF TypeOK
    <3>2. legal_entities' = legal_entities
      BY <1>5, <2>2
    <3>3. subtypes' = [subtypes EXCEPT ![c.id] = c.row]
      BY <1>5, <2>2
    <3>. QED
      BY <3>1, <3>2, <3>3
  <2>. QED
    BY <1>5, <1>6, <1>8, <2>3, <2>4, <2>5, <2>6 DEF CommitsChange
<1>9. CASE c.handler \in Archives
  <2>1. c.handler \notin Creates \cup Rewrites
    BY <1>9 DEF Creates, Rewrites, Changes, Archives
  <2>2. /\ "entities" \notin c.wrote /\ "subtypes" \notin c.wrote
        /\ "legal_entities" \notin c.wrote
    BY <1>2, <1>3, <1>6, <1>9, <2>1, DidBelongs DEF Written, LegalCreates, Creates
  <2>3. c.id \in Ids /\ UNCHANGED <<legal_entities, subtypes>>
    <3>1. c.id \in Ids
      BY <1>2, <1>9 DEF Fits
    <3>2. legal_entities' = legal_entities
      BY <1>5, <2>2
    <3>3. subtypes' = subtypes
      BY <1>4, <1>5, <2>2 DEF TypeOK
    <3>. QED
      BY <3>1, <3>2, <3>3
  <2>4. CASE "archived_at" \in c.wrote
    <3>1. entities[c.id] = "live" /\ entities' = [entities EXCEPT ![c.id] = "archived"]
      BY <1>2, <1>5, <2>2, <2>4 DEF Agrees
    <3>. QED
      BY <1>5, <1>6, <1>9, <2>3, <2>4, <3>1 DEF CommitsArchival
  <2>5. CASE "archived_at" \notin c.wrote
    <3>1. entities[c.id] = "archived"
      BY <1>2, <1>3, <1>9, <2>5 DEF Agrees
    <3>2. entities' = entities
      BY <1>4, <1>5, <2>2, <2>5 DEF TypeOK
    <3>. QED
      BY <1>5, <1>6, <1>9, <2>3, <3>1, <3>2 DEF CommitsNothing
  <2>. QED
    BY <2>4, <2>5
<1>. QED
  BY <1>3, <1>7, <1>8, <1>9 DEF Writers

LEMMA CommitWhole ==
  ASSUME IInv, NEW s \in Sessions, Commit(s), ~call[s].aborted
  PROVE  Whole'
<1>. DEFINE c == call[s]
<1>1. /\ c.id \in Ids /\ UNCHANGED <<kind, policy>>
      /\ CommitsCreation(c) \/ CommitsChange(c) \/ CommitsArchival(c) \/ CommitsNothing(c)
      /\ kind = "app" /\ c.handler \notin Archives => "index" \in c.wrote
  BY CommitEffect
<1>2. /\ entities \in [Ids -> {NULL, "live", "archived"}] /\ subtypes \in [Ids -> Row \cup {NULL}]
      /\ Whole /\ Agrees(c) /\ (Legal' <=> Legal)
  BY <1>1 DEF IInv, TypeOK, Legal
<1>3. NULL \notin Row /\ NULL # "live" /\ NULL # "archived"
  BY NullAssumption
<1>4. c.handler \in Archives => c.handler \notin Creates \cup Rewrites
  BY DEF Archives, Creates, Rewrites, Changes
<1>. HIDE DEF c
<1>5. CASE CommitsCreation(c) \/ CommitsChange(c)
  <2>1. \A id \in Ids :
          /\ entities'[id] = NULL <=> subtypes'[id] = NULL
          /\ id \in legal_entities' <=> Legal' /\ entities'[id] # NULL
    BY <1>1, <1>2, <1>3, <1>5 DEF CommitsCreation, CommitsChange, Whole
  <2>2. /\ \A id \in Ids \ {c.id} : subtypes'[id] = subtypes[id]
        /\ subtypes'[c.id] = c.row
        /\ kind = "app" => "index" \in c.wrote
    BY <1>1, <1>2, <1>4, <1>5 DEF CommitsCreation, CommitsChange
  <2>3. kind = "app" => \A id \in Ids \ {c.id} :
                          subtypes[id] # NULL => subtypes[id].first # c.row.first
    BY <1>2, <2>2 DEF Agrees
  <2>4. kind = "app" => \A i, j \in Ids :
          i # j /\ subtypes'[i] # NULL /\ subtypes'[j] # NULL =>
            subtypes'[i].first # subtypes'[j].first
    BY <1>1, <1>2, <2>2, <2>3 DEF Whole
  <2>. QED
    BY <1>1, <2>1, <2>4 DEF Whole
<1>6. CASE CommitsArchival(c) \/ CommitsNothing(c)
  <2>1. /\ UNCHANGED <<legal_entities, subtypes>>
        /\ \A id \in Ids : entities'[id] = NULL <=> entities[id] = NULL
    BY <1>1, <1>2, <1>3, <1>6 DEF CommitsArchival, CommitsNothing
  <2>. QED
    BY <1>1, <1>2, <2>1 DEF Whole
<1>. QED
  BY <1>1, <1>5, <1>6

(* What another request relies on outlives the commit. *)
LEMMA CommitAgrees ==
  ASSUME IInv, NEW s \in Sessions, Commit(s), ~call[s].aborted,
         NEW t \in Sessions \ {s}, NEW e, e = call[t]
  PROVE  Agrees(e)'
<1>. DEFINE c == call[s]
<1>1. /\ c.id \in Ids /\ UNCHANGED <<kind, policy>>
      /\ CommitsCreation(c) \/ CommitsChange(c) \/ CommitsArchival(c) \/ CommitsNothing(c)
      /\ kind = "app" /\ c.handler \notin Archives => "index" \in c.wrote
  BY CommitEffect
<1>2. /\ entities \in [Ids -> {NULL, "live", "archived"}] /\ subtypes \in [Ids -> Row \cup {NULL}]
      /\ Fits(e) /\ Agrees(e) /\ Apart(c, e) /\ kind \in Kinds /\ e \in Call
  BY DEF IInv, TypeOK
<1>3. NULL \notin Row /\ NULL # "live" /\ NULL # "archived"
  BY NullAssumption
<1>4. e.handler \in Changes \cup Archives => e.id \in Ids
  BY <1>2 DEF Fits
<1>5. c.handler \in Archives => c.handler \notin Creates \cup Rewrites
  BY DEF Archives, Creates, Rewrites, Changes
<1>6. Did(e, "archive") => e.handler \in Archives
  <2>1. CASE e.handler = "none"
    BY <2>1 DEF Did
  <2>2. CASE e.handler # "none"
    BY <1>2, <2>2, RoutesHandled, DidBelongs DEF Fits
  <2>. QED
    BY <2>1, <2>2
<1>7. "index" \in e.wrote => (kind = "app" /\ subtypes' = subtypes) \/ "index" \in c.wrote
  <2>1. SUFFICES ASSUME "index" \in e.wrote PROVE kind = "app"
    BY <1>1, <1>5 DEF CommitsCreation, CommitsChange, CommitsArchival, CommitsNothing
  <2>2. e.handler # "none" /\ e.handler \in Routes /\ Did(e, "unique")
    BY <1>2, <2>1 DEF Fits, Written, Idle
  <2>. QED
    BY <1>2, <2>2, RoutesHandled, DidBelongs, KindRoutes DEF Fits
<1>. HIDE DEF c
<1>8. \A id \in Ids :
        /\ entities[id] # NULL => entities'[id] # NULL
        /\ entities[id] = "archived" => entities'[id] = "archived"
        /\ entities'[id] # entities[id] =>
             /\ id = c.id
             /\ entities[id] = NULL => "entities" \in c.wrote
             /\ entities[id] = "live" => "archived_at" \in c.wrote
        /\ subtypes'[id] = subtypes[id] \/ (id = c.id /\ subtypes'[id] = c.row)
  BY <1>1, <1>2, <1>3 DEF CommitsCreation, CommitsChange, CommitsArchival, CommitsNothing
<1>9. e.handler \in Rewrites \cup Archives /\ Did(e, "resolve") => entities'[e.id] # NULL
  BY <1>2, <1>4, <1>8 DEF Agrees, Rewrites
<1>10. "entities" \in e.wrote => e.id \in Ids /\ entities'[e.id] = NULL
  BY <1>2, <1>8 DEF Agrees, Apart
<1>11. "archived_at" \in e.wrote => Did(e, "archive")
  BY <1>2 DEF Fits, Written
<1>12. "archived_at" \in e.wrote => entities'[e.id] = "live"
  BY <1>2, <1>3, <1>4, <1>6, <1>8, <1>11 DEF Agrees, Apart
<1>13. Did(e, "archive") /\ ~Did(e, "commit") /\ "archived_at" \notin e.wrote
         => entities'[e.id] = "archived"
  BY <1>2, <1>4, <1>6, <1>8 DEF Agrees
<1>14. "index" \in e.wrote =>
         \A id \in Ids \ {e.id} : subtypes'[id] # NULL => subtypes'[id].first # e.row.first
  BY <1>2, <1>7, <1>8 DEF Agrees, Apart
<1>. QED
  BY <1>9, <1>10, <1>12, <1>13, <1>14 DEF Agrees

LEMMA CommitType ==
  ASSUME IInv, NEW s \in Sessions, Commit(s), ~call[s].aborted, call' \in [Sessions -> Call]
  PROVE  TypeOK'
<1>. DEFINE c == call[s]
<1>1. /\ c.id \in Ids /\ UNCHANGED <<kind, policy>>
      /\ CommitsCreation(c) \/ CommitsChange(c) \/ CommitsArchival(c) \/ CommitsNothing(c)
  BY CommitEffect
<1>2. TypeOK
  BY DEF IInv
<1>. HIDE DEF c
<1>3. entities' \in [Ids -> {NULL, "live", "archived"}]
  BY <1>1, <1>2
     DEF TypeOK, CommitsCreation, CommitsChange, CommitsArchival, CommitsNothing
<1>4. legal_entities' \subseteq Ids
  BY <1>1, <1>2
     DEF TypeOK, CommitsCreation, CommitsChange, CommitsArchival, CommitsNothing
<1>5. subtypes' \in [Ids -> Row \cup {NULL}]
  BY <1>1, <1>2
     DEF TypeOK, CommitsCreation, CommitsChange, CommitsArchival, CommitsNothing
<1>. QED
  BY <1>1, <1>2, <1>3, <1>4, <1>5 DEF TypeOK

(* The request that goes on past its commit. *)
LEMMA CommitOnward ==
  ASSUME IInv, NEW s \in Sessions, Commit(s), ~call[s].aborted
  PROVE  \E d \in Call : /\ call' = [call EXCEPT ![s] = d] /\ d.wrote = {}
                         /\ Fits(d)' /\ Agrees(d)'
<1>. DEFINE c == call[s]
            e == [Idle EXCEPT !.handler = c.handler, !.at = c.at, !.id = c.id]
<1>1. Step(s) = "commit" /\ c.handler # "none"
  BY DEF Commit, Step
<1>2. /\ c \in Call /\ Fits(c) /\ Agrees(c) /\ c.handler \in DOMAIN Handler
      /\ c.at \in 1..Len(Handler[c.handler]) /\ Step(s) = Handler[c.handler][c.at]
  BY <1>1, Here
<1>3. /\ c.id \in Ids /\ UNCHANGED <<kind, policy>>
      /\ CommitsCreation(c) \/ CommitsChange(c) \/ CommitsArchival(c) \/ CommitsNothing(c)
  BY CommitEffect
<1>4. /\ e \in Call /\ e.handler = c.handler /\ e.at = c.at /\ e.id = c.id /\ e.wrote = {}
      /\ e.reload = "no"
  <2>1. Idle \in Call /\ Idle.wrote = {} /\ Idle.reload = "no"
    BY IdleFits DEF Idle
  <2>. QED
    BY <1>2, <2>1 DEF Call
<1>5. GoOn(s, e) \/ End(s)
  BY DEF Commit
<1>6. Routes' = Routes
  BY <1>3 DEF Routes
<1>9. /\ entities \in [Ids -> {NULL, "live", "archived"}]
      /\ NULL # "live" /\ NULL # "archived"
  BY NullAssumption DEF IInv, TypeOK
<1>. HIDE DEF c, e
<1>7. CASE End(s) \/ e.at = Len(Handler[e.handler])
  <2>1. call' = [call EXCEPT ![s] = Idle]
    BY <1>5, <1>7 DEF End, GoOn
  <2>2. Fits(Idle)' /\ Agrees(Idle)'
    BY DEF Idle, NoBody, Fits, Agrees, Did, Written, Creates, Rewrites, Changes, Archives
  <2>3. Idle.wrote = {}
    BY DEF Idle
  <2>. QED
    BY <2>1, <2>2, <2>3, IdleFits
<1>8. CASE GoOn(s, e) /\ e.at # Len(Handler[e.handler])
  <2>. DEFINE d == Onward(e)
  <2>1. call' = [call EXCEPT ![s] = d]
    BY <1>8 DEF GoOn, Onward
  <2>2. /\ d \in Call /\ d.at \in 1..Len(Handler[d.handler]) /\ d.handler = c.handler
        /\ d.id = c.id /\ d.wrote = {} /\ d.reload = "no" /\ Did(d, "commit")
    BY <1>1, <1>2, <1>4, <1>8, OnwardDid, OnwardSame
  <2>3. c.handler \in Routes
    BY <1>1, <1>2 DEF Fits
  <2>. HIDE DEF d
  <2>4. ASSUME NEW f, f = d PROVE Fits(f)' /\ Agrees(f)'
    <3>1. Fits(f)'
      BY <1>1, <1>3, <1>6, <2>2, <2>3, <2>4 DEF Fits
    <3>2. entities'[c.id] # NULL
      BY <1>3, <1>9
         DEF CommitsCreation, CommitsChange, CommitsArchival, CommitsNothing
    <3>3. Agrees(f)'
      BY <2>2, <2>4, <3>2 DEF Agrees
    <3>. QED
      BY <3>1, <3>3
  <2>. QED
    BY <2>1, <2>2, <2>4
<1>. QED
  BY <1>5, <1>7, <1>8

LEMMA CommitInv ==
  ASSUME IInv, NEW s \in Sessions, Commit(s)
  PROVE  IInv'
<1>1. CASE call[s].aborted
  BY <1>1, EndStep DEF Commit
<1>2. CASE ~call[s].aborted
  <2>1. PICK d \in Call : /\ call' = [call EXCEPT ![s] = d] /\ d.wrote = {}
                          /\ Fits(d)' /\ Agrees(d)'
    BY <1>2, CommitOnward
  <2>2. /\ call \in [Sessions -> Call] /\ call' \in [Sessions -> Call]
        /\ call'[s] = d /\ \A t \in Sessions \ {s} : call'[t] = call[t]
        /\ UNCHANGED <<kind, policy>>
    BY <1>2, <2>1, CommitEffect DEF IInv, TypeOK
  <2>3. TypeOK' /\ Whole'
    BY <1>2, <2>2, CommitType, CommitWhole
  <2>4. ASSUME NEW t \in Sessions \ {s}, NEW e, e = call[t] PROVE Fits(e)' /\ Agrees(e)'
    <3>1. Routes' = Routes
      BY <2>2 DEF Routes
    <3>2. Fits(e)
      BY <2>4 DEF IInv
    <3>3. Fits(e)'
      BY <2>2, <3>1, <3>2 DEF Fits
    <3>. QED
      BY <1>2, <2>4, <3>3, CommitAgrees
  <2>5. \A t, u \in Sessions : t # u => Apart(call'[t], call'[u])
    <3>1. \A e : Apart(d, e) /\ Apart(e, d)
      BY <2>1 DEF Apart
    <3>. QED
      BY <2>2, <3>1 DEF IInv
  <2>6. (\A t \in Sessions : Fits(call[t]) /\ Agrees(call[t]))'
    <3>1. SUFFICES ASSUME NEW t \in Sessions PROVE Fits(call[t])' /\ Agrees(call[t])'
      OBVIOUS
    <3>2. CASE t = s
      BY <2>1, <2>2, <3>2
    <3>3. CASE t # s
      BY <2>2, <2>4, <3>3
    <3>. QED
      BY <3>2, <3>3
  <2>. QED
    BY <2>3, <2>5, <2>6 DEF IInv
<1>. QED
  BY <1>1, <1>2

-----------------------------------------------------------------------------
(* Invariance *)

LEMMA InitInv == Init => IInv
<1>1. SUFFICES ASSUME Init PROVE IInv
  OBVIOUS
<1>2. TypeOK
  BY <1>1, IdleFits DEF Init, TypeOK
<1>3. \A s \in Sessions : call[s] = Idle
  BY <1>1 DEF Init
<1>4. \A s, t \in Sessions : Apart(call[s], call[t])
  BY <1>3, IdleFits, IdleApart
<1>5. Whole
  BY <1>1 DEF Init, Whole
<1>. QED
  BY <1>2, <1>3, <1>4, <1>5, IdleFits DEF IInv

LEMMA StepInv == IInv /\ [Next]_vars => IInv'
<1>1. SUFFICES ASSUME IInv, [Next]_vars PROVE IInv'
  OBVIOUS
<1>2. CASE UNCHANGED vars
  <2>1. UNCHANGED <<kind, policy, entities, legal_entities, subtypes, call>>
    BY <1>2 DEF vars
  <2>2. TypeOK' /\ Whole'
    BY <1>1, <2>1 DEF IInv, TypeOK, Whole, Legal
  <2>3. Routes' = Routes
    BY <2>1 DEF Routes
  <2>4. (\A s \in Sessions : Fits(call[s]))'
    BY <1>1, <2>1, <2>3 DEF IInv, Fits
  <2>5. (\A s \in Sessions : Agrees(call[s]))'
    BY <1>1, <2>1 DEF IInv, Agrees
  <2>6. (\A s, t \in Sessions : s # t => Apart(call[s], call[t]))'
    BY <1>1, <2>1 DEF IInv
  <2>. QED
    BY <2>2, <2>4, <2>5, <2>6 DEF IInv
<1>3. ASSUME NEW s \in Sessions, Receive(s) PROVE IInv'
  BY <1>1, <1>3, ReceiveInv
<1>4. ASSUME NEW s \in Sessions, Fail(s) \/ DeadlockVictim(s) PROVE IInv'
  BY <1>1, <1>4, EndStep DEF Fail, DeadlockVictim
<1>5. ASSUME NEW s \in Sessions, Serve(s) PROVE IInv'
  BY <1>1, <1>5, PassiveInv, ReadInv, LabelInv, MutexInv, CreateEntityInv, WriteInv, CommitInv
     DEF Serve
<1>. QED
  BY <1>1, <1>2, <1>3, <1>4, <1>5 DEF Next

(* How far each request is, what its transaction has written and what the  *)
(* committed tables hold always fit together.                              *)
THEOREM Invariance == Spec => []IInv
BY InitInv, StepInv, PTL DEF Spec

(* Only values of their types are stored or kept by a request. *)
THEOREM TypeCorrect == Spec => []TypeOK
<1>1. IInv => TypeOK
  BY DEF IInv
<1>. QED
  BY <1>1, Invariance, PTL

-----------------------------------------------------------------------------
(* What a commit leaves *)

LEMMA OnlyCommits ==
  ASSUME [Next]_vars
  PROVE  UNCHANGED <<tables, fixed>> \/ \E s \in Sessions : Commit(s) /\ ~call[s].aborted
<1>1. CASE UNCHANGED vars
  BY <1>1 DEF vars, tables, fixed
<1>2. ASSUME NEW s \in Sessions, Commit(s)
      PROVE  UNCHANGED <<tables, fixed>> \/ ~call[s].aborted
  BY <1>2 DEF Commit, Local
<1>3. ASSUME NEW s \in Sessions, Receive(s) \/ DeadlockVictim(s) \/ Fail(s) PROVE Local
  BY <1>3 DEF Receive, DeadlockVictim, Fail
<1>4. ASSUME NEW s \in Sessions, Serve(s), ~Commit(s) PROVE Local
  BY <1>4 DEF Serve, Authorize, Resolve, Load, Label, Refuse, List, Begin, CreateEntity,
     CreateLegalEntity, Insert, Select, Update, Unique, ArchiveEntity, Refetch, Encrypt, Profile,
     Lock, Query, dispatch, Notify
<1>. QED
  BY <1>1, <1>2, <1>3, <1>4 DEF Next, Local

(* Only an entity that is live is archived, and so only once. *)
THEOREM ArchivalOnce == Spec => ArchivedOnce
<1>1. IInv /\ [Next]_vars =>
        [\A s \in Sessions :
           Step(s) = "commit" /\ "archived_at" \in call[s].wrote =>
             entities[call[s].id] = "live"]_vars
  BY DEF IInv, Agrees
<1>. QED
  BY <1>1, Invariance, PTL DEF Spec, ArchivedOnce

(* Under the default policy nothing is committed unrecorded. *)
THEOREM AuditAtomic == Spec => AuditedAtomically
<1>1. IInv /\ [Next]_vars =>
        [policy = "propagate" /\ tables' # tables =>
           \E s \in Sessions : Step(s) = "commit" /\ call[s].recorded = Observers]_vars
  <2>1. SUFFICES ASSUME IInv, [Next]_vars, policy = "propagate", tables' # tables
                 PROVE  \E s \in Sessions : Step(s) = "commit" /\ call[s].recorded = Observers
    OBVIOUS
  <2>2. PICK s \in Sessions : Commit(s) /\ ~call[s].aborted
    BY <2>1, OnlyCommits
  <2>. QED
    BY <2>1, <2>2, CommitEffect DEF Commit
<1>. QED
  BY <1>1, Invariance, PTL DEF Spec, AuditedAtomically

(* What the observers were shown is what the commit leaves. *)
THEOREM AfterCommitted == Spec => AfterIsCommitted
<1>1. IInv /\ [Next]_vars =>
        [\A id \in Ids : subtypes'[id] # subtypes[id] =>
           \E s \in Sessions :
             Step(s) = "commit" /\ call[s].id = id /\ call[s].after = subtypes'[id]]_vars
  <2>1. SUFFICES ASSUME IInv, [Next]_vars, NEW id \in Ids, subtypes'[id] # subtypes[id]
                 PROVE  \E s \in Sessions :
                          Step(s) = "commit" /\ call[s].id = id /\ call[s].after = subtypes'[id]
    OBVIOUS
  <2>2. PICK s \in Sessions : Commit(s) /\ ~call[s].aborted
    BY <2>1, OnlyCommits DEF tables
  <2>3. /\ Step(s) = "commit" /\ call[s].id \in Ids
        /\ subtypes' = [subtypes EXCEPT ![call[s].id] =
                          IF "subtypes" \in call[s].wrote THEN call[s].row ELSE @]
        /\ "subtypes" \in call[s].wrote => call[s].after = call[s].row
    BY <2>1, <2>2, CommitEffect DEF Commit
  <2>4. subtypes \in [Ids -> Row \cup {NULL}]
    BY <2>1 DEF IInv, TypeOK
  <2>. QED
    BY <2>1, <2>3, <2>4
<1>. QED
  BY <1>1, Invariance, PTL DEF Spec, AfterIsCommitted

(* A request goes on past its commit only by committing. *)
LEMMA PastCommit ==
  ASSUME IInv, Next, NEW s \in Sessions, Step(s) = "commit", Step(s)' = "notify"
  PROVE  Commit(s) /\ ~call[s].aborted
<1>1. PICK t \in Sessions : Receive(t) \/ Serve(t) \/ DeadlockVictim(t) \/ Fail(t)
  BY DEF Next
<1>2. \E c : call' = [call EXCEPT ![t] = c]
  BY <1>1 DEF Receive, DeadlockVictim, Fail, Serve, Authorize, Resolve, Load, Label, Refuse, List,
     Begin, CreateEntity, CreateLegalEntity, Insert, Select, Update, Unique, ArchiveEntity,
     Refetch, Encrypt, Profile, Lock, Query, dispatch, Commit, Notify, GoOn, Stay, End
<1>3. call \in [Sessions -> Call]
  BY DEF IInv, TypeOK
<1>4. t = s
  BY <1>2, <1>3 DEF Step
<1>5. ~End(s)
  BY <1>3 DEF End, Step, Idle
<1>6. call[s].handler # "none" /\ call[s] # Idle
  BY DEF Step, Idle
<1>7. call[s].reload = "no"
  BY <1>6, Here DEF Fits
<1>. QED
  BY <1>1, <1>4, <1>5, <1>6, <1>7
     DEF Receive, DeadlockVictim, Fail, Serve, Authorize, Resolve, Load, Label, Refuse, List,
     Begin, CreateEntity, CreateLegalEntity, Insert, Select, Update, Unique, ArchiveEntity,
     Refetch, Encrypt, Profile, Lock, Query, dispatch, Commit, Notify

(* A request that is answered with success finds what it did in the tables. *)
THEOREM ReportStored == Spec => ReportedIsStored
<1>. DEFINE Reported(s) ==
       Step(s) = "commit" /\ Step(s)' = "notify" =>
         LET c == call[s] IN
         /\ entities'[c.id] # NULL
         /\ c.handler \in Creates \cup Changes => subtypes'[c.id] = c.row
         /\ c.handler \in {"archiveEntity", "deleteApp"} => entities'[c.id] = "archived"
<1>1. IInv /\ [Next]_vars => [\A s \in Sessions : Reported(s)]_vars
  <2>1. SUFFICES ASSUME IInv, Next, NEW s \in Sessions, Step(s) = "commit", Step(s)' = "notify"
                 PROVE  Reported(s)
    OBVIOUS
  <2>2. Commit(s) /\ ~call[s].aborted
    BY <2>1, PastCommit
  <2>. DEFINE c == call[s]
  <2>3. /\ c.id \in Ids
        /\ CommitsCreation(c) \/ CommitsChange(c) \/ CommitsArchival(c) \/ CommitsNothing(c)
    BY <2>1, <2>2, CommitEffect
  <2>4. /\ entities \in [Ids -> {NULL, "live", "archived"}] /\ subtypes \in [Ids -> Row \cup {NULL}]
        /\ NULL # "live" /\ NULL # "archived"
    BY <2>1, NullAssumption DEF IInv, TypeOK
  <2>5. /\ c.handler \in Archives => c.handler \notin Creates \cup Changes
        /\ c.handler \in Creates => c.handler \notin Changes
    BY DEF Archives, Creates, Changes
  <2>. HIDE DEF c
  <2>6. /\ entities'[c.id] # NULL
        /\ c.handler \in Creates \cup Changes => subtypes'[c.id] = c.row
        /\ c.handler \in Archives => entities'[c.id] = "archived"
    BY <2>3, <2>4, <2>5
       DEF CommitsCreation, CommitsChange, CommitsArchival, CommitsNothing, Rewrites
  <2>. QED
    BY <2>6 DEF c, Archives
<1>. QED
  BY <1>1, Invariance, PTL DEF Spec, ReportedIsStored

-----------------------------------------------------------------------------
(* The refinement *)

store == [id \in Ids |-> View(id)]

Entity(state, row) ==
  IF state = NULL THEN NULL ELSE [row |-> row, archived |-> state = "archived"]

LEMMA EntityStates ==
  ASSUME NEW row \in Row
  PROVE  /\ Entity(NULL, NULL) = NULL
         /\ Entity("live", row) = [row |-> row, archived |-> FALSE]
         /\ Entity("archived", row) = [row |-> row, archived |-> TRUE]
         /\ Entity("live", row) # NULL /\ Entity("archived", row) # NULL
<1>1. /\ Entity(NULL, NULL) = NULL
      /\ Entity("live", row) = [row |-> row, archived |-> FALSE]
      /\ Entity("archived", row) = [row |-> row, archived |-> TRUE]
  BY NullAssumption DEF Entity
<1>2. /\ [row |-> row, archived |-> FALSE] \in [row : Row, archived : BOOLEAN]
      /\ [row |-> row, archived |-> TRUE] \in [row : Row, archived : BOOLEAN]
  OBVIOUS
<1>. QED
  BY <1>1, <1>2, NullAssumption

LEMMA RowReplaced ==
  ASSUME NEW row \in Row, NEW other \in Row, NEW archived \in BOOLEAN,
         NEW entity, entity = [row |-> row, archived |-> archived]
  PROVE  [entity EXCEPT !.row = other] = [row |-> other, archived |-> archived]
<1>1. entity \in [row : Row, archived : BOOLEAN]
  OBVIOUS
<1>. QED
  BY <1>1

LEMMA StateReplaced ==
  ASSUME NEW row \in Row, NEW archived \in BOOLEAN, NEW later \in BOOLEAN,
         NEW entity, entity = [row |-> row, archived |-> archived]
  PROVE  [entity EXCEPT !.archived = later] = [row |-> row, archived |-> later]
<1>1. entity \in [row : Row, archived : BOOLEAN]
  OBVIOUS
<1>. QED
  BY <1>1

(* No entity is torn. *)
LEMMA StoreWhole ==
  IInv => \A id \in Ids : store[id] = Entity(entities[id], subtypes[id])
BY DEF IInv, Whole, View, Entity, store

LEMMA SlugsUnique == IInv => Store!UniqueSlugs(store)
<1>1. SUFFICES ASSUME IInv, kind = "app", NEW i \in Ids, NEW j \in Ids, i # j,
                      store[i] # NULL, store[j] # NULL
               PROVE  store[i].row.first # store[j].row.first
  BY DEF Store!UniqueSlugs
<1>2. /\ store[i].row = subtypes[i] /\ store[j].row = subtypes[j]
      /\ entities[i] # NULL /\ entities[j] # NULL
  <2>1. ASSUME NEW k \in Ids, store[k] # NULL
        PROVE  store[k].row = subtypes[k] /\ entities[k] # NULL
    <3>1. store[k] = Entity(entities[k], subtypes[k])
      BY <1>1, StoreWhole
    <3>2. /\ entities[k] \in {NULL, "live", "archived"} /\ subtypes[k] \in Row \cup {NULL}
          /\ entities[k] = NULL <=> subtypes[k] = NULL
      BY <1>1 DEF IInv, TypeOK, Whole
    <3>3. entities[k] # NULL
      BY <2>1, <3>1, <3>2, EntityStates DEF Entity
    <3>4. CASE entities[k] = "live"
      BY <3>1, <3>2, <3>3, <3>4, EntityStates
    <3>5. CASE entities[k] = "archived"
      BY <3>1, <3>2, <3>3, <3>5, EntityStates
    <3>. QED
      BY <3>2, <3>3, <3>4, <3>5
  <2>. QED
    BY <1>1, <2>1
<1>3. subtypes[i] # NULL /\ subtypes[j] # NULL
  BY <1>1, <1>2 DEF IInv, Whole
<1>. QED
  BY <1>1, <1>2, <1>3 DEF IInv, Whole

(* A commit is one step of the store, or none. *)
LEMMA CommitStores ==
  ASSUME IInv, IInv', NEW s \in Sessions, Commit(s), ~call[s].aborted
  PROVE  UNCHANGED <<kind, store>> \/ Store!Next
<1>. DEFINE c == call[s]
<1>1. /\ c.id \in Ids /\ UNCHANGED kind
      /\ CommitsCreation(c) \/ CommitsChange(c) \/ CommitsArchival(c) \/ CommitsNothing(c)
  BY CommitEffect
<1>2. /\ entities \in [Ids -> {NULL, "live", "archived"}] /\ subtypes \in [Ids -> Row \cup {NULL}]
      /\ \A id \in Ids : entities[id] = NULL <=> subtypes[id] = NULL
      /\ NULL # "live" /\ NULL # "archived"
  BY NullAssumption DEF IInv, TypeOK, Whole
<1>3. \A id \in Ids : store[id] = Entity(entities[id], subtypes[id])
  BY StoreWhole
<1>4. \A id \in Ids : store'[id] = Entity(entities'[id], subtypes'[id])
  <2>1. (\A id \in Ids : store[id] = Entity(entities[id], subtypes[id]))'
    BY StoreWhole, PTL
  <2>. QED
    BY <2>1 DEF Entity
<1>5. Store!UniqueSlugs(store)'
  BY SlugsUnique, PTL
<1>6. /\ store = [id \in Ids |-> store[id]] /\ store' = [id \in Ids |-> store'[id]]
  BY DEF store
<1>7. ASSUME NEW entity, store' = [store EXCEPT ![c.id] = entity]
      PROVE  Store!Put(c.id, entity)
  <2>1. Store!UniqueSlugs(store')
    BY <1>1, <1>5 DEF Store!UniqueSlugs
  <2>. QED
    BY <1>1, <1>7, <2>1 DEF Store!Put, store
<1>8. \A id \in Ids \ {c.id} : entities'[id] = entities[id] /\ subtypes'[id] = subtypes[id]
  BY <1>1, <1>2 DEF CommitsCreation, CommitsChange, CommitsArchival, CommitsNothing
<1>. HIDE DEF c, store
<1>9. \A id \in Ids \ {c.id} : store'[id] = store[id]
  BY <1>3, <1>4, <1>8
<1>10. CASE CommitsCreation(c)
  <2>1. /\ entities[c.id] = NULL /\ subtypes[c.id] = NULL /\ c.row \in Row
        /\ entities'[c.id] = "live" /\ subtypes'[c.id] = c.row
    BY <1>1, <1>2, <1>10 DEF CommitsCreation
  <2>2. store[c.id] = NULL /\ store'[c.id] = [row |-> c.row, archived |-> FALSE]
    BY <1>1, <1>3, <1>4, <2>1, EntityStates
  <2>3. store' = [store EXCEPT ![c.id] = [row |-> c.row, archived |-> FALSE]]
    BY <1>6, <1>9, <2>2
  <2>4. Store!Create(c.id)
    BY <1>7, <2>1, <2>2, <2>3 DEF Store!Create, store
  <2>. QED
    BY <1>1, <2>4 DEF Store!Next
<1>11. CASE CommitsChange(c)
  <2>1. /\ entities[c.id] \in {"live", "archived"} /\ subtypes[c.id] \in Row /\ c.row \in Row
        /\ entities'[c.id] = entities[c.id] /\ subtypes'[c.id] = c.row
    BY <1>1, <1>2, <1>11 DEF CommitsChange
  <2>8. subtypes[c.id] \in Row /\ c.row \in Row /\ FALSE \in BOOLEAN /\ TRUE \in BOOLEAN
    BY <2>1
  <2>9. ASSUME NEW b \in BOOLEAN, NEW old, old = [row |-> subtypes[c.id], archived |-> b]
          PROVE  [old EXCEPT !.row = c.row] = [row |-> c.row, archived |-> b]
    BY <2>8, <2>9, RowReplaced
  <2>2. /\ store[c.id] # NULL
        /\ store'[c.id] = [store[c.id] EXCEPT !.row = c.row]
    <3>1. CASE entities[c.id] = "live"
      <4>1. store[c.id] = [row |-> subtypes[c.id], archived |-> FALSE] /\ store[c.id] # NULL
        BY <1>1, <1>3, <2>1, <3>1, EntityStates
      <4>2. store'[c.id] = [row |-> c.row, archived |-> FALSE]
        BY <1>1, <1>4, <2>1, <3>1, EntityStates
      <4>3. [store[c.id] EXCEPT !.row = c.row] = [row |-> c.row, archived |-> FALSE]
        BY <2>8, <2>9, <4>1, Zenon
      <4>. QED
        BY <4>1, <4>2, <4>3
    <3>2. CASE entities[c.id] = "archived"
      <4>1. store[c.id] = [row |-> subtypes[c.id], archived |-> TRUE] /\ store[c.id] # NULL
        BY <1>1, <1>3, <2>1, <3>2, EntityStates
      <4>2. store'[c.id] = [row |-> c.row, archived |-> TRUE]
        BY <1>1, <1>4, <2>1, <3>2, EntityStates
      <4>3. [store[c.id] EXCEPT !.row = c.row] = [row |-> c.row, archived |-> TRUE]
        BY <2>8, <2>9, <4>1, Zenon
      <4>. QED
        BY <4>1, <4>2, <4>3
    <3>. QED
      BY <2>1, <3>1, <3>2
  <2>3. store' = [store EXCEPT ![c.id] = [store[c.id] EXCEPT !.row = c.row]]
    BY <1>6, <1>9, <2>2
  <2>4. Store!Change(c.id)
    BY <1>7, <2>1, <2>2, <2>3 DEF Store!Change, store
  <2>. QED
    BY <1>1, <2>4 DEF Store!Next
<1>12. CASE CommitsArchival(c)
  <2>1. /\ entities[c.id] = "live" /\ subtypes[c.id] \in Row
        /\ entities'[c.id] = "archived" /\ subtypes'[c.id] = subtypes[c.id]
    BY <1>1, <1>2, <1>12 DEF CommitsArchival
  <2>2. /\ store[c.id] # NULL
        /\ store'[c.id] = [store[c.id] EXCEPT !.archived = TRUE]
    <3>1. /\ store[c.id] = [row |-> subtypes[c.id], archived |-> FALSE]
          /\ store'[c.id] = [row |-> subtypes[c.id], archived |-> TRUE]
          /\ store[c.id] # NULL
      BY <1>1, <1>3, <1>4, <2>1, EntityStates
    <3>2. [store[c.id] EXCEPT !.archived = TRUE] = [row |-> subtypes[c.id], archived |-> TRUE]
      BY <2>1, <3>1, StateReplaced, Zenon
    <3>. QED
      BY <3>1, <3>2
  <2>3. store' = [store EXCEPT ![c.id] = [store[c.id] EXCEPT !.archived = TRUE]]
    BY <1>6, <1>9, <2>2
  <2>4. Store!Archive(c.id)
    BY <1>7, <2>2, <2>3 DEF Store!Archive, store
  <2>. QED
    BY <1>1, <2>4 DEF Store!Next
<1>13. CASE CommitsNothing(c)
  <2>1. \A id \in Ids : store'[id] = store[id]
    BY <1>3, <1>4, <1>13 DEF CommitsNothing
  <2>2. store' = store
    BY <1>6, <2>1
  <2>. QED
    BY <1>1, <2>2
<1>. QED
  BY <1>1, <1>10, <1>11, <1>12, <1>13

(* The requests implement the store of whole entities. *)
THEOREM StoreImplemented == Spec => StoreIsWhole
<1>1. Init => Store!Init
  <2>1. SUFFICES ASSUME Init PROVE \A id \in Ids : View(id) = NULL
    BY DEF Store!Init
  <2>. QED
    BY <2>1 DEF Init, View
<1>2. IInv /\ IInv' /\ [Next]_vars => [Store!Next]_<<kind, store>>
  <2>1. SUFFICES ASSUME IInv, IInv', [Next]_vars, ~UNCHANGED <<kind, store>>
                 PROVE  Store!Next
    OBVIOUS
  <2>2. CASE UNCHANGED <<tables, fixed>>
    BY <2>1, <2>2 DEF tables, fixed, store, View, Legal, Torn
  <2>3. CASE \E s \in Sessions : Commit(s) /\ ~call[s].aborted
    BY <2>1, <2>3, CommitStores
  <2>. QED
    BY <2>1, <2>2, <2>3, OnlyCommits
<1>. QED
  BY <1>1, <1>2, Invariance, PTL DEF Spec, StoreIsWhole, Store!Spec, store

=============================================================================
