-------------------------------- MODULE Entities --------------------------------
(***************************************************************************)
(* The requests on entities (natural persons, corporations, service        *)
(* accounts and apps): their handlers and services, the transaction each   *)
(* mutation runs in, the observers that take part in that transaction, and *)
(* the connection pool and the reload mutex they all share.                *)
(*                                                                         *)
(* A handler is written as the list of the steps it takes, its service's   *)
(* included; each kind of step is one action, with the early returns it    *)
(* has.  Between two steps anything else may happen.  A request that is    *)
(* over leaves nothing: which error it was answered with is left out.      *)
(***************************************************************************)
EXTENDS Integers, FiniteSets, Sequences

CONSTANTS
  NULL,
  Sessions,   \* requests in progress at a time
  Observers,  \* the members of the ObserverGroup
  Firsts,     \* values of given_name, legal_name, label and slug
  Seconds,    \* values of family_name, jurisdiction and an app's name, besides NULL
  Kinds,      \* the kinds of entity a behaviour may be about
  Policies,   \* the policies the ObserverGroup may have
  PoolSize,   \* connections in the pool
  Capacity,   \* bound: per kind, how many entities there may be
  Bodies      \* bound: per kind, what an update may ask for, NULL for what it does not name

ASSUME KindAssumption == Kinds \subseteq {"natural_person", "corporation", "service_account", "app"}
ASSUME PolicyAssumption == Policies \subseteq {"propagate", "swallow"}
ASSUME BoundAssumption ==
  /\ IsFiniteSet(Sessions) /\ PoolSize \in Nat /\ Capacity \in [Kinds -> Nat]
  /\ Bodies \in
       [Kinds -> SUBSET [first : Firsts \cup {NULL}, second : Seconds \cup {NULL}]]

(* Definitions that only mutation uses stand directly before the one they  *)
(* replace.                                                                *)

VARIABLES
  kind,            \* what this behaviour's requests are about: kinds share no rows
  policy,          \* the ObserverGroup's policy
  entities,        \* entities, committed: per id, NULL, "live" or "archived"
  legal_entities,  \* the ids with a committed row in legal_entities
  subtypes,        \* the kind's own table, committed: per id, NULL or its row
  call             \* per session, the request it serves

vars == <<kind, policy, entities, legal_entities, subtypes, call>>
tables == <<entities, legal_entities, subtypes>>
fixed == <<kind, policy>>

Ids == UNION {1..Capacity[k] : k \in Kinds}
Row == [first : Firsts, second : Seconds \cup {NULL}]
NoBody == [first |-> NULL, second |-> NULL]

ASSUME NullAssumption ==
  /\ NULL \notin Sessions \cup Firsts \cup Seconds \cup Ids \cup Row \cup {"live", "archived"}
  /\ NULL \notin [row : Row, archived : BOOLEAN]

Legal == kind \in {"natural_person", "corporation"}

-----------------------------------------------------------------------------
(* The services *)

createNaturalPersonUnanchored == <<"entity", "encrypt", "insert", "observe">>
createNaturalPersonInTx == <<"entity", "legal_entity", "encrypt", "insert", "observe">>

NaturalPersonCreate ==
  <<"authorize", "begin">> \o createNaturalPersonInTx \o <<"commit", "notify">>

NaturalPersonGet == <<"resolve", "profile">>

EncryptUnderLock ==
  <<"resolve", "begin", "select", "update", "encrypt", "observe", "commit", "notify">>
NaturalPersonUpdate ==
  <<"resolve", "begin", "select", "encrypt", "update", "observe", "commit", "notify">>

CorporationCreate ==
  <<"authorize", "begin", "entity", "legal_entity", "encrypt", "insert", "observe",
    "commit", "notify">>

CorporationGet == <<"resolve", "profile">>

CorporationUpdate ==
  <<"resolve", "begin", "select", "encrypt", "update", "observe", "commit", "notify">>

ServiceAccountCreate ==
  <<"authorize", "begin", "entity", "insert", "observe", "commit", "notify">>

ServiceAccountGet == <<"resolve", "profile">>

(* There is no query to update a service account: a request that names a   *)
(* label is refused after its lookups, one that does not skips them.       *)
ServiceAccountUpdate == <<"label", "resolve", "load", "refuse">>

EntityProfile == <<"resolve", "profile">>

EntityArchive == <<"resolve", "begin", "archive", "observe", "commit", "notify">>

-----------------------------------------------------------------------------
(* The handlers *)

createNaturalPerson == <<"receive">> \o NaturalPersonCreate
getNaturalPerson == <<"receive">> \o NaturalPersonGet
updateNaturalPerson == <<"receive">> \o NaturalPersonUpdate \o NaturalPersonGet

createCorporation == <<"receive">> \o CorporationCreate
getCorporation == <<"receive">> \o CorporationGet
updateCorporation == <<"receive">> \o CorporationUpdate \o CorporationGet

createServiceAccount == <<"receive">> \o ServiceAccountCreate
getServiceAccount == <<"receive">> \o ServiceAccountGet
updateServiceAccount == <<"receive">> \o ServiceAccountUpdate \o ServiceAccountGet

getEntity == <<"receive">> \o EntityProfile
archiveEntity == <<"receive">> \o EntityArchive

AppCreate ==
  <<"receive", "authorize", "begin", "entity", "insert", "unique", "observe", "commit",
    "notify">>

AppList == <<"receive", "authorize", "list">>

loadAppByUUIDParam == <<"receive", "resolve">>

GetApp == loadAppByUUIDParam \o <<"load">>

UpdateApp ==
  loadAppByUUIDParam
    \o <<"load", "begin", "update", "unique", "refetch", "observe", "commit", "notify">>

DeleteApp == loadAppByUUIDParam \o <<"load", "begin", "archive", "observe", "commit", "notify">>

Handler ==
  [createNaturalPerson |-> createNaturalPerson, getNaturalPerson |-> getNaturalPerson,
   updateNaturalPerson |-> updateNaturalPerson, createCorporation |-> createCorporation,
   getCorporation |-> getCorporation, updateCorporation |-> updateCorporation,
   createServiceAccount |-> createServiceAccount, getServiceAccount |-> getServiceAccount,
   updateServiceAccount |-> updateServiceAccount, getEntity |-> getEntity,
   archiveEntity |-> archiveEntity, createApp |-> AppCreate, listApps |-> AppList,
   getApp |-> GetApp, updateApp |-> UpdateApp, deleteApp |-> DeleteApp]

(* The routes for entities of a kind, and the two for all of them that do  *)
(* more than render a name.                                                *)
Routes ==
  {"getEntity", "archiveEntity"} \cup
  CASE kind = "natural_person" ->
         {"createNaturalPerson", "getNaturalPerson", "updateNaturalPerson"}
    [] kind = "corporation" -> {"createCorporation", "getCorporation", "updateCorporation"}
    [] kind = "service_account" ->
         {"createServiceAccount", "getServiceAccount", "updateServiceAccount"}
    [] kind = "app" -> {"createApp", "listApps", "getApp", "updateApp", "deleteApp"}

Creates == {"createNaturalPerson", "createCorporation", "createServiceAccount", "createApp"}
Changes == {"updateNaturalPerson", "updateCorporation", "updateServiceAccount", "updateApp"}
-----------------------------------------------------------------------------
(* A request in progress.  at is the position in the handler's list; row   *)
(* is what the request writes, after what it hands to the observers; wrote *)
(* names what its transaction has written, and so locked; recorded are the *)
(* observers whose record is part of it; aborted says that one of its      *)
(* statements failed; reload is "mutex" while Encrypt or Decrypt waits for *)
(* reloadMu and "query" while it holds it.                                 *)
Call ==
  [handler : {"none"} \cup DOMAIN Handler, at : 1..16, id : Ids \cup {NULL},
   body : [first : Firsts \cup {NULL}, second : Seconds \cup {NULL}],
   row : Row \cup {NULL}, after : Row \cup {NULL},
   wrote : SUBSET {"entities", "legal_entities", "subtypes", "index", "archived_at"},
   recorded : SUBSET Observers, aborted : BOOLEAN, reload : {"no", "mutex", "query"}]

Idle ==
  [handler |-> "none", at |-> 1, id |-> NULL, body |-> NoBody, row |-> NULL, after |-> NULL,
   wrote |-> {}, recorded |-> {}, aborted |-> FALSE, reload |-> "no"]

Step(s) == IF call[s].handler = "none" THEN "idle" ELSE Handler[call[s].handler][call[s].at]

InTx(s) ==
  Step(s) \in {"entity", "legal_entity", "select", "encrypt", "insert", "update", "unique",
              "archive", "refetch", "observe", "commit"}

FreeConnections == PoolSize - Cardinality({s \in Sessions : InTx(s)})

(* The request takes the next step of its handler, or stays where it is.   *)
GoOn(s, c) ==
  call' = [call EXCEPT ![s] = IF c.at = Len(Handler[c.handler]) THEN Idle
                              ELSE [c EXCEPT !.at = @ + 1]]
Stay(s, c) == call' = [call EXCEPT ![s] = c]

(* It is over: its transaction, if it has one, is rolled back and its      *)
(* connection returned.                                                    *)
End(s) == call' = [call EXCEPT ![s] = Idle]

Local == UNCHANGED <<tables, fixed>>

Init ==
  /\ kind \in Kinds /\ policy \in Policies
  /\ entities = [id \in Ids |-> NULL]
  /\ legal_entities = {}
  /\ subtypes = [id \in Ids |-> NULL]
  /\ call = [s \in Sessions |-> Idle]

(* A natural person has both names, an app a slug and a name, a service    *)
(* account only its label; a corporation need not name a jurisdiction.     *)
Complete(row) ==
  /\ kind \in {"natural_person", "app"} => row.second # NULL
  /\ kind = "service_account" => row.second = NULL

(* A request whose actor, path or body is refused here leaves no trace. *)
Receive(s) ==
  /\ call[s] = Idle /\ Local
  /\ \E h \in Routes :
       LET new == [Idle EXCEPT !.handler = h, !.at = 2] IN
       \/ /\ h \in Creates
          /\ \E row \in Row : Complete(row) /\ Stay(s, [new EXCEPT !.row = row])
       \/ /\ h \in Changes
          /\ \E id \in 1..Capacity[kind], body \in Bodies[kind] :
               Stay(s, [new EXCEPT !.id = id, !.body = body])
       \/ /\ h \in Routes \ (Creates \cup Changes \cup {"listApps"})
          /\ \E id \in 1..Capacity[kind] : Stay(s, [new EXCEPT !.id = id])
       \/ h = "listApps" /\ Stay(s, new)

(* Authorize, and the checks on what is to become an entity.               *)
Authorize(s) == Step(s) = "authorize" /\ (GoOn(s, call[s]) \/ End(s)) /\ Local

(* GetEntityByUUID, and then Authorize. *)
Resolve(s) ==
  /\ Step(s) = "resolve" /\ FreeConnections > 0 /\ Local
  /\ (entities[call[s].id] # NULL /\ GoOn(s, call[s])) \/ End(s)

BodyAsIs(read, body) == body
(* What an update writes: the members it does not name as they were read.  *)
Merged(read, body) ==
  [first |-> IF body.first = NULL THEN read.first ELSE body.first,
   second |-> IF body.second = NULL THEN read.second ELSE body.second]

(* The kind's own row, read through the pool. *)
Load(s) ==
  LET read == subtypes[call[s].id] IN
  /\ Step(s) = "load" /\ FreeConnections > 0 /\ Local
  /\ \/ read = NULL /\ End(s)
     \/ read # NULL /\ GoOn(s, IF call[s].handler \in Changes
                               THEN [call[s] EXCEPT !.row = Merged(read, call[s].body)]
                               ELSE call[s])

(* A nil label leaves nothing to do but to answer with the profile. *)
Label(s) ==
  /\ Step(s) = "label" /\ Local
  /\ \/ call[s].body.first # NULL /\ GoOn(s, call[s])
     \/ call[s].body.first = NULL
        /\ GoOn(s, [call[s] EXCEPT !.at = CHOOSE i \in DOMAIN updateServiceAccount :
                                             updateServiceAccount[i] = "refuse"])

Refuse(s) == Step(s) = "refuse" /\ End(s) /\ Local

List(s) == Step(s) = "list" /\ FreeConnections > 0 /\ GoOn(s, call[s]) /\ Local

-----------------------------------------------------------------------------
(* The statements of a transaction *)

Begin(s) == Step(s) = "begin" /\ FreeConnections > 0 /\ GoOn(s, call[s]) /\ Local

Fresh(id) == entities[id] = NULL /\ \A s \in Sessions : call[s].id = id => call[s].wrote = {}

(* The next id; with none left in the model the request fails. *)
CreateEntity(s) ==
  LET fresh == {id \in 1..Capacity[kind] : Fresh(id)} IN
  /\ Step(s) = "entity" /\ Local
  /\ \/ fresh = {} /\ End(s)
     \/ \E id \in fresh :
          /\ \A other \in fresh : id <= other
          /\ GoOn(s, [call[s] EXCEPT !.id = id, !.wrote = @ \cup {"entities"}])

CreateLegalEntity(s) ==
  /\ Step(s) = "legal_entity" /\ Local
  /\ GoOn(s, [call[s] EXCEPT !.wrote = @ \cup {"legal_entities"}])

Insert(s) ==
  /\ Step(s) = "insert" /\ Local
  /\ GoOn(s, [call[s] EXCEPT !.wrote = @ \cup {"subtypes"}, !.after = call[s].row])

(* The row the update starts from, read in the transaction, without a lock. *)
Select(s) ==
  LET read == subtypes[call[s].id] IN
  /\ Step(s) = "select" /\ Local
  /\ \/ read = NULL /\ End(s)
     \/ read # NULL /\ GoOn(s, [call[s] EXCEPT !.row = Merged(read, call[s].body)])

(* The transactions that hold a row s needs. *)
Holders(s, what) == {t \in Sessions \ {s} : call[t].id = call[s].id /\ what \in call[t].wrote}

Update(s) ==
  /\ Step(s) = "update" /\ Holders(s, "subtypes") = {} /\ Local
  /\ GoOn(s, [call[s] EXCEPT !.wrote = @ \cup {"subtypes"}, !.after = call[s].row])

AnyUpdateContends(s) ==
  {t \in Sessions \ {s} : "subtypes" \in call[t].wrote}
(* The unique index on apps.slug: an entry another transaction has added,  *)
(* or whose row it is changing, is waited for; a committed one conflicts.  *)
Contenders(s) ==
  {t \in Sessions \ {s} :
     \/ "index" \in call[t].wrote /\ call[t].row.first = call[s].row.first
     \/ /\ "subtypes" \in call[t].wrote /\ subtypes[call[t].id] # NULL
        /\ subtypes[call[t].id].first = call[s].row.first}

Taken(s) ==
  \E id \in Ids \ {call[s].id} : subtypes[id] # NULL /\ subtypes[id].first = call[s].row.first

Unique(s) ==
  /\ Step(s) = "unique" /\ Contenders(s) = {} /\ Local
  /\ \/ Taken(s) /\ End(s)
     \/ ~Taken(s) /\ GoOn(s, [call[s] EXCEPT !.wrote = @ \cup {"index"}])

ArchiveAnyway(s) ==
  /\ Step(s) = "archive" /\ Holders(s, "archived_at") = {} /\ Local
  /\ GoOn(s, [call[s] EXCEPT !.wrote = @ \cup {"archived_at"}])

(* An entity that is archived already is passed over. *)
ArchiveEntity(s) ==
  /\ Step(s) = "archive" /\ Holders(s, "archived_at") = {} /\ Local
  /\ \/ /\ entities[call[s].id] = "live"
        /\ GoOn(s, [call[s] EXCEPT !.wrote = @ \cup {"archived_at"}])
     \/ entities[call[s].id] # "live" /\ GoOn(s, call[s])

RefetchThroughPool(s) ==
  /\ Step(s) = "refetch" /\ FreeConnections > 0 /\ Local
  /\ GoOn(s, [call[s] EXCEPT !.after = subtypes[call[s].id]])
(* The transaction reads its own row; should that fail, the values computed *)
(* stand in for it, but the transaction is aborted.                        *)
Refetch(s) ==
  /\ Step(s) = "refetch" /\ Local
  /\ \/ GoOn(s, [call[s] EXCEPT !.after = call[s].row])
     \/ GoOn(s, [call[s] EXCEPT !.aborted = TRUE])

-----------------------------------------------------------------------------
(* Encrypt and Decrypt: the key set held may do, and need not be used; or  *)
(* it is reloaded through the pool, by one goroutine at a time.            *)

Encrypt(s) ==
  /\ Step(s) = "encrypt" /\ call[s].reload = "no" /\ Local
  /\ GoOn(s, call[s]) \/ Stay(s, [call[s] EXCEPT !.reload = "mutex"])

(* ResolveProfileByEntityID, which knows no apps; getEntity and service    *)
(* accounts decrypt nothing.                                               *)
Profile(s) ==
  /\ Step(s) = "profile" /\ call[s].reload = "no" /\ FreeConnections > 0 /\ Local
  /\ \/ kind = "app" /\ End(s)
     \/ kind # "app" /\ GoOn(s, call[s])
     \/ /\ Legal /\ call[s].handler # "getEntity"
        /\ Stay(s, [call[s] EXCEPT !.reload = "mutex"])

Lock(s) ==
  /\ call[s].reload = "mutex" /\ Local
  /\ \A t \in Sessions : call[t].reload # "query"
  /\ Stay(s, [call[s] EXCEPT !.reload = "query"])

(* The query runs on a connection of its own. *)
Query(s) ==
  /\ call[s].reload = "query" /\ FreeConnections > 0 /\ Local
  /\ GoOn(s, [call[s] EXCEPT !.reload = "no"])

-----------------------------------------------------------------------------
(* What the parallel observers leave, each of which may record the change, *)
(* fail without harm to the transaction (refused because another is using  *)
(* its one connection, say) or fail in a statement, which aborts it.       *)
FirstErrorOnly(s) ==
  /\ Step(s) = "observe" /\ Local
  /\ \E recorded \in SUBSET Observers :
       IF policy = "propagate" /\ recorded = {} /\ Observers # {} THEN End(s)
       ELSE GoOn(s, [call[s] EXCEPT !.recorded = recorded])
dispatch(s) ==
  /\ Step(s) = "observe" /\ Local
  /\ \/ /\ call[s].aborted \/ Observers # {}
        /\ IF policy = "propagate" /\ Observers # {} THEN End(s)
           ELSE GoOn(s, [call[s] EXCEPT !.aborted = TRUE])
     \/ /\ ~call[s].aborted
        /\ \E recorded \in SUBSET Observers :
             IF policy = "propagate" /\ recorded # Observers THEN End(s)
             ELSE GoOn(s, [call[s] EXCEPT !.recorded = recorded])

CommitUnchecked(s) ==
  /\ Step(s) = "commit" /\ call[s].aborted
  /\ GoOn(s, [Idle EXCEPT !.handler = call[s].handler, !.at = call[s].at, !.id = call[s].id])
  /\ Local
(* A COMMIT of an aborted transaction is a rollback; the answer to one     *)
(* that took effect may be lost.                                           *)
Commit(s) ==
  LET c == call[s] IN
  /\ Step(s) = "commit"
  /\ \/ c.aborted /\ End(s) /\ Local
     \/ /\ ~c.aborted
        /\ entities' = [entities EXCEPT ![c.id] = CASE "entities" \in c.wrote -> "live"
                                                    [] "archived_at" \in c.wrote -> "archived"
                                                    [] OTHER -> @]
        /\ legal_entities' = legal_entities \cup (IF "legal_entities" \in c.wrote THEN {c.id} ELSE {})
        /\ subtypes' = [subtypes EXCEPT ![c.id] = IF "subtypes" \in c.wrote THEN c.row ELSE @]
        /\ \/ GoOn(s, [Idle EXCEPT !.handler = c.handler, !.at = c.at, !.id = c.id])
           \/ End(s)
        /\ UNCHANGED fixed

(* ObserveAfterCommit: what the observers do then is their own. *)
Notify(s) == Step(s) = "notify" /\ GoOn(s, call[s]) /\ Local

-----------------------------------------------------------------------------

(* A statement that fails, a connection lost, a client gone, a crash.  *)
Fail(s) == call[s] # Idle /\ End(s) /\ Local

WaitsFor(s) ==
  CASE Step(s) = "update" -> Holders(s, "subtypes")
    [] Step(s) = "archive" -> Holders(s, "archived_at")
    [] Step(s) = "unique" -> Contenders(s)
    [] OTHER -> {}

Deadlocked(waiting) ==
  waiting # {} /\ \A t \in waiting : WaitsFor(t) \cap waiting # {}

(* The server ends one of a set of transactions that wait for each other. *)
DeadlockVictim(s) ==
  /\ \E waiting \in SUBSET Sessions : s \in waiting /\ Deadlocked(waiting)
  /\ End(s) /\ Local

Serve(s) ==
  \/ Authorize(s) \/ Resolve(s) \/ Load(s) \/ Label(s) \/ Refuse(s) \/ List(s)
  \/ Begin(s) \/ CreateEntity(s) \/ CreateLegalEntity(s) \/ Insert(s) \/ Select(s)
  \/ Update(s) \/ Unique(s) \/ ArchiveEntity(s) \/ Refetch(s)
  \/ Encrypt(s) \/ Profile(s) \/ Lock(s) \/ Query(s)
  \/ dispatch(s) \/ Commit(s) \/ Notify(s)

Next == \E s \in Sessions : Receive(s) \/ Serve(s) \/ DeadlockVictim(s) \/ Fail(s)

(* Nobody has to send a request and nothing has to fail.  Row locks, the   *)
(* pool and the mutex all serve those who wait in turn.                    *)
Fairness == \A s \in Sessions : SF_vars(Serve(s)) /\ WF_vars(DeadlockVictim(s))

Spec == Init /\ [][Next]_vars /\ Fairness

-----------------------------------------------------------------------------

(* The variables hold values of their types. *)
TypeOK ==
  /\ kind \in Kinds /\ policy \in Policies
  /\ entities \in [Ids -> {NULL, "live", "archived"}]
  /\ legal_entities \subseteq Ids
  /\ subtypes \in [Ids -> Row \cup {NULL}]
  /\ call \in [Sessions -> Call]

(* An entity as its clients see it: all of its rows, or none of them.      *)
Torn == [row |-> NULL, archived |-> FALSE]

View(id) ==
  CASE entities[id] = NULL /\ subtypes[id] = NULL /\ id \notin legal_entities -> NULL
    [] entities[id] # NULL /\ subtypes[id] # NULL /\ (Legal <=> id \in legal_entities) ->
         [row |-> subtypes[id], archived |-> entities[id] = "archived"]
    [] OTHER -> Torn

Store == INSTANCE EntityStore WITH Rows <- Row, store <- [id \in Ids |-> View(id)]

(* The requests together implement the store of whole entities: whatever   *)
(* they interleave and wherever they fail, no reader ever finds an entity  *)
(* without its rows in the other tables, two apps with one slug, or an     *)
(* archived entity live again.                                             *)
StoreIsWhole == Store!Spec

(* A request that goes on past its COMMIT, to notify the observers and to  *)
(* answer with success, finds in the tables what it set out to do, even    *)
(* where errors of the observers are swallowed and the re-fetch is passed  *)
(* over (observer.go, apps.go).                                            *)
ReportedIsStored ==
  [][\A s \in Sessions :
       Step(s) = "commit" /\ Step(s)' = "notify" =>
         LET c == call[s] IN
         /\ entities'[c.id] # NULL
         /\ c.handler \in Creates \cup Changes => subtypes'[c.id] = c.row
         /\ c.handler \in {"archiveEntity", "deleteApp"} => entities'[c.id] = "archived"]_vars

(* Under the default policy nothing is committed that any observer has not *)
(* recorded in the same transaction, however their statements met on its   *)
(* one connection (observer.go: "aborting the operation").                 *)
AuditedAtomically ==
  [][policy = "propagate" /\ tables' # tables =>
       \E s \in Sessions : Step(s) = "commit" /\ call[s].recorded = Observers]_vars

(* The after-state the observers were given is the row the commit leaves,  *)
(* the re-fetched one of an app included (apps.go UpdateApp).              *)
AfterIsCommitted ==
  [][\A id \in Ids : subtypes'[id] # subtypes[id] =>
       \E s \in Sessions :
         Step(s) = "commit" /\ call[s].id = id /\ call[s].after = subtypes'[id]]_vars

(* Of several requests to archive an entity only one sets archived_at, so  *)
(* it keeps the time of the first (entities.sql.go ArchiveEntity).         *)
ArchivedOnce ==
  [][\A s \in Sessions :
       Step(s) = "commit" /\ "archived_at" \in call[s].wrote =>
         entities[call[s].id] = "live"]_vars

(* Transactions deadlock in one way only: updates of apps that take each   *)
(* other's slugs are in the way of all who wait (apps.go UpdateApp).  No   *)
(* other request waits for a row or an index entry while it holds one.     *)
DeadlocksAreSwaps ==
  \A waiting \in SUBSET Sessions :
    Deadlocked(waiting) =>
      \E swap \in SUBSET waiting :
        /\ swap # {}
        /\ \A s \in swap :
             /\ call[s].handler = "updateApp"
             /\ \E t \in swap \ {s} : subtypes[call[t].id].first = call[s].row.first

(* Every connection is held by a transaction that waits, in Encrypt, for   *)
(* another connection or for the mutex of the one that does.               *)
Starved == FreeConnections = 0 /\ \A s \in Sessions : InTx(s) => call[s].reload # "no"

(* s cannot take its next step until somebody else has taken one. *)
NeedsConnection(s) ==
  \/ Step(s) \in {"resolve", "load", "list", "begin"}
  \/ Step(s) = "profile" /\ call[s].reload = "no"
  \/ call[s].reload = "query"
Blocked(s) ==
  \/ WaitsFor(s) # {}
  \/ NeedsConnection(s) /\ FreeConnections <= 0
  \/ call[s].reload = "mutex" /\ \E t \in Sessions : call[t].reload = "query"

(* Row locks, index entries, connections and the reload mutex are waited   *)
(* for by the same requests, and still everyone waits on everyone in two   *)
(* ways only: a deadlock, which the server ends, or the pool used up by    *)
(* transactions in Encrypt.                                                *)
StallsExplained ==
  (\E s \in Sessions : call[s] # Idle) /\ (\A s \in Sessions : call[s] # Idle => Blocked(s))
    => Starved \/ \E waiting \in SUBSET Sessions : Deadlocked(waiting)

(* Every request is over at some time, unless Encrypt inside transactions  *)
(* has used up the pool: row locks, the slugs' index, the mutex and the    *)
(* pool let nobody else wait for ever (natural_person.go, apps.go).        *)
RequestsEnd == \A s \in Sessions : call[s] # Idle ~> (call[s] = Idle \/ Starved)

(* An update that has read the row, and whether what it is about to write  *)
(* is still the committed one with what the request names replaced.        *)
Updating(s) == call[s].handler \in Changes /\ call[s].row # NULL
UpToDate(s) ==
  Updating(s) =>
    /\ subtypes[call[s].id] # NULL
    /\ call[s].row = Merged(subtypes[call[s].id], call[s].body)

(* The updates lock nothing between their read and their write, and one    *)
(* thing only comes in between: what an update is about to write is        *)
(* overtaken by the COMMIT of another update of the entity.  One that is   *)
(* not overtaken changes no member that it does not name                   *)
(* (natural_person.go UpdateNaturalPerson, apps.go UpdateApp).             *)
OvertakenByUpdates ==
  [][\A s \in Sessions :
       /\ UpToDate(s) /\ ~UpToDate(s)' =>
            \E t \in Sessions \ {s} :
              /\ Step(t) = "commit" /\ call[t].handler \in Changes
              /\ call[t].id = call[s].id /\ subtypes'[call[t].id] = call[t].row
       /\ Step(s) = "commit" /\ Step(s)' # "commit" /\ Updating(s) /\ UpToDate(s) =>
            LET c == call[s] IN
            /\ c.body.first = NULL => subtypes'[c.id].first = subtypes[c.id].first
            /\ c.body.second = NULL => subtypes'[c.id].second = subtypes[c.id].second]_vars

(* An update changes no member that it does not name: "Nil fields are left *)
(* unchanged" (natural_person.go:31).                                      *)
NilMembersKept ==
  [][\A s \in Sessions :
       Step(s) = "commit" /\ call[s].handler \in Changes /\ subtypes' # subtypes =>
         LET c == call[s] IN
         /\ c.body.first = NULL => subtypes'[c.id].first = subtypes[c.id].first
         /\ c.body.second = NULL => subtypes'[c.id].second = subtypes[c.id].second]_vars
=============================================================================
