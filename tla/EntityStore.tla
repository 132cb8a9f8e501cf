------------------------------ MODULE EntityStore ------------------------------
(***************************************************************************)
(* What the clients of the entity endpoints may rely on: a store of whole  *)
(* entities.  An entity comes into being in one step, with all of its      *)
(* rows, its own columns change one entity at a time, it is never deleted, *)
(* only archived for good, and no two apps ever share a slug.              *)
(***************************************************************************)
CONSTANTS
  NULL,
  Ids,
  Rows  \* what an entity's own table may hold; first is the slug of an app

VARIABLES
  kind,  \* the kind of the entities
  store  \* per id, NULL or the entity

UniqueSlugs(entities) ==
  kind = "app" =>
    \A i, j \in Ids :
      (i # j /\ entities[i] # NULL /\ entities[j] # NULL)
        => entities[i].row.first # entities[j].row.first

Init == store = [id \in Ids |-> NULL]

Put(id, entity) ==
  /\ store' = [store EXCEPT ![id] = entity]
  /\ UniqueSlugs(store')
  /\ UNCHANGED kind

Create(id) ==
  /\ store[id] = NULL
  /\ \E row \in Rows : Put(id, [row |-> row, archived |-> FALSE])

Change(id) ==
  /\ store[id] # NULL
  /\ \E row \in Rows : Put(id, [store[id] EXCEPT !.row = row])

Archive(id) ==
  /\ store[id] # NULL
  /\ Put(id, [store[id] EXCEPT !.archived = TRUE])

Next == \E id \in Ids : Create(id) \/ Change(id) \/ Archive(id)

Spec == Init /\ [][Next]_<<kind, store>>
=============================================================================
