------------------------------ MODULE MCEntities ------------------------------
EXTENDS Entities

(* Only apps have something, their slugs, that relates two entities. *)
MCCapacity == [k \in Kinds |-> IF k = "app" THEN 2 ELSE 1]

(* Updates of an app give any slug, so that two may exchange theirs; the    *)
(* others give one value of the first member, or do not name it.  What is   *)
(* created has any of the values.                                           *)
MCBodies ==
  [k \in Kinds |-> {[first |-> f, second |-> NULL] :
                      f \in IF k = "app" THEN Firsts
                            ELSE {CHOOSE asked \in Firsts : TRUE, NULL}}]

(* Updates that each give one of the two members. *)
MCHalves ==
  [k \in Kinds |-> {[first |-> f, second |-> NULL] : f \in Firsts}
                     \cup {[first |-> NULL, second |-> d] : d \in Seconds}]
=============================================================================
