----------------------------- MODULE MCKeyAdmin -----------------------------
(* KeyAdmin on small instances. *)
EXTENDS KeyAdmin, TLC

CONSTANTS a1, a2, p1, p2, m1, m2, m3

MCVersions == 1..MaxVersion

(* One value on each side of both ends of the range a request may name. *)
MCDays == -1..2

(* CORE_FIELD_KEY_HEX unset everywhere; different keys on two processes. *)
MCNoEnv == [p \in Booters |-> NULL]
MCOwnEnv == [p \in Booters |-> IF p = p1 THEN m1 ELSE m2]

(* Materials and processes are interchangeable where no environment names  *)
(* a key. *)
MCSymmetry == Permutations(Materials) \cup Permutations(Admins) \cup Permutations(Booters)
=============================================================================
