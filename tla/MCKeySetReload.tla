--------------------------- MODULE MCKeySetReload ---------------------------
(* KeySetReload on small instances. *)
EXTENDS KeySetReload
=============================================================================
