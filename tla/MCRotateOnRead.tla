--------------------------- MODULE MCRotateOnRead ---------------------------
(* RotateOnRead on small instances. *)
EXTENDS RotateOnRead, TLC

CONSTANT MaxVersion  \* bound: so many versions are drawn

MCVersions == 1..MaxVersion

MCSymmetry ==
  Permutations(Materials) \cup Permutations(Replicas) \cup Permutations(Readers)
  \cup Permutations(Values)
=============================================================================
