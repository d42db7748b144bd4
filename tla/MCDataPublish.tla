--------------------------- MODULE MCDataPublish ---------------------------
(* DataPublish on small instances.                                         *)
EXTENDS DataPublish, TLC

(* Sound for the safety run: no definition distinguishes two samples.      *)
Symmetry == Permutations(Samples)
=============================================================================
