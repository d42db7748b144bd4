------------------------------ MODULE MCDbMgr ------------------------------
(* DbMgr on small instances.                                               *)
EXTENDS DbMgr, TLC

(* Sound for the safety runs: no definition distinguishes two samples.     *)
Symmetry == Permutations(Samples)
=============================================================================
