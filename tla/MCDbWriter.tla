----------------------------- MODULE MCDbWriter -----------------------------
(* DbWriter on small instances.                                            *)
EXTENDS DbWriter, TLC
=============================================================================
