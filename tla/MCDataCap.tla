----------------------------- MODULE MCDataCap -----------------------------
(* DataCap on small instances.                                             *)
EXTENDS DataCap, TLC
=============================================================================
