--------------------------- MODULE MCEnergyWriter ---------------------------
(* EnergyWriter on small instances.                                        *)
EXTENDS EnergyWriter, TLC

A(t) == [kind |-> "active", ts |-> t]
R(t) == [kind |-> "reactive", ts |-> t]

(* The differences tell the pairs apart.  Three of a kind; the clock set   *)
(* back, once to the time of an earlier pulse; two kinds.                  *)
SmallFeeds == {<<A(1), A(2), A(4)>>, <<A(4), A(1), A(4)>>, <<A(1), R(2), A(4)>>, <<R(3), A(1), R(5)>>}

OneFeed == {<<A(1), R(2), A(4)>>}
=============================================================================
