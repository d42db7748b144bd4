----------------------------- MODULE MCLiveView -----------------------------
(* LiveView on small instances.                                            *)
EXTENDS LiveView, TLC

A(t) == [kind |-> "active", ts |-> t]
R(t) == [kind |-> "reactive", ts |-> t]

(* With an Hour of 1.  The clock is set back to the first time; two pulses *)
(* have one time, and then it is set back; it is set back by an Hour.      *)
SmallFeeds == {<<A(1), A(3), A(1)>>, <<R(3), R(3), R(1)>>, <<A(4), R(3), R(2)>>}
=============================================================================
