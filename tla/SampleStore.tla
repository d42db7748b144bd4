----------------------------- MODULE SampleStore -----------------------------
(* What dbmgr promises of its samples table, without queues, transactions  *)
(* or failures: a sample is recorded once, waiting to be delivered; the    *)
(* broker may acknowledge it; a recorded sample it acknowledged may be     *)
(* marked.  A commit makes any number of those steps durable at once, a    *)
(* failure makes none of them.                                             *)
CONSTANTS Samples, Absent, Waiting, Marked

VARIABLES store,  \* the durable table
          acked   \* the samples the broker acknowledged

vars == <<store, acked>>

Init == store = [k \in Samples |-> Absent] /\ acked = {}

Acknowledge == \E k \in Samples : acked' = acked \cup {k} /\ UNCHANGED store

(* One row after a commit: as it was, newly recorded, or marked.           *)
RowMayBecome(k, s) ==
  \/ s = store[k]
  \/ store[k] = Absent /\ s = Waiting
  \/ s = Marked /\ k \in acked

Commit ==
  /\ store' \in [Samples -> {Absent, Waiting, Marked}]
  /\ \A k \in Samples : RowMayBecome(k, store'[k])
  /\ UNCHANGED acked

Next == Acknowledge \/ Commit

Spec == Init /\ [][Next]_vars
==============================================================================
