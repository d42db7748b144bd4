----------------------------- MODULE Publisher -----------------------------
(* The contract of the two queues.  What dbmgr relies on of the process at *)
(* the other end: it works on one sample of /qout at a time, and either    *)
(* reports the sample on /qin as DELIVERED, after the broker has           *)
(* acknowledged it, or forgets it; it puts nothing else on /qin.  DbMgr is *)
(* modelled beside this publisher, DataPublish is shown to be one, and     *)
(* DbMgr to be the neighbour that DataPublish relies on.                   *)
EXTENDS EmdcSample, PosixQueue

CONSTANTS QinMax, QoutMax  \* mq_maxmsg of the two queues

VARIABLES qin, qout,  \* the queues
          pub,        \* the message the publisher is working on
          acked       \* samples the broker has acknowledged

vars == <<qin, qout, pub, acked>>

Init == qin = <<>> /\ qout = <<>> /\ pub = NoMsg /\ acked = {}

(* It takes the next sample.                                               *)
Receive ==
  /\ pub = NoMsg
  /\ EMDC_queue_rcv(qout, pub', qout')
  /\ UNCHANGED <<qin, acked>>

(* The broker acknowledges it, and it is marked.                           *)
Acknowledge ==
  /\ pub # NoMsg /\ pub.status = STATUS_TO_DELIVER
  /\ acked' = acked \cup {pub.sample} /\ pub' = Delivered(pub)
  /\ UNCHANGED <<qin, qout>>

(* The report: /qin is opened without blocking, the result is ignored.     *)
Report ==
  /\ pub # NoMsg /\ pub.status = STATUS_DELIVERED
  /\ qin' = EMDC_queue_send(qin, QinMax, pub) /\ pub' = NoMsg
  /\ UNCHANGED <<qout, acked>>

(* It is not connected, the publish fails, or it ends: the sample is       *)
(* forgotten, whether the broker had it or not.                            *)
Lose ==
  /\ pub # NoMsg /\ pub' = NoMsg
  /\ UNCHANGED <<qin, qout, acked>>

(* What it relies on in turn: dbmgr forwards fresh samples and nothing     *)
(* else, a data capture sends one, dbmgr takes the next message.           *)
Neighbour ==
  /\ \/ \E k \in Samples : qout' = EMDC_queue_send(qout, QoutMax, Fresh(k)) /\ UNCHANGED qin
     \/ \E k \in Samples : qin' = EMDC_queue_send(qin, QinMax, Fresh(k)) /\ UNCHANGED qout
     \/ qin # <<>> /\ qin' = Tail(qin) /\ UNCHANGED qout
  /\ UNCHANGED <<pub, acked>>

(* The machine goes down, and the queues with it.                          *)
PowerLoss ==
  /\ qin' = <<>> /\ qout' = <<>> /\ pub' = NoMsg
  /\ UNCHANGED acked

Step == Receive \/ Acknowledge \/ Report \/ Lose

Next == Step \/ Neighbour \/ PowerLoss

Spec == Init /\ [][Next]_vars
============================================================================
