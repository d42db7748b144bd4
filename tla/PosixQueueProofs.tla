-------------------------- MODULE PosixQueueProofs --------------------------
(* What sending to and receiving from a message queue preserves, for any   *)
(* queue and any bound.                                                    *)
EXTENDS PosixQueue, TLAPS

(* mq_send keeps the queue within its bound and adds nothing but m.        *)
LEMMA SendFacts ==
  ASSUME NEW S, NEW q \in Seq(S), NEW m \in S, NEW max \in Nat, Len(q) <= max
  PROVE  /\ EMDC_queue_send(q, max, m) \in Seq(S)
         /\ Len(EMDC_queue_send(q, max, m)) <= max
         /\ InQueue(EMDC_queue_send(q, max, m)) \subseteq InQueue(q) \cup {m}
<1>1. CASE Len(q) < max
  <2>1. EMDC_queue_send(q, max, m) = Append(q, m)
    BY <1>1 DEF EMDC_queue_send
  <2>2. Append(q, m) \in Seq(S) /\ Len(Append(q, m)) = Len(q) + 1
    OBVIOUS
  <2>3. \A i \in DOMAIN Append(q, m) : Append(q, m)[i] \in InQueue(q) \cup {m}
    BY DEF InQueue
  <2> QED BY <1>1, <2>1, <2>2, <2>3 DEF InQueue
<1>2. CASE ~(Len(q) < max)
  BY <1>2 DEF EMDC_queue_send
<1> QED BY <1>1, <1>2

(* mq_timedreceive delivers a message of the queue and adds none.          *)
LEMMA ReceiveFacts ==
  ASSUME NEW S, NEW q \in Seq(S), NEW m, NEW rest, EMDC_queue_rcv(q, m, rest)
  PROVE  /\ m \in S /\ m \in InQueue(q)
         /\ rest \in Seq(S) /\ Len(rest) <= Len(q)
         /\ InQueue(rest) \subseteq InQueue(q)
<1>1. q # <<>> /\ m = q[1] /\ rest = Tail(q)
  BY DEF EMDC_queue_rcv
<1>2. 1 \in DOMAIN q /\ rest \in Seq(S) /\ Len(rest) <= Len(q)
  BY <1>1
<1>3. \A i \in DOMAIN rest : i + 1 \in DOMAIN q /\ rest[i] = q[i + 1]
  BY <1>1
<1> QED BY <1>1, <1>2, <1>3 DEF InQueue
=============================================================================
