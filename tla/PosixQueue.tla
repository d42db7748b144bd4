---------------------------- MODULE PosixQueue ----------------------------
(* The POSIX message queues /qin and /qout (queue.c).  Every message has   *)
(* priority 0, so a queue is a bounded FIFO.  The kernel keeps it when a   *)
(* process that uses it ends.                                              *)
EXTENDS Naturals, Sequences

(* The messages in a queue.                                                *)
InQueue(q) == {q[i] : i \in DOMAIN q}

(* A mutation of EMDC_queue_send: no capacity check.                        *)
EMDC_queue_send_unbounded(q, max, m) == Append(q, m)

(* mq_send on a descriptor opened with O_NONBLOCK: EAGAIN when the queue   *)
(* is full, and the queue is as it was.                                    *)
EMDC_queue_send(q, max, m) == IF Len(q) < max THEN Append(q, m) ELSE q

(* mq_timedreceive takes a message whenever there is one; with an empty    *)
(* queue it returns -1 after ten seconds (ETIMEDOUT), or earlier when a    *)
(* signal handler ran (EINTR).                                             *)
EMDC_queue_rcv(q, m, rest) == q # <<>> /\ m = Head(q) /\ rest = Tail(q)

EMDC_queue_rcv_timeout(q) == q = <<>>
===========================================================================
