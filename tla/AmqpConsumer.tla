---------------------------- MODULE AmqpConsumer ----------------------------
(* What db_writer.py and socket_io_bridge.py have in common: run_app, the  *)
(* loop that consumes a durable queue of RabbitMQ with auto_ack, and comes *)
(* back when the connection is lost.  One thread runs the loop and the     *)
(* callback.  DbWriter and LiveView extend it with their callbacks.        *)
EXTENDS Integers, Sequences

VARIABLES
  loop,       \* where run_app is: "connect", "consume" (in start_consuming),
              \* "callback", "sleep" or "ended" (and LiveView's own places)
  link,       \* its connection: "off", "up", "broken" (but not yet noticed)
  reachable,  \* the broker can be reached
  queue,      \* what the broker keeps for the program
  inbox       \* what the client library has, or is on its way to it

consumer == <<loop, link, reachable, queue, inbox>>

ConsumerInit(place) ==
  /\ loop = place /\ link = "off" /\ reachable = TRUE
  /\ queue = <<>> /\ inbox = <<>>

(* The exchange has routed an event to the queue.                          *)
Enqueue(e) == queue' = Append(queue, e) /\ UNCHANGED <<loop, link, reachable, inbox>>

(* A mutation of Consume: the program declares an exclusive queue.         *)
ConsumeOwnQueue ==
  /\ loop = "connect" /\ reachable
  /\ loop' = "consume" /\ link' = "up" /\ queue' = <<>>
  /\ UNCHANGED <<reachable, inbox>>

(* BlockingConnection, channel, basic_consume.                             *)
Consume ==
  /\ loop = "connect" /\ reachable
  /\ loop' = "consume" /\ link' = "up"
  /\ UNCHANGED <<reachable, queue, inbox>>

(* AMQPConnectionError: sleep, then "continue".                            *)
ConnectFails ==
  /\ loop = "connect" /\ ~reachable /\ loop' = "sleep"
  /\ UNCHANGED <<link, reachable, queue, inbox>>

Wake == loop = "sleep" /\ loop' = "connect" /\ UNCHANGED <<link, reachable, queue, inbox>>

(* A mutation of Deliver: without auto_ack, and nobody acknowledges.       *)
DeliverUnacknowledged ==
  /\ link = "up" /\ queue # <<>> /\ inbox = <<>>
  /\ inbox' = queue
  /\ UNCHANGED <<loop, link, reachable, queue>>

(* With auto_ack an event is no longer the broker's once it has been sent. *)
Deliver ==
  /\ link = "up" /\ queue # <<>>
  /\ inbox' = Append(inbox, Head(queue)) /\ queue' = Tail(queue)
  /\ UNCHANGED <<loop, link, reachable>>

(* start_consuming calls the callback with the next event; place is where  *)
(* that leaves the loop.                                                   *)
Take(place) ==
  /\ loop = "consume" /\ inbox # <<>>
  /\ loop' = place /\ inbox' = Tail(inbox)
  /\ UNCHANGED <<link, reachable, queue>>

Return ==
  /\ loop = "callback" /\ loop' = "consume"
  /\ UNCHANGED <<link, reachable, queue, inbox>>

(* A mutation of Noticed: an error of the connection ends the loop.        *)
NoticedIsTheEnd ==
  /\ loop = "consume" /\ link = "broken"
  /\ loop' = "ended" /\ link' = "off" /\ inbox' = <<>>
  /\ UNCHANGED <<reachable, queue>>

(* ConnectionClosedByBroker or another AMQPConnectionError: sleep, then    *)
(* connect again.  What the library had and had not handed over is lost.   *)
Noticed ==
  /\ loop = "consume" /\ link = "broken"
  /\ loop' = "sleep" /\ link' = "off" /\ inbox' = <<>>
  /\ UNCHANGED <<reachable, queue>>

(* The end of the program: KeyboardInterrupt, an AMQPChannelError ("do not *)
(* recover on channel errors"), an exception nothing catches, or a signal. *)
End ==
  /\ loop # "ended"
  /\ loop' = "ended" /\ link' = "off" /\ inbox' = <<>>
  /\ UNCHANGED <<reachable, queue>>

(* The connection breaks; what was on its way and had not arrived is lost. *)
Outage ==
  /\ reachable /\ reachable' = FALSE
  /\ link' = IF link = "up" THEN "broken" ELSE link
  /\ \E n \in 0 .. Len(inbox) : inbox' = SubSeq(inbox, 1, n)
  /\ UNCHANGED <<loop, queue>>

OutageEnds ==
  /\ ~reachable /\ reachable' = TRUE
  /\ UNCHANGED <<loop, link, queue, inbox>>

Reconnect == Consume \/ ConnectFails \/ Wake \/ Noticed
=============================================================================
