------------------------------ MODULE DbWriter ------------------------------
(* db_writer.py: it stores each event of queue_db_writer as a row of the   *)
(* table EMDC.samples of MariaDB, in a transaction of its own.  An event   *)
(* is its number: the n-th one published is n.                             *)
EXTENDS AmqpConsumer

CONSTANTS MaxEvents, MaxOutages, MaxStops  \* bounds

ASSUME DbWriterAssumption == {MaxEvents, MaxOutages, MaxStops} \subseteq Nat

VARIABLES
  event,      \* the event the callback works on; 0 once it is executed
  work,       \* rows of the open transaction
  rows,       \* rows of the table, in the order they were committed
  published, outages, stops  \* what the bounds count

database == <<event, work, rows>>
counts == <<published, outages, stops>>
vars == <<consumer, database, counts>>

Init ==
  /\ ConsumerInit("connect")
  /\ event = 0 /\ work = <<>> /\ rows = <<>>
  /\ published = 0 /\ outages = 0 /\ stops = 0

(* datapublish publishes the next event.                                   *)
Publish ==
  /\ published < MaxEvents /\ published' = published + 1
  /\ Enqueue(published + 1)
  /\ UNCHANGED <<database, outages, stops>>

callback ==
  /\ Take("callback") /\ event' = Head(inbox)
  /\ UNCHANGED <<work, rows, counts>>

(* cur.execute.  The connection does not commit by itself.                 *)
execute ==
  /\ loop = "callback" /\ event # 0
  /\ event' = 0 /\ work' = Append(work, event)
  /\ UNCHANGED <<consumer, rows, counts>>

commit ==
  /\ Return /\ event = 0
  /\ rows' = rows \o work /\ work' = <<>>
  /\ UNCHANGED <<event, counts>>

(* The program ends, of an error of MariaDB too, which nothing catches.    *)
(* Nothing starts it again.  The open transaction is rolled back; but the  *)
(* error of a commit may mean that only its answer was lost.               *)
Stop ==
  /\ stops < MaxStops /\ stops' = stops + 1
  /\ End
  /\ event' = 0 /\ work' = <<>> /\ rows' \in {rows, rows \o work}
  /\ UNCHANGED <<published, outages>>

BrokerLeaves ==
  /\ outages < MaxOutages /\ outages' = outages + 1
  /\ Outage
  /\ UNCHANGED <<database, published, stops>>

Loop == (Reconnect \/ Deliver \/ OutageEnds) /\ UNCHANGED <<database, counts>>

Next ==
  \/ Publish \/ Loop \/ callback \/ execute \/ commit
  \/ Stop \/ BrokerLeaves

Spec == Init /\ [][Next]_vars

(* The program is scheduled, the broker delivers, and comes back.          *)
Fairness ==
  /\ WF_vars(Reconnect /\ UNCHANGED <<database, counts>>)
  /\ WF_vars(Deliver /\ UNCHANGED <<database, counts>>)
  /\ WF_vars(OutageEnds /\ UNCHANGED <<database, counts>>)
  /\ WF_vars(callback \/ execute \/ commit)

FairSpec == Spec /\ Fairness

-----------------------------------------------------------------------------
Event == 1 .. published
Elements(s) == {s[i] : i \in DOMAIN s}

(* The types; between two callbacks no transaction is open.                *)
TypeOK ==
  /\ loop # "callback" => event = 0 /\ work = <<>>
  /\ loop \in {"connect", "consume", "callback", "sleep", "ended"}
  /\ link \in {"off", "up", "broken"} /\ reachable \in BOOLEAN
  /\ queue \in Seq(Event) /\ inbox \in Seq(Event)
  /\ event \in 0 .. published /\ work \in Seq(Event) /\ rows \in Seq(Event)
  /\ published \in Nat /\ outages \in Nat /\ stops \in Nat

(* From the table to the queue, the events are in the order they were      *)
(* published, and none is there twice: outages, and a program that ends in *)
(* a transaction, lose events but never repeat or reorder them.            *)
Pipeline == rows \o work \o (IF event = 0 THEN <<>> ELSE <<event>>) \o inbox \o queue

StoredInOrder == \A i, j \in DOMAIN Pipeline : i < j => Pipeline[i] < Pipeline[j]

(* Without an outage or an end of the program every event is in the table, *)
(* in the transaction, in hand, in the library or in the queue.            *)
NothingIsLost == outages + stops = 0 => Len(Pipeline) = published

(* What waits in the queue while the writer is not connected is stored,    *)
(* unless the new connection breaks too or the program is ended.           *)
BacklogIsStored ==
  \A n \in 1 .. MaxEvents :
    link = "off" /\ n \in Elements(queue)
      ~> n \in Elements(rows) \/ link = "broken" \/ stops > 0
=============================================================================
