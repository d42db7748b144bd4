------------------------- MODULE DataPublishProofs -------------------------
(* Why datapublish's signal handler and its main program never use the     *)
(* AMQP context at the same time, for any queue lengths, any number of     *)
(* timers, outages and messages.                                           *)
EXTENDS DataPublish, PosixQueueProofs

(* The discipline: the flag goes down only where main is about to arm a    *)
(* timer, a timer is armed, and its handler at work, only while the flag   *)
(* is down, and main enters AMQP_Sendmessage only while it is up.          *)
AmqpInv ==
  /\ armed \in {0, 1} /\ timers \in Nat /\ timers <= MaxTimers
  /\ (handling => armed = 0)
  /\ (armed = 1 \/ handling) => /\ ~connected_to_broker
                                /\ pc \notin {"init_amqp", "amqp_send", "amqp_retry", "down"}
  /\ pc = "amqp_send" => connected_to_broker
  /\ pc \in {"init_amqp", "amqp_retry"} => ~connected_to_broker
  /\ RetryIsPending

(* The context a timer would use is there until fini frees it.             *)
ExitInv ==
  /\ (armed = 1 \/ handling) /\ ctx # "allocated" => pc \in {"clear", "exit"}
  /\ connected_to_broker /\ ctx # "allocated" => pc \in {"clear", "exit", "down"}
  /\ pc = "amqp_retry" => ctx = "allocated"
  /\ pc \in {"fini", "free", "clear", "exit"} => ~go
  /\ crashed => ~go /\ pc = "down"

LEMMA InitAmqpInv == Init => AmqpInv /\ ExitInv
<1> SUFFICES ASSUME Init PROVE AmqpInv /\ ExitInv
  OBVIOUS
<1>1. pc = "init_amqp" /\ ~crashed /\ ~connected_to_broker /\ timers = 0 /\ armed = 0 /\ handling = FALSE
  BY DEF Init
<1>2. armed \in {0, 1} /\ timers \in Nat /\ timers <= MaxTimers
  BY <1>1, DataPublishAssumption
<1>3. RetryIsPending
  BY <1>1 DEF RetryIsPending
<1>4. ExitInv
  BY <1>1 DEF ExitInv
<1> QED BY <1>1, <1>2, <1>3, <1>4 DEF AmqpInv

(* retry_connect arms one timer, or has none left.                         *)
LEMMA RetryFacts ==
  ASSUME timers \in Nat, timers <= MaxTimers, NEW left \in {0}, retry_connect(left)
  PROVE  /\ timers' \in Nat /\ timers' <= MaxTimers
         /\ armed' = 1 \/ (armed' = 0 /\ timers' = MaxTimers)
BY DataPublishAssumption DEF retry_connect

LEMMA ConnectFacts ==
  ASSUME timers \in Nat, timers <= MaxTimers, ~connected_to_broker,
         NEW left \in {0}, ConnectAmqp(left)
  PROVE  /\ timers' \in Nat /\ timers' <= MaxTimers
         /\ \/ connected_to_broker' /\ armed' = 0
            \/ ~connected_to_broker' /\ (armed' = 1 \/ (armed' = 0 /\ timers' = MaxTimers))
BY RetryFacts DEF ConnectAmqp

LEMMA NextAmqpInv == AmqpInv /\ ExitInv /\ [Next]_vars => AmqpInv' /\ ExitInv'
<1> SUFFICES ASSUME AmqpInv, ExitInv, [Next]_vars PROVE AmqpInv' /\ ExitInv'
  OBVIOUS
<1> USE DataPublishAssumption DEF AmqpInv, ExitInv, RetryIsPending
<1> USE DEF queues, process, amqp, mqtt, links
<1> DEFINE Still == ~handling /\ UNCHANGED handling
<1>1. CASE Still /\ InitAmqp
  <2>1. CASE EnableAmqp
    <3>1. ctx' = "allocated" /\ ConnectAmqp(armed) /\ armed = 0 /\ ~connected_to_broker
      BY <1>1, <2>1 DEF InitAmqp
    <3> QED BY <1>1, <2>1, <3>1, ConnectFacts DEF InitAmqp
  <2>2. CASE ~EnableAmqp
    BY <1>1, <2>2 DEF InitAmqp
  <2> QED BY <2>1, <2>2
<1>2. CASE Still /\ InitMqtt
  <2>1. pc = "init_mqtt" /\ pc' \in {"init_mqtt", "loop"}
        /\ UNCHANGED <<timers, armed, connected_to_broker, ctx, go, crashed>>
    BY <1>2 DEF InitMqtt
  <2> QED BY <1>2, <2>1
<1>3. CASE Still /\ Loop
  BY <1>3 DEF Loop
<1>4. CASE Still /\ Receive
  BY <1>4 DEF Receive
<1>5. CASE Still /\ ReceiveNothing
  BY <1>5 DEF ReceiveNothing, Unreceived
<1>6. CASE Still /\ AmqpCheck
  BY <1>6 DEF AmqpCheck
<1>7. CASE Still /\ AmqpSend
  <2>0. pc = "amqp_send" /\ armed = 0 /\ connected_to_broker
    BY <1>7 DEF AmqpSend
  <2>1. \/ pc' = "mqtt" /\ connected_to_broker'
        \/ pc' = "amqp_retry" /\ ~connected_to_broker'
    <3> HIDE DEF AmqpInv, ExitInv
    <3> QED BY <1>7, <2>0 DEF AmqpSend
  <2>2. UNCHANGED <<timers, armed, handling, ctx, go, crashed>> /\ ~crashed /\ ~handling
    BY <1>7 DEF AmqpSend
  <2>3. AmqpInv'
    BY <2>0, <2>1, <2>2
  <2>4. ExitInv'
    BY <1>7, <2>0, <2>1, <2>2 DEF AmqpSend
  <2> QED BY <2>3, <2>4
<1>8. CASE Still /\ AmqpRetry
  <2>1. retry_connect(armed) /\ armed = 0 /\ ~connected_to_broker
    BY <1>8 DEF AmqpRetry
  <2>2. /\ timers' \in Nat /\ timers' <= MaxTimers
        /\ armed' = 1 \/ (armed' = 0 /\ timers' = MaxTimers)
    BY <2>1, RetryFacts
  <2>3. /\ pc = "amqp_retry" /\ pc' = "mqtt" /\ ctx' = "allocated"
        /\ UNCHANGED <<connected_to_broker, go, crashed>>
    BY <1>8 DEF AmqpRetry
  <2>4. AmqpInv'
    BY <1>8, <2>1, <2>2, <2>3
  <2>5. ExitInv'
    BY <1>8, <2>1, <2>2, <2>3
  <2> QED BY <2>4, <2>5
<1>9. CASE Still /\ MqttCheck
  <2>1. pc = "mqtt" /\ pc' \in {"publish", "loop"}
        /\ UNCHANGED <<timers, armed, connected_to_broker, ctx, go, crashed>>
    BY <1>9 DEF MqttCheck
  <2> QED BY <1>9, <2>1
<1>10. CASE Still /\ PublishAcked
  BY <1>10 DEF PublishAcked
<1>11. CASE Still /\ PublishFailed
  BY <1>11 DEF PublishFailed
<1>12. CASE Still /\ Report
  BY <1>12 DEF Report
<1>13. CASE Still /\ Disconnect
  BY <1>13 DEF Disconnect
<1>14. CASE Still /\ FreeContext
  BY <1>14 DEF FreeContext
<1>15. CASE Still /\ Exit
  BY <1>15 DEF Exit
<1>16. CASE timer_handler
  <2>1. armed = 1 /\ ~connected_to_broker /\ pc \notin {"init_amqp", "amqp_send", "amqp_retry", "down"}
    BY <1>16 DEF timer_handler
  <2>2. CASE ctx # "null" /\ handling' = TRUE /\ armed' = armed - 1 /\ UNCHANGED <<pc, crashed, timers>>
    BY <1>16, <2>1, <2>2 DEF timer_handler
  <2>3. CASE ctx # "allocated" /\ pc' = "down" /\ crashed' = TRUE /\ timers' = 0 /\ armed' = 0
             /\ UNCHANGED handling
    BY <1>16, <2>1, <2>3 DEF timer_handler
  <2> QED BY <1>16, <2>2, <2>3 DEF timer_handler
<1>17. CASE signal_callback_handler
  BY <1>17 DEF signal_callback_handler
<1>18. CASE Kill
  BY <1>18 DEF Kill
<1>19. CASE Restart
  <2>1. /\ pc' = "init_amqp" /\ ~crashed' /\ ~connected_to_broker'
        /\ timers' = 0 /\ armed' = 0 /\ ~handling /\ UNCHANGED handling
    BY <1>19 DEF Restart
  <2> QED BY <2>1
<1>20. CASE Brokers \/ Neighbours
  <2>1. UNCHANGED <<pc, timers, armed, handling, connected_to_broker, ctx, go, crashed>>
    BY <1>20 DEF Brokers, Neighbours, AmqpDown, AmqpUp, MqttDown, MqttUp, SessionExpires,
                 ClientNotices, ThrottleEnds, Drain, Capture, Feed
  <2> QED BY <2>1
<1>21. CASE UNCHANGED vars
  BY <1>21 DEF vars
<1>22. CASE PowerLoss
  BY <1>22 DEF PowerLoss
<1>23. CASE HandlerReturns
  <2>1. /\ handling /\ armed = 0 /\ ~connected_to_broker
        /\ pc \notin {"init_amqp", "amqp_send", "amqp_retry", "down"}
    BY <1>23 DEF HandlerReturns
  <2>2. /\ timers' \in Nat /\ timers' <= MaxTimers
        /\ \/ connected_to_broker' /\ armed' = 0
           \/ ~connected_to_broker' /\ (armed' = 1 \/ (armed' = 0 /\ timers' = MaxTimers))
    BY <1>23, <2>1, ConnectFacts DEF HandlerReturns
  <2>3. /\ pc' = pc \/ (pc = "receive" /\ pc' = "interrupted")
        /\ handling' = FALSE /\ UNCHANGED <<crashed, ctx, go>>
    BY <1>23 DEF HandlerReturns
  <2> QED BY <2>1, <2>2, <2>3
<1> HIDE DEF AmqpInv, ExitInv
<1> QED
  BY <1>1, <1>2, <1>3, <1>4, <1>5, <1>6, <1>7, <1>8, <1>9, <1>10, <1>11, <1>12, <1>13, <1>14,
     <1>15, <1>16, <1>17, <1>18, <1>19, <1>20, <1>21, <1>22, <1>23
  DEF Next, Local, Main, Handler

LEMMA AmqpInvariance == Spec => [](AmqpInv /\ ExitInv)
BY InitAmqpInv, NextAmqpInv, PTL DEF Spec

(* timer_handler never runs while main is inside AMQP_Sendmessage, and     *)
(* never replaces a connection the program believes in; at most one timer  *)
(* is armed (timer_handler, publish_message, retry_connect).               *)
THEOREM ContextNotSharedHolds == Spec => []ContextNotShared
<1>1. AmqpInv => ContextNotShared
  BY DEF AmqpInv, ContextNotShared
<1> QED BY <1>1, AmqpInvariance, PTL

(* While RabbitMQ is not connected a retry is armed, or the process has    *)
(* used up its timers (retry_connect and its callers).                     *)
THEOREM RetryIsPendingHolds == Spec => []RetryIsPending
<1>1. AmqpInv => RetryIsPending
  BY DEF AmqpInv
<1> QED BY <1>1, AmqpInvariance, PTL

(* The handler faults on a freed context only after a request to stop      *)
(* (timer_handler, fini).                                                  *)
THEOREM FaultOnlyAtExitHolds == Spec => []FaultOnlyAtExit
<1>1. ExitInv => FaultOnlyAtExit
  BY DEF ExitInv, FaultOnlyAtExit
<1> QED BY <1>1, AmqpInvariance, PTL

-----------------------------------------------------------------------------
(* Reports                                                                 *)

Holding == {"amqp", "amqp_send", "amqp_retry", "mqtt", "publish", "report"}

(* The messages, and what main knows of the one it holds.                  *)
ReportInv ==
  /\ qin \in Seq(EMDCsample) /\ Len(qin) <= QinMax
  /\ qout \in Seq(EMDCsample) /\ Len(qout) <= QoutMax
  /\ pc \in Holding => msg \in EMDCsample
  /\ pc = "report" => msg.status = STATUS_DELIVERED /\ msg.sample \in acked
  /\ ReportedIsAcked

LEMMA InitReportInv == Init => ReportInv
<1> SUFFICES ASSUME Init PROVE ReportInv
  OBVIOUS
<1>1. qin = <<>> /\ qout = <<>> /\ pc = "init_amqp"
  BY DEF Init
<1>2. /\ qin \in Seq(EMDCsample) /\ Len(qin) <= QinMax
      /\ qout \in Seq(EMDCsample) /\ Len(qout) <= QoutMax
  BY <1>1, DataPublishAssumption
<1> QED BY <1>1, <1>2 DEF ReportInv, ReportedIsAcked, InQueue, Holding

(* A step that leaves messages and acknowledgements alone, and does not    *)
(* bring main to a place where it holds one.                               *)
LEMMA ReportUntouched ==
  ASSUME ReportInv, UNCHANGED <<qin, qout, msg, acked>>,
         pc' \in Holding => pc \in Holding,
         pc' = "report" => pc = "report"
  PROVE  ReportInv'
BY DEF ReportInv, ReportedIsAcked, InQueue

(* The neighbours' steps, in the words of the contract.                    *)
LEMMA NeighbourFacts == Neighbours => Contract!Neighbour /\ UNCHANGED <<pc, msg, acked>>
<1> SUFFICES ASSUME Neighbours PROVE Contract!Neighbour /\ UNCHANGED <<pc, msg, acked>>
  OBVIOUS
<1> USE DEF process, Contract!Neighbour, Contract!EMDC_queue_send, EMDC_queue_send,
            Contract!Fresh, Fresh, Contract!STATUS_TO_DELIVER, STATUS_TO_DELIVER
<1>1. CASE Drain
  BY <1>1 DEF Drain
<1>2. CASE \E k \in Samples : Capture(k)
  BY <1>2 DEF Capture
<1>3. CASE \E k \in Samples : Feed(k)
  BY <1>3 DEF Feed
<1> QED BY <1>1, <1>2, <1>3 DEF Neighbours

(* Whoever does to the queues what the contract allows the neighbours      *)
(* takes a message of /qin, or adds a fresh one to either queue.           *)
LEMMA QueuesOfNeighbour ==
  ASSUME ReportInv, Contract!Neighbour
  PROVE  /\ qin' \in Seq(EMDCsample) /\ Len(qin') <= QinMax
         /\ qout' \in Seq(EMDCsample) /\ Len(qout') <= QoutMax
         /\ \A m \in InQueue(qin)' : m \in InQueue(qin) \/ m.status = STATUS_TO_DELIVER
         /\ \A m \in InQueue(qout)' : m \in InQueue(qout) \/ m.status = STATUS_TO_DELIVER
<1> USE DataPublishAssumption DEF ReportInv
<1>q. InQueue(qin)' = InQueue(qin') /\ InQueue(qout)' = InQueue(qout')
  BY DEF InQueue
<1>f. \A k \in Samples : Fresh(k) \in EMDCsample /\ Fresh(k).status = STATUS_TO_DELIVER
  BY DEF Fresh, EMDCsample, Status
<1>1. CASE \E k \in Samples : qout' = EMDC_queue_send(qout, QoutMax, Fresh(k)) /\ UNCHANGED qin
  BY <1>1, <1>q, <1>f, SendFacts
<1>2. CASE \E k \in Samples : qin' = EMDC_queue_send(qin, QinMax, Fresh(k)) /\ UNCHANGED qout
  BY <1>2, <1>q, <1>f, SendFacts
<1>3. CASE qin # <<>> /\ qin' = Tail(qin) /\ UNCHANGED qout
  <2>1. EMDC_queue_rcv(qin, Head(qin), qin')
    BY <1>3 DEF EMDC_queue_rcv
  <2> QED BY <1>3, <1>q, <2>1, ReceiveFacts
<1> QED
  BY <1>1, <1>2, <1>3 DEF Contract!Neighbour, Contract!EMDC_queue_send, EMDC_queue_send,
     Contract!Fresh, Fresh, Contract!STATUS_TO_DELIVER, STATUS_TO_DELIVER

LEMMA NeighbourKeepsReports ==
  ReportInv /\ Contract!Neighbour /\ UNCHANGED <<pc, msg, acked>> => ReportInv'
BY QueuesOfNeighbour DEF ReportInv, ReportedIsAcked

LEMMA NextReportInv == ReportInv /\ [Next]_vars => ReportInv'
<1> SUFFICES ASSUME ReportInv, [Next]_vars PROVE ReportInv'
  OBVIOUS
<1> USE DEF queues, process
<1>1. CASE InitAmqp \/ InitMqtt \/ Loop \/ ReceiveNothing \/ AmqpCheck \/ AmqpSend \/ AmqpRetry
  <2>1. /\ UNCHANGED <<qin, qout, msg, acked>>
        /\ \/ pc' \in {"init_mqtt", "loop", "receive", "fini"}
           \/ pc \in {"amqp", "amqp_send", "amqp_retry"} /\ pc' \in {"amqp_send", "amqp_retry", "mqtt"}
    <3>1. CASE InitAmqp
      BY <3>1 DEF InitAmqp
    <3>2. CASE InitMqtt
      BY <3>2 DEF InitMqtt
    <3>3. CASE Loop
      BY <3>3 DEF Loop
    <3>4. CASE ReceiveNothing
      BY <3>4 DEF ReceiveNothing
    <3>5. CASE AmqpCheck
      BY <3>5 DEF AmqpCheck
    <3>6. CASE AmqpSend
      BY <3>6 DEF AmqpSend
    <3>7. CASE AmqpRetry
      BY <3>7 DEF AmqpRetry
    <3> QED BY <1>1, <3>1, <3>2, <3>3, <3>4, <3>5, <3>6, <3>7
  <2> QED BY <2>1, ReportUntouched DEF Holding
<1>2. CASE Receive
  <2>1. EMDC_queue_rcv(qout, msg', qout') /\ pc' = "amqp" /\ UNCHANGED <<qin, acked>>
    BY <1>2 DEF Receive
  <2>2. msg' \in EMDCsample /\ qout' \in Seq(EMDCsample) /\ Len(qout') <= QoutMax
    BY <2>1, ReceiveFacts, DataPublishAssumption DEF ReportInv
  <2> QED BY <2>1, <2>2 DEF ReportInv, ReportedIsAcked, InQueue
<1>3. CASE MqttCheck
  <2>1. /\ pc = "mqtt" /\ UNCHANGED <<qin, qout, acked>>
        /\ (pc' = "publish" /\ msg' = msg) \/ pc' = "loop"
    BY <1>3 DEF MqttCheck
  <2> QED BY <2>1 DEF ReportInv, ReportedIsAcked, InQueue, Holding
<1>4. CASE PublishAcked
  <2>1. /\ pc = "publish" /\ pc' = "report" /\ UNCHANGED <<qin, qout>>
        /\ msg' = Delivered(msg) /\ acked' = acked \cup {msg.sample}
    BY <1>4 DEF PublishAcked
  <2>2. msg \in EMDCsample
    BY <2>1 DEF ReportInv, Holding
  <2>3. msg' \in EMDCsample /\ msg'.status = STATUS_DELIVERED /\ msg'.sample = msg.sample
    BY <2>1, <2>2 DEF Delivered, EMDCsample, Status
  <2> QED BY <2>1, <2>3 DEF ReportInv, ReportedIsAcked, InQueue
<1>5. CASE PublishFailed
  BY <1>5 DEF PublishFailed, ReportInv, ReportedIsAcked, InQueue, Holding
<1>6. CASE Report
  <2>1. pc = "report" /\ pc' = "loop" /\ qin' = EMDC_queue_send(qin, QinMax, msg)
        /\ UNCHANGED <<qout, acked>>
    BY <1>6 DEF Report
  <2>2. /\ qin' \in Seq(EMDCsample) /\ Len(qin') <= QinMax
        /\ InQueue(qin') \subseteq InQueue(qin) \cup {msg}
    BY <2>1, SendFacts, DataPublishAssumption DEF ReportInv, Holding
  <2>3. InQueue(qin)' = InQueue(qin')
    BY DEF InQueue
  <2> QED BY <2>1, <2>2, <2>3 DEF ReportInv, ReportedIsAcked, Holding
<1>7. CASE Disconnect \/ FreeContext \/ Exit \/ Kill
  BY <1>7, ReportUntouched DEF Disconnect, FreeContext, Exit, Kill, Holding
<1>8. CASE Handler
  BY <1>8, ReportUntouched DEF Handler, timer_handler, HandlerReturns, Holding
<1>9. CASE signal_callback_handler
  BY <1>9, ReportUntouched DEF signal_callback_handler
<1>10. CASE Restart
  BY <1>10 DEF Restart, ReportInv, ReportedIsAcked, InQueue, Holding
<1>11. CASE Neighbours
  BY <1>11, NeighbourFacts, NeighbourKeepsReports
<1>12. CASE PowerLoss
  <2>1. qin' = <<>> /\ qout' = <<>> /\ pc' = "down"
    BY <1>12 DEF PowerLoss
  <2>2. /\ qin' \in Seq(EMDCsample) /\ Len(qin') <= QinMax
        /\ qout' \in Seq(EMDCsample) /\ Len(qout') <= QoutMax
    BY <2>1, DataPublishAssumption
  <2> QED BY <2>1, <2>2 DEF ReportInv, ReportedIsAcked, InQueue, Holding
<1>13. CASE AmqpDown \/ AmqpUp \/ MqttDown \/ MqttUp \/ SessionExpires \/ ClientNotices \/ ThrottleEnds
  <2>1. UNCHANGED <<qin, qout, msg, acked, pc>>
    BY <1>13 DEF AmqpDown, AmqpUp, MqttDown, MqttUp, SessionExpires, ClientNotices, ThrottleEnds
  <2> QED BY <2>1, ReportUntouched
<1>14. CASE UNCHANGED vars
  BY <1>14, ReportUntouched DEF vars
<1> QED
  BY <1>1, <1>2, <1>3, <1>4, <1>5, <1>6, <1>7, <1>8, <1>9, <1>10, <1>11, <1>12, <1>13, <1>14
  DEF Next, Local, Main, Brokers

(* What datapublish sends to dbmgr is DELIVERED, of a sample whose         *)
(* acknowledgement it heard, across losses, restarts and full queues       *)
(* (publish_message).                                                      *)
THEOREM ReportedIsAckedHolds == Spec => []ReportedIsAcked
<1>1. ReportInv => ReportedIsAcked
  BY DEF ReportInv
<1> QED BY <1>1, InitReportInv, NextReportInv, PTL DEF Spec

-----------------------------------------------------------------------------
(* Types                                                                   *)

BooleanInv ==
  /\ {go, crashed, connected_to_broker, connected_to_mqtt, throttled} \subseteq BOOLEAN
  /\ {amqp_up, amqp_alive, mqtt_up, mqtt_alive, client_connected} \subseteq BOOLEAN

Bound == {"amqp", "mqtt", "losses", "stops", "crashes"}

(* The types that AmqpInv and ReportInv do not give.                       *)
PlaceInv ==
  /\ pc \in PC /\ msg \in Buffer /\ ctx \in {"null", "allocated", "freed"}
  /\ fed \in Nat /\ acked \subseteq Samples /\ bounds \in [Bound -> Nat]

LEMMA SpendFacts ==
  ASSUME bounds \in [Bound -> Nat], NEW b \in Bound, NEW max, Spend(b, max)
  PROVE  bounds' \in [Bound -> Nat]
<1>1. bounds[b] + 1 \in Nat /\ bounds' = [bounds EXCEPT ![b] = bounds[b] + 1]
  BY DEF Spend
<1> QED BY <1>1

LEMMA NextBooleanInv == BooleanInv /\ [Next]_vars => BooleanInv'
<1> SUFFICES ASSUME BooleanInv, [Next]_vars PROVE BooleanInv'
  OBVIOUS
<1> USE DEF BooleanInv, queues, process, amqp, mqtt, links
<1>1. CASE InitAmqp
  BY <1>1 DEF InitAmqp, ConnectAmqp, retry_connect
<1>2. CASE InitMqtt
  BY <1>2 DEF InitMqtt, ConnectMqtt
<1>3. CASE Loop \/ Receive \/ AmqpCheck \/ AmqpSend \/ AmqpRetry
  BY <1>3 DEF Loop, Receive, AmqpCheck, AmqpSend, AmqpRetry
<1>4. CASE ReceiveNothing
  BY <1>4 DEF ReceiveNothing, mqtt_try_reconnect, ConnectMqtt
<1>5. CASE MqttCheck
  BY <1>5 DEF MqttCheck, mqtt_try_reconnect, ConnectMqtt
<1>6. CASE PublishAcked \/ PublishFailed \/ Report
  BY <1>6 DEF PublishAcked, PublishFailed, Report
<1>7. CASE Disconnect
  <2>1. client_connected' \in BOOLEAN /\ mqtt_alive' \in BOOLEAN
    BY <1>7 DEF Disconnect
  <2> QED BY <1>7, <2>1 DEF Disconnect
<1>8. CASE FreeContext \/ Exit \/ Kill \/ PowerLoss \/ signal_callback_handler \/ Restart
  BY <1>8 DEF FreeContext, Exit, Kill, PowerLoss, signal_callback_handler, Restart
<1>9. CASE Handler
  BY <1>9 DEF Handler, timer_handler, HandlerReturns, ConnectAmqp, retry_connect
<1>10. CASE AmqpDown \/ AmqpUp \/ MqttDown \/ MqttUp \/ SessionExpires \/ ClientNotices \/ ThrottleEnds
  BY <1>10 DEF AmqpDown, AmqpUp, MqttDown, MqttUp, SessionExpires, ClientNotices, ThrottleEnds
<1>11. CASE Drain \/ \E k \in Samples : Capture(k) \/ Feed(k)
  BY <1>11 DEF Drain, Capture, Feed
<1>12. CASE UNCHANGED vars
  BY <1>12 DEF vars
<1> QED
  BY <1>1, <1>2, <1>3, <1>4, <1>5, <1>6, <1>7, <1>8, <1>9, <1>10, <1>11, <1>12
  DEF Next, Local, Main, Brokers, Neighbours

LEMMA NextHandling == handling \in BOOLEAN /\ [Next]_vars => (handling \in BOOLEAN)'
BY DEF Next, Local, Main, Handler, timer_handler, HandlerReturns, signal_callback_handler,
       Kill, Restart, PowerLoss, Brokers, Neighbours, vars

LEMMA NextPlaceInv == PlaceInv /\ ReportInv /\ ReportInv' /\ [Next]_vars => PlaceInv'
<1> SUFFICES ASSUME PlaceInv, ReportInv, ReportInv', [Next]_vars PROVE PlaceInv'
  OBVIOUS
<1> USE DEF PlaceInv, PC, queues, process, amqp
<1>0. NoMsg \in Buffer /\ EMDCsample \subseteq Buffer
  BY DEF Buffer
<1>1. CASE InitAmqp \/ InitMqtt \/ Loop \/ ReceiveNothing
  BY <1>1 DEF InitAmqp, InitMqtt, Loop, ReceiveNothing
<1>2. CASE Receive
  <2>1. pc' = "amqp" /\ UNCHANGED <<ctx, fed, acked, bounds>>
    BY <1>2 DEF Receive
  <2>2. msg' \in EMDCsample
    BY <2>1 DEF ReportInv, Holding
  <2> QED BY <1>0, <2>1, <2>2
<1>3. CASE AmqpCheck \/ AmqpSend \/ AmqpRetry
  BY <1>3 DEF AmqpCheck, AmqpSend, AmqpRetry
<1>4. CASE MqttCheck
  <2>1. pc' \in {"publish", "loop"} /\ msg' \in {msg, NoMsg} /\ UNCHANGED <<ctx, fed, acked, bounds>>
    BY <1>4 DEF MqttCheck
  <2> QED BY <1>0, <2>1
<1>5. CASE PublishAcked
  <2>1. /\ pc = "publish" /\ pc' = "report" /\ acked' = acked \cup {msg.sample}
        /\ UNCHANGED <<ctx, fed, bounds>>
    BY <1>5 DEF PublishAcked
  <2>2. msg \in EMDCsample /\ msg' \in EMDCsample
    BY <2>1 DEF ReportInv, Holding
  <2>3. msg.sample \in Samples
    BY <2>2 DEF EMDCsample
  <2> QED BY <1>0, <2>1, <2>2, <2>3
<1>6. CASE PublishFailed
  <2>1. bounds' \in [Bound -> Nat]
    BY <1>6, SpendFacts DEF PublishFailed, Bound
  <2> QED BY <1>0, <1>6, <2>1 DEF PublishFailed
<1>7. CASE Report \/ Disconnect \/ FreeContext \/ Exit
  BY <1>0, <1>7 DEF Report, Disconnect, FreeContext, Exit
<1>8. CASE Handler
  BY <1>8 DEF Handler, timer_handler, HandlerReturns
<1>9. CASE signal_callback_handler
  <2>1. bounds' \in [Bound -> Nat]
    BY <1>9, SpendFacts DEF signal_callback_handler, Bound
  <2> QED BY <1>9, <2>1 DEF signal_callback_handler
<1>10. CASE Kill \/ PowerLoss
  <2>1. bounds' \in [Bound -> Nat]
    BY <1>10, SpendFacts DEF Kill, PowerLoss, Bound
  <2> QED BY <1>10, <2>1 DEF Kill, PowerLoss
<1>11. CASE Restart
  BY <1>0, <1>11 DEF Restart
<1>12. CASE AmqpDown \/ MqttDown \/ SessionExpires
  <2>1. bounds' \in [Bound -> Nat]
    BY <1>12, SpendFacts DEF AmqpDown, MqttDown, SessionExpires, Bound
  <2> QED BY <1>12, <2>1 DEF AmqpDown, MqttDown, SessionExpires
<1>13. CASE AmqpUp \/ MqttUp \/ ClientNotices \/ ThrottleEnds \/ Drain
  BY <1>13 DEF AmqpUp, MqttUp, ClientNotices, ThrottleEnds, Drain
<1>14. CASE \E k \in Samples : Capture(k) \/ Feed(k)
  BY <1>14 DEF Capture, Feed
<1>15. CASE UNCHANGED vars
  BY <1>15 DEF vars
<1> QED
  BY <1>1, <1>2, <1>3, <1>4, <1>5, <1>6, <1>7, <1>8, <1>9, <1>10, <1>11, <1>12, <1>13, <1>14, <1>15
  DEF Next, Local, Main, Brokers, Neighbours

(* Type correctness of datapublish: messages, queue lengths, and the place *)
(* of main with the message it must have in hand there.                    *)
THEOREM TypeCorrect == Spec => []TypeOK
<1>1. Init => BooleanInv /\ PlaceInv /\ ReportInv /\ handling \in BOOLEAN
  <2> SUFFICES ASSUME Init PROVE BooleanInv /\ PlaceInv /\ handling \in BOOLEAN
    BY InitReportInv
  <2>1. bounds \in [Bound -> Nat]
    BY DEF Init, Bound
  <2> QED BY <2>1 DEF Init, BooleanInv, PlaceInv, PC, Buffer
<1>2. BooleanInv /\ PlaceInv /\ ReportInv /\ [Next]_vars => (BooleanInv /\ PlaceInv /\ ReportInv)'
  BY NextBooleanInv, NextPlaceInv, NextReportInv
<1>3. BooleanInv /\ PlaceInv /\ ReportInv /\ AmqpInv /\ handling \in BOOLEAN => TypeOK
  BY NoMsgAssumption DEF BooleanInv, PlaceInv, ReportInv, AmqpInv, TypeOK, Holding, Bound
<1> QED BY <1>1, <1>2, <1>3, NextHandling, AmqpInvariance, PTL DEF Spec

-----------------------------------------------------------------------------
(* datapublish is the publisher dbmgr relies on.  What it holds is fresh   *)
(* until it reports it, and it holds nothing outside publish_message.      *)
HoldingInv ==
  /\ pc \notin Holding \cup {"down"} => msg = NoMsg
  /\ pc \in Holding \ {"report"} => msg.status = STATUS_TO_DELIVER
  /\ \A m \in InQueue(qout) : m.status = STATUS_TO_DELIVER

PublisherInv == ReportInv /\ HoldingInv

LEMMA NeighbourKeepsHolding ==
  ReportInv /\ HoldingInv /\ Contract!Neighbour /\ UNCHANGED <<pc, msg, acked>> => HoldingInv'
BY QueuesOfNeighbour DEF HoldingInv

LEMMA NextHoldingInv == PublisherInv /\ [Next]_vars => HoldingInv'
<1> SUFFICES ASSUME ReportInv, HoldingInv, [Next]_vars PROVE HoldingInv'
  BY DEF PublisherInv
<1> USE DEF queues, process
<1> DEFINE Quiet == UNCHANGED <<qout, msg>> /\ (pc' = pc \/ pc' = "down"
                      \/ (pc \notin Holding \cup {"down"} /\ pc' \notin Holding))
<1>0. CASE Quiet
  BY <1>0 DEF HoldingInv, InQueue, Holding
<1>1. CASE AmqpCheck \/ AmqpSend \/ AmqpRetry
  <2>1. UNCHANGED <<qout, msg>> /\ pc \in Holding \ {"report"} /\ pc' \in Holding \ {"report"}
    BY <1>1 DEF AmqpCheck, AmqpSend, AmqpRetry, Holding
  <2> QED BY <2>1 DEF HoldingInv, InQueue
<1>2. CASE Receive
  <2>1. /\ EMDC_queue_rcv(qout, msg', qout') /\ pc' = "amqp"
        /\ qout \in Seq(EMDCsample) /\ Len(qout) <= QoutMax /\ QoutMax \in Nat
    BY <1>2, DataPublishAssumption DEF Receive, ReportInv
  <2>2. msg' \in InQueue(qout) /\ InQueue(qout') \subseteq InQueue(qout)
    BY <2>1, ReceiveFacts
  <2>3. InQueue(qout)' = InQueue(qout')
    BY DEF InQueue
  <2> QED BY <2>1, <2>2, <2>3 DEF HoldingInv, Holding
<1>3. CASE MqttCheck
  <2>1. /\ pc = "mqtt" /\ UNCHANGED qout
        /\ (pc' = "publish" /\ msg' = msg) \/ (pc' = "loop" /\ msg' = NoMsg)
    BY <1>3 DEF MqttCheck
  <2> QED BY <2>1 DEF HoldingInv, Holding, InQueue
<1>4. CASE PublishAcked
  BY <1>4 DEF PublishAcked, HoldingInv, Holding, InQueue
<1>5. CASE PublishFailed \/ Report \/ Restart
  <2>1. UNCHANGED qout /\ msg' = NoMsg /\ pc' \in {"loop", "init_amqp"}
    BY <1>5 DEF PublishFailed, Report, Restart
  <2> QED BY <2>1 DEF HoldingInv, Holding, InQueue
<1>6. CASE Neighbours
  BY <1>6, NeighbourFacts, NeighbourKeepsHolding
<1>7. InitAmqp \/ InitMqtt \/ Loop \/ ReceiveNothing \/ Disconnect \/ FreeContext \/ Exit => Quiet
  BY DEF InitAmqp, InitMqtt, Loop, ReceiveNothing, Unreceived, Disconnect, FreeContext, Exit, Holding
<1>8. Handler \/ signal_callback_handler \/ Kill \/ UNCHANGED vars => Quiet
  BY DEF Handler, timer_handler, HandlerReturns, Holding, signal_callback_handler, Kill, vars
<1>9. AmqpDown \/ AmqpUp \/ MqttDown \/ MqttUp \/ SessionExpires \/ ClientNotices \/ ThrottleEnds => Quiet
  BY DEF AmqpDown, AmqpUp, MqttDown, MqttUp, SessionExpires, ClientNotices, ThrottleEnds
<1>10. CASE PowerLoss
  BY <1>10 DEF PowerLoss, HoldingInv, InQueue, Holding
<1> HIDE DEF Quiet
<1> QED BY <1>0, <1>1, <1>2, <1>3, <1>4, <1>5, <1>6, <1>7, <1>8, <1>9, <1>10
        DEF Next, Local, Main, Brokers

(* Each step of the program, and of the brokers, is one of the contract's  *)
(* publisher, or nothing to the queues.                                    *)
LEMMA LocalIsPublisher == PublisherInv /\ Local => Contract!Step \/ UNCHANGED Contract!vars
<1> DEFINE p == IF pc = "down" THEN NoMsg ELSE msg
<1> SUFFICES ASSUME ReportInv, HoldingInv, Local PROVE Contract!Step \/ UNCHANGED Contract!vars
  BY DEF PublisherInv
<1> USE DEF queues, process
<1> DEFINE Mute == UNCHANGED <<qin, qout, acked>> /\ (p' = p \/ p' = NoMsg)
<1>0. CASE Mute
  BY <1>0 DEF Contract!Step, Contract!Lose, Contract!vars
<1>1. CASE Receive
  <2>1. pc = "receive" /\ pc' = "amqp" /\ EMDC_queue_rcv(qout, msg', qout') /\ UNCHANGED <<qin, acked>>
    BY <1>1 DEF Receive
  <2>2. p = NoMsg /\ p' = msg'
    BY <2>1 DEF HoldingInv, Holding
  <2>3. Contract!Receive
    BY <2>1, <2>2 DEF Contract!Receive, Contract!EMDC_queue_rcv, EMDC_queue_rcv
  <2> QED BY <2>3 DEF Contract!Step
<1>2. CASE PublishAcked
  <2>1. /\ pc = "publish" /\ pc' = "report" /\ UNCHANGED <<qin, qout>>
        /\ msg' = Delivered(msg) /\ acked' = acked \cup {msg.sample}
    BY <1>2 DEF PublishAcked
  <2>2. msg \in EMDCsample /\ msg.status = STATUS_TO_DELIVER /\ msg # NoMsg
    BY <2>1, NoMsgAssumption DEF ReportInv, HoldingInv, Holding
  <2>3. p = msg /\ p' = msg'
    BY <2>1
  <2>4. Contract!Acknowledge
    BY <2>1, <2>2, <2>3 DEF Contract!Acknowledge, Contract!Delivered, Delivered,
       Contract!STATUS_TO_DELIVER, STATUS_TO_DELIVER, Contract!STATUS_DELIVERED, STATUS_DELIVERED
  <2> QED BY <2>4 DEF Contract!Step
<1>3. CASE Report
  <2>1. /\ pc = "report" /\ pc' = "loop" /\ UNCHANGED <<qout, acked>> /\ msg' = NoMsg
        /\ qin' = EMDC_queue_send(qin, QinMax, msg)
    BY <1>3 DEF Report
  <2>2. msg # NoMsg /\ msg.status = STATUS_DELIVERED
    BY <2>1, NoMsgAssumption DEF ReportInv, Holding
  <2>3. p = msg /\ p' = NoMsg
    BY <2>1
  <2>4. Contract!Report
    BY <2>1, <2>2, <2>3 DEF Contract!Report, Contract!EMDC_queue_send, EMDC_queue_send,
       Contract!STATUS_DELIVERED, STATUS_DELIVERED
  <2> QED BY <2>4 DEF Contract!Step
<1>4. InitAmqp \/ InitMqtt \/ Loop \/ ReceiveNothing \/ Disconnect \/ FreeContext \/ Exit => Mute
  BY DEF InitAmqp, InitMqtt, Loop, ReceiveNothing, Unreceived, Disconnect, FreeContext, Exit
<1>5. AmqpCheck \/ AmqpSend \/ AmqpRetry \/ MqttCheck \/ PublishFailed => Mute
  BY DEF AmqpCheck, AmqpSend, AmqpRetry, MqttCheck, PublishFailed
<1>6. Handler \/ signal_callback_handler \/ Kill \/ Restart => Mute
  BY DEF Handler, timer_handler, HandlerReturns, Holding, signal_callback_handler, Kill, Restart
<1>7. AmqpDown \/ AmqpUp \/ MqttDown \/ MqttUp \/ SessionExpires \/ ClientNotices \/ ThrottleEnds => Mute
  BY DEF AmqpDown, AmqpUp, MqttDown, MqttUp, SessionExpires, ClientNotices, ThrottleEnds
<1> HIDE DEF Mute
<1> QED BY <1>0, <1>1, <1>2, <1>3, <1>4, <1>5, <1>6, <1>7 DEF Local, Main, Brokers

(* Seen from the queues, each step of the program is one of the contract's *)
(* publisher, each of its neighbours' one of the neighbours, or nothing.   *)
Allowed == Contract!Step \/ Contract!PowerLoss \/ (Neighbours /\ Contract!Neighbour)

LEMMA StepIsPublisher == PublisherInv /\ [Next]_vars => [Allowed]_(Contract!vars)
<1> SUFFICES ASSUME PublisherInv, [Next]_vars PROVE [Allowed]_(Contract!vars)
  OBVIOUS
<1>1. CASE Local
  BY <1>1, LocalIsPublisher DEF Allowed
<1>2. CASE PowerLoss
  BY <1>2 DEF PowerLoss, Contract!PowerLoss, Allowed
<1>3. CASE Neighbours
  BY <1>3, NeighbourFacts DEF Allowed
<1>4. CASE UNCHANGED vars
  BY <1>4 DEF vars, queues, process, Contract!vars
<1> QED BY <1>1, <1>2, <1>3, <1>4 DEF Next

(* Every behaviour of datapublish, seen from its two queues, is one of the *)
(* publisher beside which DbMgr is modelled (main_loop, publish_message,   *)
(* and every way the process can end).                                     *)
THEOREM IsPublisherHolds == Spec => IsPublisher
<1>1. Init => Contract!Init
  BY DEF Init, Contract!Init
<1>2. Init => PublisherInv
  <2> SUFFICES ASSUME Init PROVE HoldingInv
    BY InitReportInv DEF PublisherInv
  <2> QED BY DEF Init, HoldingInv, Holding, InQueue
<1>3. PublisherInv /\ [Next]_vars => PublisherInv'
  BY NextReportInv, NextHoldingInv DEF PublisherInv
<1> QED BY <1>1, <1>2, <1>3, StepIsPublisher, PTL DEF Spec, IsPublisher, Allowed

(* The same as a refinement: datapublish and its surroundings implement    *)
(* the contract of the two queues.                                         *)
THEOREM ImplementsPublisher == Spec => Contract!Spec
<1>1. [Allowed]_(Contract!vars) => [Contract!Next]_(Contract!vars)
  BY DEF Allowed, Contract!Next
<1> QED BY <1>1, IsPublisherHolds, PTL DEF IsPublisher, Allowed, Contract!Spec
=============================================================================
