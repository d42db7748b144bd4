---------------------------- MODULE DataPublish ----------------------------
(* EMDCdatapublish (datapublish.c): it takes samples from /qout, sends     *)
(* each to RabbitMQ (when connected) and to the MQTT broker, and reports   *)
(* on /qin the ones the MQTT broker acknowledged.                          *)
(*                                                                         *)
(* Two threads of control share the AMQP context and connected_to_broker:  *)
(* main, and timer_handler, a signal handler that comes between any two of *)
(* main's steps.  Long calls are therefore more than one step here: pc =   *)
(* "amqp_send" is main inside AMQP_Sendmessage.  The handler's own call    *)
(* may be long too, and main stands still meanwhile.                       *)
EXTENDS EmdcSample, PosixQueue

CONSTANTS QinMax, QoutMax,  \* mq_maxmsg of the two queues
          EnableAmqp,       \* [DATAPUBLISH]ENABLE_AMQP
          MaxTimers,        \* timers a process may create (RLIMIT_SIGPENDING)
          MaxFed,           \* bound: samples others put on the queues
          AmqpOutages, MqttOutages, \* bound: how often each broker goes down
          MaxLosses,        \* bound: answers too late, and sessions that expire
          MaxStops,         \* bound: SIGINT or SIGTERM
          MaxCrashes        \* bound: the process is killed

ASSUME DataPublishAssumption ==
  /\ QinMax \in Nat \ {0} /\ QoutMax \in Nat \ {0}
  /\ EnableAmqp \in BOOLEAN
  /\ {MaxTimers, MaxFed, AmqpOutages, MqttOutages, MaxLosses, MaxStops, MaxCrashes} \subseteq Nat

VARIABLES
  qin, qout, fed,               \* the queues; how many samples others have sent
  pc, msg, go, crashed,         \* main; whether it ended with a fault
  ctx,                          \* globals.ctx: "null", "allocated", "freed"
  connected_to_broker,          \* what the program believes of AMQP
  timers, armed,                \* timers created; those not yet expired
  handling,                     \* timer_handler is in AMQP_Init
  amqp_up, amqp_alive,          \* RabbitMQ; the connection ctx holds
  connected_to_mqtt, throttled, \* what it believes of MQTT; less than
                                \* RETRY_CONNECTION_TIME since its last try
  mqtt_up, mqtt_alive,          \* the MQTT broker; the session with it
  client_connected,             \* MQTTClient_isConnected
  acked,                        \* samples whose acknowledgement was heard
  bounds                        \* what the bounds count

queues == <<qin, qout, fed>>
process == <<msg, go, crashed>>
amqp == <<ctx, connected_to_broker, timers, armed>>
mqtt == <<connected_to_mqtt, throttled>>
links == <<amqp_up, amqp_alive, mqtt_up, mqtt_alive, client_connected>>
vars == <<queues, pc, process, amqp, handling, mqtt, links, acked, bounds>>

Init ==
  /\ qin = <<>> /\ qout = <<>> /\ fed = 0
  /\ pc = "init_amqp" /\ msg = NoMsg /\ go = TRUE /\ crashed = FALSE
  /\ ctx = "null" /\ connected_to_broker = FALSE /\ timers = 0 /\ armed = 0
  /\ handling = FALSE
  /\ amqp_up \in BOOLEAN /\ amqp_alive = FALSE
  /\ connected_to_mqtt = FALSE /\ throttled = FALSE
  /\ mqtt_up \in BOOLEAN /\ mqtt_alive = FALSE /\ client_connected = FALSE
  /\ acked = {}
  /\ bounds = [amqp |-> 0, mqtt |-> 0, losses |-> 0, stops |-> 0, crashes |-> 0]

Spend(b, max) == bounds[b] < max /\ bounds' = [bounds EXCEPT ![b] = @ + 1]

-----------------------------------------------------------------------------
(* The AMQP connection                                                     *)

(* A mutation of retry_connect: it gives up on the second call.            *)
RetryOnce(left) ==
  IF timers < 1 THEN timers' = timers + 1 /\ armed' = left + 1
                ELSE timers' = timers /\ armed' = left

(* retry_connect creates a one-shot timer, besides the left ones that are  *)
(* armed, and never deletes one.  When timer_create fails, nothing is      *)
(* armed, and no caller looks at the result.                               *)
retry_connect(left) ==
  IF timers < MaxTimers THEN timers' = timers + 1 /\ armed' = left + 1
                        ELSE timers' = timers /\ armed' = left

(* AMQP_Init fills the context anew; its callers set connected_to_broker   *)
(* or arm a retry.                                                         *)
ConnectAmqp(left) ==
  /\ amqp_alive' = amqp_up
  /\ IF amqp_up THEN connected_to_broker' = TRUE /\ armed' = left /\ UNCHANGED timers
                ELSE retry_connect(left) /\ UNCHANGED connected_to_broker

(* init, lines 331 to 351.                                                 *)
InitAmqp ==
  /\ pc = "init_amqp" /\ pc' = "init_mqtt"
  /\ IF EnableAmqp
     THEN ctx' = "allocated" /\ ConnectAmqp(armed)
     ELSE UNCHANGED <<amqp, amqp_alive>>
  /\ UNCHANGED <<queues, process, mqtt, amqp_up, mqtt_up, mqtt_alive, client_connected,
                 acked, bounds>>

(* A timer expires while main is anywhere, and timer_handler calls         *)
(* AMQP_Init.  It does not look at ctx: after fini has set it to NULL it   *)
(* faults; on freed memory it may fault or go on.                          *)
timer_handler ==
  /\ armed > 0 /\ ~handling /\ pc # "down"
  /\ \/ /\ ctx # "null" /\ handling' = TRUE /\ armed' = armed - 1
        /\ UNCHANGED <<pc, crashed, timers>>
     \/ /\ ctx # "allocated" /\ UNCHANGED handling
        /\ pc' = "down" /\ crashed' = TRUE /\ timers' = 0 /\ armed' = 0
  /\ UNCHANGED <<queues, msg, go, ctx, connected_to_broker, mqtt, links, acked, bounds>>

(* AMQP_Init returns, after however long, and so does the handler.  A      *)
(* receive that main was asleep in has been interrupted.                   *)
HandlerReturns ==
  /\ handling /\ handling' = FALSE
  /\ ConnectAmqp(armed)
  /\ pc' \in {pc} \cup (IF pc = "receive" THEN {"interrupted"} ELSE {})
  /\ UNCHANGED <<queues, process, ctx, mqtt, amqp_up, mqtt_up, mqtt_alive, client_connected,
                 acked, bounds>>

-----------------------------------------------------------------------------
(* The MQTT connection                                                     *)

(* MQTTClient_connect succeeds when the broker is there.                   *)
ConnectMqtt ==
  /\ connected_to_mqtt' = mqtt_up /\ client_connected' = mqtt_up /\ mqtt_alive' = mqtt_up

(* mqtt_try_reconnect, called with the flag equal to believed.             *)
mqtt_try_reconnect(believed) ==
  IF throttled
  THEN connected_to_mqtt' = believed /\ UNCHANGED <<throttled, mqtt_alive, client_connected>>
  ELSE /\ throttled' = TRUE
       /\ IF client_connected
          THEN connected_to_mqtt' = TRUE /\ UNCHANGED <<mqtt_alive, client_connected>>
          ELSE ConnectMqtt

(* One round of mqtt_init_until_connected, or its end because of a signal. *)
InitMqtt ==
  /\ pc = "init_mqtt"
  /\ IF go THEN /\ ConnectMqtt
                /\ pc' = IF connected_to_mqtt' THEN "loop" ELSE "init_mqtt"
           ELSE /\ pc' = "loop"
                /\ UNCHANGED <<connected_to_mqtt, client_connected, mqtt_alive>>
  /\ UNCHANGED <<queues, process, amqp, throttled, amqp_up, amqp_alive, mqtt_up, acked, bounds>>

-----------------------------------------------------------------------------
(* The main loop                                                           *)

(* A mutation of Loop: "while (1)".                                        *)
LoopForever ==
  /\ pc = "loop" /\ pc' = "receive"
  /\ UNCHANGED <<queues, process, amqp, mqtt, links, acked, bounds>>

(* "while (go)"                                                            *)
Loop ==
  /\ pc = "loop" /\ pc' = IF go THEN "receive" ELSE "fini"
  /\ UNCHANGED <<queues, process, amqp, mqtt, links, acked, bounds>>

Receive ==
  /\ pc = "receive" /\ pc' = "amqp"
  /\ EMDC_queue_rcv(qout, msg', qout')
  /\ UNCHANGED <<qin, fed, go, crashed, amqp, mqtt, links, acked, bounds>>

(* The receive timed out or was interrupted (then there may be a message). *)
Unreceived == pc = "interrupted" \/ (pc = "receive" /\ EMDC_queue_rcv_timeout(qout))

(* A mutation of ReceiveNothing: an idle program never reconnects.         *)
ReceiveNothingIdle ==
  /\ Unreceived /\ pc' = "loop"
  /\ UNCHANGED <<queues, process, amqp, mqtt, links, acked, bounds>>

(* Without a message: reconnect, if the flag says that the connection is   *)
(* lost.                                                                   *)
ReceiveNothing ==
  /\ Unreceived /\ pc' = "loop"
  /\ IF connected_to_mqtt
     THEN UNCHANGED <<mqtt, mqtt_alive, client_connected>>
     ELSE mqtt_try_reconnect(FALSE)
  /\ UNCHANGED <<queues, process, amqp, amqp_up, amqp_alive, mqtt_up, acked, bounds>>

(* publish_message: "if (connected_to_broker == 1)".                       *)
AmqpCheck ==
  /\ pc = "amqp" /\ pc' = IF connected_to_broker THEN "amqp_send" ELSE "mqtt"
  /\ UNCHANGED <<queues, process, amqp, mqtt, links, acked, bounds>>

(* A mutation of AmqpSend: after an error the flag is left standing.       *)
AmqpSendKeepsFlag ==
  /\ pc = "amqp_send"
  /\ \/ pc' = "mqtt"
     \/ pc' = "amqp_retry" /\ ~amqp_alive
  /\ UNCHANGED <<queues, process, amqp, mqtt, links, acked, bounds>>

(* A mutation of AmqpSend: an error ends publish_message.                  *)
AmqpSendReturns ==
  /\ pc = "amqp_send"
  /\ \/ pc' = "mqtt" /\ UNCHANGED <<msg, connected_to_broker, timers, armed>>
     \/ /\ pc' = "loop" /\ ~amqp_alive /\ connected_to_broker' = FALSE /\ msg' = NoMsg
        /\ retry_connect(armed)
  /\ UNCHANGED <<queues, go, crashed, ctx, mqtt, links, acked, bounds>>

(* AMQP_Sendmessage returns.  On a dead connection it may still succeed:   *)
(* the kernel buffers what is written.  An error resets the flag.          *)
AmqpSend ==
  /\ pc = "amqp_send"
  /\ \/ pc' = "mqtt" /\ UNCHANGED connected_to_broker
     \/ pc' = "amqp_retry" /\ ~amqp_alive /\ connected_to_broker' = FALSE
  /\ UNCHANGED <<queues, process, ctx, timers, armed, mqtt, links, acked, bounds>>

(* A mutation of AmqpRetry: the context of the lost connection is freed.   *)
AmqpRetryFrees ==
  /\ pc = "amqp_retry" /\ pc' = "mqtt" /\ ctx' = "freed"
  /\ retry_connect(armed)
  /\ UNCHANGED <<queues, process, connected_to_broker, mqtt, links, acked, bounds>>

(* The retry_connect that follows.                                         *)
AmqpRetry ==
  /\ pc = "amqp_retry" /\ pc' = "mqtt"
  /\ retry_connect(armed)
  /\ UNCHANGED <<queues, process, ctx, connected_to_broker, mqtt, links, acked, bounds>>

(* mqtt_publish_json, up to the publish: a message that finds no           *)
(* connection, and no leave to reconnect, is dropped.                      *)
MqttCheck ==
  /\ pc = "mqtt"
  /\ IF connected_to_mqtt /\ client_connected
     THEN UNCHANGED <<mqtt, mqtt_alive, client_connected>>
     ELSE mqtt_try_reconnect(FALSE)
  /\ pc' = IF connected_to_mqtt' THEN "publish" ELSE "loop"
  /\ msg' = IF connected_to_mqtt' THEN msg ELSE NoMsg
  /\ UNCHANGED <<queues, go, crashed, amqp, amqp_up, amqp_alive, mqtt_up, acked, bounds>>

(* A mutation of PublishAcked: marked before the broker has answered.      *)
PublishUnheard ==
  /\ pc = "publish" /\ pc' = "report"
  /\ msg' = Delivered(msg) /\ UNCHANGED acked
  /\ UNCHANGED <<queues, go, crashed, amqp, connected_to_mqtt, throttled, links, bounds>>

(* MQTTClient_publishMessage and _waitForCompletion succeed: the sample is *)
(* marked DELIVERED.                                                       *)
PublishAcked ==
  /\ pc = "publish" /\ mqtt_alive /\ pc' = "report"
  /\ acked' = acked \cup {msg.sample} /\ msg' = Delivered(msg)
  /\ connected_to_mqtt' = TRUE
  /\ UNCHANGED <<queues, go, crashed, amqp, throttled, links, bounds>>

(* A mutation of PublishFailed: it answers, as the lines commented out do, *)
(* and forgets to change the status.                                       *)
PublishFailedAnswers ==
  /\ pc = "publish" /\ pc' = "loop" /\ msg' = NoMsg
  /\ ~mqtt_alive /\ connected_to_mqtt' = FALSE
  /\ qin' = EMDC_queue_send(qin, QinMax, msg)
  /\ UNCHANGED <<qout, fed, go, crashed, amqp, throttled, links, acked, bounds>>

(* One of them fails: the session is dead, or more than three seconds have *)
(* passed without the answer, because it is late or because timer_handler  *)
(* held main up.  The sample is dropped.                                   *)
PublishFailed ==
  /\ pc = "publish" /\ pc' = "loop" /\ msg' = NoMsg
  /\ \/ ~mqtt_alive /\ UNCHANGED bounds
     \/ mqtt_alive /\ Spend("losses", MaxLosses)
  /\ connected_to_mqtt' = FALSE
  /\ UNCHANGED <<queues, go, crashed, amqp, throttled, links, acked>>

(* EMDC_queue_send (globals.queue_out, buffer): without blocking, the      *)
(* result ignored.                                                         *)
Report ==
  /\ pc = "report" /\ pc' = "loop" /\ msg' = NoMsg
  /\ qin' = EMDC_queue_send(qin, QinMax, msg)
  /\ UNCHANGED <<qout, fed, go, crashed, amqp, mqtt, links, acked, bounds>>

-----------------------------------------------------------------------------
(* The end of the program                                                  *)

(* fini: MQTTClient_disconnect.                                            *)
Disconnect ==
  /\ pc = "fini" /\ pc' = IF ctx # "null" THEN "free" ELSE "exit"
  /\ client_connected' = (client_connected /\ ~connected_to_mqtt)
  /\ mqtt_alive' = (mqtt_alive /\ ~connected_to_mqtt)
  /\ UNCHANGED <<queues, process, amqp, mqtt, amqp_up, amqp_alive, mqtt_up, acked, bounds>>

(* "free(globals.ctx)", then "globals.ctx = NULL".                         *)
FreeContext ==
  /\ pc \in {"free", "clear"}
  /\ pc' = IF pc = "free" THEN "clear" ELSE "exit"
  /\ ctx' = IF pc = "free" THEN "freed" ELSE "null"
  /\ UNCHANGED <<queues, process, connected_to_broker, timers, armed, mqtt, links, acked, bounds>>

(* main returns: the process's timers end with it.                         *)
Exit ==
  /\ pc = "exit" /\ pc' = "down" /\ timers' = 0 /\ armed' = 0
  /\ UNCHANGED <<queues, process, ctx, connected_to_broker, mqtt, links, acked, bounds>>

signal_callback_handler ==
  /\ pc \notin {"init_amqp", "down"} /\ go
  /\ go' = FALSE /\ Spend("stops", MaxStops)
  /\ UNCHANGED <<queues, pc, msg, crashed, amqp, handling, mqtt, links, acked>>

Kill ==
  /\ pc # "down" /\ pc' = "down" /\ timers' = 0 /\ armed' = 0 /\ handling' = FALSE
  /\ Spend("crashes", MaxCrashes)
  /\ UNCHANGED <<queues, process, ctx, connected_to_broker, mqtt, links, acked>>

(* The machine goes down: the queues are lost.                             *)
PowerLoss ==
  /\ pc' = "down" /\ timers' = 0 /\ armed' = 0 /\ handling' = FALSE
  /\ qin' = <<>> /\ qout' = <<>> /\ Spend("crashes", MaxCrashes)
  /\ UNCHANGED <<fed, process, ctx, connected_to_broker, mqtt, links, acked>>

(* The program is started again: everything but the queues is new.         *)
Restart ==
  /\ pc = "down" /\ pc' = "init_amqp"
  /\ msg' = NoMsg /\ go' = TRUE /\ crashed' = FALSE
  /\ ctx' = "null" /\ connected_to_broker' = FALSE /\ timers' = 0 /\ armed' = 0
  /\ amqp_alive' = FALSE /\ mqtt_alive' = FALSE /\ client_connected' = FALSE
  /\ connected_to_mqtt' = FALSE /\ throttled' = FALSE
  /\ UNCHANGED <<queues, handling, amqp_up, mqtt_up, acked, bounds>>

-----------------------------------------------------------------------------
(* The environment                                                         *)

(* A data capture sends a sample; dbmgr forwards one; dbmgr takes one, or  *)
(* a report.                                                               *)
Capture(k) ==
  /\ fed < MaxFed /\ Len(qin) < QinMax
  /\ qin' = EMDC_queue_send(qin, QinMax, Fresh(k)) /\ fed' = fed + 1
  /\ UNCHANGED <<qout, pc, process, amqp, mqtt, links, acked, bounds>>

Feed(k) ==
  /\ fed < MaxFed /\ Len(qout) < QoutMax
  /\ qout' = EMDC_queue_send(qout, QoutMax, Fresh(k)) /\ fed' = fed + 1
  /\ UNCHANGED <<qin, pc, process, amqp, mqtt, links, acked, bounds>>

Drain ==
  /\ qin # <<>> /\ qin' = Tail(qin)
  /\ UNCHANGED <<qout, fed, pc, process, amqp, mqtt, links, acked, bounds>>

AmqpDown ==
  /\ amqp_up /\ amqp_up' = FALSE /\ amqp_alive' = FALSE
  /\ Spend("amqp", AmqpOutages)
  /\ UNCHANGED <<queues, pc, process, amqp, mqtt, mqtt_up, mqtt_alive, client_connected, acked>>

AmqpUp ==
  /\ ~amqp_up /\ amqp_up' = TRUE
  /\ UNCHANGED <<queues, pc, process, amqp, mqtt, amqp_alive, mqtt_up, mqtt_alive,
                 client_connected, acked, bounds>>

MqttDown ==
  /\ mqtt_up /\ mqtt_up' = FALSE /\ mqtt_alive' = FALSE
  /\ Spend("mqtt", MqttOutages)
  /\ UNCHANGED <<queues, pc, process, amqp, mqtt, amqp_up, amqp_alive, client_connected, acked>>

MqttUp ==
  /\ ~mqtt_up /\ mqtt_up' = TRUE
  /\ UNCHANGED <<queues, pc, process, amqp, mqtt, amqp_up, amqp_alive, mqtt_alive,
                 client_connected, acked, bounds>>

(* The session ends though the broker is there.  The client has no thread  *)
(* of its own (no callback is set): while main sleeps in the receive, or   *)
(* is held up by timer_handler, nobody keeps the session alive.            *)
SessionExpires ==
  /\ mqtt_alive /\ mqtt_alive' = FALSE
  /\ Spend("losses", MaxLosses)
  /\ UNCHANGED <<queues, pc, process, amqp, mqtt, amqp_up, amqp_alive, mqtt_up, client_connected, acked>>

(* The MQTT client library finds out that its session is dead.  It may do  *)
(* so at any time or, while nobody calls it, never.                        *)
ClientNotices ==
  /\ client_connected /\ ~mqtt_alive /\ client_connected' = FALSE
  /\ UNCHANGED <<queues, pc, process, amqp, mqtt, amqp_up, amqp_alive, mqtt_up, mqtt_alive,
                 acked, bounds>>

(* RETRY_CONNECTION_TIME has passed since the last reconnect.              *)
ThrottleEnds ==
  /\ throttled /\ throttled' = FALSE
  /\ UNCHANGED <<queues, pc, process, amqp, connected_to_mqtt, links, acked, bounds>>

-----------------------------------------------------------------------------
(* main, which stands still while the handler runs.                        *)
Main ==
  /\ ~handling /\ UNCHANGED handling
  /\ \/ InitAmqp \/ InitMqtt \/ Loop \/ Receive \/ ReceiveNothing
     \/ AmqpCheck \/ AmqpSend \/ AmqpRetry
     \/ MqttCheck \/ PublishAcked \/ PublishFailed \/ Report
     \/ Disconnect \/ FreeContext \/ Exit

Handler == timer_handler \/ HandlerReturns

Brokers ==
  /\ UNCHANGED handling
  /\ \/ AmqpDown \/ AmqpUp \/ MqttDown \/ MqttUp
     \/ SessionExpires \/ ClientNotices \/ ThrottleEnds

(* All but what its neighbours do to the queues.                           *)
Local == Main \/ Handler \/ signal_callback_handler \/ Kill \/ Restart \/ Brokers

Neighbours == UNCHANGED handling /\ (Drain \/ \E k \in Samples : Capture(k) \/ Feed(k))

Next == Local \/ PowerLoss \/ Neighbours

Spec == Init /\ [][Next]_vars

(* main is scheduled, an armed timer expires, AMQP_Init returns, a broker  *)
(* that went down comes back, and time passes.  Nobody need start the      *)
(* program again.                                                          *)
Passes(step) == UNCHANGED handling /\ step

Fairness ==
  /\ WF_vars(Main) /\ WF_vars(timer_handler) /\ WF_vars(HandlerReturns)
  /\ WF_vars(Passes(AmqpUp)) /\ WF_vars(Passes(MqttUp)) /\ WF_vars(Passes(ThrottleEnds))

FairSpec == Spec /\ Fairness

-----------------------------------------------------------------------------
(* Safety                                                                  *)

PC == {"init_amqp", "init_mqtt", "loop", "receive", "interrupted",
       "amqp", "amqp_send", "amqp_retry", "mqtt", "publish", "report", "fini", "free", "clear", "exit", "down"}

(* The types; no queue is longer than its mq_maxmsg.                       *)
TypeOK ==
  /\ qin \in Seq(EMDCsample) /\ Len(qin) <= QinMax
  /\ qout \in Seq(EMDCsample) /\ Len(qout) <= QoutMax
  /\ pc \in PC /\ msg \in Buffer
  /\ (pc \in {"amqp", "amqp_send", "amqp_retry", "mqtt", "publish", "report"} => msg # NoMsg)
  /\ ctx \in {"null", "allocated", "freed"}
  /\ {go, crashed, connected_to_broker, handling, connected_to_mqtt, throttled} \subseteq BOOLEAN
  /\ {amqp_up, amqp_alive, mqtt_up, mqtt_alive, client_connected} \subseteq BOOLEAN
  /\ {fed, timers, armed} \subseteq Nat /\ timers <= MaxTimers
  /\ acked \subseteq Samples
  /\ bounds \in [{"amqp", "mqtt", "losses", "stops", "crashes"} -> Nat]

(* timer_handler replaces the connection inside globals.ctx.  It can never *)
(* run while main is inside AMQP_Sendmessage on it, nor overwrite a        *)
(* connection that is in use: a timer is armed, and the handler at work,   *)
(* only while the program believes itself disconnected, and at most one    *)
(* is.  Nothing but this discipline protects them (no signal is blocked).  *)
ContextNotShared ==
  /\ armed <= 1 /\ (handling => armed = 0)
  /\ (handling \/ armed = 1) => ~connected_to_broker /\ pc # "amqp_send"

(* A program that lost RabbitMQ always has a retry on its way, until it    *)
(* has created as many timers as the system allows: a retry that cannot be *)
(* armed is the last.                                                      *)
RetryIsPending ==
  EnableAmqp /\ ~connected_to_broker /\ pc \notin {"init_amqp", "amqp_retry", "down"} =>
    armed = 1 \/ handling \/ timers = MaxTimers

(* A report says DELIVERED, and only of a sample the broker acknowledged.  *)
(* (The other messages on /qin are the data captures' samples.)            *)
ReportedIsAcked ==
  \A m \in InQueue(qin) : m.status # STATUS_TO_DELIVER =>
    m.status = STATUS_DELIVERED /\ m.sample \in acked

(* The handler of a retry timer may find the context freed or NULL, but    *)
(* only when the program is on its way out.                                *)
FaultOnlyAtExit == crashed => ~go

(* datapublish is the publisher that dbmgr relies on.  Whatever breaks or  *)
(* is restarted, in whatever state it is killed, it holds one sample at a  *)
(* time, reports none that it did not take and the broker not acknowledge, *)
(* reports none twice, and puts nothing else on /qin: any other message    *)
(* there is its neighbours' (publish_message, and every way it can end).   *)
Contract == INSTANCE Publisher WITH pub <- IF pc = "down" THEN NoMsg ELSE msg

IsPublisher ==
  /\ Contract!Init
  /\ [][\/ Contract!Step \/ Contract!PowerLoss
        \/ Neighbours /\ Contract!Neighbour]_(Contract!vars)

-----------------------------------------------------------------------------
(* What the comments say                                                   *)

(* main_loop's comment: a message the broker took is answered on the queue *)
(* as DELIVERED, "otherwise with status UNDELIVERED".                      *)
EveryAttemptAnswered ==
  [][msg # NoMsg /\ msg' = NoMsg /\ pc \notin {"down"} /\ Len(qin) < QinMax
       => qin' # qin]_vars

(* mqtt_connect_with_autoreconnect: "Enable built-in automatic reconnect": *)
(* a session that is lost is set up again once the broker is back.         *)
AutoReconnect == ~mqtt_alive ~> mqtt_alive \/ ~go \/ pc = "down"

-----------------------------------------------------------------------------
(* Liveness                                                                *)

(* The program reconnects to RabbitMQ when it can, as long as timers last. *)
AmqpReconnects ==
  ~connected_to_broker ~> connected_to_broker \/ timers = MaxTimers \/ ~go

(* Once publish_message has found MQTT lost, the program tries again until *)
(* the client library says that it is connected, busy or idle.             *)
MqttReconnects == ~connected_to_mqtt ~> connected_to_mqtt \/ ~go

(* Every sample on /qout reaches MQTT, whatever happens to RabbitMQ, unless *)
(* the MQTT session ends or an answer is not heard in time.  (A retry that *)
(* takes long can be the cause of either: an outage of RabbitMQ costs no   *)
(* delivery by itself, the time AMQP_Init takes in the handler may.)       *)
MqttDelivers ==
  \A k \in Samples :
    Fresh(k) \in InQueue(qout) ~> k \in acked \/ bounds.mqtt + bounds.losses > 0 \/ ~go

(* SIGINT or SIGTERM ends the program, even while no broker answers.       *)
ShutdownHonoured == ~go ~> pc = "down"
=============================================================================
