------------------------------- MODULE Gateway -------------------------------
(* dbmgr and datapublish at work together on their two queues: the whole   *)
(* of DbMgr, with the program of DataPublish in the place of the publisher *)
(* it is modelled beside.  The data captures, the brokers and the machine  *)
(* are as in the two modules.  TLC checks each half beside the contract of *)
(* Publisher; here the halves are put together, by proof.                  *)
EXTENDS TLAPS

CONSTANTS
  Samples, NoMsg, QinMax, QoutMax,                              \* the two programs
  MaxCommit, StatementFaults, CommitFaults, EnableAmqp, MaxTimers,
  MaxFaults, MaxCaptures, MaxCrashes, MaxStops,                 \* bounds: see DbMgr
  AmqpOutages, MqttOutages, MaxLosses, MaxSenderStops, MaxKills \* and DataPublish

VARIABLES
  qin, qout, acked,                                    \* what the programs share
  db, pc, msg, commit_count, do_commit_on_timer, go,   \* dbmgr
  captures, faults, crashes, stops,
  sender_pc, sender_msg, sender_go, crashed,           \* datapublish
  ctx, connected_to_broker, timers, armed, handling, connected_to_mqtt, throttled,
  amqp_up, amqp_alive, mqtt_up, mqtt_alive, client_connected, bounds

(* datapublish.  Its neighbours are not imitated (none of MaxFed samples): *)
(* dbmgr is here.                                                          *)
Sender == INSTANCE DataPublishProofs WITH
  pc <- sender_pc, msg <- sender_msg, go <- sender_go,
  MaxFed <- 0, fed <- 0, MaxStops <- MaxSenderStops, MaxCrashes <- MaxKills

(* dbmgr.  What the publisher holds is what datapublish holds.             *)
Manager == INSTANCE DbMgrProofs WITH
  pub <- IF sender_pc = "down" THEN NoMsg ELSE sender_msg

manager == <<db, pc, msg, commit_count, do_commit_on_timer, go, captures, faults, crashes, stops>>
sender == <<sender_pc, sender_msg, sender_go, crashed,
            ctx, connected_to_broker, timers, armed, handling, connected_to_mqtt, throttled,
            amqp_up, amqp_alive, mqtt_up, mqtt_alive, client_connected, bounds>>
vars == <<qin, qout, acked, manager, sender>>

Init == Sender!Init /\ Manager!Init

(* The steps of one side leave the other's state alone; the machine goes   *)
(* down for both.                                                          *)
Next ==
  \/ UNCHANGED sender /\ Manager!Local
  \/ UNCHANGED manager /\ Sender!Local
  \/ Sender!PowerLoss /\ Manager!PowerLoss

Spec == Init /\ [][Next]_vars

-----------------------------------------------------------------------------
(* What the two modules assume of their constants.                         *)
Assumptions ==
  /\ Sender!DataPublishAssumption /\ Sender!NoMsgAssumption
  /\ Manager!DbMgrAssumption /\ Manager!NoMsgAssumption

(* Both modules speak of the same contract.                                *)
LEMMA SameContract ==
  /\ Sender!Contract!Step => Manager!Contract!Step
  /\ Manager!Contract!Neighbour => Sender!Contract!Neighbour
BY DEF Sender!Contract!Step, Sender!Contract!Receive, Sender!Contract!Acknowledge,
       Sender!Contract!Report, Sender!Contract!Lose, Sender!Contract!Neighbour,
       Sender!Contract!EMDC_queue_rcv, Sender!Contract!EMDC_queue_send,
       Sender!Contract!Delivered, Sender!Contract!Fresh,
       Sender!Contract!STATUS_TO_DELIVER, Sender!Contract!STATUS_DELIVERED,
       Manager!Contract!Step, Manager!Contract!Receive, Manager!Contract!Acknowledge,
       Manager!Contract!Report, Manager!Contract!Lose, Manager!Contract!Neighbour,
       Manager!Contract!EMDC_queue_rcv, Manager!Contract!EMDC_queue_send,
       Manager!Contract!Delivered, Manager!Contract!Fresh,
       Manager!Contract!STATUS_TO_DELIVER, Manager!Contract!STATUS_DELIVERED

(* A step of datapublish is one of the publisher in DbMgr.                 *)
LEMMA SenderStep ==
  ASSUME Assumptions, Sender!PublisherInv, Sender!Local, UNCHANGED manager
  PROVE  [Manager!Next]_(Manager!vars)
<1>1. Sender!Contract!Step \/ UNCHANGED Sender!Contract!vars
  BY Sender!LocalIsPublisher DEF Assumptions
<1>2. UNCHANGED Manager!Elsewhere
  BY DEF manager, Manager!Elsewhere, Manager!own, Manager!history
<1>3. CASE Sender!Contract!Step
  <2>1. Manager!Contract!Step
    BY <1>3, SameContract
  <2>2. Manager!Publisher
    BY <1>2, <2>1 DEF Manager!Contract!Step, Manager!Publisher, Manager!PublisherReceive,
       Manager!PublisherAcked, Manager!PublisherReport, Manager!PublisherLoses
  <2> QED BY <2>2 DEF Manager!Next
<1>4. CASE UNCHANGED Sender!Contract!vars
  BY <1>4, <1>2 DEF Sender!Contract!vars, Manager!vars, Manager!queues, Manager!others,
     Manager!own, Manager!history, Manager!Elsewhere
<1> QED BY <1>1, <1>3, <1>4

(* A step of dbmgr or a capture is one of the neighbours of datapublish.   *)
LEMMA ManagerStep ==
  ASSUME Assumptions, Manager!TypeOK, Manager!FreshInv, Manager!Local, UNCHANGED sender,
         Sender!PublisherInv
  PROVE  Sender!PublisherInv'
<1>1. Manager!Contract!Neighbour \/ UNCHANGED Manager!Contract!vars
  BY Manager!LocalIsNeighbour DEF Assumptions
<1>2. CASE Manager!Contract!Neighbour
  <2>1. Sender!Contract!Neighbour /\ UNCHANGED <<sender_pc, sender_msg, acked>>
    BY <1>2, SameContract DEF sender, Manager!Contract!Neighbour
  <2>2. Sender!ReportInv' /\ Sender!HoldingInv'
    BY <2>1, Sender!NeighbourKeepsReports, Sender!NeighbourKeepsHolding
    DEF Assumptions, Sender!PublisherInv
  <2> QED BY <2>2 DEF Sender!PublisherInv
<1>3. CASE UNCHANGED Manager!Contract!vars
  <2>1. UNCHANGED Sender!vars
    BY <1>3 DEF Manager!Contract!vars, sender, Sender!vars, Sender!queues, Sender!process,
       Sender!amqp, Sender!mqtt, Sender!links
  <2>2. Sender!ReportInv' /\ Sender!HoldingInv'
    BY <2>1, Sender!NextReportInv, Sender!NextHoldingInv DEF Assumptions, Sender!PublisherInv
  <2> QED BY <2>2 DEF Sender!PublisherInv
<1> QED BY <1>1, <1>2, <1>3

(* Each side's invariant, which the steps of the other rely on.            *)
GatewayInv ==
  /\ Manager!Inv /\ Manager!FreshInv
  /\ Sender!PublisherInv /\ Sender!AmqpInv /\ Sender!ExitInv

LEMMA StepIsManagers ==
  ASSUME Assumptions, GatewayInv, [Next]_vars
  PROVE  [Manager!Next]_(Manager!vars)
<1>1. CASE UNCHANGED sender /\ Manager!Local
  BY <1>1 DEF Manager!Next
<1>2. CASE UNCHANGED manager /\ Sender!Local
  BY <1>2, SenderStep DEF GatewayInv
<1>3. CASE Sender!PowerLoss /\ Manager!PowerLoss
  BY <1>3 DEF Manager!Next
<1>4. CASE UNCHANGED vars
  BY <1>4 DEF vars, manager, sender, Manager!vars, Manager!queues, Manager!others,
     Manager!own, Manager!history
<1> QED BY <1>1, <1>2, <1>3, <1>4 DEF Next

LEMMA NextGatewayInv == ASSUME Assumptions, GatewayInv, [Next]_vars PROVE GatewayInv'
<1>1. Manager!Inv' /\ Manager!FreshInv'
  <2>1. [Manager!Next]_(Manager!vars)
    BY StepIsManagers
  <2> QED BY <2>1, Manager!NextInv, Manager!NextFreshInv DEF Assumptions, GatewayInv
<1>2. CASE UNCHANGED sender /\ Manager!Local
  <2>1. Sender!PublisherInv'
    BY <1>2, ManagerStep DEF GatewayInv, Manager!Inv
  <2>2. Sender!AmqpInv' /\ Sender!ExitInv'
    BY <1>2 DEF GatewayInv, sender, Sender!AmqpInv, Sender!ExitInv, Sender!RetryIsPending
  <2> QED BY <1>1, <2>1, <2>2 DEF GatewayInv
<1>3. CASE Sender!Local \/ Sender!PowerLoss \/ UNCHANGED vars
  <2>1. [Sender!Next]_(Sender!vars)
    BY <1>3 DEF Sender!Next, vars, sender, Sender!vars, Sender!queues, Sender!process,
       Sender!amqp, Sender!mqtt, Sender!links
  <2>2. Sender!ReportInv' /\ Sender!HoldingInv'
    BY <2>1, Sender!NextReportInv, Sender!NextHoldingInv
    DEF Assumptions, GatewayInv, Sender!PublisherInv
  <2>3. Sender!AmqpInv' /\ Sender!ExitInv'
    BY <2>1, Sender!NextAmqpInv DEF Assumptions, GatewayInv
  <2> QED BY <1>1, <2>2, <2>3 DEF GatewayInv, Sender!PublisherInv
<1> QED BY <1>2, <1>3 DEF Next

LEMMA InitGatewayInv == ASSUME Assumptions, Init PROVE GatewayInv
<1>1. Manager!Inv /\ Manager!FreshInv
  BY Manager!InitInv DEF Assumptions, Init, Manager!Init, Manager!FreshInv
<1>2. Sender!ReportInv /\ Sender!AmqpInv /\ Sender!ExitInv
  BY Sender!InitReportInv, Sender!InitAmqpInv DEF Assumptions, Init
<1>3. Sender!HoldingInv
  BY DEF Init, Sender!Init, Sender!HoldingInv, Sender!Holding, Sender!InQueue
<1> QED BY <1>1, <1>2, <1>3 DEF GatewayInv, Sender!PublisherInv

(* dbmgr beside the real datapublish behaves as DbMgr does beside the      *)
(* publisher of the contract (process_msg, publish_message, and every way  *)
(* the two can end).                                                       *)
THEOREM ImplementsDbMgr == ASSUME Assumptions PROVE Spec => Manager!Spec
<1>1. Init => GatewayInv
  BY InitGatewayInv
<1>2. GatewayInv /\ [Next]_vars => GatewayInv' /\ [Manager!Next]_(Manager!vars)
  BY NextGatewayInv, StepIsManagers
<1>3. Init => Manager!Init
  BY DEF Init
<1> QED BY <1>1, <1>2, <1>3, PTL DEF Spec, Manager!Spec

(* So what was shown of dbmgr holds of both together: DELIVERED       *)
(* is said only of samples whose acknowledgement datapublish heard, the    *)
(* counter and the transaction agree, a crash loses at most what           *)
(* commit_count says, and what was forwarded has its row; and on disk the  *)
(* table is the abstract store.                                            *)
THEOREM RowsAreKept ==
  ASSUME Assumptions
  PROVE  Spec => /\ []Manager!DeliveredIsAcked /\ []Manager!CountTracksTransaction
                 /\ []Manager!AtRiskBounded /\ []Manager!ForwardedIsStored
                 /\ Manager!RefinesSampleStore
<1>1. Manager!Spec => []Manager!DeliveredIsAcked
  BY Manager!DeliveredIsAckedHolds DEF Assumptions
<1>2. Manager!Spec => []Manager!CountTracksTransaction
  BY Manager!CountTracksTransactionHolds DEF Assumptions
<1>3. Manager!Spec => []Manager!AtRiskBounded
  BY Manager!AtRiskBoundedHolds DEF Assumptions
<1>4. Manager!Spec => []Manager!ForwardedIsStored
  BY Manager!ForwardedIsStoredHolds DEF Assumptions
<1>5. Manager!Spec => Manager!RefinesSampleStore
  BY Manager!ImplementsSampleStore DEF Assumptions
<1> QED BY <1>1, <1>2, <1>3, <1>4, <1>5, ImplementsDbMgr, PTL

(* And what was shown of datapublish, with dbmgr in the place of its       *)
(* neighbours: the retry handler and main never share the context, a retry *)
(* is on its way while RabbitMQ is believed lost, the handler faults only  *)
(* on the way out, and every report on /qin is of an acknowledged sample.  *)
THEOREM SenderIsKept ==
  ASSUME Assumptions
  PROVE  Spec => [](/\ Sender!ContextNotShared /\ Sender!RetryIsPending
                    /\ Sender!FaultOnlyAtExit /\ Sender!ReportedIsAcked)
<1>1. Init => GatewayInv
  BY InitGatewayInv
<1>2. GatewayInv /\ [Next]_vars => GatewayInv'
  BY NextGatewayInv
<1>3. GatewayInv => /\ Sender!ContextNotShared /\ Sender!RetryIsPending
                    /\ Sender!FaultOnlyAtExit /\ Sender!ReportedIsAcked
  BY DEF GatewayInv, Sender!AmqpInv, Sender!ExitInv, Sender!PublisherInv, Sender!ReportInv,
     Sender!ContextNotShared, Sender!FaultOnlyAtExit
<1> QED BY <1>1, <1>2, <1>3, PTL DEF Spec
=============================================================================
