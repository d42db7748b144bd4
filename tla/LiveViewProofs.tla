--------------------------- MODULE LiveViewProofs ---------------------------
(* The bridge's session and its flag, and the powers on their way to the   *)
(* screen, for any feeds of pulses and any number of outages, losses,      *)
(* restarts and ends.                                                      *)
EXTENDS LiveView, FiniteSetTheorems, SequenceTheorems, TLAPS

-----------------------------------------------------------------------------
(* Types.  An event has a positive number, which is how the one in the     *)
(* callback's hands is told from none.                                     *)

Numbered == {e \in Events : e.n > 0}

Pulses == [kind : Kinds, ts : Nat]

Handlers == [e : Events, at : {"compute", "store", "emit"}, interval : Int]

ConsumerType ==
  /\ loop \in {"dial", "set", "test", "connect", "consume", "callback", "sleep", "ended"}
  /\ link \in {"off", "up", "broken"} /\ reachable \in BOOLEAN
  /\ queue \in Seq(Numbered) /\ inbox \in Seq(Numbered) /\ event \in Events
  /\ (loop = "callback" <=> event # NoEvent)

FlagType ==
  /\ connected \in BOOLEAN /\ session \in {"none", "up", "closing", "lost"}
  /\ calling \in {"none", "dial", "retry"}
  /\ serving \in BOOLEAN /\ concurrent \in BOOLEAN
  /\ page \in {"off", "deaf", "joining", "joined"} /\ listening \in BOOLEAN

ApiType ==
  /\ handlers \subseteq Handlers /\ last_ts \in [Kinds -> Int]
  /\ screen \in [Kinds -> Powers]
  /\ to_api \in Seq(Events) /\ to_page \in Seq(Powers)

MeterType ==
  /\ feed \in Seq(Pulses)
  /\ published \subseteq Events /\ IsFiniteSet(published)

CountType ==
  /\ {outages, drops, restarts, leaves, stops} \subseteq Nat
  /\ lost_in \subseteq {"dial", "set", "test", "connect", "consume", "callback", "sleep", "ended"}

(* Where connect () is to be called there is, or was, a session; and       *)
(* sio.connect waits for it.                                               *)
CallingInv ==
  /\ calling # "none" => session \in {"up", "closing"}
  /\ calling = "dial" => loop = "dial"

TypeInv == ConsumerType /\ FlagType /\ CallingInv /\ ApiType /\ MeterType /\ CountType

LEMMA InitTypeInv == Init => TypeInv
<1> SUFFICES ASSUME Init PROVE TypeInv
  OBVIOUS
<1>1. ConsumerType
  BY EmptySeq DEF Init, ConsumerInit, ConsumerType, NoEvent, Events, Kinds
<1>2. FlagType
  BY LiveViewAssumption DEF Init, FlagType
<1>3. ApiType
  BY EmptySeq DEF Init, ApiType, Handlers, Blank, Powers, Kinds, Never
<1>4. MeterType
  BY FS_EmptySet, LiveViewAssumption DEF Init, MeterType, Pulses
<1>5. CountType
  BY DEF Init, CountType
<1>6. CallingInv
  BY DEF Init, CallingInv
<1> QED BY <1>1, <1>2, <1>3, <1>4, <1>5, <1>6 DEF TypeInv

(* The event datapublish publishes for a pulse.                            *)
LEMMA PulseFacts ==
  ASSUME MeterType, Pulse
  PROVE  /\ MeterType'
         /\ \E e \in Numbered :
              Enqueue(e) /\ published' = published \cup {e} /\ e.n = Cardinality(published) + 1
<1> DEFINE e == [n |-> Cardinality(published) + 1, kind |-> Head(feed).kind, ts |-> Head(feed).ts]
<1>1. Head(feed) \in Pulses /\ Tail(feed) \in Seq(Pulses)
  BY HeadTailProperties DEF MeterType, Pulse
<1>2. Cardinality(published) \in Nat
  BY FS_CardinalityType DEF MeterType
<1>3. e \in Numbered /\ e.n = Cardinality(published) + 1
  BY <1>1, <1>2 DEF Numbered, Events, Pulses
<1>4. feed' = Tail(feed) /\ published' = published \cup {e} /\ Enqueue(e)
  BY DEF Pulse
<1> HIDE DEF e
<1>5. IsFiniteSet(published')
  BY <1>4, FS_AddElement DEF MeterType
<1> QED BY <1>1, <1>3, <1>4, <1>5 DEF MeterType, Numbered

LEMMA NextConsumerType == TypeInv /\ [Next]_vars => ConsumerType'
<1> SUFFICES ASSUME ConsumerType, CallingInv, MeterType, [Next]_vars PROVE ConsumerType'
  BY DEF TypeInv
<1> USE DEF ConsumerType
<1>0. NoEvent \in Events /\ NoEvent \notin Numbered /\ Numbered \subseteq Events /\ <<>> \in Seq(Numbered)
  BY EmptySeq DEF NoEvent, Events, Numbered, Kinds
<1> DEFINE Place == {"dial", "set", "test", "connect", "consume", "sleep"}
<1>1. CASE UNCHANGED <<consumer, event>>
  BY <1>1 DEF consumer
<1>2. ASSUME UNCHANGED <<link, reachable, queue, inbox, event>>, loop \in Place, loop' \in Place
      PROVE  ConsumerType'
  BY <1>2
<1>3. CASE Amqp
  <2>1. UNCHANGED event
    BY <1>3 DEF Amqp, bridge
  <2>2. CASE Consume \/ ConnectFails \/ Wake
    BY <2>1, <2>2 DEF Consume, ConnectFails, Wake
  <2>3. CASE Noticed
    BY <1>0, <2>1, <2>3 DEF Noticed
  <2>4. CASE Deliver
    <3>1. Head(queue) \in Numbered /\ Tail(queue) \in Seq(Numbered)
      BY <2>4, HeadTailProperties DEF Deliver
    <3>2. inbox' \in Seq(Numbered) /\ queue' \in Seq(Numbered)
      BY <2>4, <3>1, AppendProperties DEF Deliver
    <3> QED BY <2>1, <2>4, <3>2 DEF Deliver
  <2>5. CASE OutageEnds
    BY <2>1, <2>5 DEF OutageEnds
  <2> QED BY <1>3, <2>2, <2>3, <2>4, <2>5 DEF Amqp, Reconnect
<1>4. CASE DialFails \/ SetConnected \/ TestConnected
  <2>1. UNCHANGED <<link, reachable, queue, inbox, event>> /\ loop \in Place /\ loop' \in Place
    BY <1>4 DEF DialFails, SetConnected, TestConnected, bridge
  <2> QED BY <1>2, <2>1
<1>5. CASE callback
  <2>1. Head(inbox) \in Numbered /\ Tail(inbox) \in Seq(Numbered)
    BY <1>5, HeadTailProperties DEF callback, Take
  <2>2. /\ loop' = IF connected THEN "callback" ELSE "consume"
        /\ event' = IF connected THEN Head(inbox) ELSE NoEvent
        /\ inbox' = Tail(inbox) /\ UNCHANGED <<link, reachable, queue>>
    BY <1>5 DEF callback, Take
  <2> QED BY <1>0, <2>1, <2>2
<1>6. CASE CallbackEmit \/ Stop
  <2>1. \/ /\ loop' = "consume" /\ event' = NoEvent
           /\ UNCHANGED <<link, reachable, queue, inbox>>
        \/ /\ loop' = "ended" /\ link' = "off" /\ inbox' = <<>> /\ event' = NoEvent
           /\ UNCHANGED <<reachable, queue>>
    BY <1>6 DEF CallbackEmit, Stop, Ended, End
  <2> QED BY <1>0, <2>1
<1>7. CASE connect
  <2>1. CASE calling = "dial"
    BY <1>2, <1>7, <2>1 DEF connect, CallingInv
  <2>2. CASE calling # "dial"
    BY <1>1, <1>7, <2>2 DEF connect, consumer
  <2> QED BY <2>1, <2>2
<1>8. CASE Accept \/ disconnect \/ Handler \/ ApiStarts \/ Page \/ Drop \/ ApiEnds \/ PageLeaves \/ UNCHANGED vars
  <2>1. UNCHANGED <<consumer, event>>
    BY <1>8 DEF Accept, disconnect, Handler, HandlerStarts, Compute, Store, Emit, ApiStarts, Page, Mount,
                PageConnects, on_join, Show, Drop, ApiEnds, PageLeaves, vars, bridge
  <2> QED BY <1>1, <2>1
<1>9. CASE Pulse
  <2>1. PICK e \in Numbered : Enqueue(e)
    BY <1>9, PulseFacts
  <2>2. queue' \in Seq(Numbered)
    BY <2>1, AppendProperties DEF Enqueue
  <2> QED BY <1>9, <2>1, <2>2 DEF Enqueue, Pulse, bridge
<1>10. CASE BrokerLeaves
  <2>1. PICK n \in 0 .. Len(inbox) : inbox' = SubSeq(inbox, 1, n)
    BY <1>10 DEF BrokerLeaves, Outage
  <2>2. inbox' \in Seq(Numbered)
    BY <2>1, SubSeqProperties
  <2>3. UNCHANGED <<loop, queue, event>> /\ link' \in {link, "broken"} /\ reachable' = FALSE
    BY <1>10 DEF BrokerLeaves, Outage, bridge
  <2> QED BY <2>2, <2>3
<1> QED
  BY <1>3, <1>4, <1>5, <1>6, <1>7, <1>8, <1>9, <1>10 DEF Next, Bridge, Session

LEMMA NextFlagType == FlagType /\ [Next]_vars => FlagType'
<1> SUFFICES ASSUME FlagType, [Next]_vars PROVE FlagType'
  OBVIOUS
<1> USE DEF FlagType, bridge, api, ui
<1>1. CASE Amqp \/ Bridge
  BY <1>1 DEF Amqp, Bridge, DialFails, SetConnected, TestConnected, callback, CallbackEmit, Ended
<1>2. CASE Drop \/ Stop \/ BrokerLeaves \/ Pulse
  BY <1>2 DEF Drop, Broken, Stop, Ended, BrokerLeaves, Pulse
<1>8. CASE Session
  BY <1>8 DEF Session, Accept, connect, disconnect
<1>3. CASE Handler
  <2>1. UNCHANGED <<bridge, serving, concurrent, page, listening>>
    BY <1>3 DEF Handler, HandlerStarts, Compute, Store, Emit
  <2> QED BY <2>1
<1>6. CASE ApiStarts
  BY <1>6 DEF ApiStarts
<1>7. CASE ApiEnds
  <2>1. /\ serving' = FALSE /\ page' = "off" /\ session' \in {"closing", session}
        /\ UNCHANGED <<connected, calling, concurrent, listening>>
    BY <1>7 DEF ApiEnds, Broken
  <2> QED BY <2>1
<1>4. CASE Page \/ PageLeaves
  BY <1>4 DEF Page, Mount, PageConnects, on_join, Show, PageLeaves
<1>5. CASE UNCHANGED vars
  BY <1>5 DEF vars
<1> QED BY <1>1, <1>2, <1>3, <1>4, <1>5, <1>6, <1>7, <1>8 DEF Next

LEMMA NextCallingInv == CallingInv /\ [Next]_vars => CallingInv'
<1> SUFFICES ASSUME CallingInv, [Next]_vars PROVE CallingInv'
  OBVIOUS
<1> USE DEF CallingInv, bridge, consumer
<1>1. CASE Amqp
  BY <1>1 DEF Amqp, Reconnect, Consume, ConnectFails, Wake, Noticed, Deliver, OutageEnds
<1>2. CASE Bridge
  BY <1>2 DEF Bridge, DialFails, SetConnected, TestConnected, callback, Take, CallbackEmit, Ended
<1>3. CASE Session
  BY <1>3 DEF Session, Accept, connect, disconnect
<1>4. CASE Drop \/ ApiEnds \/ Stop
  BY <1>4 DEF Drop, ApiEnds, Broken, Stop, Ended
<1>5. CASE Handler \/ ApiStarts \/ Page \/ UNCHANGED vars
  BY <1>5 DEF Handler, HandlerStarts, Compute, Store, Emit, ApiStarts, Page, Mount, PageConnects,
              on_join, Show, vars
<1>6. CASE Pulse \/ PageLeaves \/ BrokerLeaves
  BY <1>6 DEF Pulse, Enqueue, PageLeaves, BrokerLeaves, Outage
<1> QED BY <1>1, <1>2, <1>3, <1>4, <1>5, <1>6 DEF Next

LEMMA NextApiType == TypeInv /\ [Next]_vars => ApiType'
<1> SUFFICES ASSUME TypeInv, [Next]_vars PROVE ApiType'
  OBVIOUS
<1>a. ApiType /\ event \in Events
  BY DEF TypeInv, ConsumerType
<1> USE DEF ApiType
<1>0. <<>> \in Seq(Events) /\ <<>> \in Seq(Powers) /\ Blank \in [Kinds -> Powers]
      /\ [k \in Kinds |-> Never] \in [Kinds -> Int]
  BY EmptySeq DEF Blank, Powers, Never
<1> USE DEF bridge, api, ui, wires
<1>1. CASE UNCHANGED <<handlers, last_ts, screen, to_api, to_page>>
  BY <1>1, <1>a
<1>2. CASE Amqp \/ BrokerLeaves \/ Pulse \/ Stop \/ Session \/ ApiStarts \/ UNCHANGED vars
  BY <1>1, <1>2 DEF Amqp, BrokerLeaves, Pulse, Stop, Session, Accept, connect, disconnect, ApiStarts, vars
<1>3. CASE DialFails \/ SetConnected \/ TestConnected \/ callback \/ Mount \/ PageConnects \/ on_join
  BY <1>1, <1>3 DEF DialFails, SetConnected, TestConnected, callback, Mount, PageConnects, on_join
<1>4. CASE CallbackEmit
  <2>1. to_api' \in {to_api, Append(to_api, event)} /\ UNCHANGED <<handlers, last_ts, screen, to_page>>
    BY <1>4 DEF CallbackEmit
  <2>2. Append(to_api, event) \in Seq(Events)
    BY <1>a, AppendProperties
  <2> QED BY <1>a, <2>1, <2>2
<1>5. CASE Drop
  BY <1>0, <1>5, <1>a DEF Drop, Broken
<1>6. CASE HandlerStarts
  <2>1. Head(to_api) \in Events /\ Tail(to_api) \in Seq(Events)
    BY <1>6, <1>a, HeadTailProperties DEF HandlerStarts
  <2> QED BY <1>6, <1>a, <2>1 DEF HandlerStarts, Handlers
<1>7. ASSUME NEW h \in handlers, Compute(h) PROVE ApiType'
  <2>1. h \in Handlers /\ h.e \in Events /\ last_ts[h.e.kind] \in Int
    BY <1>a DEF Handlers, Events
  <2>2. Since(h.e) \in Int
    BY <2>1 DEF Since, Events
  <2> DEFINE first == last_ts[h.e.kind] = Never
             next == [h EXCEPT !.at = "store", !.interval = IF first THEN 0 ELSE Since(h.e)]
  <2>3. next \in Handlers
    <3>1. next = [h EXCEPT !.at = "store", !.interval = next.interval] /\ next.interval \in Int
      BY <2>1, <2>2 DEF Handlers
    <3> HIDE DEF next
    <3> QED BY <2>1, <3>1 DEF Handlers
  <2>4. /\ handlers' \subseteq handlers \cup {next}
        /\ UNCHANGED <<last_ts, screen, to_api, to_page>>
    BY <1>7 DEF Compute
  <2> QED BY <1>a, <2>3, <2>4
<1>8. ASSUME NEW h \in handlers, Store(h) PROVE ApiType'
  <2>1. h \in Handlers /\ h.e.ts \in Int /\ h.e.kind \in Kinds
    BY <1>a DEF Handlers, Events
  <2>2. [h EXCEPT !.at = "emit"] \in Handlers
    BY <2>1 DEF Handlers
  <2>3. /\ handlers' \subseteq handlers \cup {[h EXCEPT !.at = "emit"]}
        /\ last_ts' = [last_ts EXCEPT ![h.e.kind] = h.e.ts]
        /\ UNCHANGED <<screen, to_api, to_page>>
    BY <1>8 DEF Store
  <2> QED BY <1>a, <2>1, <2>2, <2>3
<1>9. ASSUME NEW h \in handlers, Emit(h) PROVE ApiType'
  <2> DEFINE power == [n |-> h.e.n, kind |-> h.e.kind, ts |-> last_ts[h.e.kind], interval |-> h.interval]
  <2>1. power \in Powers
    BY <1>a DEF Handlers, Events, Powers
  <2>2. /\ to_page' \in {to_page, Append(to_page, power)} /\ handlers' \subseteq handlers
        /\ UNCHANGED <<last_ts, screen, to_api>>
    BY <1>9 DEF Emit
  <2> HIDE DEF power
  <2>3. Append(to_page, power) \in Seq(Powers)
    BY <1>a, <2>1, AppendProperties
  <2> QED BY <1>a, <2>2, <2>3
<1>10. CASE ApiEnds
  BY <1>0, <1>10, <1>a DEF ApiEnds, Broken
<1>11. CASE PageLeaves
  BY <1>0, <1>11, <1>a DEF PageLeaves
<1>12. CASE Show
  <2>1. Head(to_page) \in Powers /\ Tail(to_page) \in Seq(Powers)
    BY <1>12, <1>a, HeadTailProperties DEF Show
  <2>2. Head(to_page).kind \in Kinds
    BY <2>1 DEF Powers
  <2> QED BY <1>12, <1>a, <2>1, <2>2 DEF Show
<1> QED
  BY <1>2, <1>3, <1>4, <1>5, <1>6, <1>7, <1>8, <1>9, <1>10, <1>11, <1>12
  DEF Next, Bridge, Handler, Page

LEMMA NextCounts ==
  ConsumerType /\ MeterType /\ CountType /\ [Next]_vars => MeterType' /\ CountType'
<1> SUFFICES ASSUME ConsumerType, MeterType, CountType, [Next]_vars PROVE MeterType' /\ CountType'
  OBVIOUS
<1> USE DEF meter, counts
<1>0. loop \in {"dial", "set", "test", "connect", "consume", "callback", "sleep", "ended"}
  BY DEF ConsumerType
<1>1. CASE Pulse
  BY <1>1, PulseFacts DEF Pulse, CountType
<1>2. CASE Drop \/ ApiEnds \/ PageLeaves \/ BrokerLeaves \/ Stop
  <2>1. UNCHANGED meter
    BY <1>2 DEF Drop, ApiEnds, PageLeaves, BrokerLeaves, Stop
  <2>2. UNCHANGED lost_in
    BY <1>2 DEF Drop, ApiEnds, PageLeaves, BrokerLeaves, Stop
  <2>3. {outages', drops', restarts', leaves', stops'} \subseteq Nat
    BY <1>2 DEF Drop, ApiEnds, PageLeaves, BrokerLeaves, Stop, CountType
  <2> QED BY <2>1, <2>2, <2>3 DEF MeterType, CountType
<1>4. CASE disconnect
  <2>1. UNCHANGED <<meter, outages, drops, restarts, leaves, stops>> /\ lost_in' = lost_in \cup {loop}
    BY <1>4 DEF disconnect
  <2>2. {outages', drops', restarts', leaves', stops'} = {outages, drops, restarts, leaves, stops}
    BY <2>1
  <2> QED BY <1>0, <2>1, <2>2 DEF CountType, MeterType
<1>3. CASE Amqp \/ Bridge \/ Accept \/ connect \/ Handler \/ ApiStarts \/ Page \/ UNCHANGED vars
  <2>1. UNCHANGED <<meter, counts>>
    BY <1>3 DEF Amqp, Bridge, DialFails, SetConnected, TestConnected, callback, CallbackEmit,
                Accept, connect, Handler, HandlerStarts, Compute, Store, Emit, ApiStarts,
                Page, Mount, PageConnects, on_join, Show, vars
  <2> QED BY <2>1 DEF MeterType, CountType
<1> QED BY <1>1, <1>2, <1>3, <1>4 DEF Next, Session

LEMMA NextTypeInv == TypeInv /\ [Next]_vars => TypeInv'
BY NextConsumerType, NextFlagType, NextCallingInv, NextApiType, NextCounts DEF TypeInv

LEMMA TypeInvariance == Spec => []TypeInv
BY InitTypeInv, NextTypeInv, PTL DEF Spec

(* Type correctness of the live view; the callback has an event in hand    *)
(* exactly while it runs (run_app, callback, handle_events, MainPage).     *)
THEOREM TypeCorrect == Spec => []TypeOK
<1>1. TypeInv => TypeOK
  <2> SUFFICES ASSUME TypeInv PROVE TypeOK
    OBVIOUS
  <2>1. queue \in Seq(Events) /\ inbox \in Seq(Events)
    BY SeqMonotonic DEF TypeInv, ConsumerType, Numbered
  <2> QED BY <2>1 DEF TypeInv, ConsumerType, FlagType, ApiType, MeterType, CountType, TypeOK, Handlers, Pulses
<1> QED BY <1>1, TypeInvariance, PTL

-----------------------------------------------------------------------------
(* The session                                                             *)

(* What excuses the end of the bridge.                                     *)
Window == stops > 0 \/ lost_in \cap {"set", "callback"} # {}

(* Without that, run_app is between its two tests of the session, and the  *)
(* flag is up, only with a session.                                        *)
WindowInv ==
  /\ session \in {"none", "lost"} /\ (connected \/ loop \in {"set", "callback"}) => Window
  /\ loop = "ended" => Window

LEMMA NextWindowInv == TypeInv /\ WindowInv /\ [Next]_vars => WindowInv'
<1> SUFFICES ASSUME CallingInv, CountType, session \in {"none", "up", "closing", "lost"},
                    WindowInv, [Next]_vars
             PROVE  WindowInv'
  BY DEF TypeInv, FlagType
<1> USE DEF WindowInv, Window, bridge, consumer, counts
<1>1. CASE Amqp
  BY <1>1 DEF Amqp, Reconnect, Consume, ConnectFails, Wake, Noticed, Deliver, OutageEnds
<1>2. CASE DialFails \/ SetConnected \/ TestConnected
  BY <1>2 DEF DialFails, SetConnected, TestConnected
<1>3. CASE callback
  BY <1>3 DEF callback, Take
<1>4. CASE CallbackEmit
  BY <1>4 DEF CallbackEmit, Ended, End
<1>5. CASE Accept \/ connect
  BY <1>5 DEF Accept, connect, CallingInv
<1>6. CASE disconnect
  BY <1>6 DEF disconnect
<1>7. CASE Drop \/ ApiEnds
  BY <1>7 DEF Drop, ApiEnds, Broken
<1>8. CASE Stop
  BY <1>8 DEF Stop, CountType
<1>9. CASE Handler \/ ApiStarts \/ Page \/ UNCHANGED vars
  <2>1. UNCHANGED <<consumer, bridge, counts>>
    BY <1>9 DEF Handler, HandlerStarts, Compute, Store, Emit, ApiStarts, Page, Mount, PageConnects,
                on_join, Show, vars
  <2> QED BY <2>1
<1>10. CASE Pulse \/ PageLeaves \/ BrokerLeaves
  BY <1>10 DEF Pulse, Enqueue, PageLeaves, BrokerLeaves, Outage
<1> QED BY <1>1, <1>2, <1>3, <1>4, <1>5, <1>6, <1>7, <1>8, <1>9, <1>10 DEF Next, Bridge, Session

(* The bridge never ends by itself unless its session was lost between the *)
(* return of sio.connect and "connected = True" (run_app), or between the  *)
(* test of the flag and sio.emit (callback): for any number of losses and  *)
(* restarts, and with connect () and disconnect () at any other moment.    *)
THEOREM EndsOnlyInWindowHolds == Spec => []EndsOnlyInWindow
<1>1. Init => WindowInv
  BY DEF Init, ConsumerInit, WindowInv
<1>2. WindowInv => EndsOnlyInWindow
  BY DEF WindowInv, Window, EndsOnlyInWindow
<1> QED BY <1>1, <1>2, NextWindowInv, TypeInvariance, PTL DEF Spec

(* As long as no session was lost, the flag is up only with a session, and *)
(* run_app is past its wait for one only with both.                        *)
SessionInv ==
  stops + drops + restarts = 0 =>
    /\ session \in {"none", "up"} /\ loop # "ended"
    /\ connected => session = "up"
    /\ loop \in {"set", "connect", "consume", "callback", "sleep"} => connected

LEMMA NextSessionInv == TypeInv /\ SessionInv /\ [Next]_vars => SessionInv'
<1> SUFFICES ASSUME CallingInv, CountType, SessionInv, [Next]_vars PROVE SessionInv'
  BY DEF TypeInv
<1> USE DEF bridge, consumer, counts
<1> DEFINE Calm == stops + drops + restarts = 0
<1>1. CASE Drop \/ ApiEnds \/ Stop
  <2>1. ~Calm'
    <3>1. CASE Drop
      BY <3>1 DEF Drop, CountType
    <3>2. CASE ApiEnds
      BY <3>2 DEF ApiEnds, CountType
    <3>3. CASE Stop
      BY <3>3 DEF Stop, CountType
    <3> QED BY <1>1, <3>1, <3>2, <3>3
  <2> QED BY <2>1 DEF SessionInv
<1>3. CASE Amqp
  BY <1>3 DEF SessionInv, Amqp, Reconnect, Consume, ConnectFails, Wake, Noticed, Deliver, OutageEnds
<1>4. CASE DialFails \/ SetConnected \/ TestConnected
  BY <1>4 DEF DialFails, SetConnected, TestConnected, SessionInv
<1>5. CASE callback
  BY <1>5 DEF callback, Take, SessionInv
<1>6. CASE CallbackEmit
  BY <1>6 DEF CallbackEmit, SessionInv
<1>7. CASE Session
  BY <1>7 DEF Session, Accept, connect, disconnect, SessionInv, CallingInv
<1>8. CASE Handler \/ ApiStarts \/ Page \/ UNCHANGED vars
  BY <1>8 DEF Handler, HandlerStarts, Compute, Store, Emit, ApiStarts, Page, Mount, PageConnects,
              on_join, Show, vars, SessionInv
<1>9. CASE Pulse \/ PageLeaves \/ BrokerLeaves
  BY <1>9 DEF Pulse, Enqueue, PageLeaves, BrokerLeaves, Outage, SessionInv
<1> QED BY <1>1, <1>3, <1>4, <1>5, <1>6, <1>7, <1>8, <1>9 DEF Next, Bridge

-----------------------------------------------------------------------------
(* Events on their way.  They have numbers, and every place on the way     *)
(* from the broker to the handlers holds them in order.                    *)

Before(S, T) == \A x \in S, y \in T : x.n < y.n

Ascending(s) == \A i, j \in DOMAIN s : i < j => s[i].n < s[j].n

LEMMA HeadAndTail ==
  ASSUME NEW S, NEW s \in Seq(S), s # <<>>
  PROVE  /\ Head(s) \in S /\ Tail(s) \in Seq(S)
         /\ Elements(s) = {Head(s)} \cup Elements(Tail(s))
         /\ Ascending(s) => Ascending(Tail(s)) /\ Before({Head(s)}, Elements(Tail(s)))
<1>1. /\ Head(s) \in S /\ Head(s) = s[1] /\ Len(s) \in Nat /\ Len(s) > 0
      /\ Tail(s) \in Seq(S) /\ Len(Tail(s)) = Len(s) - 1
      /\ \A i \in 1 .. Len(Tail(s)) : Tail(s)[i] = s[i + 1]
  BY HeadTailProperties, EmptySeq
<1>2. DOMAIN s = 1 .. Len(s) /\ DOMAIN Tail(s) = 1 .. Len(s) - 1
  BY <1>1
<1>3. \A i \in DOMAIN Tail(s) : i + 1 \in DOMAIN s /\ 1 < i + 1 /\ Tail(s)[i] = s[i + 1] /\ i \in Int
  BY <1>1, <1>2
<1>4. 1 \in DOMAIN s
  BY <1>1, <1>2
<1>5. Elements(s) = {Head(s)} \cup Elements(Tail(s))
  <2>1. \A j \in DOMAIN s : j = 1 \/ (j - 1 \in DOMAIN Tail(s) /\ Tail(s)[j - 1] = s[j])
    BY <1>1, <1>2
  <2>2. \A j \in DOMAIN s : s[j] \in {Head(s)} \cup Elements(Tail(s))
    BY <1>1, <2>1 DEF Elements
  <2>3. Head(s) \in Elements(s) /\ Elements(Tail(s)) \subseteq Elements(s)
    BY <1>1, <1>3, <1>4 DEF Elements
  <2> QED BY <2>2, <2>3 DEF Elements
<1>6. Ascending(s) => Ascending(Tail(s)) /\ Before({Head(s)}, Elements(Tail(s)))
  <2> SUFFICES ASSUME Ascending(s) PROVE Ascending(Tail(s)) /\ Before({Head(s)}, Elements(Tail(s)))
    OBVIOUS
  <2>1. Ascending(Tail(s))
    BY <1>3 DEF Ascending
  <2>2. \A i \in DOMAIN Tail(s) : Head(s).n < Tail(s)[i].n
    BY <1>1, <1>3, <1>4 DEF Ascending
  <2> QED BY <2>1, <2>2 DEF Before, Elements
<1> QED BY <1>1, <1>5, <1>6

LEMMA Appended ==
  ASSUME NEW S, NEW s \in Seq(S), NEW x \in S
  PROVE  /\ Append(s, x) \in Seq(S)
         /\ Elements(Append(s, x)) = Elements(s) \cup {x}
         /\ Ascending(s) /\ Before(Elements(s), {x}) => Ascending(Append(s, x))
<1> DEFINE t == Append(s, x)
<1>1. /\ t \in Seq(S) /\ Len(t) = Len(s) + 1 /\ Len(s) \in Nat
      /\ \A i \in 1 .. Len(s) : t[i] = s[i]
      /\ t[Len(s) + 1] = x
  BY AppendProperties
<1>2. DOMAIN s = 1 .. Len(s) /\ DOMAIN t = 1 .. Len(s) + 1
  BY <1>1
<1> HIDE DEF t
<1>3. /\ \A i \in DOMAIN s : i \in DOMAIN t /\ t[i] = s[i]
      /\ \A i \in DOMAIN t : i \in DOMAIN s \/ (i = Len(s) + 1 /\ t[i] = x)
      /\ Len(s) + 1 \in DOMAIN t
  BY <1>1, <1>2
<1>4. \A i, j \in DOMAIN t : i < j => i \in DOMAIN s
  BY <1>1, <1>2
<1>5. Elements(t) = Elements(s) \cup {x}
  BY <1>1, <1>3 DEF Elements
<1>6. Ascending(s) /\ Before(Elements(s), {x}) => Ascending(t)
  BY <1>3, <1>4 DEF Ascending, Before, Elements
<1> QED BY <1>1, <1>5, <1>6 DEF t

LEMMA Shortened ==
  ASSUME NEW S, NEW s \in Seq(S), NEW n \in 0 .. Len(s)
  PROVE  /\ Elements(SubSeq(s, 1, n)) \subseteq Elements(s)
         /\ Ascending(s) => Ascending(SubSeq(s, 1, n))
<1>1. /\ Len(SubSeq(s, 1, n)) = n /\ SubSeq(s, 1, n) \in Seq(S)
      /\ \A i \in 1 .. n : SubSeq(s, 1, n)[i] = s[i]
  BY SubSeqProperties
<1>2. \A i \in DOMAIN SubSeq(s, 1, n) : i \in DOMAIN s /\ SubSeq(s, 1, n)[i] = s[i]
  BY <1>1
<1> QED BY <1>2 DEF Elements, Ascending

LEMMA Emptied == Elements(<<>>) = {} /\ Ascending(<<>>)
BY DEF Elements, Ascending

(* Where an event can be after it was published: at the broker, in the     *)
(* library, in the callback's hands, on the way to api.py, handled.        *)
Hand == {event} \ {NoEvent}
Handled == {h.e : h \in handlers}
OnTheWay == Elements(to_api) \cup Hand \cup Elements(inbox) \cup Elements(queue)
Known == Handled \cup OnTheWay

(* The events whose time is not yet stored.                                *)
Pending == {h.e : h \in {g \in handlers : g.at # "emit"}}
Waiting == Pending \cup OnTheWay

InLine(A, B, C, D, E) ==
  /\ Before(A, B \cup C \cup D \cup E) /\ Before(B, C \cup D \cup E)
  /\ Before(C, D \cup E) /\ Before(D, E)

OrderInv ==
  /\ Ascending(queue) /\ Ascending(inbox) /\ Ascending(to_api)
  /\ InLine(Handled, Elements(to_api), Hand, Elements(inbox), Elements(queue))

(* The three steps of handle_events, with the handler's new state written  *)
(* out.  A handler that computed 0 had no earlier pulse to compute from.   *)
At(h, place, i) == [e |-> h.e, at |-> place, interval |-> i]

LEMMA ComputeFacts ==
  ASSUME ApiType, NEW h \in handlers, Compute(h)
  PROVE  /\ h \in Handlers /\ h.at = "compute" /\ UNCHANGED last_ts
         /\ \/ /\ last_ts[h.e.kind] # Never /\ h.e.ts = last_ts[h.e.kind]
               /\ handlers' = handlers \ {h}
            \/ \E i \in Int :
                 /\ handlers' = (handlers \ {h}) \cup {At(h, "store", i)}
                 /\ IF last_ts[h.e.kind] = Never THEN i = 0
                    ELSE i # 0 /\ i = h.e.ts - last_ts[h.e.kind]
<1> DEFINE k == h.e.kind
           first == last_ts[k] = Never
           i == IF first THEN 0 ELSE Since(h.e)
           next == [h EXCEPT !.at = "store", !.interval = i]
<1>1. h \in Handlers /\ h.e.ts \in Int /\ last_ts[k] \in Int
  BY DEF ApiType, Handlers, Events
<1>2. Since(h.e) = h.e.ts - last_ts[k] /\ Since(h.e) \in Int
  BY <1>1 DEF Since
<1>3. i \in Int
  BY <1>2
<1>4. /\ h.at = "compute" /\ UNCHANGED last_ts
      /\ handlers' = (handlers \ {h}) \cup (IF ~first /\ Since(h.e) = 0 THEN {} ELSE {next})
  BY DEF Compute
<1>5. next = At(h, "store", i)
  <2>1. next \in Handlers /\ next.e = h.e /\ next.at = "store" /\ next.interval = i
    <3> HIDE DEF i
    <3> QED BY <1>1, <1>3 DEF Handlers
  <2> HIDE DEF next, i
  <2>2. next = [e |-> next.e, at |-> next.at, interval |-> next.interval]
    BY <2>1 DEF Handlers
  <2> QED BY <2>1, <2>2 DEF At
<1>6. CASE ~first /\ Since(h.e) = 0
  <2>1. handlers' = handlers \ {h} /\ h.e.ts = last_ts[k]
    BY <1>1, <1>2, <1>4, <1>6
  <2> QED BY <1>1, <1>4, <1>6, <2>1
<1>7. CASE ~(~first /\ Since(h.e) = 0)
  <2>1. handlers' = (handlers \ {h}) \cup {At(h, "store", i)}
    BY <1>4, <1>5, <1>7
  <2>2. IF first THEN i = 0 ELSE i # 0 /\ i = h.e.ts - last_ts[k]
    BY <1>2, <1>7
  <2> HIDE DEF i
  <2> QED BY <1>1, <1>3, <1>4, <2>1, <2>2
<1> QED BY <1>6, <1>7

LEMMA StoreFacts ==
  ASSUME ApiType, NEW h \in handlers, Store(h)
  PROVE  /\ h \in Handlers /\ h.at = "store"
         /\ last_ts' = [last_ts EXCEPT ![h.e.kind] = h.e.ts]
         /\ handlers' = (handlers \ {h}) \cup (IF IsSent(h.interval) THEN {At(h, "emit", h.interval)} ELSE {})
<1>1. h \in Handlers
  BY DEF ApiType
<1>2. [h EXCEPT !.at = "emit"] = At(h, "emit", h.interval)
  BY <1>1 DEF At, Handlers
<1> QED BY <1>1, <1>2 DEF Store

(* No step but Pulse brings an event in, and none changes their order.     *)
LEMMA PlaceStep ==
  ASSUME TypeInv, OrderInv, [Next]_vars, ~Pulse
  PROVE  OrderInv' /\ Known' \subseteq Known /\ Waiting' \subseteq Waiting
<1> USE DEF OrderInv, Known, Waiting, OnTheWay, InLine, Before
<1>t. /\ queue \in Seq(Numbered) /\ inbox \in Seq(Numbered) /\ to_api \in Seq(Events)
      /\ event \in Events /\ (loop = "callback" <=> event # NoEvent)
      /\ Numbered \subseteq Events /\ inbox \in Seq(Events)
  BY SeqMonotonic DEF TypeInv, ConsumerType, ApiType, Numbered
<1>1. ASSUME UNCHANGED <<queue, inbox, event, to_api>>, Handled' \subseteq Handled,
             Pending' \subseteq Pending
      PROVE  OrderInv' /\ Known' \subseteq Known /\ Waiting' \subseteq Waiting
  <2>1. /\ Elements(queue)' = Elements(queue) /\ Elements(inbox)' = Elements(inbox)
        /\ Elements(to_api)' = Elements(to_api) /\ Hand' = Hand
        /\ Ascending(queue)' /\ Ascending(inbox)' /\ Ascending(to_api)'
    BY <1>1 DEF Elements, Hand, Ascending
  <2> HIDE DEF Handled, Pending
  <2> QED BY <1>1, <2>1
<1>2. ASSUME UNCHANGED <<handlers, to_api>>, event' = NoEvent \/ event' = event,
             UNCHANGED queue, inbox' \in Seq(Events), Ascending(inbox'),
             Elements(inbox') \subseteq Elements(inbox)
      PROVE  OrderInv' /\ Known' \subseteq Known /\ Waiting' \subseteq Waiting
  <2>1. /\ Elements(queue)' = Elements(queue) /\ Ascending(queue)' /\ Elements(inbox)' = Elements(inbox')
        /\ Elements(to_api)' = Elements(to_api) /\ Ascending(to_api)'
        /\ Handled' = Handled /\ Pending' = Pending
    BY <1>2 DEF Elements, Ascending, Handled, Pending
  <2>2. Hand' \subseteq Hand /\ Ascending(inbox)'
    BY <1>2 DEF Hand, Ascending
  <2> HIDE DEF Handled, Pending
  <2> QED BY <1>2, <2>1, <2>2
<1>3. CASE Amqp
  <2> USE DEF bridge, api, wires
  <2>1. CASE Consume \/ ConnectFails \/ Wake \/ OutageEnds
    BY <1>1, <1>3, <2>1 DEF Amqp, Consume, ConnectFails, Wake, OutageEnds, Handled, Pending
  <2>2. CASE Noticed
    BY <1>2, <1>3, <2>2, Emptied, EmptySeq DEF Amqp, Noticed
  <2>3. CASE Deliver
    <3>1. /\ Elements(queue) = {Head(queue)} \cup Elements(Tail(queue)) /\ Head(queue) \in Numbered
          /\ Ascending(Tail(queue)) /\ Before({Head(queue)}, Elements(Tail(queue)))
      BY <1>t, <2>3, HeadAndTail DEF Deliver
    <3>2. Before(Elements(inbox), {Head(queue)})
      BY <3>1
    <3>3. /\ Elements(Append(inbox, Head(queue))) = Elements(inbox) \cup {Head(queue)}
          /\ Ascending(Append(inbox, Head(queue)))
      BY <1>t, <3>1, <3>2, Appended
    <3>4. /\ Elements(queue)' = Elements(Tail(queue)) /\ Ascending(queue)'
          /\ Elements(inbox)' = Elements(inbox) \cup {Head(queue)} /\ Ascending(inbox)'
          /\ Elements(to_api)' = Elements(to_api) /\ Ascending(to_api)'
          /\ Handled' = Handled /\ Pending' = Pending /\ Hand' = Hand
      BY <1>3, <2>3, <3>1, <3>3 DEF Amqp, Deliver, Elements, Ascending, Handled, Pending, Hand
    <3> HIDE DEF Handled, Pending, Hand
    <3> QED BY <3>1, <3>4
  <2> QED BY <1>3, <2>1, <2>2, <2>3 DEF Amqp, Reconnect
<1>4. CASE callback
  <2>1. /\ Elements(inbox) = {Head(inbox)} \cup Elements(Tail(inbox)) /\ Head(inbox) \in Numbered
        /\ Ascending(Tail(inbox)) /\ Before({Head(inbox)}, Elements(Tail(inbox)))
    BY <1>t, <1>4, HeadAndTail DEF callback, Take
  <2>2. /\ Elements(queue)' = Elements(queue) /\ Ascending(queue)'
        /\ Elements(inbox)' = Elements(Tail(inbox)) /\ Ascending(inbox)'
        /\ Elements(to_api)' = Elements(to_api) /\ Ascending(to_api)'
        /\ Handled' = Handled /\ Pending' = Pending
    BY <1>4, <2>1 DEF callback, Take, Elements, Ascending, Handled, Pending, api, wires
  <2>3. Hand' \subseteq {Head(inbox)}
    BY <1>4 DEF callback, Hand
  <2> HIDE DEF Handled, Pending, Hand
  <2> QED BY <2>1, <2>2, <2>3
<1>5. CASE CallbackEmit
  <2>1. CASE session = "up"
    <3>1. event # NoEvent
      BY <1>5, <1>t DEF CallbackEmit
    <3>2. Hand = {event} /\ Before(Elements(to_api), {event})
      BY <3>1 DEF Hand
    <3>3. /\ Elements(Append(to_api, event)) = Elements(to_api) \cup {event}
          /\ Ascending(Append(to_api, event))
      BY <1>t, <3>2, Appended
    <3>4. /\ Elements(queue)' = Elements(queue) /\ Ascending(queue)'
          /\ Elements(inbox)' = Elements(inbox) /\ Ascending(inbox)'
          /\ Elements(to_api)' = Elements(to_api) \cup {event} /\ Ascending(to_api)'
          /\ Handled' = Handled /\ Pending' = Pending /\ Hand' = {}
      BY <1>5, <2>1, <3>3 DEF CallbackEmit, Elements, Ascending, Handled, Pending, Hand, api
    <3> HIDE DEF Handled, Pending, Hand
    <3> QED BY <3>2, <3>4
  <2>2. CASE session # "up"
    <3>1. inbox' \in {inbox, <<>>} /\ event' = NoEvent /\ UNCHANGED <<handlers, to_api, queue>>
      BY <1>5, <2>2 DEF CallbackEmit, Ended, End, api
    <3> QED BY <1>2, <1>t, <3>1, Emptied, EmptySeq
  <2> QED BY <2>1, <2>2
<1>6. CASE Stop
  BY <1>2, <1>6, Emptied, EmptySeq DEF Stop, Ended, End, api, wires
<1>7. CASE BrokerLeaves
  <2>1. PICK n \in 0 .. Len(inbox) : inbox' = SubSeq(inbox, 1, n)
    BY <1>7 DEF BrokerLeaves, Outage
  <2>2. inbox' \in Seq(Events) /\ Elements(inbox') \subseteq Elements(inbox) /\ Ascending(inbox')
    BY <1>t, <2>1, Shortened, SubSeqProperties
  <2> QED BY <1>2, <1>7, <2>2 DEF BrokerLeaves, Outage, bridge, api, wires
<1>8. CASE Drop \/ ApiEnds
  <2>1. /\ Elements(queue)' = Elements(queue) /\ Ascending(queue)'
        /\ Elements(inbox)' = Elements(inbox) /\ Ascending(inbox)'
        /\ Elements(to_api)' = {} /\ Ascending(to_api)' /\ Hand' = Hand
    <3>1. to_api' = <<>> /\ UNCHANGED <<queue, inbox, event>>
      BY <1>8 DEF Drop, ApiEnds, Broken, consumer
    <3> QED BY <3>1, Emptied DEF Elements, Ascending, Hand
  <2>2. Handled' \subseteq Handled /\ Pending' \subseteq Pending
    BY <1>8 DEF Drop, ApiEnds, Handled, Pending, api
  <2> HIDE DEF Handled, Pending, Hand
  <2> QED BY <2>1, <2>2
<1>9. CASE HandlerStarts
  <2>1. /\ Elements(to_api) = {Head(to_api)} \cup Elements(Tail(to_api))
        /\ Ascending(Tail(to_api)) /\ Before({Head(to_api)}, Elements(Tail(to_api)))
    BY <1>t, <1>9, HeadAndTail DEF HandlerStarts
  <2>2. /\ Elements(queue)' = Elements(queue) /\ Ascending(queue)'
        /\ Elements(inbox)' = Elements(inbox) /\ Ascending(inbox)'
        /\ Elements(to_api)' = Elements(Tail(to_api)) /\ Ascending(to_api)' /\ Hand' = Hand
    BY <1>9, <2>1 DEF HandlerStarts, Elements, Ascending, Hand, consumer, bridge
  <2>3. Handled' = Handled \cup {Head(to_api)} /\ Pending' = Pending \cup {Head(to_api)}
    <3> DEFINE new == [e |-> Head(to_api), at |-> "compute", interval |-> 0]
    <3>1. handlers' = handlers \cup {new} /\ new.e = Head(to_api) /\ new.at # "emit"
      BY <1>9 DEF HandlerStarts
    <3> HIDE DEF new
    <3> QED BY <3>1 DEF Handled, Pending
  <2> HIDE DEF Handled, Pending, Hand
  <2> QED BY <2>1, <2>2, <2>3
<1>10. CASE \E h \in handlers : Compute(h) \/ Store(h) \/ Emit(h)
  <2>1. PICK h \in handlers : Compute(h) \/ Store(h) \/ Emit(h)
    BY <1>10
  <2>2. UNCHANGED <<queue, inbox, event, to_api>>
    BY <2>1 DEF Compute, Store, Emit, consumer, bridge, wires
  <2>3. \A g \in handlers' : g \in handlers \/ (g.e = h.e /\ (g.at # "emit" => h.at # "emit"))
    <3>1. CASE Compute(h)
      BY <3>1, ComputeFacts DEF TypeInv, At
    <3>2. CASE Store(h)
      BY <3>2, StoreFacts DEF TypeInv, At
    <3>3. CASE Emit(h)
      BY <3>3 DEF Emit
    <3> QED BY <2>1, <3>1, <3>2, <3>3
  <2>4. Handled' \subseteq Handled /\ Pending' \subseteq Pending
    BY <2>3 DEF Handled, Pending
  <2> QED BY <1>1, <2>2, <2>4
<1>11. CASE \/ DialFails \/ SetConnected \/ TestConnected \/ Session
            \/ ApiStarts \/ Page \/ PageLeaves \/ UNCHANGED vars
  <2>1. UNCHANGED <<queue, inbox, event, to_api, handlers>>
    BY <1>11 DEF DialFails, SetConnected, TestConnected, Session, Accept, connect, disconnect, ApiStarts, Page,
                 Mount, PageConnects, on_join, Show, PageLeaves, vars, consumer, bridge, api, wires
  <2> QED BY <1>1, <2>1 DEF Handled, Pending
<1> QED
  BY <1>3, <1>4, <1>5, <1>6, <1>7, <1>8, <1>9, <1>10, <1>11 DEF Next, Bridge, Handler

(* What was published: numbers follow the order of publication.            *)
FeedInv ==
  /\ Known \subseteq published
  /\ \A x \in published : 0 < x.n /\ x.n <= Cardinality(published)

LEMMA PulseStep ==
  ASSUME TypeInv, OrderInv, FeedInv, Pulse
  PROVE  /\ OrderInv' /\ FeedInv' /\ published \subseteq published'
         /\ \E e \in Numbered :
              /\ published' = published \cup {e} /\ Known' = Known \cup {e} /\ Waiting' = Waiting \cup {e}
              /\ \A x \in published : x.n < e.n
<1> USE DEF OrderInv, Known, OnTheWay, InLine, Before
<1>t. queue \in Seq(Numbered) /\ published \subseteq Events /\ IsFiniteSet(published)
  BY DEF TypeInv, ConsumerType, MeterType
<1>1. PICK e \in Numbered :
        Enqueue(e) /\ published' = published \cup {e} /\ e.n = Cardinality(published) + 1
  BY PulseFacts DEF TypeInv
<1>2. Cardinality(published) \in Nat
  BY <1>t, FS_CardinalityType
<1>3. \A x \in published : x.n \in Nat
  BY <1>t DEF Events
<1>4. \A x \in published : x.n < e.n /\ x # e
  BY <1>1, <1>2, <1>3 DEF FeedInv
<1>5. Cardinality(published') = Cardinality(published) + 1
  BY <1>1, <1>4, <1>t, FS_AddElement
<1>6. /\ Elements(queue)' = Elements(queue) \cup {e} /\ Ascending(queue)'
      /\ Elements(inbox)' = Elements(inbox) /\ Ascending(inbox)'
      /\ Elements(to_api)' = Elements(to_api) /\ Ascending(to_api)'
      /\ Handled' = Handled /\ Hand' = Hand
  <2>1. Before(Elements(queue), {e})
    BY <1>4 DEF FeedInv
  <2>2. Elements(Append(queue, e)) = Elements(queue) \cup {e} /\ Ascending(Append(queue, e))
    BY <1>t, <2>1, Appended
  <2>3. queue' = Append(queue, e) /\ UNCHANGED <<inbox, to_api, handlers, event>>
    BY <1>1 DEF Enqueue, Pulse, bridge, api, wires
  <2> QED BY <2>2, <2>3 DEF Elements, Ascending, Handled, Hand
<1>7. Pending' = Pending
  BY DEF Pulse, api, Pending
<1>8. Known' = Known \cup {e} /\ Waiting' = Waiting \cup {e}
  <2> HIDE DEF Handled, Pending, Hand
  <2> QED BY <1>6, <1>7 DEF Waiting
<1>9. OrderInv'
  <2>1. \A x \in Handled \cup Elements(to_api) \cup Hand \cup Elements(inbox) : x.n < e.n
    BY <1>4 DEF FeedInv
  <2> HIDE DEF Handled, Pending, Hand
  <2> QED BY <1>6, <2>1
<1>10. FeedInv'
  <2>1. Known' \subseteq published'
    BY <1>1, <1>8 DEF FeedInv
  <2>2. \A x \in published' : 0 < x.n /\ x.n <= Cardinality(published')
    BY <1>1, <1>2, <1>3, <1>5 DEF FeedInv
  <2> QED BY <2>1, <2>2 DEF FeedInv
<1> QED BY <1>1, <1>4, <1>8, <1>9, <1>10

(* Only a pulse is news of the meter.                                      *)
LEMMA MeterKept == [Next]_vars /\ ~Pulse => UNCHANGED <<feed, published>>
BY DEF Next, meter, vars, Amqp, Bridge, DialFails, SetConnected, TestConnected, callback, CallbackEmit,
       Session, Accept, connect, disconnect, Handler, HandlerStarts, Compute, Store, Emit, ApiStarts,
       Page, Mount, PageConnects, on_join, Show, Drop, ApiEnds, PageLeaves, BrokerLeaves, Stop

LEMMA NextOrder == TypeInv /\ OrderInv /\ FeedInv /\ [Next]_vars => OrderInv' /\ FeedInv'
<1> SUFFICES ASSUME TypeInv, OrderInv, FeedInv, [Next]_vars PROVE OrderInv' /\ FeedInv'
  OBVIOUS
<1>1. CASE Pulse
  BY <1>1, PulseStep
<1>2. CASE ~Pulse
  <2>1. OrderInv' /\ Known' \subseteq Known /\ UNCHANGED published
    BY <1>2, PlaceStep, MeterKept
  <2> QED BY <2>1 DEF FeedInv
<1> QED BY <1>1, <1>2

-----------------------------------------------------------------------------
(* Handlers, one at a time                                                 *)

(* last_ts_active and last_ts_reactive are -1, for which NoEvent stands    *)
(* here, or the time of a pulse.  Where handlers do not run concurrently   *)
(* no event comes from before that pulse; and as long as nothing broke or  *)
(* ended, none after it is lost.                                           *)
Stored(k, f) ==
  /\ IF f = NoEvent THEN last_ts[k] = Never ELSE f.kind = k /\ last_ts[k] = f.ts
  /\ ~concurrent => \A y \in Waiting : y.kind = k => f.n < y.n
  /\ ~concurrent /\ Undisturbed =>
       \A x \in published : x.kind = k /\ f.n < x.n => x \in Waiting

LastInv == \A k \in Kinds : \E f \in published \cup {NoEvent} : Stored(k, f)

(* Where handlers do not run concurrently there is one, and what it has    *)
(* stored is still there when it sends.                                    *)
OneAtATime ==
  ~concurrent =>
    /\ \A g, h \in handlers : g = h
    /\ \A h \in handlers : h.at = "emit" => last_ts[h.e.kind] = h.e.ts

LinkInv == outages = 0 => link # "broken"

LEMMA ApiKept ==
  ASSUME [Next]_vars, ~HandlerStarts, ~ApiEnds,
         ~ \E h \in handlers : Compute(h) \/ Store(h) \/ Emit(h)
  PROVE  UNCHANGED <<handlers, last_ts>>
BY DEF Next, api, vars, Amqp, Bridge, DialFails, SetConnected, TestConnected, callback, CallbackEmit,
       Session, Accept, connect, disconnect, Handler, ApiStarts, Page, Mount, PageConnects, on_join, Show,
       Pulse, Drop, PageLeaves, BrokerLeaves, Stop

Disturbance == Drop \/ ApiEnds \/ PageLeaves \/ BrokerLeaves \/ Stop

LEMMA ModeKept ==
  ASSUME TypeInv, [Next]_vars
  PROVE  concurrent' = concurrent /\ (Undisturbed' => Undisturbed /\ ~Disturbance)
<1> USE DEF Undisturbed, Troubles, counts, api
<1>1. CASE Disturbance
  <2>1. concurrent' = concurrent
    BY <1>1 DEF Disturbance, Drop, ApiEnds, PageLeaves, BrokerLeaves, Stop
  <2>2. outages \in Nat /\ drops \in Nat /\ restarts \in Nat /\ leaves \in Nat /\ stops \in Nat
    BY DEF TypeInv, CountType
  <2>3. ~Undisturbed'
    BY <1>1, <2>2 DEF Disturbance, Drop, ApiEnds, PageLeaves, BrokerLeaves, Stop
  <2> QED BY <2>1, <2>3
<1>2. CASE ~Disturbance
  <2>1. UNCHANGED <<outages, drops, restarts, leaves, stops, concurrent>>
    BY <1>2 DEF Disturbance, Next, vars, Amqp, Bridge, DialFails, SetConnected, TestConnected,
         callback, CallbackEmit, Session, Accept, connect, disconnect, Handler, HandlerStarts, Compute, Store, Emit,
         ApiStarts, Page, Mount, PageConnects, on_join, Show, Pulse
  <2> QED BY <1>2, <2>1
<1> QED BY <1>1, <1>2

LEMMA NextLinkInv == TypeInv /\ LinkInv /\ [Next]_vars => LinkInv'
<1> SUFFICES ASSUME TypeInv, LinkInv, [Next]_vars PROVE LinkInv'
  OBVIOUS
<1> USE DEF LinkInv, counts, consumer
<1>1. CASE BrokerLeaves
  BY <1>1 DEF BrokerLeaves, TypeInv, CountType
<1>2. CASE Amqp
  BY <1>2 DEF Amqp, Reconnect, Consume, ConnectFails, Wake, Noticed, Deliver, OutageEnds
<1>3. CASE Bridge \/ Stop
  BY <1>3 DEF Bridge, DialFails, SetConnected, TestConnected, callback, Take, CallbackEmit, Stop,
              Ended, End
<1>4. CASE Session \/ Handler \/ ApiStarts \/ Page \/ UNCHANGED vars
  BY <1>4 DEF Session, Accept, connect, disconnect, Handler, HandlerStarts, Compute, Store, Emit, ApiStarts, Page,
              Mount, PageConnects, on_join, Show, vars
<1>5. CASE Pulse \/ Drop \/ ApiEnds \/ PageLeaves
  BY <1>5 DEF Pulse, Enqueue, Drop, ApiEnds, PageLeaves
<1> QED BY <1>1, <1>2, <1>3, <1>4, <1>5 DEF Next

LEMMA NextOneAtATime == TypeInv /\ OneAtATime /\ [Next]_vars => OneAtATime'
<1> SUFFICES ASSUME TypeInv, OneAtATime, [Next]_vars, ~concurrent' PROVE OneAtATime'
  BY DEF OneAtATime
<1>c. ~concurrent
  BY ModeKept
<1>o. /\ \A g, h \in handlers : g = h
      /\ \A h \in handlers : h.at = "emit" => last_ts[h.e.kind] = h.e.ts
  BY <1>c DEF OneAtATime
<1>t. last_ts \in [Kinds -> Int] /\ handlers \subseteq Handlers
  BY DEF TypeInv, ApiType
<1>1. CASE UNCHANGED <<handlers, last_ts>>
  BY <1>o, <1>1 DEF OneAtATime
<1>2. CASE HandlerStarts
  <2> DEFINE new == [e |-> Head(to_api), at |-> "compute", interval |-> 0]
  <2>1. handlers' = {new} /\ new.at = "compute"
    BY <1>2, <1>c DEF HandlerStarts
  <2> HIDE DEF new
  <2> QED BY <2>1 DEF OneAtATime
<1>3. CASE ApiEnds
  BY <1>3 DEF ApiEnds, OneAtATime
<1>4. ASSUME NEW h \in handlers, Compute(h) PROVE OneAtATime'
  <2>1. \A g \in handlers' : g.at = "store" /\ \A f \in handlers' : f = g
    BY <1>o, <1>4, ComputeFacts DEF TypeInv, At
  <2> QED BY <2>1 DEF OneAtATime
<1>5. ASSUME NEW h \in handlers, Store(h) PROVE OneAtATime'
  <2>1. /\ last_ts' = [last_ts EXCEPT ![h.e.kind] = h.e.ts] /\ h.e.kind \in Kinds
        /\ handlers' \subseteq {At(h, "emit", h.interval)}
    BY <1>o, <1>t, <1>5, StoreFacts DEF TypeInv, Handlers, Events
  <2>2. \A g \in handlers' : last_ts'[g.e.kind] = g.e.ts
    BY <1>t, <2>1 DEF At
  <2> QED BY <2>1, <2>2 DEF OneAtATime
<1>6. ASSUME NEW h \in handlers, Emit(h) PROVE OneAtATime'
  BY <1>o, <1>6 DEF Emit, OneAtATime
<1> QED BY <1>1, <1>2, <1>3, <1>4, <1>5, <1>6, ApiKept

(* Without a disturbance an event leaves its place only for the next one,  *)
(* until its time is stored.                                               *)
LEMMA NothingDropped ==
  ASSUME TypeInv, SessionInv, LinkInv, [Next]_vars, Undisturbed, ~Disturbance,
         ~ \E h \in handlers : Compute(h) \/ Store(h) \/ Emit(h)
  PROVE  Waiting \subseteq Waiting'
<1> USE DEF Waiting, OnTheWay
<1>t. /\ queue \in Seq(Numbered) /\ inbox \in Seq(Numbered) /\ to_api \in Seq(Events)
      /\ event \in Events /\ (loop = "callback" <=> event # NoEvent)
      /\ Numbered \subseteq Events /\ NoEvent \notin Numbered
  BY DEF TypeInv, ConsumerType, ApiType, Numbered, NoEvent
<1>c. stops + drops + restarts = 0 /\ outages = 0
  <2>1. outages \in Nat /\ drops \in Nat /\ restarts \in Nat /\ leaves \in Nat /\ stops \in Nat
    BY DEF TypeInv, CountType
  <2> QED BY <2>1 DEF Undisturbed, Troubles
<1>1. CASE HandlerStarts
  <2>1. Elements(to_api) = {Head(to_api)} \cup Elements(Tail(to_api))
    BY <1>t, <1>1, HeadAndTail DEF HandlerStarts
  <2>2. Head(to_api) \in Pending' /\ Pending \subseteq Pending'
    <3> DEFINE new == [e |-> Head(to_api), at |-> "compute", interval |-> 0]
    <3>1. handlers' = handlers \cup {new} /\ new.e = Head(to_api) /\ new.at # "emit"
      BY <1>1 DEF HandlerStarts
    <3> HIDE DEF new
    <3> QED BY <3>1 DEF Pending
  <2>3. /\ Elements(to_api)' = Elements(Tail(to_api)) /\ Hand' = Hand
        /\ Elements(inbox)' = Elements(inbox) /\ Elements(queue)' = Elements(queue)
    BY <1>1 DEF HandlerStarts, Elements, Hand, consumer, bridge
  <2> HIDE DEF Pending, Hand
  <2> QED BY <2>1, <2>2, <2>3
<1>2. CASE ~HandlerStarts
  <2>0. Pending' = Pending
    <3>1. UNCHANGED handlers
      BY <1>2, ApiKept DEF Disturbance
    <3> QED BY <3>1 DEF Pending
  <2> HIDE DEF Pending
  <2>1. CASE UNCHANGED <<queue, inbox, event, to_api>>
    BY <2>0, <2>1 DEF Elements, Hand
  <2>2. CASE Amqp
    <3>1. CASE Deliver
      <4>1. Elements(queue) = {Head(queue)} \cup Elements(Tail(queue)) /\ Head(queue) \in Numbered
        BY <1>t, <3>1, HeadAndTail DEF Deliver
      <4>2. Elements(Append(inbox, Head(queue))) = Elements(inbox) \cup {Head(queue)}
        <5>1. inbox \in Seq(Numbered) /\ Head(queue) \in Numbered
          BY <1>t, <4>1
        <5> QED BY ONLY <5>1, Appended, ZenonT(30)
      <4>3. /\ Elements(queue)' = Elements(Tail(queue))
            /\ Elements(inbox)' = Elements(inbox) \cup {Head(queue)}
            /\ Elements(to_api)' = Elements(to_api) /\ Hand' = Hand
        BY <2>2, <3>1, <4>2 DEF Amqp, Deliver, Elements, Hand, bridge, wires
      <4> HIDE DEF Hand
      <4> QED BY <2>0, <4>1, <4>3
    <3>2. CASE ~Deliver
      <4>1. ~Noticed
        BY <1>c DEF Noticed, LinkInv
      <4>2. UNCHANGED <<queue, inbox, event, to_api>>
        BY <2>2, <3>2, <4>1 DEF Amqp, Reconnect, Consume, ConnectFails, Wake, OutageEnds, bridge, wires
      <4> QED BY <2>1, <4>2
    <3> QED BY <3>1, <3>2
  <2>3. CASE callback
    <3>1. Elements(inbox) = {Head(inbox)} \cup Elements(Tail(inbox)) /\ Head(inbox) \in Numbered
      BY <1>t, <2>3, HeadAndTail DEF callback, Take
    <3>2. connected
      BY <1>c, <2>3 DEF callback, Take, SessionInv
    <3>3. Hand = {} /\ Hand' = {Head(inbox)}
      BY <1>t, <2>3, <3>1, <3>2 DEF callback, Take, Hand
    <3>4. /\ Elements(inbox)' = Elements(Tail(inbox)) /\ Elements(queue)' = Elements(queue)
          /\ Elements(to_api)' = Elements(to_api)
      BY <2>3 DEF callback, Take, Elements, wires
    <3> HIDE DEF Hand
    <3> QED BY <2>0, <3>1, <3>3, <3>4
  <2>4. CASE CallbackEmit
    <3>1. session = "up" /\ event # NoEvent
      BY <1>c, <1>t, <2>4 DEF CallbackEmit, SessionInv
    <3>2. Hand = {event}
      BY <3>1 DEF Hand
    <3>3. Elements(Append(to_api, event)) = Elements(to_api) \cup {event}
      BY <1>t, Appended
    <3>4. /\ Elements(to_api)' = Elements(to_api) \cup {event}
          /\ Elements(inbox)' = Elements(inbox) /\ Elements(queue)' = Elements(queue)
      BY <2>4, <3>1, <3>3 DEF CallbackEmit, Elements
    <3> HIDE DEF Hand
    <3> QED BY <2>0, <3>2, <3>4
  <2>5. CASE Pulse
    <3>1. PICK e \in Numbered : Enqueue(e)
      BY <2>5, PulseFacts DEF TypeInv
    <3>2. Elements(Append(queue, e)) = Elements(queue) \cup {e}
      BY <1>t, Appended
    <3>3. /\ Elements(queue)' = Elements(queue) \cup {e} /\ Elements(inbox)' = Elements(inbox)
          /\ Elements(to_api)' = Elements(to_api) /\ Hand' = Hand
      BY <2>5, <3>1, <3>2 DEF Enqueue, Pulse, Elements, Hand, bridge, wires
    <3> HIDE DEF Hand
    <3> QED BY <2>0, <3>3
  <2>6. CASE \/ DialFails \/ SetConnected \/ TestConnected \/ Session
             \/ ApiStarts \/ Page \/ UNCHANGED vars
    <3>1. UNCHANGED <<queue, inbox, event, to_api>>
      BY <2>6 DEF DialFails, SetConnected, TestConnected, Session, Accept, connect, disconnect, ApiStarts, Page,
                  Mount, PageConnects, on_join, Show, vars, consumer, bridge, wires
    <3> QED BY <2>1, <3>1
  <2> QED BY <1>2, <2>2, <2>3, <2>4, <2>5, <2>6 DEF Next, Bridge, Handler, Disturbance
<1> QED BY <1>1, <1>2

(* The time of an event is stored, or is stored already: the events that   *)
(* follow are those that followed the last one, but for it.                *)
LEMMA NowStored ==
  ASSUME TypeInv, OrderInv, FeedInv, LastInv, OneAtATime, ~Pulse, [Next]_vars,
         NEW h \in handlers, h.at # "emit", last_ts'[h.e.kind] = h.e.ts,
         UNCHANGED <<queue, inbox, event, to_api>>,
         ~concurrent => Pending' = {}
  PROVE  Stored(h.e.kind, h.e)'
<1> DEFINE e == h.e
           k == h.e.kind
<1>1. e \in published /\ e \in Handled /\ e \in Waiting /\ e # NoEvent /\ k \in Kinds
  <2>1. e \in published /\ e \in Handled /\ e \in Waiting
    BY DEF FeedInv, Known, Handled, Waiting, Pending
  <2> QED BY <2>1 DEF FeedInv, NoEvent, TypeInv, MeterType, Events
<1>2. published' = published
  BY MeterKept
<1>3. ASSUME ~concurrent' PROVE ~concurrent /\ Waiting' = OnTheWay
  <2>1. ~concurrent
    BY <1>3, ModeKept
  <2>2. OnTheWay' = OnTheWay
    BY DEF OnTheWay, Elements, Hand
  <2> QED BY <2>1, <2>2 DEF Waiting
<1>4. \A y \in OnTheWay : e.n < y.n
  BY <1>1 DEF OrderInv, InLine, Before, OnTheWay
<1>5. ASSUME ~concurrent', Undisturbed', NEW x \in published, x.kind = k, e.n < x.n
      PROVE  x \in Waiting'
  <2>1. PICK f \in published \cup {NoEvent} : Stored(k, f)
    BY <1>1 DEF LastInv
  <2>2. f.n < e.n
    BY <1>1, <1>3, <1>5, <2>1 DEF Stored
  <2>3. Undisturbed
    BY <1>5, ModeKept
  <2>4. f.n \in Nat /\ x.n \in Nat /\ e.n \in Nat
    BY <1>1, <2>1 DEF TypeInv, MeterType, Events, NoEvent
  <2>5. x \in Waiting /\ x # e
    BY <1>3, <1>5, <2>1, <2>2, <2>3, <2>4 DEF Stored
  <2>6. Pending \subseteq {e}
    BY <1>3, <1>5 DEF OneAtATime, Pending
  <2> QED BY <1>3, <1>5, <2>5, <2>6 DEF Waiting
<1> QED BY <1>1, <1>2, <1>3, <1>4, <1>5 DEF Stored

LEMMA NextLastInv ==
  ASSUME TypeInv, OrderInv, FeedInv, LastInv, OneAtATime, SessionInv, LinkInv, [Next]_vars
  PROVE  LastInv'
<1> SUFFICES ASSUME NEW k \in Kinds PROVE \E f \in published' \cup {NoEvent} : Stored(k, f)'
  BY DEF LastInv
<1>l. PICK f \in published \cup {NoEvent} : Stored(k, f)
  BY DEF LastInv
<1>m. concurrent' = concurrent /\ (Undisturbed' => Undisturbed /\ ~Disturbance)
  BY ModeKept
<1>t. /\ last_ts \in [Kinds -> Int] /\ handlers \subseteq Handlers /\ published \subseteq Events
      /\ NoEvent.n = 0
  BY DEF TypeInv, ApiType, MeterType, NoEvent
<1>1. CASE Pulse
  <2>1. PICK e \in Numbered :
          /\ published' = published \cup {e} /\ Waiting' = Waiting \cup {e}
          /\ \A x \in published : x.n < e.n
    BY <1>1, PulseStep
  <2>2. UNCHANGED last_ts
    BY <1>1 DEF Pulse, api
  <2>3. f.n < e.n
    BY <1>t, <2>1 DEF Numbered
  <2>4. Stored(k, f)'
    BY <1>l, <1>m, <2>1, <2>2, <2>3 DEF Stored
  <2> QED BY <2>1, <2>4
<1>2. ASSUME ~Pulse, UNCHANGED <<last_ts, published>>, Undisturbed' => Waiting \subseteq Waiting'
      PROVE  \E g \in published' \cup {NoEvent} : Stored(k, g)'
  <2>1. Waiting' \subseteq Waiting
    BY <1>2, PlaceStep
  <2>2. Stored(k, f)'
    BY <1>l, <1>m, <1>2, <2>1 DEF Stored
  <2> QED BY <1>2, <2>2
<1>3. ASSUME NEW h \in handlers, ~Pulse, Compute(h) \/ Store(h) \/ Emit(h)
      PROVE  \E g \in published' \cup {NoEvent} : Stored(k, g)'
  <2>1. /\ h \in Handlers /\ h.e.kind \in Kinds /\ h.e \in published
        /\ UNCHANGED <<queue, inbox, event, to_api, published>>
    BY <1>t, <1>3 DEF Compute, Store, Emit, Handlers, Events, consumer, bridge, wires, meter,
                      FeedInv, Known, Handled
  <2>2. OnTheWay' = OnTheWay
    BY <2>1 DEF OnTheWay, Elements, Hand
  <2>3. ASSUME k = h.e.kind, h.at # "emit", last_ts'[k] = h.e.ts, ~concurrent => Pending' = {}
        PROVE  \E g \in published' \cup {NoEvent} : Stored(k, g)'
    <3>1. Stored(k, h.e)'
      BY <1>3, <2>1, <2>3, NowStored
    <3> QED BY <2>1, <3>1
  <2>4. CASE Compute(h)
    <3>1. UNCHANGED last_ts /\ h.at = "compute"
      BY <2>4 DEF Compute
    <3>2. CASE h.e.ts = last_ts[h.e.kind] /\ handlers' = handlers \ {h}
      <4>1. ~concurrent => Pending' = {}
        BY <3>2 DEF OneAtATime, Pending
      <4>2. CASE k = h.e.kind
        BY <2>3, <3>1, <3>2, <4>1, <4>2
      <4>3. CASE k # h.e.kind
        <5>1. ~concurrent => \A y \in Waiting : y.kind = k => y \in Waiting'
          BY <2>2, <4>3 DEF Waiting, Pending, OneAtATime
        <5>2. Waiting' \subseteq Waiting
          BY <1>3, PlaceStep
        <5>3. Stored(k, f)'
          BY <1>l, <1>m, <2>1, <3>1, <5>1, <5>2 DEF Stored
        <5> QED BY <2>1, <5>3
      <4> QED BY <4>2, <4>3
    <3>3. CASE \E i \in Int : handlers' = (handlers \ {h}) \cup {At(h, "store", i)}
      <4>1. Pending \subseteq Pending'
        <5>1. PICK i \in Int : handlers' = (handlers \ {h}) \cup {At(h, "store", i)}
          BY <3>3
        <5>2. At(h, "store", i).e = h.e /\ At(h, "store", i).at = "store"
          BY DEF At
        <5> QED BY <5>1, <5>2 DEF Pending
      <4> QED BY <1>2, <1>3, <2>1, <2>2, <3>1, <4>1 DEF Waiting
    <3> QED BY <2>4, <3>2, <3>3, ComputeFacts DEF TypeInv
  <2>5. CASE Store(h)
    <3>1. /\ last_ts' = [last_ts EXCEPT ![h.e.kind] = h.e.ts] /\ h.at = "store"
          /\ handlers' \subseteq (handlers \ {h}) \cup {At(h, "emit", h.interval)}
      BY <2>5, StoreFacts DEF TypeInv
    <3>2. ~concurrent => Pending' = {}
      <4>1. At(h, "emit", h.interval).at = "emit"
        BY DEF At
      <4> QED BY <3>1, <4>1 DEF OneAtATime, Pending
    <3>3. CASE k = h.e.kind
      BY <1>t, <2>3, <3>1, <3>2, <3>3
    <3>4. CASE k # h.e.kind
      <4>1. ~concurrent => \A y \in Waiting : y.kind = k => y \in Waiting'
        BY <2>2, <3>4 DEF Waiting, Pending, OneAtATime
      <4>2. Waiting' \subseteq Waiting
        BY <1>3, PlaceStep
      <4>3. last_ts'[k] = last_ts[k]
        BY <1>t, <3>1, <3>4
      <4>4. Stored(k, f)'
        BY <1>l, <1>m, <2>1, <4>1, <4>2, <4>3 DEF Stored
      <4> QED BY <2>1, <4>4
    <3> QED BY <3>3, <3>4
  <2>6. CASE Emit(h)
    <3>1. UNCHANGED last_ts /\ h.at = "emit" /\ handlers' = handlers \ {h}
      BY <2>6 DEF Emit
    <3>2. Pending \subseteq Pending'
      BY <3>1 DEF Pending
    <3> QED BY <1>2, <1>3, <2>1, <2>2, <3>1, <3>2 DEF Waiting
  <2> QED BY <1>3, <2>4, <2>5, <2>6
<1>4. CASE ApiEnds /\ ~Pulse
  <2>1. last_ts' = [x \in Kinds |-> Never] /\ ~Undisturbed' /\ UNCHANGED published
    BY <1>4, <1>m DEF ApiEnds, Disturbance, meter
  <2>2. Waiting' \subseteq published /\ \A x \in published : 0 < x.n
    <3>1. Waiting' \subseteq Waiting /\ Waiting \subseteq published
      BY <1>4, PlaceStep DEF FeedInv, Known, Waiting, Pending, Handled
    <3> QED BY <3>1 DEF FeedInv
  <2>3. Stored(k, NoEvent)'
    BY <1>t, <2>1, <2>2 DEF Stored
  <2> QED BY <2>3
<1>5. CASE ~Pulse /\ ~ApiEnds /\ ~ \E h \in handlers : Compute(h) \/ Store(h) \/ Emit(h)
  <2>1. UNCHANGED last_ts
    BY <1>5, ApiKept DEF HandlerStarts
  <2>2. Undisturbed' => Waiting \subseteq Waiting'
    BY <1>5, <1>m, NothingDropped
  <2> QED BY <1>2, <1>5, <2>1, <2>2, MeterKept
<1> QED BY <1>1, <1>3, <1>4, <1>5

-----------------------------------------------------------------------------
(* Powers                                                                  *)

Power(e, t, i) == [n |-> e.n, kind |-> e.kind, ts |-> t, interval |-> i]

(* The powers that are as PowerOfTwoPulses says.                           *)
Right ==
  {p \in Powers :
    \E e, f \in {x \in published : x.kind = p.kind} :
      /\ e.n = p.n /\ p.interval = e.ts - f.ts /\ p.interval # 0
      /\ ~concurrent => p.ts = e.ts /\ f.n < e.n
      /\ ~concurrent /\ Undisturbed =>
           ~ \E x \in published : x.kind = p.kind /\ f.n < x.n /\ x.n < e.n}

(* The powers that handlers are about to send, that are on their way, and  *)
(* that are on the screen.                                                 *)
HandlerPowers ==
  \A h \in handlers :
    /\ h.at = "compute" => h.interval = 0
    /\ h.at = "emit" => h.interval # 0
    /\ h.interval # 0 => Power(h.e, h.e.ts, h.interval) \in Right

SentPowers == Elements(to_page) \subseteq Right

ShownPowers == \A k \in Kinds : screen[k].kind = k /\ (screen[k] = Blank[k] \/ screen[k] \in Right)

(* A power that was right stays so: later pulses have higher numbers.      *)
LEMMA RightKept ==
  ASSUME TypeInv, OrderInv, FeedInv, [Next]_vars
  PROVE  Right \subseteq Right'
<1> SUFFICES ASSUME NEW p \in Right PROVE p \in Right'
  OBVIOUS
<1>1. concurrent' = concurrent /\ (Undisturbed' => Undisturbed)
  BY ModeKept
<1>2. PICK e \in published, f \in published :
        /\ e.kind = p.kind /\ f.kind = p.kind
        /\ e.n = p.n /\ p.interval = e.ts - f.ts /\ p.interval # 0
        /\ ~concurrent => p.ts = e.ts /\ f.n < e.n
        /\ ~concurrent /\ Undisturbed =>
             ~ \E x \in published : x.kind = p.kind /\ f.n < x.n /\ x.n < e.n
  BY DEF Right
<1>p. p \in Powers
  BY DEF Right
<1>3. CASE ~Pulse
  BY <1>1, <1>2, <1>3, <1>p, MeterKept DEF Right
<1>4. CASE Pulse
  <2>1. PICK y \in Numbered :
          published' = published \cup {y} /\ \A x \in published : x.n < y.n
    BY <1>4, PulseStep
  <2>2. e.n \in Int /\ y.n \in Int /\ e.n < y.n
    BY <1>2, <2>1 DEF TypeInv, MeterType, Numbered, Events
  <2>3. ~concurrent' /\ Undisturbed' =>
          ~ \E x \in published' : x.kind = p.kind /\ f.n < x.n /\ x.n < e.n
    BY <1>1, <1>2, <2>1, <2>2
  <2> QED BY <1>1, <1>2, <1>p, <2>1, <2>3 DEF Right
<1> QED BY <1>3, <1>4

(* The power that handle_events computes.                                  *)
LEMMA ComputeRight ==
  ASSUME TypeInv, OrderInv, FeedInv, LastInv, OneAtATime,
         NEW h \in handlers, h.at # "emit", last_ts[h.e.kind] # Never,
         NEW i \in Int, i # 0, i = h.e.ts - last_ts[h.e.kind]
  PROVE  Power(h.e, h.e.ts, i) \in Right
<1> DEFINE e == h.e
           k == h.e.kind
           p == Power(e, e.ts, i)
<1>1. e \in published /\ e \in Handled /\ e \in Waiting
  BY DEF FeedInv, Known, Handled, Waiting, Pending
<1>2. k \in Kinds /\ e.ts \in Int /\ e.n \in Nat /\ published \subseteq Events
  BY <1>1 DEF TypeInv, MeterType, Events
<1>3. PICK f \in published : f.kind = k /\ f.ts = last_ts[k] /\ Stored(k, f)
  BY <1>2 DEF LastInv, Stored
<1>4. f.ts \in Int
  BY <1>2, <1>3 DEF Events
<1>5. ~concurrent => f.n < e.n
  BY <1>1, <1>3 DEF Stored
<1>6. ASSUME ~concurrent, Undisturbed, NEW x \in published, x.kind = k, f.n < x.n, x.n < e.n
      PROVE  FALSE
  <2>1. x \in Waiting /\ x # e
    BY <1>2, <1>3, <1>6 DEF Stored
  <2>2. x \in OnTheWay
    <3>1. Pending \subseteq {e}
      BY <1>6 DEF OneAtATime, Pending
    <3> QED BY <2>1, <3>1 DEF Waiting
  <2>3. e.n < x.n
    BY <1>1, <2>2 DEF OrderInv, InLine, Before, OnTheWay
  <2> QED BY <1>2, <1>6, <2>3 DEF Events
<1>7. p \in Powers /\ p.n = e.n /\ p.kind = k /\ p.ts = e.ts /\ p.interval = i
  BY <1>2 DEF Power, Powers
<1> HIDE DEF p
<1>8. p \in Right
  BY <1>1, <1>3, <1>5, <1>6, <1>7 DEF Right
<1> QED BY <1>8 DEF p

LEMMA NextHandlerPowers ==
  ASSUME TypeInv, OrderInv, FeedInv, LastInv, OneAtATime, HandlerPowers, [Next]_vars
  PROVE  HandlerPowers'
<1>1. Right \subseteq Right'
  BY RightKept
<1>2. ASSUME NEW g \in handlers' \ handlers
      PROVE  /\ g.at = "compute" => g.interval = 0
             /\ g.at = "emit" => g.interval # 0
             /\ g.interval # 0 => Power(g.e, g.e.ts, g.interval) \in Right
  <2>1. CASE HandlerStarts
    <3>1. g.at = "compute" /\ g.interval = 0
      BY <1>2, <2>1 DEF HandlerStarts
    <3> QED BY <3>1
  <2>2. ASSUME NEW h \in handlers, Compute(h) \/ Store(h) \/ Emit(h)
        PROVE  /\ g.at = "compute" => g.interval = 0
               /\ g.at = "emit" => g.interval # 0
               /\ g.interval # 0 => Power(g.e, g.e.ts, g.interval) \in Right
    <3>1. CASE Compute(h)
      <4>1. PICK i \in Int :
              /\ handlers' = (handlers \ {h}) \cup {At(h, "store", i)}
              /\ IF last_ts[h.e.kind] = Never THEN i = 0 ELSE i # 0 /\ i = h.e.ts - last_ts[h.e.kind]
        BY <1>2, <3>1, ComputeFacts DEF TypeInv
      <4>2. g.e = h.e /\ g.at = "store" /\ g.interval = i
        BY <1>2, <4>1 DEF At
      <4>3. h.at # "emit"
        BY <3>1 DEF Compute
      <4>4. i # 0 => Power(h.e, h.e.ts, i) \in Right
        BY <4>1, <4>3, ComputeRight
      <4> QED BY <4>2, <4>4
    <3>2. CASE Store(h)
      <4>1. g = At(h, "emit", h.interval) /\ h.interval # 0
        BY <1>2, <3>2, StoreFacts DEF TypeInv, IsSent
      <4>2. g.e = h.e /\ g.at = "emit" /\ g.interval = h.interval
        BY <4>1 DEF At
      <4> QED BY <4>1, <4>2 DEF HandlerPowers
    <3>3. CASE Emit(h)
      BY <1>2, <3>3 DEF Emit
    <3> QED BY <2>2, <3>1, <3>2, <3>3
  <2>3. CASE ApiEnds
    BY <1>2, <2>3 DEF ApiEnds
  <2> QED BY <1>2, <2>1, <2>2, <2>3, ApiKept
<1> QED BY <1>1, <1>2 DEF HandlerPowers

(* What a step does to what is on its way to the page and on the screen.   *)
LEMMA PageStep ==
  ASSUME TypeInv, [Next]_vars
  PROVE  \/ UNCHANGED <<to_page, screen>>
         \/ \E h \in handlers : Emit(h) /\ page = "joined"
              /\ to_page' = Append(to_page, Power(h.e, last_ts[h.e.kind], h.interval))
              /\ UNCHANGED screen
         \/ Show /\ to_page # <<>> /\ to_page' = Tail(to_page)
              /\ screen' = [screen EXCEPT ![Head(to_page).kind] = Head(to_page)]
         \/ (ApiEnds \/ PageLeaves) /\ to_page' = <<>> /\ (UNCHANGED screen \/ (screen' = Blank /\ ~listening'))
<1>1. ASSUME NEW h \in handlers, Emit(h), ~ UNCHANGED <<to_page, screen>>
      PROVE  /\ page = "joined" /\ UNCHANGED screen
             /\ to_page' = Append(to_page, Power(h.e, last_ts[h.e.kind], h.interval))
  BY <1>1 DEF Emit, ui, Power
<1>2. CASE Show
  BY <1>2 DEF Show
<1>3. CASE ApiEnds
  BY <1>3 DEF ApiEnds
<1>4. CASE PageLeaves
  BY <1>4 DEF PageLeaves
<1>5. CASE ~Show /\ ~ApiEnds /\ ~PageLeaves /\ ~ \E h \in handlers : Emit(h)
  BY <1>5 DEF Next, ui, wires, vars, Amqp, Bridge, DialFails, SetConnected, TestConnected, callback,
       CallbackEmit, Session, Accept, connect, disconnect, Handler, HandlerStarts, Compute, Store, ApiStarts, Page,
       Mount, PageConnects, on_join, Pulse, Drop, BrokerLeaves, Stop
<1> QED BY <1>1, <1>2, <1>3, <1>4, <1>5

LEMMA NextPagePowers ==
  ASSUME TypeInv, OrderInv, FeedInv, OneAtATime, HandlerPowers, SentPowers, ShownPowers, [Next]_vars
  PROVE  SentPowers' /\ ShownPowers'
<1>t. /\ to_page \in Seq(Powers) /\ screen \in [Kinds -> Powers] /\ last_ts \in [Kinds -> Int]
      /\ handlers \subseteq Handlers
  BY DEF TypeInv, ApiType
<1>1. Right \subseteq Right'
  BY RightKept
<1>2. ASSUME UNCHANGED screen PROVE ShownPowers'
  BY <1>1, <1>2 DEF ShownPowers, Blank
<1>3. CASE UNCHANGED <<to_page, screen>>
  BY <1>1, <1>2, <1>3 DEF SentPowers, Elements
<1>4. ASSUME NEW h \in handlers, Emit(h), UNCHANGED screen,
             to_page' = Append(to_page, Power(h.e, last_ts[h.e.kind], h.interval))
      PROVE  SentPowers' /\ ShownPowers'
  <2> DEFINE p == Power(h.e, last_ts[h.e.kind], h.interval)
             q == Power(h.e, h.e.ts, h.interval)
  <2>1. q \in Right
    BY <1>4 DEF HandlerPowers, Emit
  <2>2. /\ q.n = h.e.n /\ q.kind = h.e.kind /\ q.ts = h.e.ts /\ q.interval = h.interval
        /\ p.n = h.e.n /\ p.kind = h.e.kind /\ p.ts = last_ts[h.e.kind] /\ p.interval = h.interval
    BY DEF Power
  <2>3. p \in Powers
    BY <1>t DEF Power, Powers, Handlers, Events
  <2>4. ~concurrent => p.ts = q.ts
    BY <1>4, <2>2 DEF OneAtATime, Emit
  <2>5. to_page' = Append(to_page, p)
    BY <1>4
  <2> HIDE DEF p, q
  <2>6. p \in Right
    BY <2>1, <2>2, <2>3, <2>4 DEF Right
  <2>7. Elements(Append(to_page, p)) = Elements(to_page) \cup {p}
    BY ONLY <1>t, <2>3, Appended, ZenonT(30)
  <2>8. Elements(to_page)' = Elements(to_page) \cup {p}
    BY <2>5, <2>7 DEF Elements
  <2> QED BY <1>1, <1>2, <1>4, <2>6, <2>8 DEF SentPowers
<1>5. ASSUME to_page # <<>>, to_page' = Tail(to_page),
             screen' = [screen EXCEPT ![Head(to_page).kind] = Head(to_page)]
      PROVE  SentPowers' /\ ShownPowers'
  <2> DEFINE p == Head(to_page)
  <2>1. Elements(to_page) = {p} \cup Elements(Tail(to_page)) /\ p \in Powers
    BY <1>t, <1>5, HeadAndTail
  <2>2. Elements(to_page)' = Elements(Tail(to_page))
    BY <1>5 DEF Elements
  <2>3. screen' = [screen EXCEPT ![p.kind] = p] /\ p.kind \in Kinds
    BY <1>5, <2>1 DEF Powers
  <2> HIDE DEF p
  <2>4. p \in Right
    BY <2>1 DEF SentPowers
  <2>5. ShownPowers'
    <3> SUFFICES ASSUME NEW k \in Kinds
                 PROVE  screen'[k].kind = k /\ (screen'[k] = Blank[k] \/ screen'[k] \in Right')
      BY DEF ShownPowers, Blank
    <3>1. screen'[k] = IF k = p.kind THEN p ELSE screen[k]
      BY <1>t, <2>3
    <3> QED BY <1>1, <2>4, <3>1 DEF ShownPowers
  <2> QED BY <1>1, <2>1, <2>2, <2>5 DEF SentPowers
<1>6. ASSUME to_page' = <<>>, UNCHANGED screen \/ screen' = Blank
      PROVE  SentPowers' /\ ShownPowers'
  <2>1. SentPowers'
    <3>1. Elements(to_page)' = {}
      BY <1>6, Emptied DEF Elements
    <3> QED BY <3>1 DEF SentPowers
  <2>2. CASE screen' = Blank
    BY <2>1, <2>2 DEF ShownPowers, Blank
  <2> QED BY <1>2, <1>6, <2>1, <2>2
<1> QED BY <1>3, <1>4, <1>5, <1>6, PageStep

LiveInv ==
  /\ TypeInv /\ SessionInv /\ LinkInv
  /\ OrderInv /\ FeedInv /\ LastInv /\ OneAtATime
  /\ HandlerPowers /\ SentPowers /\ ShownPowers

LEMMA InitLiveInv == Init => LiveInv
<1> SUFFICES ASSUME Init PROVE LiveInv
  OBVIOUS
<1>1. TypeInv
  BY InitTypeInv
<1>2. SessionInv /\ LinkInv
  BY DEF Init, ConsumerInit, SessionInv, LinkInv
<1>3. /\ Elements(queue) = {} /\ Elements(inbox) = {} /\ Elements(to_api) = {} /\ Elements(to_page) = {}
      /\ Handled = {} /\ Pending = {} /\ Hand = {}
      /\ Ascending(queue) /\ Ascending(inbox) /\ Ascending(to_api)
  BY Emptied DEF Init, ConsumerInit, Handled, Pending, Hand
<1>4. Known = {} /\ Waiting = {}
  BY <1>3 DEF Known, Waiting, OnTheWay
<1>5. OrderInv
  BY <1>3 DEF OrderInv, InLine, Before
<1>6. FeedInv
  BY <1>4 DEF Init, FeedInv
<1>7. LastInv /\ OneAtATime
  <2>1. \A k \in Kinds : Stored(k, NoEvent)
    BY <1>4 DEF Init, Stored
  <2> QED BY <2>1 DEF Init, LastInv, OneAtATime
<1>8. HandlerPowers /\ SentPowers /\ ShownPowers
  BY <1>3 DEF Init, HandlerPowers, SentPowers, ShownPowers, Blank
<1> QED BY <1>1, <1>2, <1>5, <1>6, <1>7, <1>8 DEF LiveInv

LEMMA LiveInvariance == Spec => []LiveInv
<1>1. LiveInv /\ [Next]_vars => LiveInv'
  <2> SUFFICES ASSUME LiveInv, [Next]_vars PROVE LiveInv'
    OBVIOUS
  <2>1. TypeInv' /\ SessionInv' /\ LinkInv'
    BY NextTypeInv, NextSessionInv, NextLinkInv DEF LiveInv
  <2>2. OrderInv' /\ FeedInv' /\ OneAtATime'
    BY NextOrder, NextOneAtATime DEF LiveInv
  <2>3. LastInv'
    BY NextLastInv DEF LiveInv
  <2>4. HandlerPowers' /\ SentPowers' /\ ShownPowers'
    BY NextHandlerPowers, NextPagePowers DEF LiveInv
  <2> QED BY <2>1, <2>2, <2>3, <2>4 DEF LiveInv
<1> QED BY <1>1, InitLiveInv, PTL DEF Spec

(* Every power a page is sent or shows is that of the pulse it was sent    *)
(* for and another of its kind, for any pulses, whatever the clock was set *)
(* to, and whatever is lost or restarted; and with handlers one at a time  *)
(* it has the time of its pulse, the other came before, and if nothing was *)
(* lost it is the one before (handle_events, and all that brings events    *)
(* to it).                                                                 *)
THEOREM PowerOfTwoPulsesHolds == Spec => []PowerOfTwoPulses
<1>1. LiveInv => PowerOfTwoPulses
  <2> SUFFICES ASSUME LiveInv PROVE PowerOfTwoPulses
    OBVIOUS
  <2>1. ASSUME NEW p \in Elements(to_page) \cup {h \in {screen[k] : k \in Kinds} : h # Blank[h.kind]}
        PROVE  p \in Right
    BY <2>1 DEF LiveInv, SentPowers, ShownPowers
  <2> QED BY <2>1 DEF PowerOfTwoPulses, Right
<1> QED BY <1>1, LiveInvariance, PTL

-----------------------------------------------------------------------------
(* The screen                                                              *)

(* With handlers one at a time the powers, from the screen back to the     *)
(* meter, are in the order of their pulses.                                *)
ScreenInv ==
  ~concurrent =>
    /\ Ascending(to_page) /\ Before(Elements(to_page), Known)
    /\ \A k \in Kinds, x \in Elements(to_page) \cup Known : screen[k].n < x.n

LEMMA NextScreenInv == LiveInv /\ ScreenInv /\ [Next]_vars => ScreenInv'
<1> SUFFICES ASSUME LiveInv, ScreenInv, [Next]_vars, ~concurrent' PROVE ScreenInv'
  BY DEF ScreenInv
<1>i. TypeInv /\ OrderInv /\ FeedInv /\ OneAtATime /\ SentPowers /\ ShownPowers
  BY DEF LiveInv
<1>c. ~concurrent
  BY <1>i, ModeKept
<1>s. /\ Ascending(to_page) /\ Before(Elements(to_page), Known)
      /\ \A k \in Kinds, x \in Elements(to_page) \cup Known : screen[k].n < x.n
  BY <1>c DEF ScreenInv
<1>t. /\ to_page \in Seq(Powers) /\ screen \in [Kinds -> Powers] /\ last_ts \in [Kinds -> Int]
      /\ handlers \subseteq Handlers
  BY <1>i DEF TypeInv, ApiType
<1>1. CASE Pulse
  <2>1. PICK e \in Numbered : Known' = Known \cup {e} /\ \A x \in published : x.n < e.n
    BY <1>1, <1>i, PulseStep
  <2>2. UNCHANGED <<to_page, screen>>
    BY <1>1 DEF Pulse, ui, wires
  <2>3. \A p \in Right : p.n < e.n
    BY <2>1 DEF Right
  <2>4. \A k \in Kinds : screen[k].n < e.n
    <3>1. 0 < e.n /\ \A k \in Kinds : Blank[k].n = 0
      BY DEF Numbered, Events, Blank
    <3> QED BY <1>i, <2>3, <3>1 DEF ShownPowers
  <2>5. Ascending(to_page)' /\ Elements(to_page)' = Elements(to_page)
    BY <1>s, <2>2 DEF Ascending, Elements
  <2>6. Before(Elements(to_page), {e})
    BY <1>i, <2>3 DEF SentPowers, Before
  <2> QED BY <1>s, <2>1, <2>2, <2>4, <2>5, <2>6 DEF ScreenInv, Before
<1>2. CASE ~Pulse
  <2>0. Known' \subseteq Known
    BY <1>2, <1>i, PlaceStep
  <2>1. CASE UNCHANGED <<to_page, screen>>
    <3>1. Ascending(to_page)' /\ Elements(to_page)' = Elements(to_page)
      BY <1>s, <2>1 DEF Ascending, Elements
    <3> QED BY <1>s, <2>0, <2>1, <3>1 DEF ScreenInv, Before
  <2>2. ASSUME NEW h \in handlers, Emit(h), UNCHANGED screen,
               to_page' = Append(to_page, Power(h.e, last_ts[h.e.kind], h.interval))
        PROVE  ScreenInv'
    <3> DEFINE p == Power(h.e, last_ts[h.e.kind], h.interval)
    <3>1. p \in Powers /\ p.n = h.e.n
      BY <1>t DEF Power, Powers, Handlers, Events
    <3>2. h.e \in Handled /\ h.e \in Known
      BY DEF Known, Handled
    <3>3. to_page' = Append(to_page, p)
      BY <2>2
    <3> HIDE DEF p
    <3>4. Before(Elements(to_page), {p})
      BY <1>s, <3>1, <3>2 DEF Before
    <3>5. Elements(to_page)' = Elements(to_page) \cup {p} /\ Ascending(to_page)'
      <4>1. Elements(Append(to_page, p)) = Elements(to_page) \cup {p} /\ Ascending(Append(to_page, p))
        <5>1. Ascending(to_page) /\ to_page \in Seq(Powers) /\ p \in Powers
          BY <1>s, <1>t, <3>1
        <5> QED BY ONLY <5>1, <3>4, Appended, ZenonT(30)
      <4> QED BY <3>3, <4>1 DEF Elements, Ascending
    <3>6. Known' \subseteq OnTheWay
      <4>1. handlers' = {} /\ UNCHANGED <<queue, inbox, event, to_api>>
        BY <1>c, <1>i, <2>2 DEF OneAtATime, Emit, consumer, bridge
      <4> QED BY <4>1 DEF Known, Handled, OnTheWay, Hand, Elements
    <3>7. \A y \in OnTheWay : p.n < y.n
      BY <1>i, <3>1, <3>2 DEF OrderInv, InLine, Before, OnTheWay
    <3>8. \A k \in Kinds : screen[k].n < p.n
      BY <1>s, <3>1, <3>2
    <3> QED BY <1>s, <2>0, <2>2, <3>5, <3>6, <3>7, <3>8 DEF ScreenInv, Before
  <2>3. ASSUME to_page # <<>>, to_page' = Tail(to_page),
               screen' = [screen EXCEPT ![Head(to_page).kind] = Head(to_page)]
        PROVE  ScreenInv'
    <3> DEFINE p == Head(to_page)
    <3>1. /\ Elements(to_page) = {p} \cup Elements(Tail(to_page)) /\ p \in Powers
          /\ Ascending(Tail(to_page)) /\ Before({p}, Elements(Tail(to_page)))
      BY <1>s, <1>t, <2>3, HeadAndTail
    <3>2. Elements(to_page)' = Elements(Tail(to_page)) /\ Ascending(to_page)'
      BY <2>3, <3>1 DEF Elements, Ascending
    <3>3. screen' = [screen EXCEPT ![p.kind] = p] /\ p.kind \in Kinds
      BY <2>3, <3>1 DEF Powers
    <3> HIDE DEF p
    <3>4. \A k \in Kinds : screen'[k] = IF k = p.kind THEN p ELSE screen[k]
      BY <1>t, <3>3
    <3>5. \A x \in Elements(Tail(to_page)) \cup Known : p.n < x.n
      BY <1>s, <3>1 DEF Before
    <3> QED BY <1>s, <2>0, <3>1, <3>2, <3>4, <3>5 DEF ScreenInv, Before
  <2>4. ASSUME to_page' = <<>>, UNCHANGED screen \/ screen' = Blank
        PROVE  ScreenInv'
    <3>1. Elements(to_page)' = {} /\ Ascending(to_page)'
      BY <2>4, Emptied DEF Elements, Ascending
    <3>2. \A k \in Kinds, y \in Known : screen'[k].n < y.n
      <4>1. \A y \in Known : 0 < y.n
        BY <1>i DEF FeedInv
      <4>2. CASE screen' = Blank
        BY <4>1, <4>2 DEF Blank
      <4> QED BY <1>s, <2>4, <4>2
    <3> QED BY <2>0, <3>1, <3>2 DEF ScreenInv, Before
  <2> QED BY <1>i, <2>1, <2>2, <2>3, <2>4, PageStep
<1> QED BY <1>1, <1>2

(* With handlers one at a time, a page that is not loaded again replaces a *)
(* power only by that of a pulse published later, whatever the timestamps  *)
(* say (onPowerActive, onPowerReactive).                                   *)
THEOREM ScreenOnlyAdvancesHolds == Spec => ScreenOnlyAdvances
<1>1. Init => ScreenInv
  BY Emptied DEF Init, ConsumerInit, ScreenInv, Before, Known, Handled, OnTheWay, Hand
<1>2. LiveInv /\ ScreenInv /\ [Next]_vars
        => [listening' /\ ~concurrent =>
              \A k \in Kinds : screen'[k] = screen[k] \/ screen'[k].n > screen[k].n]_screen
  <2> SUFFICES ASSUME LiveInv, ScreenInv, [Next]_vars, listening', ~concurrent,
                      ~ UNCHANGED screen, NEW k \in Kinds
               PROVE  screen'[k] = screen[k] \/ screen'[k].n > screen[k].n
    OBVIOUS
  <2>t. TypeInv /\ to_page \in Seq(Powers) /\ screen \in [Kinds -> Powers]
    BY DEF LiveInv, TypeInv, ApiType
  <2>1. to_page # <<>> /\ screen' = [screen EXCEPT ![Head(to_page).kind] = Head(to_page)]
    BY <2>t, PageStep
  <2>2. Head(to_page) \in Elements(to_page) /\ Head(to_page) \in Powers
    BY <2>1, <2>t, HeadAndTail
  <2>3. screen[Head(to_page).kind].n < Head(to_page).n
    BY <2>2 DEF ScreenInv, Powers
  <2> QED BY <2>1, <2>2, <2>3, <2>t DEF Powers
<1> QED BY <1>1, <1>2, LiveInvariance, NextScreenInv, PTL DEF Spec, ScreenOnlyAdvances
=============================================================================
