------------------------------ MODULE LiveView ------------------------------
(* The live view: socket_io_bridge.py takes the events of queue_socket_io  *)
(* and sends them over socket.io to api.py, which computes the power from  *)
(* two consecutive pulses of a kind and sends it to the room that web      *)
(* pages have joined (MainPage.js).  There is one meter.                   *)
(*                                                                         *)
(* The bridge has two threads: main (sio.connect, then AmqpConsumer's loop *)
(* and its callback) and the one in which python-socketio calls connect    *)
(* and disconnect.  api.py runs handle_events in a thread of its own for   *)
(* each event, or, with gevent or eventlet installed, one at a time: a     *)
(* behaviour has one or the other.                                         *)
EXTENDS AmqpConsumer, FiniteSets

CONSTANTS Modes,  \* which values of concurrent a behaviour may have
          Feeds,  \* the sequences of pulses a behaviour may have: kinds and times
          Hour,   \* 3600: a power is Hour divided by an interval
          MaxTroubles  \* bound: outages, losses, restarts and ends in all

Kinds == {"active", "reactive"}   \* rarr is 0, or it is not

(* Of the times nothing is known: datacap's clock may be set, and back.    *)
ASSUME LiveViewAssumption ==
  /\ Modes \subseteq BOOLEAN /\ MaxTroubles \in Nat /\ Hour \in Nat \ {0}
  /\ \A f \in Feeds : f \in Seq([kind : Kinds, ts : Nat])

Events == [n : Nat, kind : Kinds, ts : Nat]
Never == -1                       \* last_ts_active, last_ts_reactive at first
NoEvent == [n |-> 0, kind |-> "active", ts |-> 0]
Blank == [k \in Kinds |-> [n |-> 0, kind |-> k, ts |-> 0, interval |-> 0]]

VARIABLES
  connected,  \* the bridge's flag
  session,    \* its socket.io session: "none" (before the first), "up",
              \* "closing" (gone, and disconnect () to come), "lost"
  calling,    \* the library is to call connect (): "none", or the session was
              \* accepted by a "dial" of run_app, or by its own "retry"
  event,      \* what the callback works on
  serving,    \* api.py runs
  concurrent, \* its handlers run concurrently
  handlers,   \* the calls of handle_events that are running
  last_ts,    \* last_ts_active and last_ts_reactive
  page,       \* a web page's connection: "off", "deaf" (connected, and has
              \* not asked to join), "joining", "joined"
  listening,  \* the page's effect has registered its listeners
  screen,     \* the powers it shows
  to_api, to_page,   \* on their way to api.py, and to the page
  feed,       \* the pulses to come
  published,  \* the pulses so far
  outages, drops, restarts, leaves, stops,  \* what has gone wrong
  lost_in     \* where run_app was when disconnect () was called

bridge == <<connected, session, calling, event>>
api == <<serving, concurrent, handlers, last_ts>>
ui == <<page, listening, screen>>
wires == <<to_api, to_page>>
meter == <<feed, published>>
counts == <<outages, drops, restarts, leaves, stops, lost_in>>
vars == <<consumer, bridge, api, ui, wires, meter, counts>>

Troubles == outages + drops + restarts + leaves + stops

Init ==
  /\ ConsumerInit("dial")
  /\ connected = FALSE /\ session = "none" /\ calling = "none" /\ event = NoEvent
  /\ serving \in BOOLEAN /\ concurrent \in Modes
  /\ handlers = {} /\ last_ts = [k \in Kinds |-> Never]
  /\ page = "off" /\ listening = FALSE /\ screen = Blank
  /\ to_api = <<>> /\ to_page = <<>>
  /\ feed \in Feeds /\ published = {}
  /\ outages = 0 /\ drops = 0 /\ restarts = 0 /\ leaves = 0 /\ stops = 0
  /\ lost_in = {}

-----------------------------------------------------------------------------
(* The bridge's session                                                    *)

(* A session is accepted: for sio.connect, or after a loss for the         *)
(* library, by itself.  connect () is not yet called, and an event that    *)
(* main takes now finds the flag as it was.                                *)
Accept ==
  /\ serving /\ calling = "none" /\ session' = "up"
  /\ \/ session \in {"none", "lost"} /\ loop = "dial" /\ calling' = "dial"
     \/ session = "lost" /\ calling' = "retry"
  /\ UNCHANGED <<consumer, connected, event, api, ui, wires, meter, counts>>

(* A mutation of connect: without "global connected".                      *)
connectSilently ==
  /\ calling # "none" /\ calling' = "none"
  /\ loop' = IF calling = "dial" THEN "set" ELSE loop
  /\ UNCHANGED <<link, reachable, queue, inbox, connected, session, event, api, ui, wires, meter, counts>>

(* The library calls connect (), though the session may be gone by now;    *)
(* after that sio.connect returns.  (connect () also joins the room, but   *)
(* the bridge handles none of its messages.)                               *)
connect ==
  /\ calling # "none" /\ calling' = "none" /\ connected' = TRUE
  /\ loop' = IF calling = "dial" THEN "set" ELSE loop
  /\ UNCHANGED <<link, reachable, queue, inbox, session, event, api, ui, wires, meter, counts>>

(* sio.connect raises: there is no server, or a session already.           *)
DialFails ==
  /\ loop = "dial" /\ calling # "dial" /\ (~serving \/ session \in {"up", "closing"})
  /\ loop' = "test"
  /\ UNCHANGED <<link, reachable, queue, inbox, bridge, api, ui, wires, meter, counts>>

(* "connected = True" after sio.connect, though the session it got may be  *)
(* lost by now, and disconnect () have been called; or sio.connect raises, *)
(* if it sees that the session is gone.                                    *)
SetConnected ==
  /\ loop = "set" /\ loop' = "test"
  /\ \/ connected' = TRUE
     \/ session # "up" /\ UNCHANGED connected
  /\ UNCHANGED <<link, reachable, queue, inbox, session, calling, event, api, ui, wires, meter, counts>>

(* "while not connected"                                                   *)
TestConnected ==
  /\ loop = "test" /\ loop' = IF connected THEN "connect" ELSE "dial"
  /\ UNCHANGED <<link, reachable, queue, inbox, bridge, api, ui, wires, meter, counts>>

(* The session is gone, and what was on its way over it.                   *)
Broken == session' = (IF session = "up" THEN "closing" ELSE session) /\ to_api' = <<>>

Drop ==
  /\ session = "up" /\ Troubles < MaxTroubles /\ drops' = drops + 1 /\ Broken
  /\ UNCHANGED <<consumer, connected, calling, event, api, ui, to_page, meter,
                 outages, restarts, leaves, stops, lost_in>>

(* A mutation of disconnect: without "global connected".                   *)
disconnectSilently ==
  /\ session = "closing" /\ calling = "none" /\ session' = "lost" /\ lost_in' = lost_in \cup {loop}
  /\ UNCHANGED <<consumer, connected, calling, event, api, ui, wires, meter,
                 outages, drops, restarts, leaves, stops>>

(* The library calls disconnect (), on the thread that calls connect (),   *)
(* and forgets the session.                                                *)
disconnect ==
  /\ session = "closing" /\ calling = "none" /\ session' = "lost"
  /\ connected' = FALSE /\ lost_in' = lost_in \cup {loop}
  /\ UNCHANGED <<consumer, calling, event, api, ui, wires, meter,
                 outages, drops, restarts, leaves, stops>>

-----------------------------------------------------------------------------
(* The bridge's callback, and its end                                      *)

(* "if connected == True"; otherwise the event is discarded.               *)
callback ==
  /\ Take(IF connected THEN "callback" ELSE "consume")
  /\ event' = IF connected THEN Head(inbox) ELSE NoEvent
  /\ UNCHANGED <<connected, session, calling, api, ui, wires, meter, counts>>

(* The program has ended, and with it its session.                         *)
Ended ==
  End /\ connected' = FALSE /\ session' = "none" /\ calling' = "none" /\ event' = NoEvent

(* sio.emit: over a session that is gone the event is lost; when the       *)
(* library has forgotten the session it raises BadNamespaceError, which    *)
(* nothing catches.                                                        *)
CallbackEmit ==
  /\ loop = "callback"
  /\ IF session \in {"up", "closing"}
     THEN /\ loop' = "consume" /\ event' = NoEvent
          /\ to_api' = IF session = "up" THEN Append(to_api, event) ELSE to_api
          /\ UNCHANGED <<link, reachable, queue, inbox, connected, session, calling>>
     ELSE Ended /\ UNCHANGED to_api
  /\ UNCHANGED <<api, ui, to_page, meter, counts>>

(* KeyboardInterrupt, an error of the AMQP channel, a signal.              *)
Stop ==
  /\ Troubles < MaxTroubles /\ stops' = stops + 1 /\ Ended
  /\ UNCHANGED <<api, ui, wires, meter, outages, drops, restarts, leaves, lost_in>>

-----------------------------------------------------------------------------
(* api.py                                                                  *)

(* A mutation of HandlerStarts: always a thread of its own.                *)
HandlerStartsAtOnce ==
  /\ serving /\ to_api # <<>>
  /\ handlers' = handlers \cup {[e |-> Head(to_api), at |-> "compute", interval |-> 0]}
  /\ to_api' = Tail(to_api)
  /\ UNCHANGED <<consumer, bridge, serving, concurrent, last_ts, ui, to_page, meter, counts>>

HandlerStarts ==
  /\ serving /\ to_api # <<>> /\ (concurrent \/ handlers = {})
  /\ handlers' = handlers \cup {[e |-> Head(to_api), at |-> "compute", interval |-> 0]}
  /\ to_api' = Tail(to_api)
  /\ UNCHANGED <<consumer, bridge, serving, concurrent, last_ts, ui, to_page, meter, counts>>

(* A mutation of Since: one time for both kinds.                           *)
SinceAny(e) == e.ts - last_ts["active"]

Since(e) == e.ts - last_ts[e.kind]

(* If there was a pulse of the kind before, the division by the time since *)
(* then (its quotient is told by the interval, and negative with it): by 0 *)
(* it raises, and the handler ends there.  interval 0: no power.           *)
Compute(h) ==
  /\ h.at = "compute"
  /\ LET first == last_ts[h.e.kind] = Never
         next == [h EXCEPT !.at = "store", !.interval = IF first THEN 0 ELSE Since(h.e)] IN
     handlers' = (handlers \ {h}) \cup (IF ~first /\ Since(h.e) = 0 THEN {} ELSE {next})
  /\ UNCHANGED <<consumer, bridge, serving, concurrent, last_ts, ui, wires, meter, counts>>

(* A power of -1, which an interval of -Hour has, stands for none.         *)
IsSent(interval) == interval \notin {0, -Hour}

(* A mutation of Store: only the first time is kept.                       *)
StoreFirst(h) ==
  /\ h.at = "store"
  /\ last_ts' = [last_ts EXCEPT ![h.e.kind] = IF @ = Never THEN h.e.ts ELSE @]
  /\ handlers' = (handlers \ {h}) \cup (IF IsSent(h.interval) THEN {[h EXCEPT !.at = "emit"]} ELSE {})
  /\ UNCHANGED <<consumer, bridge, serving, concurrent, ui, wires, meter, counts>>

Store(h) ==
  /\ h.at = "store"
  /\ last_ts' = [last_ts EXCEPT ![h.e.kind] = h.e.ts]
  /\ handlers' = (handlers \ {h}) \cup (IF IsSent(h.interval) THEN {[h EXCEPT !.at = "emit"]} ELSE {})
  /\ UNCHANGED <<consumer, bridge, serving, concurrent, ui, wires, meter, counts>>

(* emit to the room, with last_ts as it is by now.  n is not in the        *)
(* message: it says which pulse's handler sent it.  (The EVENTS it sends   *)
(* as well have no listener on the page.)                                  *)
Emit(h) ==
  /\ h.at = "emit" /\ handlers' = handlers \ {h}
  /\ LET power == [n |-> h.e.n, kind |-> h.e.kind, ts |-> last_ts[h.e.kind], interval |-> h.interval] IN
     to_page' = IF page = "joined" THEN Append(to_page, power) ELSE to_page
  /\ UNCHANGED <<consumer, bridge, serving, concurrent, last_ts, ui, to_api, meter, counts>>

(* on_join                                                                 *)
on_join ==
  /\ serving /\ page = "joining" /\ page' = "joined"
  /\ UNCHANGED <<consumer, bridge, api, listening, screen, wires, meter, counts>>

ApiStarts ==
  /\ ~serving /\ serving' = TRUE
  /\ UNCHANGED <<consumer, bridge, concurrent, handlers, last_ts, ui, wires, meter, counts>>

(* Its variables, the room, and every session go with it.                  *)
ApiEnds ==
  /\ serving /\ Troubles < MaxTroubles /\ restarts' = restarts + 1
  /\ serving' = FALSE /\ handlers' = {} /\ last_ts' = [k \in Kinds |-> Never]
  /\ Broken /\ page' = "off" /\ to_page' = <<>>
  /\ UNCHANGED <<consumer, connected, calling, event, concurrent, listening, screen, meter,
                 outages, drops, leaves, stops, lost_in>>

-----------------------------------------------------------------------------
(* The page                                                                *)

(* The effect of MainPage registers the listeners.  The socket connects    *)
(* when socket.js is loaded, before or after.                              *)
Mount ==
  /\ ~listening /\ listening' = TRUE
  /\ UNCHANGED <<consumer, bridge, api, page, screen, wires, meter, counts>>

(* A mutation of PageConnects: it joins when it is loaded only.            *)
PageConnectsFirst ==
  /\ serving /\ page = "off"
  /\ page' = IF listening /\ leaves + restarts = 0 THEN "joining" ELSE "deaf"
  /\ UNCHANGED <<consumer, bridge, api, listening, screen, wires, meter, counts>>

(* The client connects, now or again; onConnect asks to join.              *)
PageConnects ==
  /\ serving /\ page = "off"
  /\ page' = IF listening THEN "joining" ELSE "deaf"
  /\ UNCHANGED <<consumer, bridge, api, listening, screen, wires, meter, counts>>

(* Its connection is lost, or the page is loaded again.                    *)
PageLeaves ==
  /\ Troubles < MaxTroubles /\ leaves' = leaves + 1
  /\ page' = "off" /\ to_page' = <<>>
  /\ \/ UNCHANGED <<listening, screen>>
     \/ listening' = FALSE /\ screen' = Blank
  /\ UNCHANGED <<consumer, bridge, api, to_api, meter, outages, drops, restarts, stops, lost_in>>

(* onPowerActive, onPowerReactive.                                         *)
Show ==
  /\ to_page # <<>> /\ to_page' = Tail(to_page)
  /\ screen' = [screen EXCEPT ![Head(to_page).kind] = Head(to_page)]
  /\ UNCHANGED <<consumer, bridge, api, page, listening, to_api, meter, counts>>

-----------------------------------------------------------------------------
(* datapublish publishes the next pulse.                                   *)
Pulse ==
  /\ feed # <<>> /\ feed' = Tail(feed)
  /\ LET e == [n |-> Cardinality(published) + 1, kind |-> Head(feed).kind, ts |-> Head(feed).ts] IN
     published' = published \cup {e} /\ Enqueue(e)
  /\ UNCHANGED <<bridge, api, ui, wires, counts>>

BrokerLeaves ==
  /\ Troubles < MaxTroubles /\ outages' = outages + 1 /\ Outage
  /\ UNCHANGED <<bridge, api, ui, wires, meter, drops, restarts, leaves, stops, lost_in>>

Amqp == (Reconnect \/ Deliver \/ OutageEnds) /\ UNCHANGED <<bridge, api, ui, wires, meter, counts>>

Handler == HandlerStarts \/ \E h \in handlers : Compute(h) \/ Store(h) \/ Emit(h)
Page == Mount \/ PageConnects \/ on_join \/ Show
Session == Accept \/ connect \/ disconnect
Bridge == DialFails \/ SetConnected \/ TestConnected \/ callback \/ CallbackEmit

Next ==
  \/ Amqp \/ Bridge \/ Session
  \/ Handler \/ ApiStarts \/ Page
  \/ Pulse
  \/ Drop \/ ApiEnds \/ PageLeaves \/ BrokerLeaves \/ Stop

Spec == Init /\ [][Next]_vars

(* The programs and the page are scheduled, clients connect again when     *)
(* they can, connections deliver what they are given, and a broker or an   *)
(* api.py that has left comes back.  Nobody need start the bridge again.   *)
Fairness ==
  /\ WF_vars(Reconnect /\ UNCHANGED <<bridge, api, ui, wires, meter, counts>>)
  /\ WF_vars(Deliver /\ UNCHANGED <<bridge, api, ui, wires, meter, counts>>)
  /\ WF_vars(OutageEnds /\ UNCHANGED <<bridge, api, ui, wires, meter, counts>>)
  /\ WF_vars(Bridge) /\ WF_vars(Accept) /\ WF_vars(connect) /\ WF_vars(disconnect)
  /\ WF_vars(Handler) /\ WF_vars(ApiStarts)
  /\ WF_vars(Mount) /\ WF_vars(PageConnects) /\ WF_vars(on_join) /\ WF_vars(Show)

FairSpec == Spec /\ Fairness

-----------------------------------------------------------------------------
(* Safety                                                                  *)

Powers == [n : Nat, kind : Kinds, ts : Int, interval : Int]
Elements(s) == {s[i] : i \in DOMAIN s}
Undisturbed == Troubles = 0

(* The types.                                                              *)
TypeOK ==
  /\ loop \in {"dial", "set", "test", "connect", "consume", "callback", "sleep", "ended"}
  /\ link \in {"off", "up", "broken"} /\ reachable \in BOOLEAN
  /\ queue \in Seq(Events) /\ inbox \in Seq(Events) /\ event \in Events
  /\ (loop = "callback" <=> event # NoEvent)
  /\ connected \in BOOLEAN /\ session \in {"none", "up", "closing", "lost"}
  /\ calling \in {"none", "dial", "retry"}
  /\ serving \in BOOLEAN /\ concurrent \in BOOLEAN
  /\ handlers \subseteq [e : Events, at : {"compute", "store", "emit"}, interval : Int]
  /\ last_ts \in [Kinds -> Int]
  /\ page \in {"off", "deaf", "joining", "joined"} /\ listening \in BOOLEAN
  /\ screen \in [Kinds -> Powers]
  /\ to_api \in Seq(Events) /\ to_page \in Seq(Powers)
  /\ published \subseteq Events /\ feed \in Seq([kind : Kinds, ts : Nat])
  /\ {outages, drops, restarts, leaves, stops} \subseteq Nat
  /\ lost_in \subseteq {"dial", "set", "test", "connect", "consume", "callback", "sleep", "ended"}

(* The bridge ends by itself only if its session was lost at one of two    *)
(* places of run_app: between the return of sio.connect and "connected =   *)
(* True", which then overwrites what disconnect () did, or in the callback *)
(* after the test of the flag.  A loss anywhere else, also one before      *)
(* connect () was called, or an api.py that is not there, never ends it.   *)
EndsOnlyInWindow == loop = "ended" => stops > 0 \/ lost_in \cap {"set", "callback"} # {}

(* A power is that of the pulse it is sent for and another of its kind,    *)
(* never of the initial -1, whatever is lost and whoever restarts, and     *)
(* also by concurrent handlers.  By one handler at a time it has the       *)
(* pulse's timestamp, the other pulse came before; and if nothing was lost *)
(* none of the kind came in between.  (It is negative if the clock was set *)
(* back between the two.)                                                  *)
PowerOfTwoPulses ==
  \A p \in Elements(to_page) \cup {h \in {screen[k] : k \in Kinds} : h # Blank[h.kind]} :
    \E e, f \in {x \in published : x.kind = p.kind} :
      /\ e.n = p.n /\ p.interval = e.ts - f.ts /\ p.interval # 0
      /\ ~concurrent => p.ts = e.ts /\ f.n < e.n
      /\ ~concurrent /\ Undisturbed =>
           ~ \E x \in published : x.kind = p.kind /\ f.n < x.n /\ x.n < e.n

(* A page's power is only replaced by that of a pulse published later,     *)
(* whatever the timestamps say, unless handlers run concurrently.          *)
ScreenOnlyAdvances ==
  [][listening' /\ ~concurrent =>
       \A k \in Kinds : screen'[k] = screen[k] \/ screen'[k].n > screen[k].n]_screen

-----------------------------------------------------------------------------
(* Liveness                                                                *)

(* A pulse that is not the first of its kind, and whose power is a number  *)
(* other than -1, is shown by the page that has joined, when handlers run  *)
(* one at a time and nothing breaks or ends, and whether or not another    *)
(* follows it.                                                             *)
PulseIsShown ==
  \A k \in Kinds, n \in UNION {DOMAIN f : f \in Feeds} :
    (\E e \in Elements(queue), f \in published :
       /\ page = "joined" /\ ~concurrent
       /\ e.n = n /\ e.kind = k /\ f.kind = k /\ f.n < e.n
       /\ \A x \in published : x.kind = k => x.n <= f.n \/ e.n <= x.n
       /\ IsSent(e.ts - f.ts))
    ~> ~Undisturbed \/ screen[k].n = n

(* A bridge without a session, or that does not know of it and discards    *)
(* its events, has one and knows it again, unless it ends.                 *)
Usable == session = "up" /\ connected

SessionResumes == ~Usable ~> Usable \/ loop = "ended"

(* A page joins the room each time it connects, if its effect has run.     *)
PageJoins == listening /\ page = "off" ~> page = "joined" \/ ~listening
=============================================================================
