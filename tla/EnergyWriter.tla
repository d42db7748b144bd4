---------------------------- MODULE EnergyWriter ----------------------------
(* The energy writer: it counts pulses into the totals of active and       *)
(* reactive energy, keeps them in state/energy_state.json, and publishes   *)
(* them, retained, to the MQTT broker.  There are two programs, the same   *)
(* but for where the events come from: mqtt_writer_from_mqtt.py subscribes *)
(* to the MQTT topic, with a session that ends with the connection;        *)
(* mqtt_writer_from_AMQP.py consumes a durable queue of RabbitMQ, which    *)
(* acknowledges what it delivers.  A behaviour runs one of them.           *)
(*                                                                         *)
(* A step is what no other actor can get between: the process may end,     *)
(* and a connection may break, between any two of them.                    *)
EXTENDS Integers, Sequences

CONSTANTS Programs,   \* which of "mqtt", "amqp" a behaviour may run
          Feeds,      \* the sequences of events a behaviour may have: kinds and times
          MaxDups, MaxKills, MaxOutages, MaxFaults  \* bounds

Kinds == {"active", "reactive"}

(* Nothing is known of the times: datacap takes a pulse when the clock was *)
(* set back, forgets the last one when it is started again, and reads the  *)
(* clock a second time for the message.                                    *)
ASSUME EnergyWriterAssumption ==
  /\ Programs \subseteq {"mqtt", "amqp"}
  /\ \A f \in Feeds : f \in Seq([kind : Kinds, ts : Nat])
  /\ {MaxDups, MaxKills, MaxOutages, MaxFaults} \subseteq Nat

Sum(f) == f["active"] + f["reactive"]
Zero == [k \in Kinds |-> 0]

(* An event.  n is not in the message: it says which of those published it *)
(* is, whatever its time.                                                  *)
Events == [n : Nat, kind : Kinds, ts : Nat]

VARIABLES
  program,                       \* the program that runs
  pc, total, prev_ts, interval,  \* the process: totals, and per kind the interval
                                 \* of the power it is to publish (0: none)
  file, file_total, file_prev_ts, \* STATE_FILE: "none", "empty" or "whole"
  link,       \* the connection events come by: "off", "connected", "subscribed"
  mqtt_alive, \* the AMQP program's other connection, to the MQTT broker
  queue,      \* events the broker has for the writer
  inbox,      \* events on their way to the callback: no longer the broker's
  outbox,     \* what the process has published and the broker not yet taken
  retained,   \* what the broker keeps of home/energy/..._energy
  coming, published,       \* the events to come, and those so far
  pulses, dups, heard,     \* events published, sent again, handled
  kills, outages, faults   \* what the bounds count

process == <<pc, total, prev_ts, interval>>
disk == <<file, file_total, file_prev_ts>>
links == <<link, mqtt_alive>>
feed == <<queue, inbox>>
out == <<outbox, retained>>
meter == <<coming, published, pulses, dups>>
counts == <<kills, outages, faults>>
vars == <<program, process, disk, links, feed, out, meter, heard, counts>>

Init ==
  /\ program \in Programs
  /\ pc = "down" /\ total = Zero /\ prev_ts = Zero /\ interval = Zero
  /\ file = "none" /\ file_total = Zero /\ file_prev_ts = Zero
  /\ link = "off" /\ mqtt_alive = FALSE
  /\ queue = <<>> /\ inbox = <<>> /\ outbox = <<>> /\ retained = Zero
  /\ coming \in Feeds /\ published = {} /\ pulses = 0 /\ dups = 0 /\ heard = Zero
  /\ kills = 0 /\ outages = 0 /\ faults = 0

-----------------------------------------------------------------------------
(* Starting and connecting                                                 *)

(* The module body: load the state.  json.load raises on an empty file,    *)
(* and the program ends as soon as it is started.  The first connection    *)
(* to the MQTT broker must succeed.                                        *)
Start ==
  /\ pc = "down" /\ file # "empty" /\ pc' = "idle"
  /\ total' = IF file = "whole" THEN file_total ELSE Zero
  /\ prev_ts' = IF file = "whole" THEN file_prev_ts ELSE Zero
  /\ interval' = Zero /\ mqtt_alive' = TRUE
  /\ UNCHANGED <<program, disk, link, feed, out, meter, heard, counts>>

(* loop_forever, or the loop of run_consumer, has connected (again).       *)
Connect ==
  /\ pc = "idle" /\ link = "off" /\ link' = "connected"
  /\ UNCHANGED <<program, process, disk, mqtt_alive, feed, out, meter, heard, counts>>

(* A mutation of Subscribe: it subscribes after the first connection only. *)
SubscribeOnce ==
  /\ pc = "idle" /\ link = "connected" /\ outages = 0 /\ link' = "subscribed"
  /\ UNCHANGED <<program, process, disk, mqtt_alive, feed, out, meter, heard, counts>>

(* on_connect subscribes; run_consumer calls basic_consume.                *)
Subscribe ==
  /\ pc = "idle" /\ link = "connected" /\ link' = "subscribed"
  /\ UNCHANGED <<program, process, disk, mqtt_alive, feed, out, meter, heard, counts>>

(* The AMQP program's loop_start thread connects to the MQTT broker again. *)
ReconnectMqtt ==
  /\ program = "amqp" /\ pc # "down" /\ ~mqtt_alive /\ mqtt_alive' = TRUE
  /\ UNCHANGED <<program, process, disk, link, feed, out, meter, heard, counts>>

CanPublish == IF program = "amqp" THEN mqtt_alive ELSE link # "off"

Energies == <<[topic |-> "active", value |-> total["active"]],
              [topic |-> "reactive", value |-> total["reactive"]]>>

Power(k) ==
  IF interval[k] > 0
  THEN <<[topic |-> IF k = "active" THEN "active_power" ELSE "reactive_power", value |-> interval[k]]>>
  ELSE <<>>

(* A mutation of Publications: no power, nothing published.                *)
PublicationsWithPower ==
  IF interval = Zero THEN <<>> ELSE Energies \o Power("active") \o Power("reactive")

(* publish_energy sends both totals, publish_power the powers there are.   *)
(* (A power is told by the interval it is computed from.)                  *)
Publications == Energies \o Power("active") \o Power("reactive")

-----------------------------------------------------------------------------
(* An event                                                                *)

(* A mutation of Interval: one prev_ts for both kinds.                     *)
SharedInterval(e) ==
  IF prev_ts["active"] > 0 /\ e.ts > prev_ts["active"] THEN e.ts - prev_ts["active"] ELSE 0

(* The power is a pulse's energy over the time since the one before, if    *)
(* there was one and that time is positive.                                *)
Interval(e) ==
  IF prev_ts[e.kind] > 0 /\ e.ts > prev_ts[e.kind] THEN e.ts - prev_ts[e.kind] ELSE 0

(* A mutation of on_message: it publishes before it saves.                 *)
on_message_publishes ==
  /\ pc = "idle" /\ inbox # <<>> /\ pc' = "open" /\ inbox' = Tail(inbox)
  /\ LET e == Head(inbox)
         sum == [total EXCEPT ![e.kind] = @ + 1] IN
     /\ total' = sum /\ interval' = [Zero EXCEPT ![e.kind] = Interval(e)]
     /\ prev_ts' = [prev_ts EXCEPT ![e.kind] = e.ts]
     /\ heard' = [heard EXCEPT ![e.kind] = @ + 1]
     /\ outbox' = outbox \o <<[topic |-> "active", value |-> sum["active"]]>>
  /\ UNCHANGED <<program, disk, links, queue, retained, meter, counts>>

(* on_message (or callback), up to save_state.                             *)
on_message ==
  /\ pc = "idle" /\ inbox # <<>> /\ pc' = "open" /\ inbox' = Tail(inbox)
  /\ LET e == Head(inbox) IN
     /\ total' = [total EXCEPT ![e.kind] = @ + 1]
     /\ interval' = [Zero EXCEPT ![e.kind] = Interval(e)]
     /\ prev_ts' = [prev_ts EXCEPT ![e.kind] = e.ts]
     /\ heard' = [heard EXCEPT ![e.kind] = @ + 1]
  /\ UNCHANGED <<program, disk, links, queue, out, meter, counts>>

(* save_state: open (STATE_FILE, "w") empties the file.  If it raises, the *)
(* callback's handler prints the error: nothing is saved or published, and *)
(* the event stays in the totals.                                          *)
save_state_open ==
  /\ pc = "open"
  /\ \/ pc' = "write" /\ file' = "empty" /\ UNCHANGED faults
     \/ pc' = "idle" /\ faults < MaxFaults /\ faults' = faults + 1 /\ UNCHANGED file
  /\ UNCHANGED <<program, total, prev_ts, interval, file_total, file_prev_ts, links, feed, out,
                 meter, heard, kills, outages>>

(* A mutation of save_state_write: the reactive total is forgotten.        *)
save_active_only ==
  /\ pc = "write" /\ pc' = "publish" /\ file' = "whole"
  /\ file_total' = [total EXCEPT !["reactive"] = file_total["reactive"]]
  /\ file_prev_ts' = prev_ts
  /\ UNCHANGED <<program, total, prev_ts, interval, links, feed, out, meter, heard, counts>>

(* json.dump and the end of the with statement: the text is shorter than   *)
(* the file object's buffer and is written at once, when it is closed.  On *)
(* a full disk that raises, and the file stays empty.                      *)
save_state_write ==
  /\ pc = "write"
  /\ \/ /\ pc' = "publish" /\ file' = "whole"
        /\ file_total' = total /\ file_prev_ts' = prev_ts
        /\ UNCHANGED faults
     \/ /\ pc' = "idle" /\ faults < MaxFaults /\ faults' = faults + 1
        /\ UNCHANGED disk
  /\ UNCHANGED <<program, total, prev_ts, interval, links, feed, out, meter, heard, kills, outages>>

(* publish_energy and publish_power, with QoS 0.                           *)
publish ==
  /\ pc = "publish" /\ pc' = "idle"
  /\ outbox' = IF CanPublish THEN outbox \o Publications ELSE outbox
  /\ UNCHANGED <<program, total, prev_ts, interval, disk, links, feed, retained, meter, heard, counts>>

-----------------------------------------------------------------------------
(* The brokers                                                             *)

(* The broker takes the next of what was published; it keeps a total for   *)
(* the subscribers to come.                                                *)
Retain ==
  /\ outbox # <<>> /\ outbox' = Tail(outbox)
  /\ LET p == Head(outbox) IN
     retained' = IF p.topic \in Kinds THEN [retained EXCEPT ![p.topic] = p.value] ELSE retained
  /\ UNCHANGED <<program, process, disk, links, feed, meter, heard, counts>>

(* A mutation of Routed: the AMQP queue is as short-lived as the session.  *)
RoutedToSession == link = "subscribed"

(* The durable queue takes every event; a session of the MQTT broker only  *)
(* what comes while it is there.                                           *)
Routed == program = "amqp" \/ link = "subscribed"

(* datapublish publishes the next pulse.                                   *)
Pulse ==
  /\ coming # <<>> /\ coming' = Tail(coming) /\ pulses' = pulses + 1
  /\ LET e == [n |-> pulses + 1, kind |-> Head(coming).kind, ts |-> Head(coming).ts] IN
     /\ published' = published \cup {e}
     /\ queue' = IF Routed THEN Append(queue, e) ELSE queue
  /\ UNCHANGED <<program, process, disk, links, inbox, out, dups, heard, counts>>

(* datapublish's client sends an event again whose acknowledgement was     *)
(* late (QoS 1).  AMQP has no such retry.                                  *)
Retransmit(e) ==
  /\ program = "mqtt" /\ link = "subscribed" /\ dups < MaxDups
  /\ dups' = dups + 1 /\ queue' = Append(queue, e)
  /\ UNCHANGED <<program, process, disk, links, inbox, out, coming, published, pulses, heard, counts>>

(* The broker sends the writer the next event.  It keeps no copy: with     *)
(* auto_ack the delivery is the acknowledgement, and a clean session has   *)
(* no memory of what was not acknowledged.                                 *)
Deliver ==
  /\ link = "subscribed" /\ queue # <<>>
  /\ inbox' = Append(inbox, Head(queue)) /\ queue' = Tail(queue)
  /\ UNCHANGED <<program, process, disk, links, out, meter, heard, counts>>

(* The end of the feed's connection: what was on its way is lost, and with *)
(* MQTT the session and what was being published by the same connection.   *)
Unfed ==
  /\ link' = "off" /\ inbox' = <<>>
  /\ queue' = IF program = "amqp" THEN queue ELSE <<>>

Disconnect ==
  /\ outages < MaxOutages /\ outages' = outages + 1
  /\ \/ /\ link # "off" /\ Unfed /\ UNCHANGED mqtt_alive
        /\ outbox' = IF program = "amqp" THEN outbox ELSE <<>>
     \/ /\ program = "amqp" /\ mqtt_alive /\ mqtt_alive' = FALSE /\ outbox' = <<>>
        /\ UNCHANGED <<link, feed>>
  /\ UNCHANGED <<program, process, disk, retained, meter, heard, kills, faults>>

(* The process ends: docker stop, Ctrl-C (which no "except Exception"      *)
(* catches), or a crash.                                                   *)
Kill ==
  /\ pc # "down" /\ kills < MaxKills
  /\ pc' = "down" /\ kills' = kills + 1
  /\ Unfed /\ mqtt_alive' = FALSE /\ outbox' = <<>>
  /\ UNCHANGED <<program, total, prev_ts, interval, disk, retained, meter, heard, outages, faults>>

-----------------------------------------------------------------------------
Work == on_message \/ save_state_open \/ save_state_write \/ publish
Reconnect == Connect \/ Subscribe \/ ReconnectMqtt

Next ==
  \/ Start \/ Reconnect \/ Work \/ Retain
  \/ Pulse
  \/ \E e \in published : Retransmit(e)
  \/ Deliver \/ Disconnect \/ Kill

Spec == Init /\ [][Next]_vars

(* The process is scheduled, its loops connect again when they can, and    *)
(* the brokers send and take what they are given.  Nobody need start the   *)
(* program again.                                                          *)
Fairness ==
  /\ WF_vars(Work) /\ WF_vars(Connect) /\ WF_vars(Subscribe) /\ WF_vars(ReconnectMqtt)
  /\ WF_vars(Deliver) /\ WF_vars(Retain)

FairSpec == Spec /\ Fairness

-----------------------------------------------------------------------------
(* Safety                                                                  *)

PC == {"down", "idle", "open", "write", "publish"}
Totals == [Kinds -> Nat]
Publication == [topic : Kinds \cup {"active_power", "reactive_power"}, value : Nat]

(* The types.                                                              *)
TypeOK ==
  /\ program \in Programs /\ pc \in PC
  /\ total \in Totals /\ prev_ts \in Totals /\ interval \in Totals
  /\ file \in {"none", "empty", "whole"} /\ file_total \in Totals /\ file_prev_ts \in Totals
  /\ link \in {"off", "connected", "subscribed"} /\ mqtt_alive \in BOOLEAN
  /\ queue \in Seq(Events) /\ inbox \in Seq(Events)
  /\ outbox \in Seq(Publication) /\ retained \in Totals
  /\ coming \in Seq([kind : Kinds, ts : Nat])
  /\ published \subseteq Events /\ heard \in Totals
  /\ pulses \in Nat /\ dups \in Nat /\ kills \in Nat /\ outages \in Nat /\ faults \in Nat

(* Every pulse the writer handled is in its totals, and nothing else is,   *)
(* but for one pulse for each time the process ended and one for each save *)
(* that failed (on_message adds, then saves; a restart loads the last      *)
(* save).                                                                  *)
TotalsAreBounded ==
  \A k \in Kinds : total[k] <= heard[k] /\ heard[k] <= total[k] + kills + faults

(* What is counted was published, once or again; and from the durable      *)
(* queue, while no connection breaks and no process ends, nothing is       *)
(* missing: each event is in the queue, on its way, or handled.            *)
EventsAccountedFor ==
  LET known == Sum(heard) + Len(inbox) + Len(queue) IN
  /\ known <= pulses + dups
  /\ program = "amqp" /\ kills + outages = 0 => known = pulses

(* A subscriber never sees an energy total go back, whatever restarts,     *)
(* failed saves or lost connections come in between: what is published has *)
(* been saved, and what was saved is what a restart begins from.           *)
RetainedNeverFalls == [][\A k \in Kinds : retained'[k] >= retained[k]]_retained

(* v is the time from one published event of a kind to another.  Unless an *)
(* event was repeated the other was published after it; and while nothing  *)
(* broke and nothing ended, no event of the kind came in between.          *)
OfTwoEvents(k, v) ==
  \E f, e \in published :
    /\ f.kind = k /\ e.kind = k /\ v = e.ts - f.ts
    /\ dups = 0 => f.n < e.n
    /\ dups + kills + outages = 0 => \A x \in published : x.kind = k => x.n <= f.n \/ e.n <= x.n

(* Every power is of two events of its own kind, and positive, wherever    *)
(* the clock was set between them, and though events are lost or repeated  *)
(* and the time of the last one is restored from a file.                   *)
PowerOfTwoEvents ==
  \A i \in DOMAIN outbox :
    /\ outbox[i].topic = "active_power" => outbox[i].value > 0 /\ OfTwoEvents("active", outbox[i].value)
    /\ outbox[i].topic = "reactive_power" => outbox[i].value > 0 /\ OfTwoEvents("reactive", outbox[i].value)

(* What the README says: the state in STATE_FILE survives restarts.  A     *)
(* writer that is down can be started.                                     *)
StateSurvivesRestart == pc = "down" => file # "empty"

-----------------------------------------------------------------------------
(* Liveness                                                                *)

(* A total reaches the broker, unless a connection breaks, a save fails or *)
(* the process ends.                                                       *)
TotalIsRetained ==
  \A k \in Kinds, n \in UNION {DOMAIN f : f \in Feeds} :
    total[k] = n ~> retained[k] >= n \/ kills + outages + faults > 0

(* A running writer that lost its feed gets it back: the MQTT session is   *)
(* clean, so that the subscription must be made again each time.           *)
FeedResumes == pc # "down" /\ link # "subscribed" ~> link = "subscribed" \/ pc = "down"
=============================================================================
