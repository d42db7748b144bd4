------------------------- MODULE EnergyWriterProofs -------------------------
(* The safety of the energy writer, for both programs, any number of       *)
(* pulses and repetitions, and any failures, outages and restarts.         *)
EXTENDS EnergyWriter, SequenceTheorems, TLAPS

USE EnergyWriterAssumption

(* One more at one place of a function into the naturals.                  *)
LEMMA Added ==
  ASSUME NEW f \in Totals, NEW k \in Kinds
  PROVE  /\ f[k] \in Nat /\ [f EXCEPT ![k] = @ + 1] \in Totals
         /\ \A n \in Nat : [f EXCEPT ![k] = n] \in Totals
BY DEF Totals

(* What is published after an event is a short sequence of publications.   *)
LEMMA PowerType ==
  ASSUME TypeOK, NEW k \in Kinds
  PROVE  /\ Power(k) \in Seq(Publication)
         /\ \A i \in DOMAIN Power(k) :
              /\ Power(k)[i].topic = IF k = "active" THEN "active_power" ELSE "reactive_power"
              /\ Power(k)[i].value = interval[k] /\ interval[k] > 0
<1> DEFINE p == [topic |-> IF k = "active" THEN "active_power" ELSE "reactive_power",
                 value |-> interval[k]]
<1>1. p \in Publication
  BY DEF TypeOK, Totals, Publication
<1>2. p.value = interval[k] /\ p.topic = IF k = "active" THEN "active_power" ELSE "reactive_power"
  OBVIOUS
<1>3. Power(k) = IF interval[k] > 0 THEN <<p>> ELSE <<>>
  BY DEF Power
<1> HIDE DEF p
<1> QED BY <1>1, <1>2, <1>3

(* What is in a sequence made of two.                                      *)
LEMMA Joined ==
  ASSUME NEW S, NEW s \in Seq(S), NEW t \in Seq(S), NEW i \in DOMAIN (s \o t)
  PROVE  \/ i \in DOMAIN s /\ (s \o t)[i] = s[i]
         \/ i - Len(s) \in DOMAIN t /\ (s \o t)[i] = t[i - Len(s)]
BY ConcatProperties

LEMMA EnergiesType ==
  ASSUME TypeOK
  PROVE  /\ Energies \in Seq(Publication)
         /\ \A i \in DOMAIN Energies : /\ Energies[i].topic \in Kinds
                                       /\ Energies[i].value = total[Energies[i].topic]
<1> DEFINE a == [topic |-> "active", value |-> total["active"]]
           b == [topic |-> "reactive", value |-> total["reactive"]]
<1>1. a \in Publication /\ b \in Publication
  BY DEF TypeOK, Totals, Kinds, Publication
<1>2. /\ a.topic \in Kinds /\ a.value = total[a.topic]
      /\ b.topic \in Kinds /\ b.value = total[b.topic]
  BY DEF Kinds
<1>3. Energies = <<a, b>>
  BY DEF Energies
<1> HIDE DEF a, b
<1> QED BY <1>1, <1>2, <1>3

LEMMA PublicationsType ==
  ASSUME TypeOK PROVE Publications \in Seq(Publication)
<1>1. "active" \in Kinds /\ "reactive" \in Kinds
  BY DEF Kinds
<1> QED BY <1>1, PowerType, EnergiesType, ConcatProperties DEF Publications

LEMMA EmptySequence == \A S : <<>> \in Seq(S)
OBVIOUS

(* The types are preserved, action by action.                              *)
LEMMA TypeStep == TypeOK /\ [Next]_vars => TypeOK'
<1> SUFFICES ASSUME TypeOK, [Next]_vars PROVE TypeOK'
  OBVIOUS
<1> USE DEF TypeOK
<1>1. CASE Start
  BY <1>1 DEF Start, disk, feed, out, meter, counts, PC, Totals, Zero
<1>2. CASE Reconnect
  BY <1>2 DEF Reconnect, Connect, Subscribe, ReconnectMqtt, process, disk, feed, out, meter, counts
<1>3. CASE on_message
  <2> DEFINE e == Head(inbox)
  <2>1. e \in Events /\ Tail(inbox) \in Seq(Events)
    BY <1>3 DEF on_message
  <2>2. e.kind \in Kinds /\ e.ts \in Nat
    BY <2>1 DEF Events
  <2>3. total' \in Totals /\ heard' \in Totals /\ prev_ts' \in Totals
    BY <1>3, <2>2, Added DEF on_message
  <2>4. interval' \in Totals
    <3>1. interval' = [Zero EXCEPT ![e.kind] = Interval(e)] /\ prev_ts[e.kind] \in Nat
      BY <1>3, <2>2 DEF on_message, Totals
    <3>2. Interval(e) \in Nat
      BY <2>2, <3>1 DEF Interval
    <3>3. Zero \in Totals
      BY DEF Zero, Totals
    <3> HIDE DEF e
    <3> QED BY <2>2, <3>1, <3>2, <3>3, Added
  <2>5. pc' \in PC /\ inbox' \in Seq(Events)
    BY <1>3, <2>1 DEF on_message, PC
  <2> QED BY <1>3, <2>3, <2>4, <2>5 DEF on_message, disk, links, out, meter, counts
<1>4. CASE save_state_open
  BY <1>4 DEF save_state_open, links, feed, out, meter, PC
<1>5. CASE save_state_write
  BY <1>5 DEF save_state_write, disk, links, feed, out, meter, PC
<1>6. CASE publish
  <2>1. outbox' \in Seq(Publication)
    BY <1>6, PublicationsType DEF publish
  <2> QED BY <1>6, <2>1 DEF publish, disk, links, feed, meter, counts, PC
<1>7. CASE Retain
  <2>1. Head(outbox) \in Publication /\ Tail(outbox) \in Seq(Publication)
    BY <1>7 DEF Retain
  <2>2. retained' \in Totals
    BY <1>7, <2>1 DEF Retain, Publication, Totals
  <2> QED BY <1>7, <2>1, <2>2 DEF Retain, process, disk, links, feed, meter, counts
<1>8. CASE Pulse
  <2>1. /\ Head(coming) \in [kind : Kinds, ts : Nat]
        /\ Tail(coming) \in Seq([kind : Kinds, ts : Nat])
    <3> DEFINE S == [kind : Kinds, ts : Nat]
    <3>1. coming \in Seq(S) /\ coming # <<>>
      BY <1>8 DEF Pulse
    <3> HIDE DEF S
    <3>2. Head(coming) \in S /\ Tail(coming) \in Seq(S)
      BY <3>1
    <3> QED BY <3>2 DEF S
  <2>2. PICK e \in Events : e = [n |-> pulses + 1, kind |-> Head(coming).kind, ts |-> Head(coming).ts]
    <3>1. Head(coming).kind \in Kinds /\ Head(coming).ts \in Nat /\ pulses + 1 \in Nat
      BY <2>1
    <3> QED BY <3>1 DEF Events
  <2>3. /\ published' = published \cup {e} /\ queue' \in {queue, Append(queue, e)}
        /\ coming' = Tail(coming) /\ pulses' = pulses + 1
    BY <1>8, <2>2 DEF Pulse
  <2>4. queue' \in Seq(Events)
    <3>1. Append(queue, e) \in Seq(Events)
      OBVIOUS
    <3> QED BY <2>3, <3>1
  <2> QED BY <1>8, <2>1, <2>3, <2>4 DEF Pulse, process, disk, links, out, counts
<1>9. ASSUME NEW e \in published, Retransmit(e) PROVE TypeOK'
  BY <1>9 DEF Retransmit, process, disk, links, out, counts
<1>10. CASE Deliver
  <2>1. Head(queue) \in Events /\ Tail(queue) \in Seq(Events)
    BY <1>10 DEF Deliver
  <2> QED BY <1>10, <2>1 DEF Deliver, process, disk, links, out, meter, counts
<1>11. CASE Disconnect
  <2>0. mqtt_alive' \in BOOLEAN
    BY <1>11, Zenon DEF Disconnect
  <2>1. /\ link' \in {"off", link}
        /\ queue' \in {queue, <<>>} /\ inbox' \in {inbox, <<>>} /\ outbox' \in {outbox, <<>>}
    BY <1>11 DEF Disconnect, Unfed, feed
  <2>2. outages' \in Nat
    BY <1>11 DEF Disconnect
  <2>3. UNCHANGED <<program, process, disk, retained, meter, heard, kills, faults>>
    BY <1>11 DEF Disconnect
  <2>4. /\ link' \in {"off", "connected", "subscribed"}
        /\ queue' \in Seq(Events) /\ inbox' \in Seq(Events) /\ outbox' \in Seq(Publication)
    BY <2>1, EmptySequence
  <2>5. UNCHANGED <<program, pc, total, prev_ts, interval, file, file_total, file_prev_ts, retained,
                    coming, published, pulses, dups, heard, kills, faults>>
    BY <2>3 DEF process, disk, meter
  <2> QED BY <2>0, <2>2, <2>4, <2>5
<1>12. CASE Kill
  <2>0. mqtt_alive' \in BOOLEAN
    BY <1>12, Zenon DEF Kill
  <2>1. /\ pc' = "down" /\ link' = "off"
        /\ queue' \in {queue, <<>>} /\ inbox' = <<>> /\ outbox' = <<>>
    BY <1>12 DEF Kill, Unfed
  <2>2. kills' \in Nat
    BY <1>12 DEF Kill
  <2>3. UNCHANGED <<program, total, prev_ts, interval, disk, retained, meter, heard, outages, faults>>
    BY <1>12 DEF Kill
  <2>4. /\ pc' \in PC /\ link' \in {"off", "connected", "subscribed"}
        /\ queue' \in Seq(Events) /\ inbox' \in Seq(Events) /\ outbox' \in Seq(Publication)
    BY <2>1, EmptySequence DEF PC
  <2>5. UNCHANGED <<program, total, prev_ts, interval, file, file_total, file_prev_ts, retained,
                    coming, published, pulses, dups, heard, outages, faults>>
    BY <2>3 DEF disk, meter
  <2> QED BY <2>0, <2>2, <2>4, <2>5
<1>13. CASE UNCHANGED vars
  BY <1>13 DEF vars, process, disk, links, feed, out, meter, counts
<1> QED BY <1>1, <1>2, <1>3, <1>4, <1>5, <1>6, <1>7, <1>8, <1>9, <1>10, <1>11, <1>12, <1>13
        DEF Next, Work

LEMMA TypeInit == Init => TypeOK
<1> SUFFICES ASSUME Init PROVE TypeOK
  OBVIOUS
<1>1. Zero \in Totals /\ coming \in Seq([kind : Kinds, ts : Nat])
  BY EnergyWriterAssumption DEF Init, Totals, Zero
<1>2. mqtt_alive \in BOOLEAN
  BY Zenon DEF Init
<1>3. /\ program \in Programs /\ pc \in PC /\ total \in Totals /\ prev_ts \in Totals
      /\ interval \in Totals
  BY <1>1 DEF Init, PC
<1>4. /\ file = "none" /\ file_total \in Totals /\ file_prev_ts \in Totals /\ link = "off"
      /\ retained \in Totals /\ heard \in Totals /\ published \subseteq Events
  BY <1>1 DEF Init
<1>5. queue \in Seq(Events) /\ inbox \in Seq(Events) /\ outbox \in Seq(Publication)
  BY DEF Init
<1>6. pulses \in Nat /\ dups \in Nat /\ kills \in Nat /\ outages \in Nat /\ faults \in Nat
  BY DEF Init
<1> QED BY <1>1, <1>2, <1>3, <1>4, <1>5, <1>6 DEF TypeOK

(* Every variable of the energy writer has its type.                       *)
THEOREM TypeCorrect == Spec => []TypeOK
<1> QED BY TypeInit, TypeStep, PTL DEF Spec

(* The event on_message takes is of one of the two kinds.                  *)
LEMMA HeadFacts ==
  ASSUME TypeOK, inbox # <<>>
  PROVE  /\ Head(inbox) \in Events /\ Head(inbox).kind \in Kinds /\ Head(inbox).ts \in Nat
         /\ Tail(inbox) \in Seq(Events) /\ Len(Tail(inbox)) = Len(inbox) - 1
<1>1. Head(inbox) \in Events /\ Tail(inbox) \in Seq(Events) /\ Len(Tail(inbox)) = Len(inbox) - 1
  BY DEF TypeOK
<1> QED BY <1>1 DEF Events

-----------------------------------------------------------------------------
(* The totals.  What makes TotalsAreBounded inductive is the same bound on *)
(* the file, one pulse looser while an event is between the addition and   *)
(* the save.                                                               *)
FileInv ==
  /\ file = "none" => file_total = Zero
  /\ file # "empty" =>
       \A k \in Kinds : /\ file_total[k] <= heard[k]
                        /\ heard[k] <= file_total[k] + kills + faults + (IF pc = "open" THEN 1 ELSE 0)

TotalsInv == TypeOK /\ TotalsAreBounded /\ FileInv

LEMMA TotalsStep == TotalsInv /\ [Next]_vars => TotalsInv'
<1> SUFFICES ASSUME TotalsInv, [Next]_vars PROVE TotalsAreBounded' /\ FileInv'
  BY TypeStep DEF TotalsInv
<1>0. /\ TypeOK /\ TotalsAreBounded /\ FileInv /\ kills \in Nat /\ faults \in Nat
      /\ \A k \in Kinds : total[k] \in Nat /\ heard[k] \in Nat /\ file_total[k] \in Nat
  BY DEF TotalsInv, TypeOK, Totals
<1>1. CASE Start
  <2>1. total' = file_total /\ UNCHANGED <<file, file_total, heard, kills, faults>>
    BY <1>0, <1>1 DEF Start, FileInv, TypeOK, disk, counts
  <2>2. file # "empty" /\ pc = "down" /\ pc' = "idle"
    BY <1>1 DEF Start
  <2> QED BY <1>0, <2>1, <2>2 DEF FileInv, TotalsAreBounded
<1>2. CASE on_message
  <2> DEFINE k == Head(inbox).kind
  <2>1. /\ k \in Kinds /\ total' = [total EXCEPT ![k] = @ + 1]
        /\ heard' = [heard EXCEPT ![k] = @ + 1]
    BY <1>0, <1>2, HeadFacts DEF on_message
  <2> HIDE DEF k
  <2>2. \A o \in Kinds : /\ total'[o] = IF o = k THEN total[o] + 1 ELSE total[o]
                         /\ heard'[o] = IF o = k THEN heard[o] + 1 ELSE heard[o]
    BY <1>0, <2>1 DEF TypeOK, Totals
  <2>3. pc = "idle" /\ pc' = "open" /\ UNCHANGED <<file, file_total, kills, faults>>
    BY <1>2 DEF on_message, disk, counts
  <2> QED BY <1>0, SMTT(60), <2>2, <2>3 DEF FileInv, TotalsAreBounded
<1>3. CASE save_state_open
  BY <1>0, <1>3 DEF save_state_open, FileInv, TotalsAreBounded
<1>4. CASE save_state_write
  BY <1>0, <1>4 DEF save_state_write, FileInv, TotalsAreBounded, disk
<1>5. CASE publish
  BY <1>0, <1>5 DEF publish, FileInv, TotalsAreBounded, disk, counts
<1>10. CASE Kill
  <2>1. /\ pc' = "down" /\ kills' = kills + 1
        /\ UNCHANGED <<total, file, file_total, heard, faults>>
    BY <1>10 DEF Kill, disk
  <2> QED BY <1>0, SMTT(60), <2>1 DEF FileInv, TotalsAreBounded
<1> DEFINE Same == UNCHANGED <<pc, total, disk, heard, kills, faults>>
<1>6. CASE Same
  BY <1>0, <1>6 DEF FileInv, TotalsAreBounded, disk
<1>7. ASSUME Pulse PROVE Same
  BY <1>7 DEF Pulse, process, counts
<1>8. ASSUME NEW e \in published, Retransmit(e) PROVE Same
  BY <1>8 DEF Retransmit, process, counts
<1>9. Reconnect \/ Retain \/ Deliver \/ Disconnect \/ UNCHANGED vars => Same
  BY DEF Reconnect, Connect, Subscribe, ReconnectMqtt, Retain, Deliver, Disconnect, vars, process,
         counts
<1> HIDE DEF Same
<1> QED BY <1>1, <1>2, <1>3, <1>4, <1>5, <1>6, <1>7, <1>8, <1>9, <1>10 DEF Next, Work

(* The totals hold every pulse the writer handled and no other, but for    *)
(* one pulse for each end of the process and each failed save.             *)
THEOREM TotalsAreBoundedHolds == Spec => []TotalsAreBounded
<1>1. Init => TotalsInv
  <2> SUFFICES ASSUME Init PROVE TotalsAreBounded /\ FileInv
    BY TypeInit DEF TotalsInv
  <2> QED BY DEF Init, Zero, TotalsAreBounded, FileInv
<1>2. TotalsInv => TotalsAreBounded
  BY DEF TotalsInv
<1> QED BY <1>1, <1>2, TotalsStep, PTL DEF Spec

-----------------------------------------------------------------------------
(* Every event, from the publisher to the callback.                        *)

AccountInv == TypeOK /\ EventsAccountedFor

LEMMA SumIsNat == ASSUME NEW f \in Totals PROVE Sum(f) \in Nat
<1>1. f["active"] \in Nat /\ f["reactive"] \in Nat
  BY DEF Totals, Kinds
<1> QED BY <1>1 DEF Sum

LEMMA SumOneMore ==
  ASSUME NEW f \in Totals, NEW k \in Kinds
  PROVE  Sum([f EXCEPT ![k] = @ + 1]) = Sum(f) + 1
<1> DEFINE g == [f EXCEPT ![k] = @ + 1]
<1> SUFFICES Sum(g) = Sum(f) + 1
  OBVIOUS
<1>1. f["active"] \in Nat /\ f["reactive"] \in Nat
  BY DEF Totals, Kinds
<1>2. CASE k = "active"
  <2>1. g["active"] = f["active"] + 1 /\ g["reactive"] = f["reactive"]
    BY <1>2 DEF Totals, Kinds
  <2> HIDE DEF g
  <2> QED BY <1>1, <2>1 DEF Sum
<1>3. CASE k = "reactive"
  <2>1. g["active"] = f["active"] /\ g["reactive"] = f["reactive"] + 1
    BY <1>3 DEF Totals, Kinds
  <2> HIDE DEF g
  <2> QED BY <1>1, <2>1 DEF Sum
<1> QED BY <1>2, <1>3 DEF Kinds

(* The events of which the writer, or the broker for it, still knows.      *)
Known == Sum(heard) + Len(inbox) + Len(queue)

LEMMA KnownIsNat == TypeOK => Known \in Nat
<1> SUFFICES ASSUME TypeOK PROVE Known \in Nat
  OBVIOUS
<1>1. Len(inbox) \in Nat /\ Len(queue) \in Nat
  BY DEF TypeOK
<1>2. Sum(heard) \in Nat
  BY SumIsNat DEF TypeOK
<1> QED BY <1>1, <1>2 DEF Known

LEMMA AccountStep == AccountInv /\ [Next]_vars => AccountInv'
<1> SUFFICES ASSUME AccountInv, [Next]_vars PROVE EventsAccountedFor'
  BY TypeStep DEF AccountInv
<1>0. /\ TypeOK /\ Known \in Nat
      /\ pulses \in Nat /\ dups \in Nat /\ kills \in Nat /\ outages \in Nat
  BY KnownIsNat DEF AccountInv, TypeOK
<1>1. /\ Known <= pulses + dups
      /\ program = "amqp" /\ kills + outages = 0 => Known = pulses
  BY DEF AccountInv, EventsAccountedFor, Known
<1>2. SUFFICES /\ Known' <= pulses' + dups'
               /\ program' = "amqp" /\ kills' + outages' = 0 => Known' = pulses'
  BY DEF EventsAccountedFor, Known
<1>3. heard' = heard => Sum(heard)' = Sum(heard)
  BY DEF Sum
<1>4. Sum(heard) \in Nat /\ Len(inbox) \in Nat /\ Len(queue) \in Nat
  BY <1>0, SumIsNat DEF TypeOK
<1> DEFINE Goal == /\ Known' <= pulses' + dups'
                   /\ program' = "amqp" /\ kills' + outages' = 0 => Known' = pulses'
<1>5. CASE on_message
  <2> DEFINE k == Head(inbox).kind
  <2>1. k \in Kinds /\ heard' = [heard EXCEPT ![k] = @ + 1]
    BY <1>0, <1>5, HeadFacts DEF on_message
  <2> HIDE DEF k
  <2>2. Sum(heard)' = Sum(heard) + 1
    <3>1. Sum(heard)' = Sum(heard') /\ heard \in Totals
      BY <1>0 DEF Sum, TypeOK
    <3> QED BY <2>1, <3>1, SumOneMore
  <2>3. Len(inbox)' = Len(inbox) - 1 /\ Len(queue)' = Len(queue)
    BY <1>0, <1>5, HeadFacts DEF on_message
  <2>4. UNCHANGED <<program, pulses, dups, kills, outages>>
    BY <1>5 DEF on_message, meter, counts
  <2>5. Known' = Known
    BY <1>4, <2>2, <2>3 DEF Known
  <2> QED BY <1>1, <2>4, <2>5
<1>6. ASSUME Pulse PROVE Goal
  <2>1. pulses' = pulses + 1 /\ UNCHANGED <<program, inbox, heard, dups, kills, outages>>
    BY <1>6 DEF Pulse, counts
  <2>2. Len(queue)' = IF Routed THEN Len(queue) + 1 ELSE Len(queue)
    <3>1. PICK e : queue' = IF Routed THEN Append(queue, e) ELSE queue
      BY <1>6 DEF Pulse
    <3>2. Len(Append(queue, e)) = Len(queue) + 1
      BY <1>0 DEF TypeOK
    <3> QED BY <3>1, <3>2
  <2>3. /\ Known' = IF Routed THEN Known + 1 ELSE Known
        /\ program = "amqp" => Routed
    BY <1>3, <1>4, <2>1, <2>2 DEF Known, Routed
  <2> QED BY <1>0, <1>1, <2>1, <2>3
<1>7. ASSUME NEW e \in published, Retransmit(e) PROVE Goal
  <2>1. /\ program = "mqtt" /\ dups' = dups + 1 /\ queue' = Append(queue, e)
        /\ UNCHANGED <<program, inbox, heard, pulses>>
    BY <1>7 DEF Retransmit
  <2>2. Len(queue)' = Len(queue) + 1
    BY <1>0, <2>1 DEF TypeOK
  <2>3. Known' = Known + 1
    BY <1>3, <1>4, <2>1, <2>2 DEF Known
  <2> QED BY <1>0, <1>1, <2>1, <2>3
<1>8. CASE Deliver
  <2>1. /\ Len(inbox)' = Len(inbox) + 1 /\ Len(queue)' = Len(queue) - 1
    BY <1>0, <1>8 DEF Deliver, TypeOK
  <2>2. UNCHANGED <<program, heard, pulses, dups, kills, outages>>
    BY <1>8 DEF Deliver, meter, counts
  <2>3. Known' = Known
    BY <1>3, <1>4, <2>1, <2>2 DEF Known
  <2> QED BY <1>1, <2>2, <2>3
<1>9. CASE Disconnect \/ Kill
  <2>1. inbox' \in {inbox, <<>>} /\ queue' \in {queue, <<>>}
    BY <1>9 DEF Disconnect, Kill, Unfed, feed
  <2>2. /\ Len(inbox)' \in Nat /\ Len(queue)' \in Nat
        /\ Len(inbox)' <= Len(inbox) /\ Len(queue)' <= Len(queue)
    BY <1>4, <2>1
  <2>3. UNCHANGED <<program, heard, pulses, dups>>
    BY <1>9 DEF Disconnect, Kill, meter
  <2>4. Known' <= Known /\ Known' \in Nat
    BY <1>3, <1>4, <2>2, <2>3 DEF Known
  <2>5. kills' + outages' # 0
    BY <1>0, <1>9 DEF Disconnect, Kill
  <2> QED BY <1>0, <1>1, <2>3, <2>4, <2>5
<1> DEFINE Same == UNCHANGED <<program, feed, heard, meter, kills, outages>>
<1>10. CASE Same
  <2>1. Known' = Known /\ UNCHANGED <<program, pulses, dups, kills, outages>>
    BY <1>3, <1>10 DEF Known, feed, meter
  <2> QED BY <1>1, <2>1
<1>11. Start \/ Reconnect \/ save_state_open \/ save_state_write \/ publish \/ Retain \/ UNCHANGED vars
         => Same
  BY DEF Start, Reconnect, Connect, Subscribe, ReconnectMqtt, save_state_open, save_state_write,
         publish, Retain, vars, counts
<1> HIDE DEF Same
<1> QED BY <1>5, <1>6, <1>7, <1>8, <1>9, <1>10, <1>11 DEF Next, Work

(* Nothing is counted that was not published; and the durable queue loses  *)
(* nothing while nothing breaks.                                           *)
THEOREM EventsAccountedForHolds == Spec => []EventsAccountedFor
<1>1. Init => AccountInv
  <2> SUFFICES ASSUME Init PROVE EventsAccountedFor
    BY TypeInit DEF AccountInv
  <2> QED BY DEF Init, Zero, Sum, Kinds, EventsAccountedFor
<1>2. AccountInv => EventsAccountedFor
  BY DEF AccountInv
<1> QED BY <1>1, <1>2, AccountStep, PTL DEF Spec

-----------------------------------------------------------------------------
(* What a subscriber sees.  The totals only rise along the way they take:  *)
(* what the broker retains, what is on its way there in the order it was   *)
(* published, the file, the total of the process.                          *)
LevelsInv ==
  /\ pc = "down" => outbox = <<>>
  /\ pc = "publish" => file = "whole" /\ file_total = total
  /\ file = "none" => file_total = Zero
  /\ \A k \in Kinds : /\ pc # "down" => retained[k] <= total[k]
                      /\ file # "empty" => retained[k] <= file_total[k]
                      /\ pc # "down" /\ file # "empty" => file_total[k] <= total[k]

OutboxInv ==
  /\ \A i \in DOMAIN outbox : outbox[i].topic \in Kinds =>
       /\ retained[outbox[i].topic] <= outbox[i].value
       /\ outbox[i].value <= total[outbox[i].topic]
       /\ file # "empty" => outbox[i].value <= file_total[outbox[i].topic]
  /\ \A i, j \in DOMAIN outbox :
       i < j /\ outbox[i].topic = outbox[j].topic /\ outbox[i].topic \in Kinds
         => outbox[i].value <= outbox[j].value

SavedInv == TypeOK /\ LevelsInv /\ OutboxInv

(* The numbers of TypeOK, and what is in the outbox.                       *)
LEMMA Numbers ==
  ASSUME TypeOK
  PROVE  /\ \A k \in Kinds : total[k] \in Nat /\ file_total[k] \in Nat /\ retained[k] \in Nat
         /\ \A i \in DOMAIN outbox : /\ outbox[i].value \in Nat
                                     /\ outbox[i].topic \in Kinds \cup {"active_power", "reactive_power"}
<1>1. \A k \in Kinds : total[k] \in Nat /\ file_total[k] \in Nat /\ retained[k] \in Nat
  BY DEF TypeOK, Totals
<1>2. \A i \in DOMAIN outbox : outbox[i] \in Publication
  BY DEF TypeOK
<1> QED BY <1>1, <1>2 DEF Publication

(* What publish appends: totals, and powers of the intervals there are.    *)
LEMMA PublicationFacts ==
  ASSUME TypeOK, NEW i \in DOMAIN Publications
  PROVE  /\ Publications[i].topic \in Kinds => Publications[i].value = total[Publications[i].topic]
         /\ Publications[i].topic = "active_power" =>
              Publications[i].value = interval["active"] /\ interval["active"] > 0
         /\ Publications[i].topic = "reactive_power" =>
              Publications[i].value = interval["reactive"] /\ interval["reactive"] > 0
<1>1. "active" \in Kinds /\ "reactive" \in Kinds
  BY DEF Kinds
<1>2. /\ Energies \in Seq(Publication) /\ Power("active") \in Seq(Publication)
      /\ Power("reactive") \in Seq(Publication) /\ Energies \o Power("active") \in Seq(Publication)
  BY <1>1, EnergiesType, PowerType, ConcatProperties
<1>3. \/ \E j \in DOMAIN Energies : Publications[i] = Energies[j]
      \/ \E j \in DOMAIN Power("active") : Publications[i] = Power("active")[j]
      \/ \E j \in DOMAIN Power("reactive") : Publications[i] = Power("reactive")[j]
  <2> DEFINE E == Energies \o Power("active")
  <2>1. \/ i \in DOMAIN E /\ Publications[i] = E[i]
        \/ \E j \in DOMAIN Power("reactive") : Publications[i] = Power("reactive")[j]
    BY <1>2, ConcatProperties DEF Publications
  <2>2. ASSUME i \in DOMAIN E
        PROVE  \/ \E j \in DOMAIN Energies : E[i] = Energies[j]
               \/ \E j \in DOMAIN Power("active") : E[i] = Power("active")[j]
    BY <1>2, <2>2, Joined
  <2> QED BY <2>1, <2>2
<1>4. /\ "active_power" \notin Kinds /\ "reactive_power" \notin Kinds
      /\ "active_power" # "reactive_power" /\ "reactive" # "active"
  BY DEF Kinds
<1>5. CASE \E j \in DOMAIN Energies : Publications[i] = Energies[j]
  BY <1>4, <1>5, EnergiesType
<1>6. CASE \E j \in DOMAIN Power("active") : Publications[i] = Power("active")[j]
  BY <1>1, <1>4, <1>6, PowerType
<1>7. CASE \E j \in DOMAIN Power("reactive") : Publications[i] = Power("reactive")[j]
  BY <1>1, <1>4, <1>7, PowerType
<1> QED BY <1>3, <1>5, <1>6, <1>7

LEMMA LevelsStep == SavedInv /\ [Next]_vars => LevelsInv'
<1> SUFFICES ASSUME SavedInv, [Next]_vars PROVE LevelsInv'
  OBVIOUS
<1>0. TypeOK /\ LevelsInv /\ OutboxInv
  BY DEF SavedInv
<1>1. \A k \in Kinds : total[k] \in Nat /\ file_total[k] \in Nat /\ retained[k] \in Nat
  BY <1>0, Numbers
<1>2. CASE Start
  <2>1. total' = file_total
    BY <1>0, <1>2 DEF Start, LevelsInv, TypeOK
  <2>2. /\ pc' = "idle" /\ file # "empty"
        /\ UNCHANGED <<file, file_total, outbox, retained>>
    BY <1>2 DEF Start, disk, out
  <2> QED BY <1>0, <1>1, <2>1, <2>2 DEF LevelsInv
<1>3. CASE on_message
  <2> DEFINE k == Head(inbox).kind
  <2>1. k \in Kinds /\ total' = [total EXCEPT ![k] = @ + 1]
    BY <1>0, <1>3, HeadFacts DEF on_message
  <2> HIDE DEF k
  <2>2. \A o \in Kinds : total'[o] \in Nat /\ total[o] <= total'[o]
    <3>1. \A o \in Kinds : total'[o] = IF o = k THEN total[o] + 1 ELSE total[o]
      BY <1>0, <2>1 DEF TypeOK, Totals
    <3> QED BY <1>1, <3>1
  <2>3. /\ pc = "idle" /\ pc' = "open"
        /\ UNCHANGED <<file, file_total, outbox, retained>>
    BY <1>3 DEF on_message, disk, out
  <2> QED BY <1>0, <1>1, <2>2, <2>3 DEF LevelsInv
<1>4. CASE save_state_open
  BY <1>0, <1>4 DEF save_state_open, LevelsInv, out
<1>5. CASE save_state_write
  <2>1. UNCHANGED <<total, outbox, retained>> /\ pc = "write" /\ pc' # "down"
    BY <1>5 DEF save_state_write, out
  <2>2. \/ file' = "whole" /\ file_total' = total
        \/ pc' = "idle" /\ UNCHANGED <<file, file_total>>
    BY <1>5 DEF save_state_write, disk
  <2> QED BY <1>0, <1>1, <2>1, <2>2 DEF LevelsInv
<1>6. CASE publish
  BY <1>0, <1>6 DEF publish, LevelsInv, disk
<1>7. CASE Retain
  <2> DEFINE p == Head(outbox)
  <2>1. /\ outbox # <<>> /\ p = outbox[1] /\ 1 \in DOMAIN outbox
        /\ UNCHANGED <<pc, total, file, file_total>>
    BY <1>0, <1>7 DEF Retain, TypeOK, process, disk
  <2>2. retained' = IF p.topic \in Kinds THEN [retained EXCEPT ![p.topic] = p.value] ELSE retained
    BY <1>7 DEF Retain
  <2> HIDE DEF p
  <2>3. p.topic \in Kinds => /\ p.value <= total[p.topic]
                             /\ file # "empty" => p.value <= file_total[p.topic]
    BY <1>0, <2>1 DEF OutboxInv
  <2>4. \A k \in Kinds : retained'[k] = retained[k] \/ (k = p.topic /\ retained'[k] = p.value)
    BY <1>0, <2>2 DEF TypeOK, Totals
  <2>5. pc # "down"
    BY <1>0, <2>1 DEF LevelsInv
  <2> QED BY <1>0, <1>1, <2>1, <2>3, <2>4, <2>5 DEF LevelsInv
<1>8. CASE Disconnect \/ Kill
  <2>1. /\ outbox' \in {outbox, <<>>} /\ (pc' = pc \/ (pc' = "down" /\ outbox' = <<>>))
        /\ UNCHANGED <<total, file, file_total, retained>>
    BY <1>8 DEF Disconnect, Kill, process, disk
  <2> QED BY <1>0, <2>1 DEF LevelsInv
<1> DEFINE Same == UNCHANGED <<pc, total, disk, out>>
<1>9. CASE Same
  BY <1>0, <1>9 DEF LevelsInv, disk, out
<1>10. ASSUME Pulse PROVE Same
  BY <1>10 DEF Pulse, process
<1>11. ASSUME NEW e \in published, Retransmit(e) PROVE Same
  BY <1>11 DEF Retransmit, process
<1>12. Reconnect \/ Deliver \/ UNCHANGED vars => Same
  BY DEF Reconnect, Connect, Subscribe, ReconnectMqtt, Deliver, vars, process
<1> HIDE DEF Same
<1> QED BY <1>2, <1>3, <1>4, <1>5, <1>6, <1>7, <1>8, <1>9, <1>10, <1>11, <1>12 DEF Next, Work

LEMMA OutboxStep == SavedInv /\ [Next]_vars => OutboxInv'
<1> SUFFICES ASSUME SavedInv, [Next]_vars PROVE OutboxInv'
  OBVIOUS
<1>0. TypeOK /\ LevelsInv /\ OutboxInv /\ outbox \in Seq(Publication)
  BY DEF SavedInv, TypeOK
<1>1. /\ \A k \in Kinds : total[k] \in Nat /\ file_total[k] \in Nat /\ retained[k] \in Nat
      /\ \A i \in DOMAIN outbox : outbox[i].value \in Nat
  BY <1>0, Numbers
<1>2. CASE outbox' = <<>>
  BY <1>2 DEF OutboxInv
<1>3. CASE Start
  BY <1>0, <1>2, <1>3 DEF Start, LevelsInv, out
<1>4. CASE on_message
  <2> DEFINE k == Head(inbox).kind
  <2>1. k \in Kinds /\ total' = [total EXCEPT ![k] = @ + 1]
    BY <1>0, <1>4, HeadFacts DEF on_message
  <2> HIDE DEF k
  <2>2. \A o \in Kinds : total'[o] \in Nat /\ total[o] <= total'[o]
    <3>1. \A o \in Kinds : total'[o] = IF o = k THEN total[o] + 1 ELSE total[o]
      BY <1>0, <2>1 DEF TypeOK, Totals
    <3> QED BY <1>1, <3>1
  <2>3. UNCHANGED <<file, file_total, outbox, retained>>
    BY <1>4 DEF on_message, disk, out
  <2> QED BY <1>0, <1>1, <2>2, <2>3 DEF OutboxInv
<1>5. CASE save_state_open
  BY <1>0, <1>5 DEF save_state_open, OutboxInv, out
<1>6. CASE save_state_write
  <2>1. UNCHANGED <<total, outbox, retained>> /\ (file_total' = total \/ UNCHANGED disk)
    BY <1>6 DEF save_state_write, out
  <2> QED BY <1>0, <2>1 DEF OutboxInv, disk
<1>7. CASE publish
  <2>1. UNCHANGED <<total, file, file_total, retained>> /\ pc = "publish"
    BY <1>7 DEF publish, disk
  <2>2. CASE outbox' = outbox
    BY <1>0, <2>1, <2>2 DEF OutboxInv
  <2>3. CASE outbox' = outbox \o Publications
    <3>0. Publications \in Seq(Publication)
      BY <1>0, PublicationsType
    <3>1. /\ \A i \in DOMAIN outbox' : \/ i \in DOMAIN outbox /\ outbox'[i] = outbox[i]
                                       \/ /\ i > Len(outbox)
                                          /\ i - Len(outbox) \in DOMAIN Publications
                                          /\ outbox'[i] = Publications[i - Len(outbox)]
          /\ \A i \in DOMAIN outbox : i <= Len(outbox)
          /\ DOMAIN outbox' \subseteq Nat /\ DOMAIN outbox \subseteq Nat /\ Len(outbox) \in Nat
      BY <1>0, <2>3, <3>0, ConcatProperties
    <3>2. \A i \in DOMAIN outbox' :
            \/ i \in DOMAIN outbox /\ i <= Len(outbox) /\ outbox'[i] = outbox[i]
            \/ i > Len(outbox) /\ (outbox'[i].topic \in Kinds =>
                                     outbox'[i].value = total[outbox'[i].topic])
      BY <1>0, <3>1, PublicationFacts
    <3>3. \A k \in Kinds : retained[k] <= total[k] /\ total[k] <= file_total[k]
      BY <1>0, <1>1, <2>1 DEF LevelsInv
    <3>4. \A i \in DOMAIN outbox' : outbox'[i].topic \in Kinds =>
            /\ retained[outbox'[i].topic] <= outbox'[i].value
            /\ outbox'[i].value <= total[outbox'[i].topic]
            /\ file # "empty" => outbox'[i].value <= file_total[outbox'[i].topic]
      BY <1>0, <1>1, <3>2, <3>3 DEF OutboxInv
    <3>5. ASSUME NEW i \in DOMAIN outbox', NEW j \in DOMAIN outbox', i < j,
                 outbox'[i].topic = outbox'[j].topic, outbox'[i].topic \in Kinds
          PROVE  outbox'[i].value <= outbox'[j].value
      <4>1. CASE j \in DOMAIN outbox /\ j <= Len(outbox) /\ outbox'[j] = outbox[j]
        <5>1. i \in DOMAIN outbox /\ outbox'[i] = outbox[i]
          BY <3>1, <3>2, <3>5, <4>1
        <5> QED BY <1>0, <3>5, <4>1, <5>1 DEF OutboxInv
      <4>2. CASE outbox'[j].value = total[outbox'[j].topic]
        BY <3>4, <3>5, <4>2
      <4> QED BY <3>2, <3>5, <4>1, <4>2
    <3> QED BY <2>1, <3>4, <3>5 DEF OutboxInv
  <2> QED BY <1>7, <2>2, <2>3 DEF publish
<1>8. CASE Retain
  <2> DEFINE p == Head(outbox)
  <2>1. outbox # <<>> /\ UNCHANGED <<total, file, file_total>>
    BY <1>8 DEF Retain, process, disk
  <2>2. retained' = IF p.topic \in Kinds THEN [retained EXCEPT ![p.topic] = p.value] ELSE retained
    BY <1>8 DEF Retain
  <2>3. /\ p = outbox[1] /\ 1 \in DOMAIN outbox
        /\ \A i \in DOMAIN outbox' : i + 1 \in DOMAIN outbox /\ 1 < i + 1 /\ outbox'[i] = outbox[i + 1]
        /\ DOMAIN outbox' \subseteq Nat
    BY <1>0, <1>8, <2>1, HeadTailProperties DEF Retain
  <2> HIDE DEF p
  <2>4. \A k \in Kinds : retained'[k] = IF k = p.topic THEN p.value ELSE retained[k]
    BY <1>0, <2>2 DEF TypeOK, Totals
  <2>5. \A i \in DOMAIN outbox' : outbox'[i].topic \in Kinds =>
          /\ retained'[outbox'[i].topic] <= outbox'[i].value
          /\ outbox'[i].value <= total[outbox'[i].topic]
          /\ file # "empty" => outbox'[i].value <= file_total[outbox'[i].topic]
    BY <1>0, <2>3, <2>4 DEF OutboxInv
  <2>6. ASSUME NEW i \in DOMAIN outbox', NEW j \in DOMAIN outbox', i < j,
               outbox'[i].topic = outbox'[j].topic, outbox'[i].topic \in Kinds
        PROVE  outbox'[i].value <= outbox'[j].value
    <3>1. i + 1 \in DOMAIN outbox /\ j + 1 \in DOMAIN outbox /\ i + 1 < j + 1
      BY <2>3, <2>6
    <3> QED BY <1>0, <2>3, <2>6, <3>1 DEF OutboxInv
  <2> QED BY <2>1, <2>5, <2>6 DEF OutboxInv
<1>9. CASE Disconnect \/ Kill
  <2>1. outbox' \in {outbox, <<>>} /\ UNCHANGED <<total, file, file_total, retained>>
    BY <1>9 DEF Disconnect, Kill, process, disk
  <2> QED BY <1>0, <1>2, <2>1 DEF OutboxInv
<1> DEFINE Same == UNCHANGED <<total, disk, out>>
<1>10. CASE Same
  BY <1>0, <1>10 DEF OutboxInv, disk, out
<1>11. ASSUME Pulse PROVE Same
  BY <1>11 DEF Pulse, process
<1>12. ASSUME NEW e \in published, Retransmit(e) PROVE Same
  BY <1>12 DEF Retransmit, process
<1>13. Reconnect \/ Deliver \/ UNCHANGED vars => Same
  BY DEF Reconnect, Connect, Subscribe, ReconnectMqtt, Deliver, vars, process
<1> HIDE DEF Same
<1> QED BY <1>3, <1>4, <1>5, <1>6, <1>7, <1>8, <1>9, <1>10, <1>11, <1>12, <1>13 DEF Next, Work

LEMMA SavedInit == Init => SavedInv
<1> SUFFICES ASSUME Init PROVE LevelsInv /\ OutboxInv
  BY TypeInit DEF SavedInv
<1> QED BY DEF Init, Zero, LevelsInv, OutboxInv

(* A subscriber never sees a total go back: what is published has been     *)
(* saved, and every restart begins from what was saved.                    *)
THEOREM RetainedNeverFallsHolds == Spec => RetainedNeverFalls
<1>1. SavedInv /\ [Next]_vars => SavedInv'
  BY TypeStep, LevelsStep, OutboxStep DEF SavedInv
<1>2. SavedInv /\ [Next]_vars => [\A k \in Kinds : retained'[k] >= retained[k]]_retained
  <2> SUFFICES ASSUME SavedInv, [Next]_vars, NEW k \in Kinds, retained' # retained
               PROVE  retained'[k] >= retained[k]
    OBVIOUS
  <2>1. TypeOK /\ OutboxInv /\ retained[k] \in Nat
    BY Numbers DEF SavedInv
  <2>2. CASE Retain
    <3>1. 1 \in DOMAIN outbox /\ Head(outbox) = outbox[1]
      BY <2>1, <2>2 DEF Retain, TypeOK
    <3>2. /\ outbox[1].topic \in Kinds => retained[outbox[1].topic] <= outbox[1].value
          /\ retained \in Totals
      BY <2>1, <3>1 DEF OutboxInv, TypeOK
    <3>3. retained' = IF outbox[1].topic \in Kinds
                       THEN [retained EXCEPT ![outbox[1].topic] = outbox[1].value] ELSE retained
      BY <2>2, <3>1 DEF Retain
    <3>4. retained'[k] = retained[k]
          \/ (k = outbox[1].topic /\ retained'[k] = outbox[1].value)
      BY <3>2, <3>3 DEF Totals
    <3>5. outbox[1].value \in Nat
      BY <2>1, <3>1, Numbers
    <3> QED BY <2>1, <3>2, <3>4, <3>5
  <2>3. ASSUME ~Retain PROVE retained' = retained
    BY <2>3 DEF Next, Work, Reconnect, Start, Connect, Subscribe, ReconnectMqtt, on_message,
                save_state_open, save_state_write, publish, Pulse, Retransmit, Deliver, Disconnect,
                Kill, vars, out
  <2> QED BY <2>2, <2>3
<1> QED BY SavedInit, <1>1, <1>2, PTL DEF Spec, RetainedNeverFalls

-----------------------------------------------------------------------------
(* The power.  What the writer keeps, or has saved, as the last time of a  *)
(* kind is that of an event it took before those it still waits for; and   *)
(* while nothing was repeated, ended or broke, it took or waits for every  *)
(* event of the kind after that one.                                       *)

Elements(s) == {s[i] : i \in DOMAIN s}

Before(S, T) == \A x \in S, y \in T : x.n < y.n

Ascending(s) == \A i, j \in DOMAIN s : i < j => s[i].n < s[j].n

LEMMA HeadAndTail ==
  ASSUME NEW S, NEW s \in Seq(S), s # <<>>
  PROVE  /\ Head(s) \in S /\ Tail(s) \in Seq(S)
         /\ Elements(s) = {Head(s)} \cup Elements(Tail(s))
         /\ Ascending(s) => Ascending(Tail(s)) /\ Before({Head(s)}, Elements(Tail(s)))
<1>1. /\ Head(s) \in S /\ Head(s) = s[1] /\ Len(s) \in Nat /\ Len(s) > 0
      /\ Tail(s) \in Seq(S) /\ Len(Tail(s)) = Len(s) - 1
      /\ \A i \in 1 .. Len(Tail(s)) : Tail(s)[i] = s[i + 1]
  BY HeadTailProperties, EmptySeq
<1>2. DOMAIN s = 1 .. Len(s) /\ DOMAIN Tail(s) = 1 .. Len(s) - 1
  BY <1>1
<1>3. \A i \in DOMAIN Tail(s) : i + 1 \in DOMAIN s /\ 1 < i + 1 /\ Tail(s)[i] = s[i + 1] /\ i \in Int
  BY <1>1, <1>2
<1>4. 1 \in DOMAIN s
  BY <1>1, <1>2
<1>5. Elements(s) = {Head(s)} \cup Elements(Tail(s))
  <2>1. \A j \in DOMAIN s : j = 1 \/ (j - 1 \in DOMAIN Tail(s) /\ Tail(s)[j - 1] = s[j])
    BY <1>1, <1>2
  <2>2. \A j \in DOMAIN s : s[j] \in {Head(s)} \cup Elements(Tail(s))
    BY <1>1, <2>1 DEF Elements
  <2>3. Head(s) \in Elements(s) /\ Elements(Tail(s)) \subseteq Elements(s)
    BY <1>1, <1>3, <1>4 DEF Elements
  <2> QED BY <2>2, <2>3 DEF Elements
<1>6. Ascending(s) => Ascending(Tail(s)) /\ Before({Head(s)}, Elements(Tail(s)))
  <2> SUFFICES ASSUME Ascending(s) PROVE Ascending(Tail(s)) /\ Before({Head(s)}, Elements(Tail(s)))
    OBVIOUS
  <2>1. Ascending(Tail(s))
    BY <1>3 DEF Ascending
  <2>2. \A i \in DOMAIN Tail(s) : Head(s).n < Tail(s)[i].n
    BY <1>1, <1>3, <1>4 DEF Ascending
  <2> QED BY <2>1, <2>2 DEF Before, Elements
<1> QED BY <1>1, <1>5, <1>6

LEMMA Appended ==
  ASSUME NEW s \in Seq(Events), NEW x \in Events
  PROVE  /\ Append(s, x) \in Seq(Events)
         /\ Elements(Append(s, x)) = Elements(s) \cup {x}
         /\ Ascending(s) /\ Before(Elements(s), {x}) => Ascending(Append(s, x))
<1> DEFINE t == Append(s, x)
<1>1. /\ t \in Seq(Events) /\ Len(t) = Len(s) + 1 /\ Len(s) \in Nat
      /\ \A i \in 1 .. Len(s) : t[i] = s[i]
      /\ t[Len(s) + 1] = x
  BY AppendProperties
<1>2. DOMAIN s = 1 .. Len(s) /\ DOMAIN t = 1 .. Len(s) + 1
  BY <1>1
<1> HIDE DEF t
<1>3. /\ \A i \in DOMAIN s : i \in DOMAIN t /\ t[i] = s[i]
      /\ \A i \in DOMAIN t : i \in DOMAIN s \/ (i = Len(s) + 1 /\ t[i] = x)
      /\ Len(s) + 1 \in DOMAIN t
  BY <1>1, <1>2
<1>4. \A i, j \in DOMAIN t : i < j => i \in DOMAIN s
  BY <1>1, <1>2
<1>5. Elements(t) = Elements(s) \cup {x}
  BY <1>1, <1>3 DEF Elements
<1>6. Ascending(s) /\ Before(Elements(s), {x}) => Ascending(t)
  BY <1>3, <1>4 DEF Ascending, Before, Elements
<1> QED BY <1>1, <1>5, <1>6 DEF t

Waiting == Elements(inbox) \cup Elements(queue)

Calm == dups + kills + outages = 0

OrderInv == Ascending(inbox) /\ Ascending(queue) /\ Before(Elements(inbox), Elements(queue))

FeedInv ==
  /\ \A e \in published : e.n <= pulses
  /\ Waiting \subseteq published
  /\ dups = 0 => OrderInv
  /\ Calm => \A e \in Waiting, x \in published : x.n > e.n => x \in Waiting
  /\ Calm /\ Waiting # {} => Routed

Stored(k, t, calm) ==
  \/ t = 0
  \/ \E f \in published :
       /\ f.kind = k /\ f.ts = t
       /\ dups = 0 => Before({f}, Waiting)
       /\ calm => Routed /\ \A x \in published : x.kind = k => x.n <= f.n \/ x \in Waiting

LastInv ==
  /\ kills = 0 /\ pc = "down" => file = "none"
  /\ \A k \in Kinds : Stored(k, prev_ts[k], Calm) /\ Stored(k, file_prev_ts[k], FALSE)

IntervalInv ==
  /\ \A k \in Kinds : interval[k] = 0 \/ OfTwoEvents(k, interval[k])
  /\ PowerOfTwoEvents

PowerInv == TypeOK /\ FeedInv /\ LastInv /\ IntervalInv

(* The steps that give the writer nothing new to wait for.                 *)
Kept == UNCHANGED <<coming, published, pulses>>

LEMMA NoPulse ==
  ASSUME [Next]_vars, ~Pulse
  PROVE  Kept
BY DEF Next, Work, Reconnect, Start, Connect, Subscribe, ReconnectMqtt, on_message, save_state_open,
       save_state_write, publish, Retain, Retransmit, Deliver, Disconnect, Kill, vars, meter, Kept

(* The counts only rise.                                                   *)
LEMMA CountsRise ==
  ASSUME TypeOK, [Next]_vars
  PROVE  /\ dups' = 0 => dups = 0
         /\ kills' = 0 => kills = 0
         /\ Calm' => Calm /\ dups' = 0
         /\ Calm => dups = 0 /\ kills = 0
<1>1. dups \in Nat /\ kills \in Nat /\ outages \in Nat
  BY DEF TypeOK
<1>2. /\ dups' \in {dups, dups + 1} /\ kills' \in {kills, kills + 1}
      /\ outages' \in {outages, outages + 1}
  BY DEF Next, Work, Reconnect, Start, Connect, Subscribe, ReconnectMqtt, on_message,
         save_state_open, save_state_write, publish, Retain, Pulse, Retransmit, Deliver, Disconnect,
         Kill, vars, meter, counts
<1>3. /\ dups' >= dups /\ kills' >= kills /\ outages' >= outages
      /\ dups' \in Nat /\ kills' \in Nat /\ outages' \in Nat
  BY <1>1, <1>2
<1>4. dups' = 0 => dups = 0
  BY <1>1, <1>3
<1>5. kills' = 0 => kills = 0
  BY <1>1, <1>3
<1>6. Calm <=> dups = 0 /\ kills = 0 /\ outages = 0
  BY <1>1 DEF Calm
<1>7. Calm' <=> dups' = 0 /\ kills' = 0 /\ outages' = 0
  <2>1. dups' \in Nat /\ kills' \in Nat /\ outages' \in Nat
    BY <1>3
  <2>2. \A a, b, c \in Nat : a + b + c = 0 <=> a = 0 /\ b = 0 /\ c = 0
    OBVIOUS
  <2>3. Calm' <=> dups' + kills' + outages' = 0
    BY DEF Calm
  <2> QED BY <2>1, <2>2, <2>3
<1>8. outages' = 0 => outages = 0
  BY <1>1, <1>3
<1> QED BY <1>4, <1>5, <1>6, <1>7, <1>8

(* The event a pulse adds.                                                 *)
LEMMA PulseFacts ==
  ASSUME TypeOK, FeedInv, Pulse
  PROVE  \E e \in Events :
           /\ e.n = pulses + 1 /\ pulses \in Nat /\ pulses' = pulses + 1
           /\ published' = published \cup {e}
           /\ queue' = IF Routed THEN Append(queue, e) ELSE queue
           /\ \A x \in published : x \in Events /\ x.n \in Nat /\ x.n < e.n
           /\ UNCHANGED <<program, pc, prev_ts, interval, file, file_prev_ts, link, inbox, outbox, dups,
                          kills, outages>>
<1> DEFINE e == [n |-> pulses + 1, kind |-> Head(coming).kind, ts |-> Head(coming).ts]
<1>1. Head(coming) \in [kind : Kinds, ts : Nat]
  <2>1. coming \in Seq([kind : Kinds, ts : Nat]) /\ coming # <<>>
    BY DEF Pulse, TypeOK
  <2> QED BY <2>1, HeadAndTail
<1>2. pulses \in Nat /\ e \in Events /\ e.n = pulses + 1
  BY <1>1 DEF TypeOK, Events
<1>3. /\ pulses' = pulses + 1 /\ published' = published \cup {e}
      /\ queue' = IF Routed THEN Append(queue, e) ELSE queue
      /\ UNCHANGED <<program, process, disk, links, inbox, out, dups, heard, counts>>
  BY DEF Pulse
<1> HIDE DEF e
<1>4. \A x \in published : x \in Events /\ x.n \in Nat /\ x.n < e.n
  BY <1>2 DEF TypeOK, FeedInv, Events
<1> QED BY <1>2, <1>3, <1>4 DEF process, disk, links, out, counts

(* What waits is in order, and was published, whatever the step.           *)
LEMMA FeedStep == TypeOK /\ FeedInv /\ [Next]_vars => FeedInv'
<1> SUFFICES ASSUME TypeOK, FeedInv, [Next]_vars PROVE FeedInv'
  OBVIOUS
<1>0. /\ queue \in Seq(Events) /\ inbox \in Seq(Events)
      /\ dups' = 0 => dups = 0 /\ OrderInv
      /\ Calm' => Calm /\ OrderInv
      /\ \A e \in published : e.n \in Nat
  BY CountsRise DEF TypeOK, FeedInv, Events
<1>1. CASE on_message
  <2> DEFINE e == Head(inbox)
  <2>1. inbox # <<>> /\ inbox' = Tail(inbox) /\ UNCHANGED <<queue, published, pulses, program, link>>
    BY <1>1 DEF on_message, links, meter
  <2>2. /\ Elements(inbox) = {e} \cup Elements(inbox')
        /\ Ascending(inbox) => Ascending(inbox') /\ Before({e}, Elements(inbox'))
    BY <1>0, <2>1, HeadAndTail
  <2> HIDE DEF e
  <2>3. /\ Elements(inbox)' = Elements(inbox') /\ Elements(queue)' = Elements(queue)
        /\ Ascending(inbox)' = Ascending(inbox') /\ Ascending(queue)' = Ascending(queue)
    BY <2>1 DEF Elements, Ascending
  <2>4. OrderInv => OrderInv' /\ Before({e}, Waiting')
    BY <2>2, <2>3 DEF OrderInv, Before, Waiting
  <2>5. Waiting = {e} \cup Waiting'
    BY <2>2, <2>3 DEF Waiting
  <2>6. ASSUME Calm', NEW d \in Waiting', NEW x \in published, x.n > d.n
        PROVE  x \in Waiting'
    <3>1. x \in Waiting
      BY <1>0, <2>5, <2>6 DEF FeedInv
    <3>2. x # e
      <4>1. e.n < d.n
        BY <1>0, <2>4, <2>6 DEF Before
      <4>2. e.n \in Nat /\ d.n \in Nat
        BY <1>0, <2>5, <2>6 DEF FeedInv
      <4> QED BY <2>6, <4>1, <4>2
    <3> QED BY <2>5, <3>1, <3>2
  <2>7. Routed' = Routed
    BY <2>1 DEF Routed
  <2> QED BY <1>0, <2>1, <2>4, <2>5, <2>6, <2>7 DEF FeedInv
<1>2. CASE Deliver
  <2> DEFINE e == Head(queue)
  <2>1. queue # <<>> /\ queue' = Tail(queue) /\ inbox' = Append(inbox, e)
        /\ UNCHANGED <<published, pulses, program, link>>
    BY <1>2 DEF Deliver, links, meter
  <2>2. /\ e \in Events /\ Elements(queue) = {e} \cup Elements(queue')
        /\ Ascending(queue) => Ascending(queue') /\ Before({e}, Elements(queue'))
    BY <1>0, <2>1, HeadAndTail
  <2> HIDE DEF e
  <2>3. /\ Elements(inbox') = Elements(inbox) \cup {e}
        /\ Ascending(inbox) /\ Before(Elements(inbox), {e}) => Ascending(inbox')
    <3>1. /\ Elements(Append(inbox, e)) = Elements(inbox) \cup {e}
          /\ Ascending(inbox) /\ Before(Elements(inbox), {e}) => Ascending(Append(inbox, e))
      BY <1>0, <2>2, Appended
    <3> QED BY <2>1, <3>1
  <2>4. /\ Elements(inbox)' = Elements(inbox') /\ Elements(queue)' = Elements(queue')
        /\ Ascending(inbox)' = Ascending(inbox') /\ Ascending(queue)' = Ascending(queue')
    BY DEF Elements, Ascending
  <2>5. OrderInv => OrderInv'
    BY <2>2, <2>3, <2>4 DEF OrderInv, Before
  <2>6. Waiting' = Waiting
    BY <2>2, <2>3, <2>4 DEF Waiting
  <2>7. Routed' = Routed
    BY <2>1 DEF Routed
  <2> QED BY <1>0, <2>1, <2>5, <2>6, <2>7 DEF FeedInv
<1>3. CASE Pulse
  <2>1. PICK e \in Events :
           /\ e.n = pulses + 1 /\ pulses \in Nat /\ pulses' = pulses + 1
           /\ published' = published \cup {e}
           /\ queue' = IF Routed THEN Append(queue, e) ELSE queue
           /\ \A x \in published : x \in Events /\ x.n \in Nat /\ x.n < e.n
           /\ UNCHANGED <<program, pc, prev_ts, interval, file, file_prev_ts, link, inbox, outbox, dups,
                          kills, outages>>
    BY <1>3, PulseFacts
  <2>2. /\ Elements(inbox)' = Elements(inbox) /\ Ascending(inbox)' = Ascending(inbox)
        /\ Elements(queue)' = Elements(queue') /\ Ascending(queue)' = Ascending(queue')
    BY <2>1 DEF Elements, Ascending
  <2>3. Routed' = Routed /\ Waiting \subseteq published
    BY <2>1 DEF Routed, FeedInv
  <2>4. CASE ~Routed
    <3>1. Waiting' = Waiting /\ (OrderInv => OrderInv')
      BY <2>1, <2>2, <2>4 DEF Waiting, OrderInv, Before
    <3>2. Calm' => Waiting = {}
      BY <1>0, <2>4 DEF FeedInv
    <3> QED BY <1>0, <2>1, <2>3, <3>1, <3>2 DEF FeedInv
  <2>5. CASE Routed
    <3>1. /\ Elements(queue') = Elements(queue) \cup {e}
          /\ Ascending(queue) /\ Before(Elements(queue), {e}) => Ascending(queue')
      <4>1. /\ Elements(Append(queue, e)) = Elements(queue) \cup {e}
            /\ Ascending(queue) /\ Before(Elements(queue), {e}) => Ascending(Append(queue, e))
        BY <1>0, Appended
      <4> QED BY <2>1, <2>5, <4>1
    <3>2. Before(Waiting, {e})
      BY <2>1, <2>3 DEF Before
    <3>3. Waiting' = Waiting \cup {e} /\ (OrderInv => OrderInv')
      BY <2>2, <3>1, <3>2 DEF Waiting, OrderInv, Before
    <3>4. ASSUME Calm', NEW d \in Waiting', NEW x \in published', x.n > d.n
          PROVE  x \in Waiting'
      <4>1. CASE x = e
        BY <3>3, <4>1
      <4>2. CASE x \in published
        <5>1. d # e
          BY <2>1, <3>4, <4>2
        <5> QED BY <1>0, <3>3, <3>4, <4>2, <5>1 DEF FeedInv
      <4> QED BY <2>1, <4>1, <4>2
    <3> QED BY <1>0, <2>1, <2>3, <2>5, <3>3, <3>4 DEF FeedInv
  <2> QED BY <2>4, <2>5
<1>4. ASSUME NEW e \in published, Retransmit(e) PROVE FeedInv'
  <2>1. queue' = Append(queue, e) /\ dups' = dups + 1 /\ UNCHANGED <<inbox, published, pulses>>
    BY <1>4 DEF Retransmit
  <2>2. dups' # 0 /\ ~Calm'
    <3>1. dups \in Nat
      BY DEF TypeOK
    <3>2. dups' # 0
      BY <2>1, <3>1
    <3> QED BY <1>0, <3>2, CountsRise
  <2>3. e \in Events
    BY DEF TypeOK
  <2>4. Elements(queue') = Elements(queue) \cup {e}
    <3>1. Elements(Append(queue, e)) = Elements(queue) \cup {e}
      BY <1>0, <2>3, Appended
    <3> QED BY <2>1, <3>1
  <2>5. Waiting' = Waiting \cup {e}
    BY <2>1, <2>4 DEF Waiting, Elements
  <2> QED BY <2>1, <2>2, <2>5 DEF FeedInv
<1>5. CASE Disconnect \/ Kill
  <2>1. inbox' \in {inbox, <<>>} /\ queue' \in {queue, <<>>} /\ UNCHANGED <<published, pulses, dups>>
    BY <1>5 DEF Disconnect, Kill, Unfed, feed, meter
  <2>2. ~Calm'
    BY <1>5 DEF Disconnect, Kill, TypeOK, Calm, meter
  <2>3. /\ Elements(inbox)' \in {Elements(inbox), {}} /\ Elements(queue)' \in {Elements(queue), {}}
        /\ Ascending(inbox) => Ascending(inbox)'
        /\ Ascending(queue) => Ascending(queue)'
    BY <2>1 DEF Elements, Ascending
  <2>4. Waiting' \subseteq Waiting /\ (OrderInv => OrderInv')
    BY <2>3 DEF Waiting, OrderInv, Before
  <2> QED BY <1>0, <2>1, <2>2, <2>4 DEF FeedInv
<1>6. ASSUME UNCHANGED <<feed, published, pulses>>, Routed => Routed' PROVE FeedInv'
  <2>1. Waiting' = Waiting /\ OrderInv' = OrderInv
    BY <1>6 DEF feed, Waiting, Elements, OrderInv, Ascending, Before
  <2> QED BY <1>0, <1>6, <2>1 DEF FeedInv
<1>7. Start \/ Reconnect \/ save_state_open \/ save_state_write \/ publish \/ Retain \/ UNCHANGED vars
        => UNCHANGED <<feed, published, pulses>> /\ (Routed => Routed')
  BY DEF Start, Reconnect, Connect, Subscribe, ReconnectMqtt, save_state_open, save_state_write,
         publish, Retain, vars, meter, links, Routed
<1> QED BY <1>1, <1>2, <1>3, <1>4, <1>5, <1>6, <1>7 DEF Next, Work

(* on_message takes the first event that waits.                            *)
LEMMA TakenEvent ==
  ASSUME TypeOK, FeedInv, on_message
  PROVE  \E e \in published :
           /\ e.kind \in Kinds /\ e.ts \in Nat /\ e.n \in Nat
           /\ Waiting = {e} \cup Waiting' /\ published' = published /\ dups' = dups
           /\ Routed' = Routed /\ Calm' = Calm
           /\ dups = 0 => Before({e}, Waiting')
           /\ prev_ts' = [prev_ts EXCEPT ![e.kind] = e.ts]
           /\ interval' = [Zero EXCEPT ![e.kind] = Interval(e)]
<1> DEFINE e == Head(inbox)
<1>1. /\ inbox # <<>> /\ inbox' = Tail(inbox) /\ queue' = queue /\ published' = published /\ dups' = dups
      /\ UNCHANGED <<program, link, kills, outages>>
      /\ prev_ts' = [prev_ts EXCEPT ![e.kind] = e.ts]
      /\ interval' = [Zero EXCEPT ![e.kind] = Interval(e)]
  BY DEF on_message, meter, links, counts
<1>2. /\ Elements(inbox) = {e} \cup Elements(inbox') /\ e \in Events
      /\ Ascending(inbox) => Before({e}, Elements(inbox'))
  BY <1>1, HeadAndTail DEF TypeOK
<1> HIDE DEF e
<1>3. Elements(inbox)' = Elements(inbox') /\ Elements(queue)' = Elements(queue)
  BY <1>1 DEF Elements
<1>4. Waiting = {e} \cup Waiting'
  BY <1>2, <1>3 DEF Waiting
<1>5. OrderInv => Before({e}, Waiting')
  BY <1>2, <1>3 DEF OrderInv, Before, Waiting
<1>6. e \in published /\ (dups = 0 => OrderInv)
  BY <1>4 DEF FeedInv
<1>7. e.kind \in Kinds /\ e.ts \in Nat /\ e.n \in Nat
  BY <1>2 DEF Events
<1>8. Routed' = Routed /\ Calm' = Calm
  BY <1>1 DEF Routed, Calm
<1> QED BY <1>1, <1>4, <1>5, <1>6, <1>7, <1>8

(* Stored, after the step.                                                 *)
NowStored(k, t, calm) ==
  \/ t = 0
  \/ \E f \in published' :
       /\ f.kind = k /\ f.ts = t
       /\ dups' = 0 => Before({f}, Waiting')
       /\ calm => Routed' /\ \A x \in published' : x.kind = k => x.n <= f.n \/ x \in Waiting'

LEMMA StoredKept ==
  ASSUME NEW k, NEW t, NEW c \in BOOLEAN, NEW d \in BOOLEAN, Stored(k, t, c), published' = published,
         dups' = 0 => dups = 0 /\ Waiting' \subseteq Waiting,
         d => c /\ (Routed => Routed') /\ Waiting' = Waiting
  PROVE  NowStored(k, t, d)
<1>1. CASE t = 0
  BY <1>1 DEF NowStored
<1>2. ASSUME t # 0 PROVE NowStored(k, t, d)
  <2>1. PICK f \in published :
          /\ f.kind = k /\ f.ts = t
          /\ dups = 0 => Before({f}, Waiting)
          /\ c => Routed /\ \A x \in published : x.kind = k => x.n <= f.n \/ x \in Waiting
    BY <1>2 DEF Stored
  <2>2. dups' = 0 => Before({f}, Waiting')
    BY <2>1 DEF Before
  <2> QED BY <2>1, <2>2 DEF NowStored
<1> QED BY <1>1, <1>2

(* What waits changes with on_message, with a pulse, when an event is      *)
(* repeated, and when a connection or the process ends.                    *)
LEMMA WaitingKept ==
  ASSUME TypeOK, [Next]_vars, ~Pulse, ~on_message
  PROVE  /\ published' = published
         /\ dups' = 0 => dups = 0 /\ Waiting' \subseteq Waiting
         /\ Calm' => Calm /\ (Routed => Routed') /\ Waiting' = Waiting
<1>1. published' = published /\ (dups' = 0 => dups = 0) /\ (Calm' => Calm)
  BY NoPulse, CountsRise DEF Kept
<1>2. CASE Deliver
  <2> DEFINE e == Head(queue)
  <2>1. queue # <<>> /\ queue' = Tail(queue) /\ inbox' = Append(inbox, e) /\ UNCHANGED <<program, link>>
    BY <1>2 DEF Deliver, links
  <2>2. e \in Events /\ Elements(queue) = {e} \cup Elements(queue')
    BY <2>1, HeadAndTail DEF TypeOK
  <2> HIDE DEF e
  <2>3. Elements(inbox') = Elements(inbox) \cup {e}
    <3>1. Elements(Append(inbox, e)) = Elements(inbox) \cup {e}
      BY <2>2, Appended DEF TypeOK
    <3> QED BY <2>1, <3>1
  <2>4. Elements(inbox)' = Elements(inbox') /\ Elements(queue)' = Elements(queue')
    BY DEF Elements
  <2>5. Waiting' = Waiting
    BY <2>2, <2>3, <2>4 DEF Waiting
  <2>6. Routed' = Routed
    BY <2>1 DEF Routed
  <2> QED BY <1>1, <2>5, <2>6
<1>3. ASSUME NEW e \in published, Retransmit(e)
      PROVE  dups' # 0 /\ ~Calm'
  <2>1. dups' = dups + 1 /\ dups \in Nat
    BY <1>3 DEF Retransmit, TypeOK
  <2>2. dups' # 0
    BY <2>1
  <2> QED BY <2>2, CountsRise
<1>4. CASE Disconnect \/ Kill
  <2>1. inbox' \in {inbox, <<>>} /\ queue' \in {queue, <<>>}
    BY <1>4 DEF Disconnect, Kill, Unfed, feed
  <2>2. ~Calm'
    BY <1>4 DEF Disconnect, Kill, TypeOK, Calm, meter
  <2>3. /\ Elements(inbox)' \in {Elements(inbox), {}} /\ Elements(queue)' \in {Elements(queue), {}}
    BY <2>1 DEF Elements
  <2>4. Waiting' \subseteq Waiting
    BY <2>3 DEF Waiting
  <2> QED BY <1>1, <2>2, <2>4
<1>5. ASSUME UNCHANGED feed, Routed => Routed'
      PROVE  Waiting' = Waiting
  BY <1>5 DEF feed, Waiting, Elements
<1>6. Start \/ Reconnect \/ save_state_open \/ save_state_write \/ publish \/ Retain \/ UNCHANGED vars
        => UNCHANGED feed /\ (Routed => Routed')
  BY DEF Start, Reconnect, Connect, Subscribe, ReconnectMqtt, save_state_open, save_state_write,
         publish, Retain, vars, links, Routed
<1> QED BY <1>1, <1>2, <1>3, <1>4, <1>5, <1>6 DEF Next, Work

LEMMA LastStep == TypeOK /\ FeedInv /\ LastInv /\ [Next]_vars => LastInv'
<1> SUFFICES ASSUME TypeOK, FeedInv, LastInv, [Next]_vars PROVE LastInv'
  OBVIOUS
<1>0. /\ \A k \in Kinds : Stored(k, prev_ts[k], Calm) /\ Stored(k, file_prev_ts[k], FALSE)
      /\ prev_ts \in Totals /\ file_prev_ts \in Totals
  BY DEF LastInv, TypeOK
<1>1. kills' = 0 /\ pc' = "down" => file' = "none"
  <2>1. kills' = 0 => kills = 0
    BY CountsRise
  <2>2. CASE Kill
    BY <2>2 DEF Kill, TypeOK
  <2>3. CASE ~Kill
    <3>1. pc' = "down" => pc = "down" /\ file' = file
      BY <2>3 DEF Next, Work, Reconnect, Start, Connect, Subscribe, ReconnectMqtt, on_message,
                  save_state_open, save_state_write, publish, Retain, Pulse, Retransmit, Deliver,
                  Disconnect, vars, process, disk
    <3> QED BY <2>1, <3>1 DEF LastInv
  <2> QED BY <2>2, <2>3
<1>2. SUFFICES ASSUME NEW k \in Kinds
               PROVE  NowStored(k, prev_ts'[k], Calm') /\ NowStored(k, file_prev_ts'[k], FALSE)
  <2>1. \A k \in Kinds : Stored(k, prev_ts[k], Calm)' /\ Stored(k, file_prev_ts[k], FALSE)'
    BY <1>2 DEF Stored, NowStored
  <2> QED BY <1>1, <2>1 DEF LastInv
<1>3. Calm \in BOOLEAN /\ Calm' \in BOOLEAN
  BY DEF Calm
<1>4. CASE on_message
  <2>1. PICK e \in published :
           /\ e.kind \in Kinds /\ e.ts \in Nat /\ e.n \in Nat
           /\ Waiting = {e} \cup Waiting' /\ published' = published /\ dups' = dups
           /\ Routed' = Routed /\ Calm' = Calm
           /\ dups = 0 => Before({e}, Waiting')
           /\ prev_ts' = [prev_ts EXCEPT ![e.kind] = e.ts]
    BY <1>4, TakenEvent
  <2>2. file_prev_ts' = file_prev_ts
    BY <1>4 DEF on_message, disk
  <2>3. NowStored(k, file_prev_ts'[k], FALSE)
    BY <1>0, <2>1, <2>2, StoredKept
  <2>4. CASE k = e.kind
    <3>1. prev_ts'[k] = e.ts
      BY <1>0, <2>1, <2>4 DEF Totals
    <3>2. ASSUME Calm, NEW x \in published, x.kind = k
          PROVE  x.n <= e.n \/ x \in Waiting'
      <4>1. x.n \in Nat
        BY DEF TypeOK, Events
      <4>2. CASE x.n > e.n
        <5>1. x \in Waiting
          BY <2>1, <3>2, <4>2 DEF FeedInv
        <5>2. x # e
          BY <2>1, <4>1, <4>2
        <5> QED BY <2>1, <5>1, <5>2
      <4> QED BY <2>1, <4>1, <4>2
    <3>3. Calm => Routed
      BY <2>1 DEF FeedInv
    <3> QED BY <2>1, <2>3, <2>4, <3>1, <3>2, <3>3 DEF NowStored
  <2>5. CASE k # e.kind
    <3>1. prev_ts'[k] = prev_ts[k]
      BY <1>0, <2>1, <2>5 DEF Totals
    <3>2. CASE prev_ts[k] = 0
      BY <2>3, <3>1, <3>2 DEF NowStored
    <3>3. CASE prev_ts[k] # 0
      <4>1. PICK f \in published :
              /\ f.kind = k /\ f.ts = prev_ts[k]
              /\ dups = 0 => Before({f}, Waiting)
              /\ Calm => Routed /\ \A x \in published : x.kind = k => x.n <= f.n \/ x \in Waiting
        BY <1>0, <3>3 DEF Stored
      <4>2. dups' = 0 => Before({f}, Waiting')
        BY <2>1, <4>1 DEF Before
      <4>3. Calm' => Routed' /\ \A x \in published' : x.kind = k => x.n <= f.n \/ x \in Waiting'
        BY <2>1, <2>5, <4>1
      <4> QED BY <2>1, <2>3, <3>1, <4>1, <4>2, <4>3 DEF NowStored
    <3> QED BY <3>2, <3>3
  <2> QED BY <2>4, <2>5
<1>5. CASE Pulse
  <2>1. PICK e \in Events :
           /\ e.n = pulses + 1 /\ pulses \in Nat /\ pulses' = pulses + 1
           /\ published' = published \cup {e}
           /\ queue' = IF Routed THEN Append(queue, e) ELSE queue
           /\ \A x \in published : x \in Events /\ x.n \in Nat /\ x.n < e.n
           /\ UNCHANGED <<program, pc, prev_ts, interval, file, file_prev_ts, link, inbox, outbox, dups,
                          kills, outages>>
    BY <1>5, PulseFacts
  <2>2. Waiting' = IF Routed THEN Waiting \cup {e} ELSE Waiting
    <3>1. /\ Elements(inbox)' = Elements(inbox) /\ Elements(queue)' = Elements(queue')
      BY <2>1 DEF Elements
    <3>2. Elements(Append(queue, e)) = Elements(queue) \cup {e}
      BY Appended DEF TypeOK
    <3> QED BY <2>1, <3>1, <3>2 DEF Waiting
  <2>3. Routed' = Routed /\ Calm' = Calm
    BY <2>1 DEF Routed, Calm
  <2>4. ASSUME NEW t, NEW c \in BOOLEAN, Stored(k, t, c)
        PROVE  NowStored(k, t, c)
    <3>1. CASE t = 0
      BY <3>1 DEF NowStored
    <3>2. CASE t # 0
      <4>1. PICK f \in published :
              /\ f.kind = k /\ f.ts = t
              /\ dups = 0 => Before({f}, Waiting)
              /\ c => Routed /\ \A x \in published : x.kind = k => x.n <= f.n \/ x \in Waiting
        BY <2>4, <3>2 DEF Stored
      <4>2. dups' = 0 => Before({f}, Waiting')
        BY <2>1, <2>2, <4>1 DEF Before
      <4>3. c => Routed' /\ \A x \in published' : x.kind = k => x.n <= f.n \/ x \in Waiting'
        BY <2>1, <2>2, <2>3, <4>1
      <4> QED BY <2>1, <4>1, <4>2, <4>3 DEF NowStored
    <3> QED BY <3>1, <3>2
  <2>5. NowStored(k, prev_ts[k], Calm) /\ NowStored(k, file_prev_ts[k], FALSE)
    BY <1>0, <1>3, <2>4
  <2> QED BY <2>1, <2>3, <2>5
<1>6. ASSUME ~on_message, ~Pulse
      PROVE  NowStored(k, prev_ts'[k], Calm') /\ NowStored(k, file_prev_ts'[k], FALSE)
  <2>1. /\ NowStored(k, prev_ts[k], Calm') /\ NowStored(k, prev_ts[k], FALSE)
        /\ NowStored(k, file_prev_ts[k], FALSE)
    BY <1>0, <1>3, <1>6, WaitingKept, StoredKept
  <2>2. CASE Start
    <3>1. /\ file_prev_ts' = file_prev_ts /\ pc = "down" /\ kills' = kills /\ dups' = dups
          /\ prev_ts' = IF file = "whole" THEN file_prev_ts ELSE Zero
      BY <2>2 DEF Start, disk, counts, meter
    <3>2. Calm' => file = "none"
      BY <3>1, CountsRise DEF LastInv
    <3>3. CASE file = "whole"
      <4>1. ~Calm' /\ prev_ts'[k] = file_prev_ts[k]
        BY <3>1, <3>2, <3>3
      <4> QED BY <1>3, <2>1, <3>1, <4>1 DEF NowStored
    <3>4. CASE file # "whole"
      <4>1. prev_ts'[k] = 0
        BY <3>1, <3>4 DEF Zero
      <4> QED BY <2>1, <3>1, <4>1 DEF NowStored
    <3> QED BY <3>3, <3>4
  <2>3. CASE save_state_write
    <3>1. prev_ts' = prev_ts /\ file_prev_ts' \in {prev_ts, file_prev_ts}
      BY <2>3 DEF save_state_write, disk
    <3> QED BY <2>1, <3>1
  <2>4. CASE ~Start /\ ~save_state_write
    <3>1. prev_ts' = prev_ts /\ file_prev_ts' = file_prev_ts
      BY <1>6, <2>4 DEF Next, Work, Reconnect, Connect, Subscribe, ReconnectMqtt, save_state_open,
                  publish, Retain, Retransmit, Deliver, Disconnect, Kill, vars, process, disk
    <3> QED BY <2>1, <3>1
  <2> QED BY <2>2, <2>3, <2>4
<1> QED BY <1>4, <1>5, <1>6

(* OfTwoEvents, after the step.                                            *)
NowOfTwoEvents(k, v) ==
  \E f, e \in published' :
    /\ f.kind = k /\ e.kind = k /\ v = e.ts - f.ts
    /\ dups' = 0 => f.n < e.n
    /\ Calm' => \A x \in published' : x.kind = k => x.n <= f.n \/ e.n <= x.n

LEMMA OfTwoEventsKept ==
  ASSUME TypeOK, FeedInv, [Next]_vars, NEW k, NEW v, OfTwoEvents(k, v)
  PROVE  NowOfTwoEvents(k, v)
<1>1. PICK f \in published, e \in published :
        /\ f.kind = k /\ e.kind = k /\ v = e.ts - f.ts
        /\ dups = 0 => f.n < e.n
        /\ Calm => \A x \in published : x.kind = k => x.n <= f.n \/ e.n <= x.n
  BY DEF OfTwoEvents, Calm
<1>2. /\ published \subseteq published'
      /\ \A x \in published' : x \in published \/ e.n <= x.n
  <2>1. CASE Pulse
    <3>1. PICK p \in Events : /\ published' = published \cup {p}
                              /\ \A x \in published : x.n \in Nat /\ x.n < p.n
      BY <2>1, PulseFacts
    <3>2. e.n <= p.n
      BY <3>1 DEF Events
    <3> QED BY <3>1, <3>2
  <2>2. CASE ~Pulse
    BY <2>2, NoPulse DEF Kept
  <2> QED BY <2>1, <2>2
<1>3. (dups' = 0 => dups = 0) /\ (Calm' => Calm)
  BY CountsRise
<1> QED BY <1>1, <1>2, <1>3 DEF NowOfTwoEvents

(* The interval on_message finds.                                          *)
LEMMA IntervalFacts ==
  ASSUME TypeOK, FeedInv, LastInv, on_message, [Next]_vars, NEW k \in Kinds
  PROVE  interval'[k] = 0 \/ NowOfTwoEvents(k, interval'[k])
<1>1. PICK e \in published :
         /\ e.kind \in Kinds /\ e.ts \in Nat /\ e.n \in Nat
         /\ Waiting = {e} \cup Waiting' /\ published' = published /\ dups' = dups
         /\ Routed' = Routed /\ Calm' = Calm
         /\ dups = 0 => Before({e}, Waiting')
         /\ interval' = [Zero EXCEPT ![e.kind] = Interval(e)]
  BY TakenEvent
<1>2. interval'[k] = IF k = e.kind THEN Interval(e) ELSE 0
  BY <1>1 DEF Zero
<1>3. prev_ts[k] \in Nat
  BY DEF TypeOK, Totals
<1>4. CASE k = e.kind /\ prev_ts[k] > 0 /\ e.ts > prev_ts[k]
  <2>1. interval'[k] = e.ts - prev_ts[k]
    BY <1>2, <1>4 DEF Interval
  <2>2. prev_ts[k] # 0
    BY <1>3, <1>4
  <2>3. PICK f \in published :
          /\ f.kind = k /\ f.ts = prev_ts[k]
          /\ dups = 0 => Before({f}, Waiting)
          /\ Calm => Routed /\ \A x \in published : x.kind = k => x.n <= f.n \/ x \in Waiting
    BY <2>2 DEF LastInv, Stored
  <2>4. dups = 0 => f.n < e.n
    BY <1>1, <2>3 DEF Before
  <2>5. Calm => dups = 0
    BY CountsRise
  <2>6. \A x \in Waiting : dups = 0 => x = e \/ e.n < x.n
    BY <1>1 DEF Before
  <2>7. \A x \in published : x.n \in Nat
    BY DEF TypeOK, Events
  <2>8. ASSUME Calm, NEW x \in published, x.kind = k
        PROVE  x.n <= f.n \/ e.n <= x.n
    <3>1. x.n <= f.n \/ x = e \/ e.n < x.n
      BY <2>3, <2>5, <2>6, <2>8
    <3> QED BY <1>1, <2>7, <3>1
  <2> QED BY <1>1, <1>4, <2>1, <2>3, <2>4, <2>8 DEF NowOfTwoEvents
<1>5. CASE ~(k = e.kind /\ prev_ts[k] > 0 /\ e.ts > prev_ts[k])
  BY <1>2, <1>5 DEF Interval
<1> QED BY <1>4, <1>5

(* What is to be published, and what is on its way.                        *)
PowersIn(i) ==
  \A k \in Kinds : /\ i[k] = 0 \/ NowOfTwoEvents(k, i[k])

RightPower(p) ==
  /\ p.topic = "active_power" => p.value > 0 /\ NowOfTwoEvents("active", p.value)
  /\ p.topic = "reactive_power" => p.value > 0 /\ NowOfTwoEvents("reactive", p.value)

LEMMA IntervalStep == PowerInv /\ [Next]_vars => IntervalInv'
<1> SUFFICES ASSUME PowerInv, [Next]_vars PROVE IntervalInv'
  OBVIOUS
<1>0. /\ TypeOK /\ FeedInv /\ LastInv /\ IntervalInv /\ outbox \in Seq(Publication)
      /\ \A k \in Kinds : interval[k] \in Nat
  BY DEF PowerInv, TypeOK, Totals
<1>1. SUFFICES PowersIn(interval') /\ \A i \in DOMAIN outbox' : RightPower(outbox'[i])
  <2>1. \A k \in Kinds : interval'[k] = 0 \/ OfTwoEvents(k, interval[k])'
    BY <1>1 DEF PowersIn, NowOfTwoEvents, OfTwoEvents, Calm
  <2>2. PowerOfTwoEvents'
    BY <1>1 DEF RightPower, NowOfTwoEvents, PowerOfTwoEvents, OfTwoEvents, Calm
  <2> QED BY <2>1, <2>2 DEF IntervalInv
<1>2. PowersIn(interval)
  BY <1>0, OfTwoEventsKept DEF IntervalInv, PowersIn
<1>3. \A i \in DOMAIN outbox : RightPower(outbox[i])
  <2> SUFFICES ASSUME NEW i \in DOMAIN outbox PROVE RightPower(outbox[i])
    OBVIOUS
  <2>1. /\ outbox[i].topic = "active_power" =>
             outbox[i].value > 0 /\ OfTwoEvents("active", outbox[i].value)
        /\ outbox[i].topic = "reactive_power" =>
             outbox[i].value > 0 /\ OfTwoEvents("reactive", outbox[i].value)
    BY <1>0 DEF IntervalInv, PowerOfTwoEvents
  <2> QED BY <1>0, <2>1, OfTwoEventsKept DEF RightPower
<1>4. CASE on_message
  <2>1. outbox' = outbox
    BY <1>4 DEF on_message, out
  <2> QED BY <1>0, <1>3, <1>4, <2>1, IntervalFacts DEF PowersIn
<1>5. CASE Start
  <2>1. interval' = Zero /\ outbox' = outbox
    BY <1>5 DEF Start, out
  <2> QED BY <1>3, <2>1 DEF PowersIn, Zero
<1>6. CASE publish
  <2>1. interval' = interval /\ outbox' \in {outbox, outbox \o Publications}
    BY <1>6 DEF publish
  <2>2. ASSUME NEW i \in DOMAIN Publications PROVE RightPower(Publications[i])
    <3>1. "active" \in Kinds /\ "reactive" \in Kinds
      BY DEF Kinds
    <3> QED BY <1>0, <1>2, <3>1, PublicationFacts DEF PowersIn, RightPower
  <2>3. CASE outbox' = outbox \o Publications
    <3>1. Publications \in Seq(Publication)
      BY <1>0, PublicationsType
    <3>2. \A i \in DOMAIN outbox' : \/ i \in DOMAIN outbox /\ outbox'[i] = outbox[i]
                                    \/ /\ i - Len(outbox) \in DOMAIN Publications
                                       /\ outbox'[i] = Publications[i - Len(outbox)]
      BY <1>0, <2>3, <3>1, Joined
    <3> QED BY <1>2, <1>3, <2>1, <2>2, <3>2
  <2> QED BY <1>2, <1>3, <2>1, <2>3
<1>7. CASE Retain
  <2>1. outbox # <<>> /\ outbox' = Tail(outbox) /\ interval' = interval
    BY <1>7 DEF Retain, process
  <2>2. \A i \in DOMAIN outbox' : i + 1 \in DOMAIN outbox /\ outbox'[i] = outbox[i + 1]
    BY <1>0, <2>1
  <2> QED BY <1>2, <1>3, <2>1, <2>2
<1>8. CASE Disconnect \/ Kill
  <2>1. interval' = interval /\ outbox' \in {outbox, <<>>}
    BY <1>8 DEF Disconnect, Kill, process
  <2> QED BY <1>2, <1>3, <2>1
<1>9. CASE UNCHANGED <<interval, outbox>>
  BY <1>2, <1>3, <1>9
<1>10. ASSUME NEW e \in published, Retransmit(e) PROVE UNCHANGED <<interval, outbox>>
  BY <1>10 DEF Retransmit, process, out
<1>11. \/ Reconnect \/ save_state_open \/ save_state_write \/ Pulse \/ Deliver \/ UNCHANGED vars
       => UNCHANGED <<interval, outbox>>
  BY DEF Reconnect, Connect, Subscribe, ReconnectMqtt, save_state_open, save_state_write, Pulse,
         Deliver, vars, process, out
<1> QED BY <1>4, <1>5, <1>6, <1>7, <1>8, <1>9, <1>10, <1>11 DEF Next, Work

(* Every power is of two events of its own kind, and positive, for any     *)
(* feed: whatever the clock does, and whatever is lost, repeated, late or  *)
(* restored from the file.  Unless an event was repeated they are in the   *)
(* order of their publication; and while nothing broke and nothing ended,  *)
(* with no event of the kind in between.                                   *)
THEOREM PowerOfTwoEventsHolds == Spec => []PowerOfTwoEvents
<1>1. Init => PowerInv
  <2> SUFFICES ASSUME Init PROVE FeedInv /\ LastInv /\ IntervalInv
    BY TypeInit DEF PowerInv
  <2>1. Elements(<<>>) = {} /\ Ascending(<<>>)
    BY DEF Elements, Ascending
  <2>2. FeedInv
    BY <2>1 DEF Init, FeedInv, Waiting, OrderInv, Before
  <2> QED BY <2>2 DEF Init, Zero, LastInv, Stored, IntervalInv, PowerOfTwoEvents
<1>2. PowerInv /\ [Next]_vars => PowerInv'
  BY TypeStep, FeedStep, LastStep, IntervalStep DEF PowerInv
<1>3. PowerInv => PowerOfTwoEvents
  BY DEF PowerInv, IntervalInv
<1> QED BY <1>1, <1>2, <1>3, PTL DEF Spec
=============================================================================
