--------------------------- MODULE DataCapProofs ---------------------------
(* Why no pulse is invented, for any number of lines, any interval, any    *)
(* queue bound and any number of falling edges, restarts, signals and      *)
(* settings of the clock.                                                  *)
EXTENDS DataCap, TLAPS

(* A line's callback runs, and edges wait for it, only once the line has   *)
(* its interrupt, and no line has one in a process that is not up.         *)
ThreadInv ==
  /\ \A p \in Lines : up /\ stage[p] # "isr" => pc[p] = "idle" /\ pending[p] = 0
  /\ \A p \in Lines : ~up => stage[p] = "off" /\ pending[p] = 0

(* The line has seen a falling edge it has not sent a sample for, and may  *)
(* yet do so: because what it remembers is HIGH and the level is LOW, or   *)
(* because its callback is on the way.                                     *)
Owed(p) ==
  /\ up /\ stage[p] # "off"
  /\ \/ pc[p] = "idle" /\ pin_status[p] = "HIGH" /\ level[p] = "LOW"
     \/ pc[p] = "compare" /\ pin_status[p] = "HIGH" /\ pin_now[p] = "LOW"
     \/ pc[p] = "send"
     \/ pc[p] # "idle" /\ pin_now[p] = "HIGH" /\ level[p] = "LOW"

(* An owed sample has a falling edge that no sample stands for yet.        *)
PulseInv ==
  \A p \in Lines : /\ Owed(p) => sent[p] < falls[p]
                   /\ pc[p] = "send" => pin_now[p] = "LOW"

IInv == TypeOK /\ ThreadInv /\ PulseInv /\ NoPhantomPulse

LEMMA InitIInv == Init => IInv
<1> SUFFICES ASSUME Init PROVE IInv
  OBVIOUS
<1>1. TypeOK
  BY DataCapAssumption DEF Init, TypeOK
<1>2. ThreadInv /\ PulseInv /\ NoPhantomPulse
  BY DEF Init, ThreadInv, PulseInv, Owed, NoPhantomPulse
<1> QED BY <1>1, <1>2 DEF IInv

LEMMA NextTypeOK == TypeOK /\ [Next]_vars => TypeOK'
<1> SUFFICES ASSUME TypeOK, [Next]_vars PROVE TypeOK'
  OBVIOUS
<1> USE DataCapAssumption DEF TypeOK, line, world, clocks, main
<1>1. ASSUME NEW p \in Lines, ReadPin(p) PROVE TypeOK'
  BY <1>1 DEF ReadPin
<1>2. ASSUME NEW p \in Lines, RegisterIsr(p) PROVE TypeOK'
  BY <1>2 DEF RegisterIsr
<1>3. ASSUME NEW p \in Lines, CallbackRead(p) PROVE TypeOK'
  BY <1>3 DEF CallbackRead
<1>4. ASSUME NEW p \in Lines, CallbackCompare(p) PROVE TypeOK'
  <2>1. clock \in Nat
    OBVIOUS
  <2> QED BY <1>4, <2>1 DEF CallbackCompare
<1>5. ASSUME NEW p \in Lines, CallbackSend(p) PROVE TypeOK'
  <2>1. CASE qlen < QinMax
    BY <1>5, <2>1 DEF CallbackSend
  <2>2. CASE ~(qlen < QinMax)
    <3>1. up' \in BOOLEAN
      BY <1>5, <2>2 DEF CallbackSend, Ended
    <3>2. stage' \in [Lines -> {"off", "read", "isr"}] /\ pending' \in [Lines -> Nat]
      BY <1>5, <2>2 DEF CallbackSend, Ended
    <3> QED BY <1>5, <2>2, <3>1, <3>2 DEF CallbackSend
  <2> QED BY <2>1, <2>2
<1>6. ASSUME NEW p \in Lines, CallbackStore(p) PROVE TypeOK'
  BY <1>6 DEF CallbackStore
<1>7. ASSUME NEW p \in Lines, Edge(p) PROVE TypeOK'
  <2>1. level' \in [Lines -> {"LOW", "HIGH"}]
    BY <1>7 DEF Edge
  <2>2. falls' \in [Lines -> Nat] /\ last_fall' \in [Lines -> Int]
    BY <1>7 DEF Edge
  <2>3. pending' \in [Lines -> Nat]
    BY <1>7 DEF Edge
  <2> QED BY <1>7, <2>1, <2>2, <2>3 DEF Edge
<1>8. CASE signal_callback_handler
  <2>1. go' \in BOOLEAN
    BY <1>8 DEF signal_callback_handler
  <2>2. signals' \in Nat
    BY <1>8 DEF signal_callback_handler
  <2> QED BY <1>8, <2>1, <2>2 DEF signal_callback_handler
<1>9. CASE MainReturns
  BY <1>9 DEF MainReturns, Ended
<1>10. CASE Restart
  BY <1>10 DEF Restart
<1>15. CASE TestSend
  <2>1. CASE qlen < QinMax
    BY <1>15, <2>1 DEF TestSend
  <2>2. CASE ~(qlen < QinMax)
    <3>1. up' \in BOOLEAN
      BY <1>15, <2>2 DEF TestSend, Ended
    <3>2. stage' \in [Lines -> {"off", "read", "isr"}] /\ pending' \in [Lines -> Nat]
      BY <1>15, <2>2 DEF TestSend, Ended
    <3> QED BY <1>15, <2>2, <3>1, <3>2 DEF TestSend
  <2> QED BY <2>1, <2>2
<1>11. CASE Tick
  BY <1>11 DEF Tick
<1>12. ASSUME NEW c \in 1 .. MaxClock, SetClock(c) PROVE TypeOK'
  <2>1. c \in Nat
    OBVIOUS
  <2> QED BY <1>12, <2>1 DEF SetClock
<1>13. CASE OthersUseQueue
  BY <1>13 DEF OthersUseQueue
<1>14. CASE UNCHANGED vars
  BY <1>14 DEF vars
<1> QED BY <1>1, <1>2, <1>3, <1>4, <1>5, <1>6, <1>7, <1>8, <1>9, <1>10, <1>11,
           <1>12, <1>13, <1>14, <1>15 DEF Next, Callback

(* The process ends: no line owes anything any more.                       *)
LEMMA EndedKeepsInv ==
  ASSUME IInv, Ended, UNCHANGED <<pin_now, pc, sent, falls>>
  PROVE  ThreadInv' /\ PulseInv' /\ NoPhantomPulse'
BY DEF Ended, IInv, ThreadInv, PulseInv, NoPhantomPulse, Owed

LEMMA NextIInv == IInv /\ [Next]_vars => IInv'
<1> SUFFICES ASSUME IInv, [Next]_vars PROVE IInv'
  OBVIOUS
<1>0. TypeOK'
  BY NextTypeOK DEF IInv
<1> DEFINE Goal == ThreadInv' /\ PulseInv' /\ NoPhantomPulse'
<1> SUFFICES Goal
  BY <1>0 DEF IInv
<1> USE DEF IInv, TypeOK, ThreadInv, PulseInv, NoPhantomPulse, Owed
<1> USE DEF line, world, clocks, main
<1>1. ASSUME NEW p \in Lines, ReadPin(p) PROVE Goal
  BY <1>1 DEF ReadPin
<1>2. ASSUME NEW p \in Lines, RegisterIsr(p) PROVE Goal
  BY <1>2 DEF RegisterIsr
<1>3. ASSUME NEW p \in Lines, CallbackRead(p) PROVE Goal
  <2>1. stage[p] = "isr"
    BY <1>3 DEF CallbackRead
  <2> QED BY <1>3, <2>1 DEF CallbackRead
<1>4. ASSUME NEW p \in Lines, CallbackCompare(p) PROVE Goal
  BY <1>4 DEF CallbackCompare, Falling
<1>5. ASSUME NEW p \in Lines, CallbackSend(p) PROVE Goal
  <2>1. CASE qlen < QinMax
    <3>1. Owed(p) /\ sent[p] < falls[p] /\ pin_now[p] = "LOW" /\ stage[p] = "isr"
      BY <1>5 DEF CallbackSend
    <3> QED BY <1>5, <2>1, <3>1 DEF CallbackSend
  <2>2. CASE ~(qlen < QinMax)
    BY <1>5, <2>2, EndedKeepsInv DEF CallbackSend
  <2> QED BY <2>1, <2>2
<1>6. ASSUME NEW p \in Lines, CallbackStore(p) PROVE Goal
  BY <1>6 DEF CallbackStore
<1>7. ASSUME NEW p \in Lines, Edge(p) PROVE Goal
  <2>1. CASE level[p] = "HIGH"
    BY <1>7, <2>1 DEF Edge
  <2>2. CASE level[p] = "LOW"
    BY <1>7, <2>2 DEF Edge
  <2> QED BY <2>1, <2>2
<1>8. CASE signal_callback_handler
  BY <1>8 DEF signal_callback_handler
<1>9. CASE MainReturns
  BY <1>9, EndedKeepsInv DEF MainReturns
<1>10. CASE Restart
  BY <1>10 DEF Restart
<1>15. CASE TestSend
  <2>1. CASE qlen < QinMax
    BY <1>15, <2>1 DEF TestSend
  <2>2. CASE ~(qlen < QinMax)
    BY <1>15, <2>2, EndedKeepsInv DEF TestSend
  <2> QED BY <2>1, <2>2
<1>11. CASE Tick
  BY <1>11 DEF Tick
<1>12. ASSUME NEW c \in 1 .. MaxClock, SetClock(c) PROVE Goal
  BY <1>12 DEF SetClock
<1>13. CASE OthersUseQueue
  BY <1>13 DEF OthersUseQueue
<1>14. CASE UNCHANGED vars
  BY <1>14 DEF vars
<1> QED BY <1>1, <1>2, <1>3, <1>4, <1>5, <1>6, <1>7, <1>8, <1>9, <1>10, <1>11,
           <1>12, <1>13, <1>14, <1>15 DEF Next, Callback

LEMMA AlwaysIInv == Spec => []IInv
BY InitIInv, NextIInv, PTL DEF Spec

(* /qin stays within mq_maxmsg, and every variable has its type.           *)
THEOREM TypeCorrect == Spec => []TypeOK
<1>1. IInv => TypeOK
  BY DEF IInv
<1> QED BY <1>1, AlwaysIInv, PTL

(* Every sample of a line stands for a falling edge of its own, whatever   *)
(* the lines, the clock, the queue and the process do.                     *)
THEOREM NoPhantomPulseHolds == Spec => []NoPhantomPulse
<1>1. IInv => NoPhantomPulse
  BY DEF IInv
<1> QED BY <1>1, AlwaysIInv, PTL

-----------------------------------------------------------------------------
(* The rate                                                                *)

LEMMA QuotientGrows ==
  ASSUME NEW a \in Nat, NEW b \in Nat, NEW m \in Nat \ {0}, a <= b
  PROVE  a \div m <= b \div m /\ a \div m \in Nat
OBVIOUS

LEMMA QuotientOfMore ==
  ASSUME NEW a \in Nat, NEW b \in Nat, NEW m \in Nat \ {0}, a + m <= b
  PROVE  (a \div m) + 1 <= b \div m
OBVIOUS

(* The samples a line has accepted: sent, or about to be.                  *)
Accepted(p) == sent[p] + (IF pc[p] = "send" THEN 1 ELSE 0)

Allowance == steps + restarts

(* Either a line has one sample in reserve, which the next setting of the  *)
(* clock or the next start adds to; or the clock has run undisturbed since *)
(* it accepted the last, at the real time AcceptedAt (p).                  *)
AcceptedAt(p) == time - (clock - last_ts[p])

InReserve(p) == Accepted(p) <= time \div MIN_INTERVAL + Allowance

Undisturbed(p) ==
  /\ 0 < last_ts[p] /\ last_ts[p] <= clock /\ AcceptedAt(p) \in Nat
  /\ Accepted(p) <= 1 + AcceptedAt(p) \div MIN_INTERVAL + Allowance

RateInv ==
  /\ clock \in 1 .. MaxClock
  /\ \A p \in Lines : InReserve(p) \/ Undisturbed(p)

LEMMA RateTypes ==
  ASSUME TypeOK, NEW p \in Lines
  PROVE  /\ MIN_INTERVAL \in Nat \ {0} /\ Word \in Nat \ {0} /\ MaxClock \in Nat /\ MaxClock < Word
         /\ sent[p] \in Nat /\ last_ts[p] \in Nat /\ Accepted(p) \in Nat
         /\ time \in Nat /\ clock \in Nat /\ steps \in Nat /\ restarts \in Nat /\ Allowance \in Nat
         /\ time \div MIN_INTERVAL \in Nat
<1>1. MIN_INTERVAL \in Nat \ {0} /\ Word \in Nat \ {0} /\ MaxClock \in Nat /\ MaxClock < Word
  BY DataCapAssumption
<1>2. /\ sent[p] \in Nat /\ last_ts[p] \in Nat
      /\ time \in Nat /\ clock \in Nat /\ steps \in Nat /\ restarts \in Nat
  BY DEF TypeOK
<1>3. time <= time
  BY <1>2
<1>4. time \div MIN_INTERVAL \in Nat
  BY ONLY <1>1, <1>2, <1>3, QuotientGrows, ZenonT(30)
<1> QED BY <1>1, <1>2, <1>4 DEF Accepted, Allowance

(* A line that does not accept a sample, and time that passes, keep it.    *)
LEMMA RateKept ==
  ASSUME TypeOK, TypeOK', RateInv, NEW p \in Lines,
         Accepted(p)' <= Accepted(p), last_ts'[p] = last_ts[p],
         time' - time = clock' - clock, time' >= time, UNCHANGED <<steps, restarts>>
  PROVE  InReserve(p)' \/ Undisturbed(p)'
<1>1. Accepted(p)' \in Nat /\ time' \in Nat /\ clock' \in Nat
  BY DEF TypeOK, Accepted
<1>2. CASE InReserve(p)
  <2>1. time \div MIN_INTERVAL <= time' \div MIN_INTERVAL /\ time' \div MIN_INTERVAL \in Nat
    <3>1. time \in Nat /\ time' \in Nat /\ MIN_INTERVAL \in Nat \ {0} /\ time <= time' /\ time' <= time'
      BY <1>1, RateTypes
    <3> QED BY ONLY <3>1, QuotientGrows, ZenonT(30)
  <2> QED BY <1>1, <1>2, <2>1, RateTypes DEF InReserve, Allowance
<1>3. CASE Undisturbed(p)
  <2>1. AcceptedAt(p)' = AcceptedAt(p) /\ last_ts'[p] <= clock'
    BY <1>1, <1>3, RateTypes DEF AcceptedAt, Undisturbed
  <2> QED BY <1>1, <1>3, <2>1, RateTypes, QuotientGrows DEF Undisturbed, Allowance
<1> QED BY <1>2, <1>3 DEF RateInv

(* One more setting or start puts every line in reserve.                   *)
LEMMA RateRenewed ==
  ASSUME TypeOK, TypeOK', RateInv, NEW p \in Lines,
         Accepted(p)' <= Accepted(p), time' = time, Allowance' = Allowance + 1
  PROVE  InReserve(p)'
<1>1. Accepted(p) <= 1 + time \div MIN_INTERVAL + Allowance
  <2>1. CASE InReserve(p)
    BY <2>1, RateTypes DEF InReserve
  <2>2. CASE Undisturbed(p)
    <3>1. AcceptedAt(p) \in Nat /\ AcceptedAt(p) <= time
      BY <2>2, RateTypes DEF Undisturbed, AcceptedAt
    <3>2. /\ AcceptedAt(p) \div MIN_INTERVAL <= time \div MIN_INTERVAL
          /\ AcceptedAt(p) \div MIN_INTERVAL \in Nat
      <4>1. time \in Nat /\ MIN_INTERVAL \in Nat \ {0}
        BY RateTypes
      <4> QED BY ONLY <3>1, <4>1, QuotientGrows, ZenonT(30)
    <3> QED BY <2>2, <3>2, RateTypes DEF Undisturbed
  <2> QED BY <2>1, <2>2 DEF RateInv
<1>2. Accepted(p)' \in Nat
  BY DEF TypeOK, Accepted
<1> QED BY <1>1, <1>2, RateTypes DEF InReserve

(* An accepted pulse either draws on the reserve, or comes MIN_INTERVAL    *)
(* after the one before.                                                   *)
LEMMA RateOfAccepting ==
  ASSUME TypeOK, TypeOK', RateInv, NEW p \in Lines, ~TooSoon(p),
         Accepted(p)' = Accepted(p) + 1, last_ts'[p] = clock,
         UNCHANGED <<time, clock, steps, restarts>>
  PROVE  Undisturbed(p)'
<1>1. /\ AcceptedAt(p)' = time /\ 0 < last_ts'[p] /\ last_ts'[p] <= clock' /\ Allowance' = Allowance
      /\ clock \in 1 .. MaxClock
  BY RateTypes DEF AcceptedAt, Allowance, RateInv
<1>2. Accepted(p) <= time \div MIN_INTERVAL + Allowance
  <2>1. CASE InReserve(p)
    BY <2>1 DEF InReserve
  <2>2. CASE Undisturbed(p)
    <3>1. clock - last_ts[p] \in Nat /\ clock - last_ts[p] < Word
      BY <1>1, <2>2, RateTypes DEF Undisturbed
    <3>2. (clock - last_ts[p]) % Word = clock - last_ts[p]
      BY <3>1, RateTypes
    <3>3. AcceptedAt(p) \in Nat /\ AcceptedAt(p) + MIN_INTERVAL <= time
      BY <2>2, <3>1, <3>2, RateTypes DEF TooSoon, Undisturbed, AcceptedAt
    <3>4. (AcceptedAt(p) \div MIN_INTERVAL) + 1 <= time \div MIN_INTERVAL
      <4>1. time \in Nat /\ MIN_INTERVAL \in Nat \ {0}
        BY RateTypes
      <4> QED BY ONLY <3>3, <4>1, QuotientOfMore, ZenonT(30)
    <3>5. AcceptedAt(p) \div MIN_INTERVAL \in Nat
      <4>1. MIN_INTERVAL \in Nat \ {0} /\ AcceptedAt(p) <= AcceptedAt(p)
        BY <3>3, RateTypes
      <4> QED BY ONLY <3>3, <4>1, QuotientGrows, ZenonT(30)
    <3> QED BY <2>2, <3>4, <3>5, RateTypes DEF Undisturbed
  <2> QED BY <2>1, <2>2 DEF RateInv
<1> QED BY <1>1, <1>2, RateTypes DEF Undisturbed

LEMMA NextRateInv == TypeOK /\ RateInv /\ [Next]_vars => RateInv'
<1> SUFFICES ASSUME TypeOK, RateInv, [Next]_vars PROVE RateInv'
  OBVIOUS
<1>0. TypeOK'
  BY NextTypeOK
<1>1. clock' \in 1 .. MaxClock
  <2>1. \/ clock' = clock
        \/ clock < MaxClock /\ clock' = clock + 1
        \/ \E c \in 1 .. MaxClock : clock' = c
    BY DEF Next, vars, clocks, ReadPin, RegisterIsr, Callback, CallbackRead,
           CallbackCompare, CallbackSend, CallbackStore, Edge, signal_callback_handler, MainReturns,
           TestSend, Restart, Tick, SetClock, OthersUseQueue
  <2>2. clock \in 1 .. MaxClock /\ MaxClock \in Nat
    BY DataCapAssumption DEF RateInv
  <2> QED BY <2>1, <2>2
<1> SUFFICES ASSUME NEW q \in Lines PROVE InReserve(q)' \/ Undisturbed(q)'
  BY <1>1 DEF RateInv
<1> USE DEF line, world, clocks, main
<1>2. ASSUME NEW p \in Lines, CallbackCompare(p) PROVE InReserve(q)' \/ Undisturbed(q)'
  <2>1. UNCHANGED <<sent, time, clock, steps, restarts>>
    BY <1>2 DEF CallbackCompare
  <2>2. CASE p = q /\ Falling(p) /\ ~TooSoon(p)
    <3>1. pc[q] = "compare" /\ pc'[q] = "send" /\ last_ts'[q] = clock
      BY <1>2, <2>2 DEF CallbackCompare, TypeOK
    <3>2. Accepted(q)' = Accepted(q) + 1
      BY <2>1, <3>1, RateTypes DEF Accepted
    <3> QED BY <1>0, <2>1, <2>2, <3>1, <3>2, RateOfAccepting
  <2>3. CASE ~(p = q /\ Falling(p) /\ ~TooSoon(p))
    <3>1. last_ts'[q] = last_ts[q] /\ (pc'[q] = pc[q] \/ pc'[q] # "send")
      BY <1>2, <2>3 DEF CallbackCompare, TypeOK
    <3>2. Accepted(q)' <= Accepted(q)
      BY <2>1, <3>1, RateTypes DEF Accepted
    <3> QED BY <1>0, <2>1, <3>1, <3>2, RateKept, RateTypes
  <2> QED BY <2>2, <2>3
<1>3. ASSUME NEW p \in Lines, CallbackSend(p) PROVE InReserve(q)' \/ Undisturbed(q)'
  <2>1. UNCHANGED <<last_ts, time, clock, steps, restarts>>
    BY <1>3 DEF CallbackSend
  <2>2. Accepted(q)' <= Accepted(q)
    <3>1. CASE p = q /\ qlen < QinMax
      <4>1. pc[q] = "send" /\ pc'[q] = "store" /\ sent'[q] = sent[q] + 1
        BY <1>3, <3>1 DEF CallbackSend, TypeOK
      <4> QED BY <4>1, RateTypes DEF Accepted
    <3>2. CASE ~(p = q /\ qlen < QinMax)
      <4>1. pc'[q] = pc[q] /\ sent'[q] = sent[q]
        BY <1>3, <3>2 DEF CallbackSend, TypeOK
      <4> QED BY <4>1, RateTypes DEF Accepted
    <3> QED BY <3>1, <3>2
  <2> QED BY <1>0, <2>1, <2>2, RateKept, RateTypes
<1>4. CASE Restart
  <2>1. pc'[q] = "idle" /\ UNCHANGED <<sent, time, steps>> /\ restarts' = restarts + 1
    BY <1>4 DEF Restart
  <2>2. Accepted(q)' <= Accepted(q) /\ Allowance' = Allowance + 1
    BY <2>1, RateTypes DEF Accepted, Allowance
  <2> QED BY <1>0, <2>1, <2>2, RateRenewed
<1>5. ASSUME NEW c \in 1 .. MaxClock, SetClock(c) PROVE InReserve(q)' \/ Undisturbed(q)'
  <2>1. UNCHANGED <<pc, sent, time, restarts>> /\ steps' = steps + 1
    BY <1>5 DEF SetClock
  <2>2. Accepted(q)' = Accepted(q) /\ Allowance' = Allowance + 1
    BY <2>1, RateTypes DEF Accepted, Allowance
  <2> QED BY <1>0, <2>1, <2>2, RateRenewed, RateTypes
<1>6. CASE Tick
  <2>1. UNCHANGED <<pc, sent, last_ts, steps, restarts>> /\ time' = time + 1 /\ clock' = clock + 1
    BY <1>6 DEF Tick
  <2>2. Accepted(q)' = Accepted(q)
    BY <2>1 DEF Accepted
  <2> QED BY <1>0, <2>1, <2>2, RateKept, RateTypes
<1>7. CASE \/ \E p \in Lines : ReadPin(p) \/ RegisterIsr(p) \/ CallbackRead(p) \/ CallbackStore(p) \/ Edge(p)
           \/ signal_callback_handler \/ MainReturns \/ TestSend \/ OthersUseQueue \/ UNCHANGED vars
  <2>1. UNCHANGED <<sent, last_ts, time, clock, steps, restarts>>
    BY <1>7 DEF ReadPin, RegisterIsr, CallbackRead, CallbackStore, Edge, signal_callback_handler,
                MainReturns, TestSend, OthersUseQueue, vars
  <2>2. pc'[q] = pc[q] \/ pc'[q] # "send"
    BY <1>7 DEF ReadPin, RegisterIsr, CallbackRead, CallbackStore, Edge, signal_callback_handler,
                MainReturns, TestSend, OthersUseQueue, vars, TypeOK
  <2>3. Accepted(q)' <= Accepted(q)
    BY <2>1, <2>2, RateTypes DEF Accepted
  <2> QED BY <1>0, <2>1, <2>3, RateKept, RateTypes
<1> QED BY <1>2, <1>3, <1>4, <1>5, <1>6, <1>7 DEF Next, Callback

(* However the lines bounce and the clock is set, samples come no faster   *)
(* than MIN_INTERVAL allows, but for one per setting and start.            *)
THEOREM RateBoundedHolds == Spec => []RateBounded
<1>1. Init => RateInv
  <2> SUFFICES ASSUME Init PROVE RateInv
    OBVIOUS
  <2>1. clock = 1 /\ time = 0 /\ steps = 0 /\ restarts = 0
    BY DEF Init
  <2>2. ASSUME NEW p \in Lines PROVE InReserve(p)
    <3>1. Accepted(p) = 0
      BY DEF Init, Accepted
    <3>2. TypeOK
      BY InitIInv DEF IInv
    <3> QED BY <2>1, <3>1, <3>2, RateTypes DEF InReserve, Allowance
  <2>3. 1 \in 1 .. MaxClock
    BY DataCapAssumption
  <2> QED BY <2>1, <2>2, <2>3 DEF RateInv
<1>2. TypeOK /\ RateInv => RateBounded
  <2> SUFFICES ASSUME TypeOK, RateInv, NEW p \in Lines
      PROVE sent[p] <= 1 + time \div MIN_INTERVAL + steps + restarts
    BY DEF RateBounded
  <2>1. CASE InReserve(p)
    BY <2>1, RateTypes DEF InReserve, Accepted, Allowance
  <2>2. CASE Undisturbed(p)
    <3>1. AcceptedAt(p) \in Nat /\ AcceptedAt(p) <= time
      BY <2>2, RateTypes DEF Undisturbed, AcceptedAt
    <3>2. /\ AcceptedAt(p) \div MIN_INTERVAL <= time \div MIN_INTERVAL
          /\ AcceptedAt(p) \div MIN_INTERVAL \in Nat
      <4>1. time \in Nat /\ MIN_INTERVAL \in Nat \ {0}
        BY RateTypes
      <4> QED BY ONLY <3>1, <4>1, QuotientGrows, ZenonT(30)
    <3> QED BY <2>2, <3>2, RateTypes DEF Undisturbed, Accepted, Allowance
  <2> QED BY <2>1, <2>2 DEF RateInv
<1> QED BY <1>1, <1>2, NextRateInv, TypeCorrect, PTL DEF Spec

-----------------------------------------------------------------------------
(* What setting the clock costs                                            *)

(* The first run of a process; a later one may have missed edges.          *)
FirstRun == up /\ restarts = 0

(* With prompt callbacks the level is still the one a callback is for, and *)
(* no time passes before it is done.                                       *)
PromptInv(p) ==
  /\ pending[p] \in {0, 1} /\ (pending[p] = 1 => pc[p] = "idle")
  /\ pc[p] = "idle" => (pending[p] = 0 <=> pin_status[p] = level[p])
  /\ pc[p] = "compare" => pin_status[p] # level[p]
  /\ pc[p] # "idle" => pin_now[p] = level[p]
  /\ pc[p] = "send" => level[p] = "LOW"
  /\ Busy(p) /\ level[p] = "LOW" => last_fall[p] = time

(* A falling edge whose callback has not yet compared.                     *)
Undecided(p) == level[p] = "LOW" /\ (pending[p] > 0 \/ pc[p] = "compare")

(* The falling edges that have been dropped.                               *)
Lost(p) == falls[p] - sent[p] - (IF Undecided(p) \/ pc[p] = "send" THEN 1 ELSE 0)

(* The clock has gone on at least as real time has since the last edge, so *)
(* that the next edge of a clean line is not too soon.                     *)
InStep(p) ==
  \/ last_ts[p] = 0
  \/ /\ last_ts[p] <= clock
     /\ IF Undecided(p) THEN clock - last_ts[p] >= MIN_INTERVAL
                        ELSE clock - last_ts[p] >= time - last_fall[p]

(* Each setting of the clock buys one lost edge, and what is lost puts the *)
(* line in step again.                                                     *)
CostInv(p) ==
  \/ Lost(p) < steps
  \/ Lost(p) = steps /\ InStep(p)

ClockInv ==
  /\ clock \in 1 .. MaxClock
  /\ \A p \in Lines : last_ts[p] <= MaxClock
  /\ FirstRun => \A p \in Lines : PromptInv(p) /\ CostInv(p)

Seen(p) == <<pending[p], pin_status[p], pin_now[p], pc[p], last_ts[p], level[p], falls[p],
             last_fall[p], sent[p]>>

LEMMA LineTypes ==
  ASSUME TypeOK, NEW p \in Lines
  PROVE  /\ level[p] \in {"LOW", "HIGH"} /\ pin_now[p] \in {"LOW", "HIGH"} /\ pin_status[p] \in {"LOW", "HIGH"}
         /\ pc[p] \in {"idle", "compare", "send", "store"} /\ pending[p] \in Nat
         /\ last_ts[p] \in Nat /\ sent[p] \in Nat /\ falls[p] \in Nat /\ last_fall[p] \in Int
         /\ time \in Nat /\ clock \in Nat /\ steps \in Nat /\ restarts \in Nat
         /\ MIN_INTERVAL \in Nat \ {0} /\ Lost(p) \in Int
<1>1. sent[p] \in Nat /\ falls[p] \in Nat
  BY DEF TypeOK
<1> QED BY <1>1, DataCapAssumption DEF TypeOK, Lost

LEMMA LineKept ==
  ASSUME TypeOK, NEW p \in Lines, PromptInv(p), CostInv(p),
         UNCHANGED <<Seen(p), time, clock, steps>>
  PROVE  PromptInv(p)' /\ CostInv(p)'
BY DEF Seen, PromptInv, CostInv, Busy, Lost, InStep, Undecided

LEMMA CompareKeepsInv ==
  ASSUME TypeOK, TypeOK', ClockInv, FirstRun, NEW p \in Lines, CallbackCompare(p),
         MaxClock + MIN_INTERVAL <= Word
  PROVE  PromptInv(p)' /\ CostInv(p)'
<1>0. PromptInv(p) /\ CostInv(p) /\ last_ts[p] <= MaxClock /\ clock \in 1 .. MaxClock
  BY DEF ClockInv
<1>1. /\ pc[p] = "compare" /\ pending[p] = 0 /\ pin_now[p] = level[p] /\ pin_status[p] # level[p]
      /\ level[p] = "LOW" => last_fall[p] = time
  BY <1>0, LineTypes DEF CallbackCompare, PromptInv, Busy
<1>2. /\ UNCHANGED <<pending[p], pin_now[p], pin_status[p], level[p], falls[p], sent[p], last_fall[p], time, clock, steps>>
      /\ IF Falling(p) /\ ~TooSoon(p) THEN pc'[p] = "send" /\ last_ts'[p] = clock
                                     ELSE pc'[p] = "store" /\ last_ts'[p] = last_ts[p]
  BY DEF CallbackCompare, TypeOK, clocks, world
<1>3. Falling(p) <=> level[p] = "LOW"
  BY <1>1, LineTypes DEF Falling
<1>4. PromptInv(p)'
  BY <1>1, <1>2, <1>3, LineTypes DEF PromptInv, Busy
<1>5. CASE level[p] = "HIGH"
  <2>1. Lost(p)' = Lost(p) /\ (InStep(p)' <=> InStep(p))
    BY <1>1, <1>2, <1>3, <1>5 DEF Lost, InStep, Undecided
  <2> QED BY <1>0, <1>2, <1>4, <2>1 DEF CostInv
<1>6. CASE level[p] = "LOW" /\ ~TooSoon(p)
  <2>1. Lost(p)' = Lost(p)
    BY <1>1, <1>2, <1>3, <1>6 DEF Lost, Undecided
  <2>2. InStep(p)'
    BY <1>1, <1>2, <1>3, <1>6, LineTypes DEF InStep, Undecided
  <2> QED BY <1>0, <1>2, <1>4, <2>1, <2>2, LineTypes DEF CostInv
<1>7. CASE level[p] = "LOW" /\ TooSoon(p)
  <2>1. Lost(p)' = Lost(p) + 1
    BY <1>1, <1>2, <1>3, <1>7, LineTypes DEF Lost, Undecided
  <2>2. last_ts[p] <= clock /\ clock - last_ts[p] < MIN_INTERVAL /\ last_ts[p] # 0
    <3>1. /\ last_ts[p] \in Nat /\ clock \in Nat /\ MaxClock \in Nat /\ clock <= MaxClock /\ 1 <= clock
          /\ MIN_INTERVAL \in Nat /\ Word \in Nat \ {0} /\ last_ts[p] <= MaxClock /\ MaxClock < Word
      BY <1>0, LineTypes, DataCapAssumption
    <3>2. CASE clock < last_ts[p]
      <4>1. clock - last_ts[p] + Word \in 0 .. Word - 1
        BY <3>1, <3>2
      <4>2. (clock - last_ts[p]) % Word = clock - last_ts[p] + Word
        BY <3>1, <4>1
      <4> QED BY <3>1, <4>2, <1>7 DEF TooSoon
    <3>3. CASE last_ts[p] <= clock
      <4>1. clock - last_ts[p] \in 0 .. Word - 1
        BY <3>1, <3>3
      <4>2. (clock - last_ts[p]) % Word = clock - last_ts[p]
        BY <3>1, <4>1
      <4> QED BY <3>1, <3>3, <4>2, <1>7 DEF TooSoon
    <3> QED BY <3>1, <3>2, <3>3
  <2>3. ~InStep(p)
    BY <1>1, <1>7, <2>2, LineTypes DEF InStep, Undecided
  <2>4. InStep(p)'
    BY <1>1, <1>2, <1>3, <1>7, <2>2, LineTypes DEF InStep, Undecided
  <2> QED BY <1>0, <1>2, <1>4, <2>1, <2>3, <2>4, LineTypes DEF CostInv
<1> QED BY <1>5, <1>6, <1>7, LineTypes

LEMMA CallbackKeepsInv ==
  ASSUME TypeOK, TypeOK', ClockInv, FirstRun, NEW p \in Lines,
         CallbackRead(p) \/ CallbackSend(p) \/ CallbackStore(p), FirstRun'
  PROVE  PromptInv(p)' /\ CostInv(p)'
<1>0. PromptInv(p) /\ CostInv(p)
  BY DEF ClockInv
<1>1. CASE CallbackRead(p)
  <2>1. /\ pc[p] = "idle" /\ pending[p] = 1 /\ pending'[p] = 0 /\ pc'[p] = "compare" /\ pin_now'[p] = level[p]
        /\ UNCHANGED <<pin_status[p], last_ts[p], level[p], falls[p], last_fall[p], sent[p], time, clock, steps>>
    BY <1>0, <1>1 DEF CallbackRead, TypeOK, PromptInv, world, clocks
  <2> QED BY <1>0, <2>1, LineTypes DEF PromptInv, CostInv, Busy, Lost, InStep, Undecided
<1>2. CASE CallbackSend(p)
  <2>1. qlen < QinMax
    BY <1>2 DEF CallbackSend, Ended, FirstRun
  <2>2. /\ pc[p] = "send" /\ pc'[p] = "store" /\ sent'[p] = sent[p] + 1
        /\ UNCHANGED <<pending[p], pin_status[p], pin_now[p], last_ts[p], level[p], falls[p], last_fall[p],
                       time, clock, steps>>
    BY <1>2, <2>1 DEF CallbackSend, TypeOK, world, clocks
  <2>3. PromptInv(p)' /\ ~Undecided(p) /\ ~Undecided(p)' /\ InStep(p)' = InStep(p)
    BY <1>0, <2>2, LineTypes DEF PromptInv, Busy, InStep, Undecided
  <2>4. Lost(p)' = Lost(p)
    BY <2>2, <2>3, LineTypes DEF Lost
  <2> QED BY <1>0, <2>2, <2>3, <2>4 DEF CostInv
<1>3. CASE CallbackStore(p)
  <2>1. /\ pc[p] = "store" /\ pc'[p] = "idle" /\ pin_status'[p] = pin_now[p]
        /\ UNCHANGED <<pending[p], pin_now[p], last_ts[p], level[p], falls[p], last_fall[p], sent[p],
                       time, clock, steps>>
    BY <1>3 DEF CallbackStore, TypeOK, world, clocks
  <2>2. PromptInv(p)' /\ ~Undecided(p) /\ ~Undecided(p)'
    BY <1>0, <2>1, LineTypes DEF PromptInv, Busy, Undecided
  <2> QED BY <1>0, <2>1, <2>2 DEF CostInv, InStep, Lost
<1> QED BY <1>1, <1>2, <1>3

LEMMA EdgeKeepsInv ==
  ASSUME TypeOK, TypeOK', ClockInv, FirstRun, NEW p \in Lines, Edge(p), Prompt
  PROVE  PromptInv(p)' /\ CostInv(p)'
<1>0. PromptInv(p) /\ CostInv(p)
  BY DEF ClockInv
<1>1. /\ pending[p] = 0 /\ pc[p] = "idle" /\ pin_status[p] = level[p]
      /\ level[p] = "HIGH" => time - last_fall[p] >= MIN_INTERVAL
      /\ pending'[p] = 1 /\ level'[p] # level[p] /\ level'[p] \in {"LOW", "HIGH"}
      /\ UNCHANGED <<pin_status[p], pin_now[p], pc[p], last_ts[p], sent[p], time, clock, steps>>
  BY <1>0, LineTypes DEF Edge, Busy, PromptInv, TypeOK, clocks
<1>2. CASE level[p] = "HIGH"
  <2>1. falls'[p] = falls[p] + 1 /\ last_fall'[p] = time /\ level'[p] = "LOW"
    BY <1>1, <1>2 DEF Edge, TypeOK
  <2>2. PromptInv(p)' /\ Undecided(p)' /\ ~Undecided(p)
    BY <1>1, <1>2, <2>1 DEF PromptInv, Busy, Undecided
  <2>3. Lost(p)' = Lost(p)
    BY <1>1, <2>1, <2>2, LineTypes DEF Lost
  <2>4. InStep(p) => InStep(p)'
    BY <1>1, <1>2, <2>2, LineTypes DEF InStep
  <2> QED BY <1>0, <1>1, <2>2, <2>3, <2>4 DEF CostInv
<1>3. CASE level[p] = "LOW"
  <2>1. falls'[p] = falls[p] /\ last_fall'[p] = last_fall[p] /\ level'[p] = "HIGH"
    BY <1>1, <1>3 DEF Edge
  <2>2. PromptInv(p)' /\ ~Undecided(p)' /\ ~Undecided(p)
    BY <1>1, <1>3, <2>1 DEF PromptInv, Busy, Undecided
  <2> QED BY <1>0, <1>1, <2>1, <2>2 DEF CostInv, InStep, Lost
<1> QED BY <1>2, <1>3, LineTypes

LEMMA NextClockInv ==
  ASSUME Prompt, MaxClock + MIN_INTERVAL <= Word
  PROVE  IInv /\ ClockInv /\ [Next]_vars => ClockInv'
<1> SUFFICES ASSUME TypeOK, ThreadInv, ClockInv, [Next]_vars PROVE ClockInv'
  BY DEF IInv
<1>0. TypeOK'
  BY NextTypeOK
<1> USE DEF line, world, clocks, main
<1>1. clock' \in 1 .. MaxClock
  <2>1. \/ clock' = clock
        \/ clock < MaxClock /\ clock' = clock + 1
        \/ \E c \in 1 .. MaxClock : clock' = c
    BY DEF Next, vars, ReadPin, RegisterIsr, Callback, CallbackRead, CallbackCompare, CallbackSend,
           CallbackStore, Edge, signal_callback_handler, MainReturns, TestSend, Restart, Tick,
           SetClock, OthersUseQueue
  <2>2. clock \in 1 .. MaxClock /\ MaxClock \in Nat
    BY DataCapAssumption DEF ClockInv
  <2> QED BY <2>1, <2>2
<1>2. ASSUME NEW q \in Lines PROVE last_ts'[q] <= MaxClock
  <2>1. last_ts'[q] \in {last_ts[q], clock, 0}
    BY DEF TypeOK, Next, vars, ReadPin, RegisterIsr, Callback, CallbackRead, CallbackCompare,
           CallbackSend, CallbackStore, Edge, signal_callback_handler, MainReturns, TestSend, Restart,
           Tick, SetClock, OthersUseQueue
  <2>2. clock \in 1 .. MaxClock /\ MaxClock \in Nat /\ last_ts[q] <= MaxClock
    BY DataCapAssumption DEF ClockInv
  <2> QED BY <2>1, <2>2
<1> SUFFICES ASSUME FirstRun', NEW q \in Lines PROVE PromptInv(q)' /\ CostInv(q)'
  BY <1>1, <1>2 DEF ClockInv
<1>3. FirstRun
  <2>1. restarts \in Nat
    BY DEF TypeOK
  <2>2. ~Restart
    BY <2>1 DEF FirstRun, Restart
  <2>3. restarts' = restarts /\ (up' => up)
    BY <2>2 DEF Next, vars, ReadPin, RegisterIsr, Callback, CallbackRead, CallbackCompare,
           CallbackSend, CallbackStore, Edge, signal_callback_handler, MainReturns, TestSend,
           Tick, SetClock, OthersUseQueue
  <2> QED BY <2>3 DEF FirstRun
<1>4. PromptInv(q) /\ CostInv(q)
  BY <1>3 DEF ClockInv
<1>5. ASSUME NEW p \in Lines, Callback(p) \/ Edge(p) PROVE PromptInv(q)' /\ CostInv(q)'
  <2>1. CASE p = q
    BY <1>0, <1>3, <1>5, <2>1, CompareKeepsInv, CallbackKeepsInv, EdgeKeepsInv DEF Callback
  <2>2. CASE p # q
    <3>1. ~(CallbackSend(p) /\ ~(qlen < QinMax))
      BY DEF CallbackSend, Ended, FirstRun
    <3>2. UNCHANGED <<Seen(q), time, clock, steps>>
      BY <1>5, <2>2, <3>1 DEF Seen, TypeOK, Callback, CallbackRead, CallbackCompare, CallbackSend,
              CallbackStore, Edge
    <3> QED BY <1>4, <3>2, LineKept
  <2> QED BY <2>1, <2>2
<1>6. CASE Tick
  <2>1. /\ ~Busy(q) /\ time' = time + 1 /\ clock' = clock + 1 /\ UNCHANGED <<Seen(q), steps>>
    BY <1>6 DEF Tick, Seen
  <2>2. PromptInv(q)' /\ Lost(q)' = Lost(q) /\ ~Undecided(q) /\ ~Undecided(q)'
    BY <1>4, <2>1 DEF Seen, PromptInv, Busy, Lost, Undecided
  <2>3. InStep(q) => InStep(q)'
    BY <2>1, <2>2, LineTypes DEF Seen, InStep
  <2> QED BY <1>4, <2>1, <2>2, <2>3 DEF CostInv
<1>7. ASSUME NEW c \in 1 .. MaxClock, SetClock(c) PROVE PromptInv(q)' /\ CostInv(q)'
  <2>1. UNCHANGED <<Seen(q), time>> /\ steps' = steps + 1
    BY <1>7 DEF SetClock, Seen
  <2>2. PromptInv(q)' /\ Lost(q)' = Lost(q)
    BY <1>4, <2>1 DEF Seen, PromptInv, Busy, Lost, Undecided
  <2> QED BY <1>4, <2>1, <2>2, LineTypes DEF CostInv
<1>8. ASSUME NEW p \in Lines, ReadPin(p) PROVE PromptInv(q)' /\ CostInv(q)'
  <2>1. CASE p = q
    <3>1. /\ UNCHANGED <<pending[q], pin_now[q], pc[q], last_ts[q], level[q], falls[q], last_fall[q], sent[q],
                         time, clock, steps>>
          /\ pin_status'[q] = level[q]
      BY <1>8, <2>1 DEF ReadPin, TypeOK
    <3>2. pin_status[q] = level[q]
      BY <1>3, <1>4, <1>8, <2>1 DEF ReadPin, PromptInv, ClockInv, ThreadInv, FirstRun
    <3>3. UNCHANGED <<Seen(q), time, clock, steps>>
      BY <3>1, <3>2 DEF Seen
    <3> QED BY <1>4, <3>3, LineKept
  <2>2. CASE p # q
    <3>1. UNCHANGED <<Seen(q), time, clock, steps>>
      BY <1>8, <2>2 DEF ReadPin, TypeOK, Seen
    <3> QED BY <1>4, <3>1, LineKept
  <2> QED BY <2>1, <2>2
<1>9. CASE \/ \E p \in Lines : RegisterIsr(p)
           \/ signal_callback_handler \/ MainReturns \/ TestSend \/ OthersUseQueue \/ UNCHANGED vars
  <2>1. UNCHANGED <<Seen(q), time, clock, steps>>
    BY <1>9 DEF RegisterIsr, signal_callback_handler, MainReturns, TestSend, OthersUseQueue, vars, Seen,
            Ended, FirstRun
  <2> QED BY <1>4, <2>1, LineKept
<1>10. ~Restart
  BY <1>3 DEF FirstRun, Restart
<1> QED BY <1>5, <1>6, <1>7, <1>8, <1>9, <1>10 DEF Next

(* A meter without bounce whose callbacks are prompt loses no more pulses  *)
(* than there were settings of the clock, in the first run of the process, *)
(* as long as the clock stays MIN_INTERVAL below the end of its word.      *)
THEOREM ClockStepCostsOnePulseHolds ==
  ASSUME Prompt, MaxClock + MIN_INTERVAL <= Word
  PROVE  Spec => []ClockStepCostsOnePulse
<1>1. Init => ClockInv
  <2> SUFFICES ASSUME Init PROVE ClockInv
    OBVIOUS
  <2>1. 1 \in 1 .. MaxClock /\ 0 <= MaxClock
    BY DataCapAssumption
  <2> QED BY <2>1 DEF Init, ClockInv, PromptInv, CostInv, Busy, Lost, InStep, Undecided
<1>2. TypeOK /\ ClockInv => ClockStepCostsOnePulse
  <2> SUFFICES ASSUME TypeOK, ClockInv, NEW p \in Lines, FirstRun, ~Busy(p)
      PROVE falls[p] <= sent[p] + steps
    BY DEF ClockStepCostsOnePulse, FirstRun
  <2>1. CostInv(p) /\ Lost(p) = falls[p] - sent[p]
    BY LineTypes DEF ClockInv, Lost, Undecided, Busy
  <2> QED BY <2>1, LineTypes DEF CostInv
<1>3. IInv /\ ClockInv /\ [Next]_vars => ClockInv'
  BY NextClockInv
<1> QED BY <1>1, <1>2, <1>3, AlwaysIInv, TypeCorrect, PTL DEF Spec
=============================================================================
