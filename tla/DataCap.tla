------------------------------ MODULE DataCap ------------------------------
(* EMDCdatacap (datacap.c): it counts the pulses of one energy meter.      *)
(* Each input line (active and reactive energy) has a thread of the        *)
(* wiringPi library that calls the line's callback after an edge.  The     *)
(* callback reads the level, compares it with the level it remembers,      *)
(* drops what comes too soon after the last accepted pulse, and puts one   *)
(* sample on /qin.                                                         *)
(*                                                                         *)
(* An edge and its callback are steps of different actors: the level may   *)
(* have changed again when the callback reads it.  Time is real time; the  *)
(* callback reads the clock, which may be set.                             *)
EXTENDS Integers, FiniteSets

CONSTANTS Lines,         \* {RA, RR}
          MIN_INTERVAL,  \* MIN_INTERVAL_BETWEEN_PULSE
          Word,          \* 2^64: the clock readings are unsigned long long
          QinMax,        \* mq_maxmsg of /qin
          Prompt,        \* whether callbacks are prompt and lines are clean
          TestModes,     \* which values of test_mode a behaviour may have
          MaxTime, MaxClock, MaxFalls, MaxSteps, MaxRestarts, MaxSignals  \* bounds

ASSUME DataCapAssumption ==
  /\ MIN_INTERVAL \in Nat \ {0} /\ Word \in Nat \ {0} /\ QinMax \in Nat \ {0}
  /\ Prompt \in BOOLEAN /\ TestModes \subseteq BOOLEAN
  /\ {MaxTime, MaxClock, MaxFalls, MaxSteps, MaxRestarts, MaxSignals} \subseteq Nat
  /\ 1 <= MaxClock /\ MaxClock < Word

VARIABLES
  level,                 \* what is on each line: "LOW" or "HIGH"
  pending,               \* edges of a line wiringPi has not called back for
  stage,                 \* a line is "off", "read" or has its "isr"
  pin_status, pin_now,   \* ra_pin_status, ra_pin_status_now; rr_ likewise
  pc,                    \* where a line's callback is
  last_ts,               \* last_ra_ts, last_rr_ts
  qlen,                  \* messages on /qin
  go, up,                \* main: the flag, and whether the process runs
  test_mode,             \* started with --test: no lines, invented samples
  sent,                  \* samples each line has put on /qin
  time, clock,           \* real time, and what gettimeofday returns
  falls, last_fall,      \* falling edges of each line, and the time of the last
  steps, restarts, signals  \* what the bounds count

line == <<pending, stage, pin_status, pin_now, pc, last_ts>>
world == <<level, falls, last_fall>>
clocks == <<time, clock, steps>>
main == <<go, up, test_mode, restarts, signals>>
vars == <<line, world, clocks, main, qlen, sent>>

Init ==
  /\ level \in [Lines -> {"LOW", "HIGH"}]
  /\ pending = [p \in Lines |-> 0] /\ stage = [p \in Lines |-> "off"]
  /\ pin_status = level /\ pin_now = level
  /\ pc = [p \in Lines |-> "idle"] /\ last_ts = [p \in Lines |-> 0]
  /\ qlen = 0 /\ go = TRUE /\ up = TRUE /\ test_mode \in TestModes
  /\ sent = [p \in Lines |-> 0] /\ falls = [p \in Lines |-> 0]
  /\ time = 0 /\ clock = 1 /\ last_fall = [p \in Lines |-> -MIN_INTERVAL]
  /\ steps = 0 /\ restarts = 0 /\ signals = 0

-----------------------------------------------------------------------------
(* init                                                                    *)

(* "ra_pin_status = digitalRead (globals.gpio_ra)": both lines are read    *)
(* before the first interrupt is asked for (in any order of the lines,     *)
(* which have nothing in common but the process and /qin).                 *)
ReadPin(p) ==
  /\ up /\ ~test_mode /\ stage[p] = "off"
  /\ stage' = [stage EXCEPT ![p] = "read"]
  /\ pin_status' = [pin_status EXCEPT ![p] = level[p]]
  /\ UNCHANGED <<pending, pin_now, pc, last_ts, world, clocks, main, qlen, sent>>

(* wiringPiISR: edges before it are not seen.                              *)
RegisterIsr(p) ==
  /\ up /\ stage[p] = "read" /\ \A o \in Lines : stage[o] # "off"
  /\ stage' = [stage EXCEPT ![p] = "isr"]
  /\ UNCHANGED <<pending, pin_status, pin_now, pc, last_ts, world, clocks, main, qlen, sent>>

-----------------------------------------------------------------------------
(* The callback                                                            *)

(* The line's thread wakes up and reads the level.                         *)
CallbackRead(p) ==
  /\ up /\ pc[p] = "idle" /\ pending[p] > 0
  /\ pending' = [pending EXCEPT ![p] = @ - 1]
  /\ pin_now' = [pin_now EXCEPT ![p] = level[p]]
  /\ pc' = [pc EXCEPT ![p] = "compare"]
  /\ UNCHANGED <<stage, pin_status, last_ts, world, clocks, main, qlen, sent>>

(* Mutations of TooSoon: a signed difference; and no debounce at all.      *)
TooSoonSigned(p) == last_ts[p] # 0 /\ clock - last_ts[p] < MIN_INTERVAL
NeverTooSoon(p) == FALSE

(* "last_ra_ts != 0 && (ts - last_ra_ts) < MIN_INTERVAL_BETWEEN_PULSE" on  *)
(* unsigned numbers: a clock that was set back gives a huge difference.    *)
TooSoon(p) == last_ts[p] # 0 /\ (clock - last_ts[p]) % Word < MIN_INTERVAL

(* A mutation of Falling: the remembered level is not asked.               *)
FallingLevel(p) == pin_now[p] = "LOW"

(* "ra_pin_status == HIGH && ra_pin_status_now == LOW"                     *)
Falling(p) == pin_status[p] = "HIGH" /\ pin_now[p] = "LOW"

CallbackCompare(p) ==
  /\ up /\ pc[p] = "compare"
  /\ IF Falling(p) /\ ~TooSoon(p)
     THEN /\ pc' = [pc EXCEPT ![p] = "send"]
          /\ last_ts' = [last_ts EXCEPT ![p] = clock]
     ELSE /\ pc' = [pc EXCEPT ![p] = "store"]
          /\ UNCHANGED last_ts
  /\ UNCHANGED <<pending, stage, pin_status, pin_now, world, clocks, main, qlen, sent>>

(* The process ends: its threads stop where they are.                      *)
Ended == /\ up' = FALSE
         /\ stage' = [p \in Lines |-> "off"] /\ pending' = [p \in Lines |-> 0]

(* A mutation of CallbackSend: it does not look whether /qin has room.     *)
CallbackSendUnchecked(p) ==
  /\ up /\ pc[p] = "send"
  /\ pc' = [pc EXCEPT ![p] = "store"] /\ qlen' = qlen + 1
  /\ sent' = [sent EXCEPT ![p] = @ + 1]
  /\ UNCHANGED <<pending, stage, pin_status, pin_now, last_ts, world, clocks, main>>

(* sendmsg: /qin does not block, and a full queue is fatal to the process. *)
CallbackSend(p) ==
  /\ up /\ pc[p] = "send"
  /\ IF qlen < QinMax
     THEN /\ pc' = [pc EXCEPT ![p] = "store"]
          /\ qlen' = qlen + 1 /\ sent' = [sent EXCEPT ![p] = @ + 1]
          /\ UNCHANGED <<up, stage, pending>>
     ELSE Ended /\ UNCHANGED <<pc, qlen, sent>>
  /\ UNCHANGED <<pin_status, pin_now, last_ts, world, clocks, go, test_mode, restarts, signals>>

(* "ra_pin_status = ra_pin_status_now"                                     *)
CallbackStore(p) ==
  /\ up /\ pc[p] = "store"
  /\ pin_status' = [pin_status EXCEPT ![p] = pin_now[p]]
  /\ pc' = [pc EXCEPT ![p] = "idle"]
  /\ UNCHANGED <<pending, stage, pin_now, last_ts, world, clocks, main, qlen, sent>>

-----------------------------------------------------------------------------
(* main                                                                    *)

signal_callback_handler ==
  /\ up /\ go /\ signals < MaxSignals
  /\ go' = FALSE /\ signals' = signals + 1
  /\ UNCHANGED <<line, world, clocks, up, test_mode, restarts, qlen, sent>>

(* The main loop wakes from its sleep and returns.                         *)
MainReturns ==
  /\ up /\ ~go /\ (test_mode \/ \A p \in Lines : stage[p] = "isr")
  /\ Ended
  /\ UNCHANGED <<pin_status, pin_now, pc, last_ts, world, clocks, go, test_mode, restarts, signals,
                 qlen, sent>>

(* "while (go)" in test mode: a sample that stands for no edge of a line,  *)
(* then a random sleep.                                                    *)
TestSend ==
  /\ up /\ go /\ test_mode
  /\ IF qlen < QinMax
     THEN qlen' = qlen + 1 /\ UNCHANGED <<up, stage, pending>>
     ELSE Ended /\ UNCHANGED qlen
  /\ UNCHANGED <<pin_status, pin_now, pc, last_ts, world, clocks, go, test_mode, restarts, signals, sent>>

(* run_datacap.sh starts the program again.                                *)
Restart ==
  /\ ~up /\ restarts < MaxRestarts
  /\ up' = TRUE /\ go' = TRUE /\ restarts' = restarts + 1
  /\ pc' = [p \in Lines |-> "idle"] /\ last_ts' = [p \in Lines |-> 0]
  /\ UNCHANGED <<pending, stage, pin_status, pin_now, world, clocks, test_mode, signals, qlen, sent>>

-----------------------------------------------------------------------------
(* The meter, the clock, and dbmgr                                         *)

Busy(p) == pending[p] > 0 \/ pc[p] # "idle"

(* A level change.  wiringPi calls back once for it, or once for it and    *)
(* the edges before it.  Prompt: a meter without contact bounce, whose     *)
(* edges come after the callback of the one before and, falling ones, at   *)
(* least MIN_INTERVAL apart.                                               *)
Edge(p) ==
  /\ level' = [level EXCEPT ![p] = IF @ = "LOW" THEN "HIGH" ELSE "LOW"]
  /\ IF level[p] = "HIGH"
     THEN /\ falls[p] < MaxFalls
          /\ falls' = [falls EXCEPT ![p] = @ + 1] /\ last_fall' = [last_fall EXCEPT ![p] = time]
     ELSE UNCHANGED <<falls, last_fall>>
  /\ IF stage[p] = "isr"
     THEN pending' \in {[pending EXCEPT ![p] = @ + 1]}
                       \cup (IF pending[p] > 0 THEN {pending} ELSE {})
     ELSE UNCHANGED pending
  /\ Prompt => /\ stage[p] = "isr" /\ ~Busy(p)
               /\ level[p] = "HIGH" => time - last_fall[p] >= MIN_INTERVAL
  /\ UNCHANGED <<stage, pin_status, pin_now, pc, last_ts, clocks, main, qlen, sent>>

Tick ==
  /\ time < MaxTime /\ clock < MaxClock
  /\ Prompt => \A p \in Lines : ~Busy(p)
  /\ time' = time + 1 /\ clock' = clock + 1
  /\ UNCHANGED <<line, world, steps, main, qlen, sent>>

(* The clock is set.                                                       *)
SetClock(c) ==
  /\ steps < MaxSteps /\ c # clock
  /\ clock' = c /\ steps' = steps + 1
  /\ UNCHANGED <<line, world, time, main, qlen, sent>>

(* dbmgr takes a message from /qin; other processes put messages there.    *)
OthersUseQueue ==
  /\ qlen' \in {qlen - 1, qlen + 1} \cap 0 .. QinMax
  /\ UNCHANGED <<line, world, clocks, main, sent>>

-----------------------------------------------------------------------------
Callback(p) == CallbackRead(p) \/ CallbackCompare(p) \/ CallbackSend(p) \/ CallbackStore(p)

Next ==
  \/ \E p \in Lines : ReadPin(p) \/ RegisterIsr(p) \/ Callback(p) \/ Edge(p)
  \/ signal_callback_handler \/ MainReturns \/ TestSend \/ Restart
  \/ Tick \/ (\E c \in 1 .. MaxClock : SetClock(c)) \/ OthersUseQueue

Spec == Init /\ [][Next]_vars

-----------------------------------------------------------------------------
(* Properties                                                              *)

(* The types; /qin is never longer than its mq_maxmsg.                     *)
TypeOK ==
  /\ level \in [Lines -> {"LOW", "HIGH"}]
  /\ pending \in [Lines -> Nat] /\ stage \in [Lines -> {"off", "read", "isr"}]
  /\ pin_status \in [Lines -> {"LOW", "HIGH"}] /\ pin_now \in [Lines -> {"LOW", "HIGH"}]
  /\ pc \in [Lines -> {"idle", "compare", "send", "store"}]
  /\ last_ts \in [Lines -> Nat] /\ qlen \in 0 .. QinMax
  /\ go \in BOOLEAN /\ up \in BOOLEAN /\ test_mode \in BOOLEAN
  /\ sent \in [Lines -> Nat] /\ falls \in [Lines -> Nat] /\ last_fall \in [Lines -> Int]
  /\ {time, clock, steps, restarts, signals} \subseteq Nat

(* A sample stands for a falling edge of its own: however late a callback  *)
(* reads the line, however edges are merged, whatever the clock does and   *)
(* whenever the process ends and starts again, no pulse is counted twice   *)
(* or invented.                                                            *)
NoPhantomPulse == \A p \in Lines : sent[p] <= falls[p]

(* However a line bounces, it sends no more than one sample per            *)
(* MIN_INTERVAL of real time, and one more for the start, and for each     *)
(* time the clock is set or the process is started again.                  *)
RateBounded ==
  \A p \in Lines : sent[p] <= 1 + time \div MIN_INTERVAL + steps + restarts

(* With prompt callbacks and a clean line nothing is lost but what the     *)
(* clock takes: setting it costs one pulse at most, in either direction    *)
(* and by any amount (the difference is unsigned, so that a clock set far  *)
(* back does not silence the meter until it has caught up).                *)
ClockStepCostsOnePulse ==
  \A p \in Lines : up /\ restarts = 0 /\ ~Busy(p) => falls[p] <= sent[p] + steps
=============================================================================
