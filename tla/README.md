# EMDC, specified in TLA+

EMDC counts the pulses of electricity meters on a Raspberry Pi, keeps them in a
local database, publishes them to two brokers, and turns them into energy and
power for Home Assistant and a web page. This directory holds TLA+ models of the
gateway's processes and of the programs behind the brokers, the TLC configurations
that check them on small instances, and TLAPS proofs of their safety properties.

## 1. Inventory

```
meter pin --edges--> EMDCdatacap1..3 --/qin--> EMDCdbmgr --/qout--> EMDCdatapublish
                                        ^        |                    |    |    |
                                        |     samples.db              |    |    +-- AMQP --> RabbitMQ
                                        +---- delivery reports -------+    +-- MQTT QoS 1 --> broker
                                              (/qin)
RabbitMQ --> db_writer.py (MariaDB), socket_io_bridge.py -> api.py -> UI, mqtt_writer_from_AMQP.py
MQTT     --> mqtt_writer_from_mqtt.py --> Home Assistant topics, state/energy_state.json
```

| component | state | operations | correct when |
|---|---|---|---|
| POSIX queues `/qin`, `/qout` (`queue.c`) | bounded FIFOs in the kernel; survive processes, not the machine | non-blocking send, receive with a 10 s timeout | bounded, ordered; a full queue is an error the caller must handle |
| `EMDCdatacap` (`datacap.c`) | per line: remembered level, time of the last accepted pulse | two wiringPi callbacks (one thread each), signals, restart by script; in test mode main sends instead | no pulse invented; rate limited; a clock that is set does not silence it |
| `EMDCdbmgr` (`dbmgr.c`, `sql.c`) | the table `samples`, an open transaction, `commit_count`, a timer flag | insert + forward, update, commit by count, timer or shutdown | a sample recorded once; DELIVERED only if acknowledged; bounded loss; everything on `/qin` reaches the disk |
| `EMDCdatapublish` (`datapublish.c`, `my_amqp.c`) | AMQP context and flag, retry timers, MQTT client and flag | publish, report, reconnect (a signal handler for AMQP, polling for MQTT), shutdown | context never used by two at once; reconnects; reports only the acknowledged; delivers while the session lasts |
| energy writers (`mqtt_writer_from_mqtt.py`, `mqtt_writer_from_AMQP.py`) | totals and last timestamps, in memory and in a JSON file; retained topics at the broker | on an event: add, save, publish | totals count each handled pulse, and survive an end; what is retained never goes back |
| `db_writer.py` | MariaDB rows, an open transaction | on an event: insert, commit; reconnect | events stored once, in order; a backlog is stored after an outage |
| live view (`socket_io_bridge.py`, `api.py`, UI) | the bridge's flag and session, last timestamps, a room, what the page shows | relay, compute the power, join, show | the bridge ends only with its session, and has it again; power is of two pulses of one kind; the page never goes back to an earlier pulse |
| legacy `EMDCdatasnd`, `sim.c`, `power_report.py` | | | see section 8 |

Hard behaviour: callbacks on threads of a library (datacap, the bridge, `api.py`);
signal handlers that share state with the main program (dbmgr, datapublish); a
transaction that spans hundreds of messages while its samples are already on their
way; messages lost at full queues, with connections and by automatic
acknowledgement; results that are ignored; a state file that is emptied before it is
written; brokers that come and go; a blocking call in a signal handler; timestamps of a clock
that may be set back; processes that a script restarts for ever.
`PROJECT.json` lists each hazard at its line with the properties that cover it.

## 2. Modules

| module | models | role |
|---|---|---|
| `EmdcSample` | `sample.h`, `my_json.c` | what a message is: an identity (the primary key `ts, dc_id, rarr`) and a status |
| `PosixQueue` | `queue.c` | send, receive and timeout as operators on sequences |
| `Sql` | `sql.c` and SQLite under it | begin, insert, update, commit, close as functions of a database value `[disk, work, tx]` and an outcome |
| `SampleStore` | (abstract) | what dbmgr promises of its table; `DbMgr` implements it |
| `Publisher` | (abstract) | the contract of the two queues: what the publisher may do to them and what its neighbours may; `DataPublish` and `DbMgr` implement it |
| `DbMgr` | `dbmgr.c` | the process, its timer, signals and restarts, beside `Publisher` |
| `DataPublish` | `datapublish.c`, `my_amqp.c` | the process, its retry handler, both brokers |
| `DataCap` | `datacap.c` | the two lines, their callback threads, the clock, the test mode |
| `EnergyWriter` | both `mqtt_writer_from_*.py` | one module, with the program that runs as a variable |
| `AmqpConsumer` | `run_app` of `db_writer.py` and `socket_io_bridge.py` | the consumer loop they have in common; extended by the next two |
| `DbWriter` | `db_writer.py` | the callback as statement and commit |
| `LiveView` | `socket_io_bridge.py`, `api.py`, `MainPage.js`, `socket.js` | from the queue to the screen |
| `MC*` | | the instances for TLC (symmetry sets, feeds) |
| `Gateway` | dbmgr and datapublish together | their composition on the two queues, by proof |
| `PosixQueueProofs` | | lemmas about the operators of the queues (those about `Sql` are in `DbMgrProofs`) |
| `DbMgrProofs`, `DataPublishProofs`, `DataCapProofs`, `EnergyWriterProofs`, `DbWriterProofs`, `LiveViewProofs` | | the theorems |

How they compose: `DbMgr` and `DataPublish` meet at the contract `Publisher`, whose
steps are the publisher's (`Step`), its neighbours' (`Neighbour`: a fresh sample is put
on `/qout` or on `/qin`, a message is taken off `/qin`) and a loss of power. Each
program is modelled beside the part of the contract that the other one plays: the
publisher of `DbMgr` is `Publisher` step for step, and the neighbours of `DataPublish`
are `Neighbour`. Each is shown, checked and proved, to play its own part:
`IsPublisher` says that datapublish does nothing to the queues but `Step`,
`HonoursContract` that dbmgr and the captures do nothing but `Neighbour`. `Gateway`
then puts the two whole programs together and proves that what holds of each beside
the contract holds of both.

Definitions whose comment begins with "A mutation of" are plausible bugs. No
specification uses them; putting one in place of the definition it mutates makes
a property fail, which shows that the property depends on that code.

### State and actions against the code

*DbMgr.* `pc` names the places of `main_loop`: `loop` (the test of `go`),
`receive`, `insert`/`update` (`process_msg_insert`/`process_msg_update` as one step
each, with their begin, statement and commit), `forward` (the send to `/qout`),
`timer` and `clear` (the test of `do_commit_on_timer` with its commit, and the
assignment that resets it), `fini`, `down`. The timer's handler and the signal
handler run between any two of these, which is as fine as the code can tell,
because each handler only writes one flag. `db.disk` is what a crash leaves,
`db.work` what the connection sees, `db.tx` whether a transaction is open. A
statement ends `ok`, `busy` (SQLITE_BUSY: nothing happened) or `full` (SQLite rolls
the whole transaction back). `msg.status` decides the branch, as in `process_msg`.
A crash in the middle of a process_msg_* step leaves the same state as one before
it (the message is taken, the transaction undone), so that it needs no step of its
own.

*DataPublish.* `pc = "amqp_send"` is main inside `AMQP_Sendmessage`;
`amqp_retry` is between `connected_to_broker = 0` and `retry_connect`;
`free`/`clear`/`exit` are the stages of `fini`. `armed` counts the retry timers that
have not expired, `timers` those ever created (the code deletes none; the kernel
limits them: `MaxTimers`). `ctx` is `null`, `allocated` or `freed`. What the program
believes (`connected_to_broker`, `connected_to_mqtt`) and what is so (`amqp_alive`,
`mqtt_alive`, and the client library's `client_connected`) are different variables.
`throttled` stands for the comparison with `last_mqtt_reconnect_try`. `handling` is
the time `timer_handler` spends in `AMQP_Init`, a blocking call on main's thread: main
stands still wherever it is, while the brokers, the neighbours and the signals go on;
the receive it interrupts returns without a message (`pc = "interrupted"`). It can
outlast the three seconds of `waitForCompletion` (`PublishFailed`) and the keep-alive
of the MQTT session, which no thread of the client's looks after (`SessionExpires`);
`MaxLosses` counts both. A freed
context is undefined to use: the step either goes on or ends the process with a fault.

*DataCap.* An edge and the callback for it are different steps; the callback is
read, compare, send, store, and the level may change between any two of them.
wiringPi may call back once for several edges. `time` is real, `clock` is what
`gettimeofday` returns and can be set. Clock readings are unsigned: differences are
taken modulo `Word`. `test_mode` is the configuration's: then no interrupt is asked
for, and `TestSend` is a round of the main loop. Its samples carry the meter's
identity and are not told from pulses by anything downstream; `sent` counts only
those a callback sends.

*EnergyWriter.* A step is what nothing can get between: `on_message` up to
`save_state`, `open (..., "w")` which empties the file, the write on closing it, and
the publications. `file` is `none`, `empty` or `whole`; `Start` is possible only with
a file that can be parsed (or none). `queue` is what the broker has, `inbox` what is
on its way and no longer the broker's, `outbox` what was published with QoS 0 and not
yet taken, `retained` what the broker keeps. A power is told by the `interval` it is
computed from. An event has a number (`n`, the order of publication, which no message
carries) and a timestamp, of which nothing is assumed. The two programs differ in `Routed`
(a clean session gets only what comes while it is there, a durable queue everything),
in `Unfed` (what an outage takes) and in having one connection or two.

*AmqpConsumer, DbWriter, LiveView.* `loop` is the place in `run_app`. The
broker deletes an event when it has sent it (`auto_ack`), so that `inbox` is lost
with the connection. `Noticed` is an `AMQPConnectionError`, `End` an
`AMQPChannelError`, an uncaught exception or a signal. In `DbWriter` an event is its
number and the callback is `execute`, `commit`; an error of MariaDB's commit leaves
open whether it was done. In `LiveView` the second thread of the bridge is
`Accept`, `connect`, `disconnect`: the library accepts a session (for `sio.connect`, or by
itself after a loss), and a step later calls `connect ()`, which sets the flag;
`calling` says that this call is to come, and until then main can meet a session with
the flag down. A session passes through `closing`, when it is gone and the library has
not yet called `disconnect ()`: an `emit` then is lost, and after `disconnect` it
raises. `lost_in` collects where `run_app` was at each call of `disconnect ()`.
`concurrent` says whether `api.py` runs its handlers at once (threads) or one at a
time; a handler computes, stores and emits in separate steps. A power is told by the
interval it is computed from, which is negative when the clock was set back between the
two pulses; `n` says whose handler sent it. The page is `off`, `deaf` (connected before its effect
registered `onConnect`, so that it never asks to join), `joining` or `joined`.

## 3. Runs

| run | checks | bounds | states |
|---|---|---|---|
| `dbmgr_safety` | `TypeOK`, `DeliveredIsAcked`, `CountTracksTransaction`, `AtRiskBounded`, `ForwardedIsStored`, `RefinesSampleStore`, `HonoursContract` | 3 keys, 3 captures, COMMIT_COUNT 3, `/qin` 2, `/qout` 1, 2 failures, 1 crash or power loss, 1 stop | 1.1 M |
| `dbmgr_liveness` | `CapturedIsPersisted`, `ReportIsRecorded`, `CommitIsRetried`, `ShutdownHonoured` | 2 keys, 3 captures, COMMIT_COUNT 2, `/qin` 2, `/qout` 1, 2 commits that find the file locked, 1 stop and restart, no crash | 0.25 M |
| `datapublish_safety` | `ContextNotShared`, `RetryIsPending`, `ReportedIsAcked`, `FaultOnlyAtExit`, `IsPublisher` | 2 samples, `/qin` 1, `/qout` 2, 2 fresh samples put on either queue, 3 timers, 2 AMQP and 1 MQTT outages, 1 late answer or expired session, 1 stop, 1 kill or power loss | 1.43 M |
| `datapublish_liveness` | `AmqpReconnects`, `MqttReconnects`, `MqttDelivers`, `ShutdownHonoured` | 1 sample, put on `/qout` twice, 3 timers, 1 outage of each broker (and either may be away at first), 1 late answer or expired session, 1 stop | 0.31 M |
| `datapublish_answers` | `EveryAttemptAnswered` (violated) | 1 sample | small |
| `datapublish_autoreconnect` | `AutoReconnect` (violated) | 1 sample, 1 MQTT outage | small |
| `datacap_safety` | `TypeOK`, `NoPhantomPulse`, `RateBounded` | 1 line, 4 falling edges, `/qin` 2, interval 2, time 4, 1 clock step, 1 restart, 1 signal, test mode or not | 2.7 M |
| `datacap_clock` | `ClockStepCostsOnePulse` | 1 line, 5 falling edges, interval 2, time 10, 2 clock steps | 1.3 M |
| `energywriter_safety` | `TotalsAreBounded`, `EventsAccountedFor`, `PowerOfTwoEvents`, `RetainedNeverFalls`, `TotalIsRetained`, `FeedResumes` | either program, four feeds of 3 pulses, 1 repetition, 2 kills, 1 outage, 1 failed save | 0.29 M |
| `energywriter_restart` | `StateSurvivesRestart` (violated) | 1 kill | small |
| `dbwriter_safety` | `StoredInOrder`, `NothingIsLost`, `BacklogIsStored` | 4 events, 2 outages, 1 end | 1.8 k |
| `liveview_safety` | `EndsOnlyInWindow`, `PowerOfTwoPulses`, `ScreenOnlyAdvances`, `PulseIsShown`, `SessionResumes`, `PageJoins` | three feeds of 3 pulses, handlers at once or one at a time, 1 trouble of any sort | 172 k |

### What the properties say

- `DeliveredIsAcked`: whatever is lost, repeated, rolled back or restarted, a row or
  a message says DELIVERED only of a sample the broker acknowledged.
- `CountTracksTransaction`, `AtRiskBounded`: the counter and the transaction agree
  even though three results are ignored, and bounds what a crash takes.
- `ForwardedIsStored`: insert comes before forward, so that the report finds its
  row; with a crash or a failed insert it need not, and the property says so.
- `RefinesSampleStore`: on disk no row vanishes or goes back to TO_DELIVER.
- `CapturedIsPersisted`, `ReportIsRecorded`, `CommitIsRetried`: nothing stays in a
  transaction for ever. The `==` in `commit_count == globals.max_commit` matters:
  after a failed commit only the timer commits. A fault together with a stop is
  excepted: `fini` tries its commit once.
- `MqttDelivers`: an outage of RabbitMQ does not by itself cost a sample its delivery by
  MQTT: not a failed `AMQP_Sendmessage`, not the interrupted receive. It is not promised
  against the time a retry takes: if main is held up for longer than the answer or the
  session lasts, the sample is dropped, and the property is excused by that loss.
- `ContextNotShared`: nothing but a discipline of flags keeps the SIGRTMIN handler
  from replacing the AMQP connection under `AMQP_Sendmessage`.
- `RetryIsPending`, `AmqpReconnects`: the chain of one-shot timers does not break
  until the timers are used up (then it ends: no caller of `retry_connect` looks at
  its result).
- `FaultOnlyAtExit`: the handler may find the context freed, but only on the way out.
- `IsPublisher`: datapublish holds one sample at a time, and puts on `/qin` nothing
  but a report of the sample it holds, once, after its acknowledgement. The property
  says whose step a change of the queues is: a fresh sample on `/qin` is excused only
  as a capture's. `ReportedIsAcked`: so a message on `/qin` that says DELIVERED is of an
  acknowledged sample, whatever else waits there.
- `HonoursContract`: whatever fails in dbmgr, it forwards only samples that are to be
  delivered. A report that went out on `/qout` would be delivered as a sample.
- `NoPhantomPulse`, `RateBounded`, `ClockStepCostsOnePulse`: what may be lost and
  what may never be added by late callbacks, bounces and a clock that is set.
- `TotalsAreBounded`: a pulse is added before it is saved, so an end of the process
  costs at most the one in hand, and a failed save at most one more, whatever is
  restored from which file.
- `EventsAccountedFor`: nothing is counted that was not published or repeated; from
  the durable queue nothing is missing while nothing breaks.
- `RetainedNeverFalls`: save comes before publish, so that Home Assistant never sees
  a meter go back after a restart. `TotalIsRetained`: and sees it go on.
- `PowerOfTwoEvents`: a published power is positive and of two published events of its
  own kind, whatever is repeated, lost, late, or restored from the file as `prev_ts`;
  never of a half-restored state, of the other kind's time, or of none. Unless an event
  was repeated the two are in order, and they follow each other while nothing broke.
  No least interval is promised, because the clock gives none (section 8).
- `FeedResumes`: the session is clean, so that `on_connect` must subscribe each time.
- `StoredInOrder`, `NothingIsLost`, `BacklogIsStored`: automatic acknowledgement and
  a rolled back transaction lose events, never repeat or reorder them; without an
  outage or an end nothing is lost; an outage of any length ends with the backlog
  stored.
- `EndsOnlyInWindow`, `SessionResumes`: `connected` is written by two threads. It may
  say yes without a session, and then the next `emit` ends the bridge. That happens only
  if the session was lost in one of two places of `run_app`: between the return of
  `sio.connect` and `connected = True`, or between the test of the flag and the `emit`. A
  loss at any other place, also one before `connect ()` was called, is survived, and a
  session that is in use comes back.
- `PowerOfTwoPulses`, `ScreenOnlyAdvances`: handlers read and write `last_ts_*`
  without a lock. One at a time they give powers of a pulse and the one before it, in
  the order of publication; concurrently only of two pulses of one kind. The order is
  that of publication and not of timestamps: when the clock was set back the power is
  negative and the page's timestamp goes back, also with one handler at a time, which
  the run has (a feed with times 1, 3, 1) and the properties allow.
- `PulseIsShown`, `PageJoins`: from the queue to the screen; a room is left with the
  connection and joined again with the next.

### Disagreements between the code and its comments

- `datapublish_answers`: the comment at `datapublish.c:377-379` promises a message
  with status UNDELIVERED for what did not reach the broker. The code sends none
  (the call is commented out): the sample stays TO_DELIVER and is never sent again.
- `datapublish_autoreconnect`: `datapublish.c:120` and the log line at 131 claim
  automatic reconnection. The session is set up again only when a message or the
  program's own flag asks for it; an idle program whose session died does neither.
- `energywriter_restart`: `README.md:37` of the repository says that the state file
  lets the totals survive restarts. `save_state` empties the file before it writes
  it; a process that ends in between leaves an empty file, on which `json.load` of
  the next start raises.

## 4. Bounds, and why they are enough

Two samples are enough for "this row and no other"; three captures let one of two
come twice (the duplicate key). `AtRiskBounded` needs as many samples as COMMIT_COUNT:
with fewer, that many rows can never be at risk. COMMIT_COUNT 3 is the smallest value
with a statement that is neither the first nor the last of its transaction; 2 in the
liveness run, which is dearer. Two failures allow a failed statement followed by a
failed commit, and a commit that fails twice. One place on `/qout` makes it overflow.
With 3 timers they run out after a first connect, an outage and one more retry. For
DataCap an interval of 2 ticks distinguishes "same tick", "next tick" and "late
enough", and the clock can be set to any value in range. DataCap runs with one line:
two lines share only `/qin`, whose other users the action `OthersUseQueue` stands
for, and the end of the process in the middle of a callback, which `MainReturns` brings
too; its properties are proved for any set of lines.

In EnergyWriter the feeds are three pulses of one kind (so that a middle one can be
lost) with differences that tell the pairs apart, the clock set back below and to an
earlier time, and both kinds in between each other; one of them is repeated. Two kills
let one end fall in the reload of another. In DbWriter four events put one each in the table, the transaction, the
library and the queue. In LiveView the feeds are the cases the power distinguishes:
three pulses of a kind (so that a middle one can be lost) with the clock set back to the
first time, two with one timestamp (the division by zero) and one with an earlier, two
kinds, and a step back of `Hour`, which gives the power of -1 that means none (`Hour` is 1
in the run and 3600 in the code; the proofs take any); `MaxTroubles` is one budget for
outages, losses, restarts, pages that leave, and ends: one, because the liveness
properties are dear; the safety properties are proved for any number. In the liveness
run of DataPublish one sample comes twice, so that a delivery meets every stage of a
retry and the next sample its end. `TypeOK` of DataPublish,
EnergyWriter, DbWriter and LiveView is not in the runs: it is proved.

Every counter of a bound appears in the guard of the action it limits. The symmetry
of `dbmgr_safety` and `datapublish_safety` is over samples, which no definition
orders. Liveness runs use no symmetry. The runs of DataCap, EnergyWriter, DbWriter and
LiveView do not check for deadlock: when the bounded edges, pulses, ticks and restarts
are used up, or the program has ended and nothing starts it again, the model has
nothing left to do. The other specifications never stop, and deadlock is checked.

## 5. Fairness

- dbmgr: weak fairness of main's steps (the scheduler; a receive returns after ten
  seconds), of the timer (periodic), and of the restart (`run_dbmgr.sh` loops). None
  for the data captures or the publisher, which may do nothing.
- datapublish: weak fairness of main, of an armed timer, of the handler's return
  (`AMQP_Init` is assumed to come back, with a connection or an error: a RabbitMQ that
  accepts the connection and then stays silent would hang the whole program, for the
  code sets no timeout), of the brokers' return
  after an outage, and of the passing of time (`ThrottleEnds`). None for its restart
  (there is no script for it), and none for the client library's discovery that its
  session is dead.
- datacap: only safety is checked.
- energy writers: weak fairness of the callback's steps, of the reconnection that
  `loop_forever`, `loop_start` or `run_consumer`'s loop does, and of the broker's sending and
  taking. None for `Start`: what restarts the program is not in the repository.
- db_writer, live view: weak fairness of the loop, the callback, the handlers, the
  page's and the bridge's clients (they reconnect by themselves), of delivery, and of
  the return of a broker or an `api.py` that left. None for the start of a bridge or a
  writer that has ended, and none for anything that goes wrong.

## 6. Proofs

All theorems hold for every value of the constants that satisfies the named
assumptions of the modules (bounds are natural numbers, capacities, COMMIT_COUNT and
intervals are positive, `Samples` is finite in DbMgr).

*DbMgrProofs.* `Inv` is `TypeOK` and `DbInv`. `AtRiskBounded` is not inductive as it
stands: that fewer than COMMIT_COUNT rows are at risk follows from "while nothing
failed, the counter is below COMMIT_COUNT and the transaction is open whenever it is
positive", because then the commit that is due succeeds. `Settled(db)` (outside a
transaction, work and disk are equal) is what makes a crash harmless when the counter
is 0. `CountAndCommitFacts` is the lemma about a statement and its commit that both
message kinds use. `StoreInv` adds what the refinement needs: rows are TO_DELIVER, or
DELIVERED and acknowledged, and every row of the disk is still in the working table
with the same or a later status. `ForwardInv` rests on `HealthyRows`: while nothing
fails and nothing is killed no step takes a row away, not even `fini`'s close, since
its commit succeeded or there was none to make. Theorems: `TypeCorrect`,
`CountTracksTransactionHolds`, `AtRiskBoundedHolds`, `DeliveredIsAckedHolds`,
`ImplementsSampleStore` (initial states map to initial states, each step to a Commit,
an Acknowledge or a stutter), `ForwardedIsStoredHolds`. For the contract, `FreshInv`
says that a message about to be inserted or forwarded is still TO_DELIVER, because
`process_msg` chose the branch by its status; with it every step of dbmgr is one of
`Neighbour` or leaves the queues alone (`LocalIsNeighbour`). Theorems:
`HonoursContractHolds`, `ImplementsPublisher`. The first section has the lemmas about
the calls of `sql.c`.

*DataPublishProofs.* `AmqpInv` is the discipline: a timer is armed only while the flag
is down, at most one is, and main is never between the test of the flag and the end
of `AMQP_Sendmessage` then; the same holds while the handler is at work. `ExitInv` ties the life of the context to `fini`.
`ReportInv` says that a message marked DELIVERED, in hand or queued, is acknowledged;
`HoldingInv`, that outside `publish_message` nothing is held and before the
acknowledgement what is held is fresh. Theorems: `TypeCorrect`,
`ContextNotSharedHolds`, `RetryIsPendingHolds`, `FaultOnlyAtExitHolds`,
`ReportedIsAckedHolds`, `IsPublisherHolds`, `ImplementsPublisher`.

*Gateway.* An assume-guarantee argument. `Next` has the steps dbmgr takes, those
datapublish takes, and the loss of power, which both take at once. Neither theorem of
the halves can be used as it stands, because each half is only known to keep the
contract while the other does. `GatewayInv` is therefore the conjunction of both
inductive invariants. A step of datapublish is a step of `DbMgr` beside the contract
(`SenderStep`, from `LocalIsPublisher`), so it keeps dbmgr's invariant; a step of dbmgr
does to the queues what `Neighbour` may (`ManagerStep`, from `LocalIsNeighbour`), which
`NeighbourKeepsReports` and `NeighbourKeepsHolding` show to be harmless for
datapublish. Theorems: `ImplementsDbMgr` (the composition implements `DbMgr`),
`RowsAreKept` and `SenderIsKept` (so the promises of each program hold with the other
whole program in its neighbour's place). `Assumptions` are the named assumptions of the two
modules, and satisfiable where theirs are. No configuration runs this module: each
half has its own, and the product is a question for the prover.

*DataCapProofs.* `sent <= falls` is not inductive: a line may *owe* a sample, because
it remembers HIGH and the level is LOW, or because its callback is on the way.
`PulseInv` says that a line that owes one has a falling edge to spare; every step that
begins to owe is a falling edge, and sending pays. For `RateBounded` a line is either
*in reserve* (it has a pulse to spare, as after a start or a setting of the clock) or
*undisturbed* since its last pulse, and then the clock and real time have advanced
alike, so that the next is accepted MIN_INTERVAL later. For
`ClockStepCostsOnePulse`, `CostInv` says that a line has lost fewer pulses than there were
settings, or as many and its remembered time is in step with the clock, so that the
next pulse is taken; it assumes a prompt meter and that the clock stays MIN_INTERVAL
below the end of its word (`MaxClock + MIN_INTERVAL <= Word`; milliseconds in 64 bits
do). Theorems: `TypeCorrect`, `NoPhantomPulseHolds`, `RateBoundedHolds`,
`ClockStepCostsOnePulseHolds`.

*EnergyWriterProofs.* `TotalsAreBounded` needs `FileInv`: what a restart would load
lags behind memory by at most what the kills and faults already allow, plus the pulse
in hand. `RetainedNeverFalls` is proved from levels: retained <= every total in the
outbox, in order, <= what the file has, <= memory. For `PowerOfTwoEvents`, `FeedInv` says
that what the broker and the library hold was published, is in order unless something was
repeated, and, while nothing broke, lacks nothing published after it; `LastInv`, that a
`prev_ts`, in memory or on disk, is 0 or the time of a published event of its kind that is
older than all those waiting, and that while nothing broke every later event of the kind
is among them. So an interval, when `on_message` finds it, has no event inside, and
`OfTwoEventsKept` says that no later step can put one there. Nothing is assumed of the
timestamps. Theorems: `TypeCorrect`, `TotalsAreBoundedHolds`,
`EventsAccountedForHolds`, `RetainedNeverFallsHolds`, `PowerOfTwoEventsHolds`.

*DbWriterProofs.* Every step leaves the pipeline (table, transaction, hand, library,
queue, one after the other) as it is, appends the event just published, or cuts a
piece out of it, the last only with an outage or an end (`PipelineStep`); a sequence
in order stays so under each (`OrderedAppend`, `OrderedCut`). Theorems: `TypeCorrect`,
`StoredInOrderHolds`, `NothingIsLostHolds`.

*LiveViewProofs.* `EndsOnlyInWindow` needs `WindowInv`: unless a session was lost in one
of the two places, or the program was stopped, the flag is up, and main is between its
two tests of the session, only with a session or before the `disconnect ()` that will
lower the flag; and `CallingInv`: a `connect ()` to come belongs to a session that is
there or closing. The type invariant must say that events have positive numbers and
that the pulses so far are finitely many.

The powers need the order of events as an invariant. `OrderInv`: what the handlers have,
what is on its way to `api.py`, in the callback's hands, in the library and in the
queue are in line, each ascending and before the next. `LastInv`: a `last_ts` is the time
of a published pulse of its kind, or there was none yet (`Stored`); with handlers one at
a time no waiting event of the kind comes from before that pulse, and while nothing
broke every published pulse after it is still waiting, so that the interval a handler
computes has no pulse inside. For the latter, `SessionInv`: as long as no session was
lost the callback never runs without one. `OneAtATime` says that with handlers one at a
time there is at most one, and that what it stored is still there when it emits.
`Right` is the set of powers that are as the property says; the ones in the handlers, on
their way and on the screen are in it. `ScreenInv` puts the screen, the powers on their
way and the events behind them in the order in which their pulses were published; the
page shows what it is sent, so it follows. Nothing is assumed of the timestamps.
Theorems: `TypeCorrect`, `EndsOnlyInWindowHolds`, `PowerOfTwoPulsesHolds`,
`ScreenOnlyAdvancesHolds`.

Every safety property of a passing run is a theorem. Checked by TLC only: the liveness
properties, which need fairness and ENABLED and so are out of the prover's reach
(`CapturedIsPersisted`, `ReportIsRecorded`, `CommitIsRetried`, both `ShutdownHonoured`,
`AmqpReconnects`, `MqttReconnects`, `MqttDelivers`, `TotalIsRetained`, `FeedResumes`,
`BacklogIsStored`, `PulseIsShown`, `SessionResumes`, `PageJoins`). No theorem rests on
induction over data.

## 7. Plan

1. *Done:* the core (dbmgr with its database, queues and abstract store), its two
   neighbours, and their theorems; the contract that joins dbmgr and datapublish.
2. *Done:* the programs behind the brokers: energy writers, database writer, live view.
3. *Done:* a theorem for every safety property of the passing runs.
4. *Done:* both sides of the contract, and the composition of dbmgr and datapublish.
5. *Left:* the data captures as part of the composition. In `DbMgr` they are an action
   that may put any sample on `/qin`; `DataCap` has their program, but not the loss of
   power, which `Gateway` needs of all three. With it, that the rows on the disk are no
   more than the pulses of the meter would be a theorem from the pin to the table.

## 8. Not modelled

- Start-up failures that end a process before it has any state (configuration, log).
- `IN_MEMORY=YES` (no disk: nothing to recover).
- A message that is not a sample. Every message on the queues is written by
  `sample_to_json`, so the uninitialised sample of `sample_from_json`'s early return is
  out of reach of the gateway's own processes.
- The status NOT_DELIVERED: dbmgr would record it, no process sends it.
- The enrichment of a sample, topics and routing keys: data no step decides on.
- Several meters. The models have one. `emdc.conf` has pins for two (DATACAP2,
  DATACAP3), and neither `prev_ts` of the energy writers nor `last_ts_*` of `api.py`
  tells them apart: with both, an interval is between pulses of different meters, and
  `PowerOfTwoEvents` and `PowerOfTwoPulses` say nothing of it.
- What a power is worth. A timestamp tells little: a clock set back passes the test of
  `datacap.c:421` (the difference is unsigned), a restart of the capture forgets the last
  times (`:45`), the time that is sent is a second `gettimeofday` (`:335`), and in test
  mode there is no minimum. So `EnergyWriter` and `LiveView` take pulses with any
  timestamps, and say of a power only which two events it is computed from; after a
  setting or a restart it may be arbitrarily large, and on the page negative.
- A RabbitMQ that accepts a connection and then stays silent. `AMQP_Init` may outlast
  the 3 s of `datapublish.c:221` and the keepalive, but is assumed to return.
- SQLite errors other than a locked file, in the liveness of dbmgr: after a commit that
  rolled back the code does not write the samples again. (The safety runs have them.)
- Both energy writers at work on one state file, and an operator who deletes an empty
  one. A loss of power of the writers' machine (no `fsync`: an older or an empty file
  may be found); a kill is modelled.
- Packets of an old connection that arrive after the new one has been set up.
- The cleanup of the page's effect, which registers a listener where it means to
  remove one (`MainPage.js:61`): the page is unmounted only with the document, or by
  StrictMode's double run of effects in development.
- `EMDCdatasnd` with `xml.c`, `http.c`, `list.c`: it sends XML select requests, to
  which the present dbmgr has no branch (`dbmgr.c:319-354` is commented out), so that
  nothing after its first wait ever runs. `sim.c` is a test aid, `power_report.py` a
  script without state.
