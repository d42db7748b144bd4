------------------------------- MODULE DbMgr -------------------------------
(* EMDCdbmgr (dbmgr.c): it takes samples from /qin, records them in the    *)
(* samples table inside long transactions, and passes them on to /qout;    *)
(* it takes delivery reports from /qin and marks the rows.  A transaction  *)
(* is committed after MaxCommit statements, when a periodic timer has set  *)
(* a flag, and at shutdown.                                                *)
(*                                                                         *)
(* Its neighbours are here only as what they do to the two queues: the     *)
(* data captures that fill /qin and the publisher (module Publisher) that  *)
(* empties /qout and answers on /qin.                                      *)
EXTENDS Sql, PosixQueue, FiniteSets

CONSTANTS QinMax, QoutMax,   \* mq_maxmsg of the two queues
          MaxCommit,         \* [DBMGR]COMMIT_COUNT
          StatementFaults,   \* how a statement may fail, besides "ok"
          CommitFaults,      \* how a commit may fail, besides "ok"
          MaxFaults,         \* bound: failed statements and commits
          MaxCaptures,       \* bound: samples the captures send
          MaxCrashes,        \* bound: ends of a process nobody asked for
          MaxStops           \* bound: SIGINT or SIGTERM

ASSUME DbMgrAssumption ==
  /\ QinMax \in Nat \ {0} /\ QoutMax \in Nat \ {0} /\ MaxCommit \in Nat \ {0}
  /\ StatementFaults \subseteq {"busy", "full"}
  /\ CommitFaults \subseteq {"busy", "full"}
  /\ {MaxFaults, MaxCaptures, MaxCrashes, MaxStops} \subseteq Nat
  /\ IsFiniteSet(Samples)

VARIABLES
  qin, qout,          \* the queues: outlive the processes, not the machine
  db,                 \* the samples table
  pc,                 \* where dbmgr is
  msg,                \* buffer_in
  commit_count, do_commit_on_timer, go,  \* statics of dbmgr.c
  pub,                \* the message the publisher is working on
  acked,              \* samples the broker has acknowledged
  captures, faults, crashes, stops       \* what the bounds count

own == <<pc, msg, commit_count, do_commit_on_timer, go>>
queues == <<qin, qout>>
others == <<pub, acked, captures>>
history == <<crashes, stops>>
vars == <<own, queues, db, others, faults, history>>

Init ==
  /\ qin = <<>> /\ qout = <<>> /\ db = EmptyDatabase
  /\ pc = "loop" /\ msg = NoMsg
  /\ commit_count = 0 /\ do_commit_on_timer = FALSE /\ go = TRUE
  /\ pub = NoMsg /\ acked = {} /\ captures = 0
  /\ faults = 0 /\ crashes = 0 /\ stops = 0

-----------------------------------------------------------------------------
(* The main loop                                                           *)

(* A mutation of Loop: "while (1)".                                        *)
LoopForever ==
  /\ pc = "loop" /\ pc' = "receive"
  /\ UNCHANGED <<msg, commit_count, do_commit_on_timer, go, queues, db, others, faults, history>>

(* "while (go)"                                                            *)
Loop ==
  /\ pc = "loop" /\ pc' = IF go THEN "receive" ELSE "fini"
  /\ UNCHANGED <<msg, commit_count, do_commit_on_timer, go, queues, db, others, faults, history>>

(* A mutation of Receive: the status is not looked at.                     *)
ReceiveUnsorted ==
  /\ pc = "receive" /\ pc' = "insert"
  /\ EMDC_queue_rcv(qin, msg', qin')
  /\ UNCHANGED <<commit_count, do_commit_on_timer, go, qout, db, others, faults, history>>

(* process_msg looks at the status: a fresh sample is inserted and then    *)
(* forwarded, a report updates the row.                                    *)
Receive ==
  /\ pc = "receive"
  /\ EMDC_queue_rcv(qin, msg', qin')
  /\ pc' = IF msg'.status = STATUS_TO_DELIVER THEN "insert" ELSE "update"
  /\ UNCHANGED <<commit_count, do_commit_on_timer, go, qout, db, others, faults, history>>

ReceiveNothing ==
  /\ pc = "receive" /\ EMDC_queue_rcv_timeout(qin)
  /\ pc' = "timer"
  /\ UNCHANGED <<msg, commit_count, do_commit_on_timer, go, queues, db, others, faults, history>>

(* "if (commit_count == 0) EMDC_sql_begin_tnx ()", its result ignored.     *)
Begun == IF commit_count = 0 THEN EMDC_sql_begin_tnx(db) ELSE db

(* A mutation of CommitDue: one statement late.                            *)
CommitDueLate(n) == n = MaxCommit + 1

CommitDue(n) == n = MaxCommit

(* A mutation of AfterCommit: the count is reset whatever commit returned. *)
AlwaysReset(n, d, r) == 0

(* "if (!ret) commit_count = 0"                                            *)
AfterCommit(n, d, r) == IF CommitSucceeds(d, r) THEN 0 ELSE n

Cost(r) == IF r = "ok" THEN 0 ELSE 1

(* n failures are taken from the budget of the bound.                      *)
Charge(n) == faults + n <= MaxFaults /\ faults' = faults + n

(* A statement has left database d: count it and commit when it is the     *)
(* MaxCommit-th.  "==" and not ">=": a commit that fails here is not tried *)
(* again by a later statement.                                             *)
CountAndCommit(d, r, c) ==
  LET n == commit_count + 1 IN
  /\ c # "ok" => CommitDue(n)
  /\ Charge(Cost(r) + Cost(c))
  /\ db' = IF CommitDue(n) THEN EMDC_sql_commit_tnx(d, c) ELSE d
  /\ commit_count' = IF CommitDue(n) THEN AfterCommit(n, d, c) ELSE n

(* process_msg_insert; the result of EMDC_sql_insert is ignored.           *)
process_msg_insert ==
  /\ pc = "insert" /\ pc' = "forward"
  /\ \E r \in StatementFaults \cup {"ok"}, c \in CommitFaults \cup {"ok"} :
       CountAndCommit(EMDC_sql_insert(Begun, msg.sample, msg.status, r), r, c)
  /\ UNCHANGED <<msg, do_commit_on_timer, go, queues, others, history>>

process_msg_update ==
  /\ pc = "update" /\ pc' = "timer" /\ msg' = NoMsg
  /\ \E r \in StatementFaults \cup {"ok"}, c \in CommitFaults \cup {"ok"} :
       CountAndCommit(EMDC_sql_update(Begun, msg.status, msg.sample, r), r, c)
  /\ UNCHANGED <<do_commit_on_timer, go, queues, others, history>>

(* EMDC_queue_send (globals.queue_out, str): the descriptor does not block *)
(* and the result is ignored.                                              *)
Forward ==
  /\ pc = "forward" /\ pc' = "timer" /\ msg' = NoMsg
  /\ qout' = EMDC_queue_send(qout, QoutMax, msg)
  /\ UNCHANGED <<commit_count, do_commit_on_timer, go, qin, db, others, faults, history>>

(* "if (do_commit_on_timer == 1)", and the commit it asks for.             *)
TimerCheck ==
  /\ pc = "timer" /\ pc' = IF do_commit_on_timer THEN "clear" ELSE "loop"
  /\ IF do_commit_on_timer /\ commit_count > 0
     THEN \E c \in CommitFaults \cup {"ok"} :
            /\ Charge(Cost(c))
            /\ db' = EMDC_sql_commit_tnx(db, c)
            /\ commit_count' = AfterCommit(commit_count, db, c)
     ELSE UNCHANGED <<db, commit_count, faults>>
  /\ UNCHANGED <<msg, do_commit_on_timer, go, queues, others, history>>

(* "do_commit_on_timer = 0": a tick since TimerCheck is lost.              *)
TimerClear ==
  /\ pc = "clear" /\ pc' = "loop"
  /\ do_commit_on_timer' = FALSE
  /\ UNCHANGED <<msg, commit_count, go, queues, db, others, faults, history>>

(* A mutation of fini: no last commit.                                     *)
FiniWithoutCommit ==
  /\ pc = "fini" /\ pc' = "down"
  /\ db' = EMDC_sql_release(db)
  /\ UNCHANGED <<msg, commit_count, do_commit_on_timer, go, queues, others, faults, history>>

(* fini: the last commit, tried once, then sqlite3_close.                  *)
fini ==
  /\ pc = "fini" /\ pc' = "down"
  /\ IF commit_count > 0
     THEN \E c \in CommitFaults \cup {"ok"} :
            /\ Charge(Cost(c))
            /\ db' = EMDC_sql_release(EMDC_sql_commit_tnx(db, c))
     ELSE db' = EMDC_sql_release(db) /\ UNCHANGED faults
  /\ UNCHANGED <<msg, commit_count, do_commit_on_timer, go, queues, others, history>>

-----------------------------------------------------------------------------
(* Signals, restarts and crashes                                           *)

(* A mutation of TimerInstalled.                                           *)
NeverInstalled == FALSE

(* "if (globals.max_commit > 1) init_timer ()"                             *)
TimerInstalled == MaxCommit > 1

(* The periodic timer's handler runs between any two steps.                *)
timer_handler ==
  /\ pc # "down" /\ TimerInstalled /\ ~do_commit_on_timer
  /\ do_commit_on_timer' = TRUE
  /\ UNCHANGED <<pc, msg, commit_count, go, queues, db, others, faults, history>>

signal_callback_handler ==
  /\ pc # "down" /\ go /\ stops < MaxStops
  /\ go' = FALSE /\ stops' = stops + 1
  /\ UNCHANGED <<pc, msg, commit_count, do_commit_on_timer, queues, db, others, faults, crashes>>

(* run_dbmgr.sh starts the program again: init ().                         *)
init ==
  /\ pc = "down" /\ pc' = "loop" /\ msg' = NoMsg
  /\ commit_count' = 0 /\ do_commit_on_timer' = FALSE /\ go' = TRUE
  /\ UNCHANGED <<queues, db, others, faults, history>>

(* The process is killed: the open transaction is rolled back when the     *)
(* file is opened again; the queues stay.                                  *)
Crash ==
  /\ pc # "down" /\ crashes < MaxCrashes
  /\ pc' = "down" /\ crashes' = crashes + 1
  /\ db' = Rollback(db)
  /\ UNCHANGED <<msg, commit_count, do_commit_on_timer, go, queues, others, faults, stops>>

(* The machine goes down: the queues and the publisher's message go too.   *)
PowerLoss ==
  /\ crashes < MaxCrashes
  /\ pc' = "down" /\ crashes' = crashes + 1
  /\ db' = Rollback(db) /\ qin' = <<>> /\ qout' = <<>> /\ pub' = NoMsg
  /\ UNCHANGED <<msg, commit_count, do_commit_on_timer, go, acked, captures, faults, stops>>

-----------------------------------------------------------------------------
(* The neighbours                                                          *)

(* sendmsg of datacap.c has put a sample on /qin.  Two pulses may carry    *)
(* the same key: the clock of the ts field may be set back.                *)
Capture(k) ==
  /\ captures < MaxCaptures /\ Len(qin) < QinMax
  /\ qin' = EMDC_queue_send(qin, QinMax, Fresh(k)) /\ captures' = captures + 1
  /\ UNCHANGED <<own, qout, db, pub, acked, faults, history>>

(* The publisher, as Publisher describes it.                               *)
Contract == INSTANCE Publisher

Elsewhere == <<own, db, captures, faults, history>>

PublisherReceive == Contract!Receive /\ UNCHANGED Elsewhere
PublisherAcked == Contract!Acknowledge /\ UNCHANGED Elsewhere
PublisherReport == Contract!Report /\ UNCHANGED Elsewhere
PublisherLoses == Contract!Lose /\ UNCHANGED Elsewhere

-----------------------------------------------------------------------------
Main == Loop \/ Receive \/ ReceiveNothing \/ process_msg_insert \/ process_msg_update
        \/ Forward \/ TimerCheck \/ TimerClear \/ fini

Publisher == PublisherReceive \/ PublisherAcked \/ PublisherReport \/ PublisherLoses

(* All but the publisher and the machine.                                  *)
Local ==
  \/ Main \/ timer_handler \/ signal_callback_handler \/ init \/ Crash
  \/ \E k \in Samples : Capture(k)

Next == Local \/ PowerLoss \/ Publisher

Spec == Init /\ [][Next]_vars

(* The process is scheduled, a receive times out, the timer is periodic    *)
(* and the script restarts dbmgr.  Nothing is asked of the neighbours.     *)
Fairness == WF_vars(Main) /\ WF_vars(timer_handler) /\ WF_vars(init)

FairSpec == Spec /\ Fairness

-----------------------------------------------------------------------------
(* Safety                                                                  *)

PC == {"loop", "receive", "insert", "update", "forward", "timer", "clear", "fini", "down"}

(* The types; no queue is longer than its mq_maxmsg.                       *)
TypeOK ==
  /\ qin \in Seq(EMDCsample) /\ Len(qin) <= QinMax
  /\ qout \in Seq(EMDCsample) /\ Len(qout) <= QoutMax
  /\ db \in Database
  /\ pc \in PC /\ msg \in Buffer
  /\ (pc \in {"insert", "update", "forward"} => msg # NoMsg)
  /\ commit_count \in Nat /\ do_commit_on_timer \in BOOLEAN /\ go \in BOOLEAN
  /\ pub \in Buffer /\ acked \subseteq Samples
  /\ captures \in Nat /\ faults \in Nat /\ crashes \in Nat /\ stops \in Nat

(* Every message anywhere in the gateway.                                  *)
Messages == InQueue(qin) \cup InQueue(qout) \cup ({msg, pub} \ {NoMsg})

(* A row, durable or not, or a message says DELIVERED only of a sample the *)
(* broker acknowledged, whatever is lost, repeated, rolled back or         *)
(* restarted in between (process_msg_update marks the row a report names,  *)
(* and no other).                                                          *)
DeliveredIsAcked ==
  /\ \A k \in Samples : STATUS_DELIVERED \in {db.disk[k], db.work[k]} => k \in acked
  /\ \A m \in Messages : m.status = STATUS_DELIVERED => m.sample \in acked

(* commit_count = 0 is how dbmgr knows that no transaction is open: then   *)
(* no begin is ever issued inside a transaction, and nothing is left       *)
(* uncommitted that no counter speaks of.                                  *)
CountTracksTransaction == commit_count = 0 => ~db.tx

(* What a crash would lose never exceeds what commit_count says, even      *)
(* after failed statements and commits; and without failures it is less    *)
(* than COMMIT_COUNT rows.                                                 *)
AtRiskBounded ==
  /\ Cardinality(AtRisk(db)) <= commit_count
  /\ faults = 0 => Cardinality(AtRisk(db)) < MaxCommit

(* A sample that has left for the publisher, and its report, has a row for *)
(* the report to update: insert before forward, and no failed statement or *)
(* lost transaction in between.  (With a crash or a failure it need not.)  *)
ForwardedIsStored ==
  (faults = 0 /\ crashes = 0) =>
    /\ \A m \in InQueue(qout) \cup ({pub} \ {NoMsg}) : m.sample \in Stored(db.work)
    /\ \A m \in Messages : m.status # STATUS_TO_DELIVER => m.sample \in Stored(db.work)
    /\ pc = "forward" => msg.sample \in Stored(db.work)
    /\ acked \subseteq Stored(db.work)

(* The table on disk only ever does what SampleStore allows: a row never   *)
(* disappears, never goes back to TO_DELIVER, and is marked only after the *)
(* broker's acknowledgement.                                               *)
Store == INSTANCE SampleStore WITH
  store <- db.disk, Waiting <- STATUS_TO_DELIVER, Marked <- STATUS_DELIVERED

RefinesSampleStore == Store!Spec

(* dbmgr, the captures and the machine, wherever one of them stops or      *)
(* fails, are the neighbours that datapublish relies on: nothing but fresh *)
(* samples is forwarded, never a report, and nobody else marks, answers or *)
(* acknowledges (process_msg, main_loop).                                  *)
HonoursContract ==
  /\ Contract!Init
  /\ [][Publisher \/ Contract!Neighbour \/ Contract!PowerLoss]_(Contract!vars)

-----------------------------------------------------------------------------
(* Liveness                                                                *)

(* A sample on /qin reaches the disk: by the count, by the timer, or by    *)
(* fini (main_loop, fini), however often dbmgr is stopped, or though       *)
(* commits fail in a way that leaves the transaction open (the file is     *)
(* locked).  With both it may not, as fini's commit is tried once; nor     *)
(* after a failure that rolls back: the code does not insert again.        *)
CapturedIsPersisted ==
  \A k \in Samples :
    Fresh(k) \in InQueue(qin) ~> db.disk[k] # Absent \/ (faults > 0 /\ stops > 0)

(* A delivery report on /qin ends as a row marked DELIVERED on disk.       *)
ReportIsRecorded ==
  \A k \in Samples :
    Delivered(Fresh(k)) \in InQueue(qin)
      ~> db.disk[k] = STATUS_DELIVERED \/ (faults > 0 /\ stops > 0)

(* A transaction a failed commit left open is committed later: the timer   *)
(* tries again when the count no longer does.                              *)
CommitIsRetried == commit_count > 0 ~> commit_count = 0

(* SIGINT or SIGTERM, whenever it comes, ends the program: the receive     *)
(* times out.                                                              *)
ShutdownHonoured == ~go ~> pc = "down"
=============================================================================
