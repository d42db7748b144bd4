---------------------------- MODULE DbMgrProofs ----------------------------
(* The safety of dbmgr, for every number of samples, every COMMIT_COUNT,   *)
(* every queue length and any number of failures, crashes and restarts.    *)
EXTENDS DbMgr, FiniteSetTheorems, PosixQueueProofs

-----------------------------------------------------------------------------
(* What each call of sql.c preserves, for any table and any outcome.       *)

(* Without a transaction nothing is uncommitted.                           *)
Settled(d) == ~d.tx => d.work = d.disk

(* The empty database is a database, and nothing is at risk in it.         *)
LEMMA EmptyDatabaseIsSettled == EmptyDatabase \in Database /\ Settled(EmptyDatabase)
BY DEF EmptyDatabase, Database, Table, EmptyTable, Settled

(* Rollback, as sqlite3_close and a crash do it, leaves a settled database *)
(* with the same rows on disk.                                             *)
LEMMA RollbackFacts ==
  ASSUME NEW d \in Database
  PROVE  /\ Rollback(d) \in Database
         /\ Rollback(d).work = d.disk /\ Rollback(d).disk = d.disk /\ Rollback(d).tx = FALSE
BY DEF Rollback, Database

(* "begin transaction" touches no row.                                     *)
LEMMA BeginFacts ==
  ASSUME NEW d \in Database
  PROVE  /\ EMDC_sql_begin_tnx(d) \in Database
         /\ EMDC_sql_begin_tnx(d).work = d.work /\ EMDC_sql_begin_tnx(d).disk = d.disk
         /\ EMDC_sql_begin_tnx(d).tx = TRUE
BY DEF EMDC_sql_begin_tnx, Database

(* A statement that writes table t leaves the database as it was, rolled   *)
(* back, or with t: as its working copy inside a transaction, on disk too  *)
(* outside one.                                                            *)
LEMMA WrittenFacts ==
  ASSUME NEW d \in Database, NEW t \in Table, NEW r \in Outcome
  PROVE  /\ Written(d, t, r) \in Database
         /\ Settled(d) => Settled(Written(d, t, r))
         /\ Written(d, t, r).work \in {d.work, d.disk, t}
         /\ Written(d, t, r).disk \in {d.disk, t}
         /\ d.tx => Written(d, t, r).disk = d.disk
         /\ r = "ok" => Written(d, t, r).work = t /\ Written(d, t, r).tx = d.tx
         /\ r = "busy" => Written(d, t, r) = d
         /\ r = "full" => Written(d, t, r) = Rollback(d)
<1>1. CASE r = "ok"
  BY <1>1 DEF Written, Database, Settled
<1>2. CASE r = "busy"
  BY <1>2 DEF Written
<1>3. CASE r = "full"
  BY <1>3, RollbackFacts DEF Written, Settled
<1> QED BY <1>1, <1>2, <1>3 DEF Outcome

(* A commit makes the working copy durable, or undoes it, or does nothing; *)
(* the transaction is over when it reports success.                        *)
LEMMA CommitFacts ==
  ASSUME NEW d \in Database, NEW r \in Outcome
  PROVE  /\ EMDC_sql_commit_tnx(d, r) \in Database
         /\ CommitSucceeds(d, r) => /\ EMDC_sql_commit_tnx(d, r).tx = FALSE
                                    /\ EMDC_sql_commit_tnx(d, r).work = d.work
                                    /\ EMDC_sql_commit_tnx(d, r).disk = d.work
         /\ ~CommitSucceeds(d, r) => EMDC_sql_commit_tnx(d, r) \in {d, Rollback(d)}
BY RollbackFacts DEF EMDC_sql_commit_tnx, CommitSucceeds, Database

(* The rows at risk are a finite set, empty when work and disk agree.      *)
LEMMA AtRiskFinite ==
  ASSUME IsFiniteSet(Samples), NEW d \in Database
  PROVE  /\ IsFiniteSet(AtRisk(d)) /\ Cardinality(AtRisk(d)) \in Nat
         /\ d.work = d.disk => Cardinality(AtRisk(d)) = 0
<1>1. AtRisk(d) \subseteq Samples
  BY DEF AtRisk
<1>2. IsFiniteSet(AtRisk(d)) /\ Cardinality(AtRisk(d)) \in Nat
  BY <1>1, FS_Subset, FS_CardinalityType
<1>3. d.work = d.disk => AtRisk(d) = {}
  BY DEF AtRisk
<1> QED BY <1>2, <1>3, FS_EmptySet

(* Changing one row of the working copy puts at most one more row at risk. *)
LEMMA OneRowAtRisk ==
  ASSUME IsFiniteSet(Samples), NEW d \in Database, NEW e \in Database,
         NEW k \in Samples, NEW s \in Status,
         e.disk = d.disk, e.work = [d.work EXCEPT ![k] = s]
  PROVE  Cardinality(AtRisk(e)) <= Cardinality(AtRisk(d)) + 1
<1>1. AtRisk(e) \subseteq AtRisk(d) \cup {k}
  BY DEF AtRisk, Database, Table
<1>2. IsFiniteSet(AtRisk(d)) /\ Cardinality(AtRisk(d)) \in Nat /\ Cardinality(AtRisk(e)) \in Nat
  BY AtRiskFinite
<1>3. /\ IsFiniteSet(AtRisk(d) \cup {k})
      /\ Cardinality(AtRisk(d) \cup {k}) \in {Cardinality(AtRisk(d)), Cardinality(AtRisk(d)) + 1}
  BY <1>2, FS_AddElement
<1>4. Cardinality(AtRisk(e)) <= Cardinality(AtRisk(d) \cup {k})
  BY <1>1, <1>3, FS_Subset
<1> QED BY <1>2, <1>3, <1>4

(* So a statement on one row of a settled database, whatever its outcome.  *)
LEMMA StatementAtRisk ==
  ASSUME IsFiniteSet(Samples), NEW d \in Database, Settled(d),
         NEW k \in Samples, NEW s \in Status, NEW r \in Outcome
  PROVE  LET e == Written(d, [d.work EXCEPT ![k] = s], r) IN
         Cardinality(AtRisk(e)) <= Cardinality(AtRisk(d)) + 1
<1> DEFINE t == [d.work EXCEPT ![k] = s]
           e == Written(d, t, r)
<1>1. t \in Table
  BY DEF Database, Table
<1>2. e \in Database /\ Settled(e)
  BY <1>1, WrittenFacts
<1>3. /\ Cardinality(AtRisk(d)) \in Nat /\ Cardinality(AtRisk(e)) \in Nat
      /\ e.work = e.disk => Cardinality(AtRisk(e)) = 0
  BY <1>2, AtRiskFinite
<1>4. CASE r = "ok" /\ d.tx
  <2>1. e.work = t /\ e.disk = d.disk
    BY <1>1, <1>4, WrittenFacts
  <2> QED BY <1>2, <2>1, OneRowAtRisk
<1>5. CASE r = "ok" /\ ~d.tx
  <2>1. e.tx = d.tx
    BY <1>1, <1>5, WrittenFacts
  <2> QED BY <1>2, <1>3, <1>5, <2>1 DEF Settled
<1>6. CASE r = "busy"
  BY <1>1, <1>3, <1>6, WrittenFacts
<1>7. CASE r = "full"
  <2>1. e = Rollback(d)
    BY <1>1, <1>7, WrittenFacts
  <2>2. e.work = e.disk
    <3> HIDE DEF e
    <3> QED BY <2>1, RollbackFacts
  <2> QED BY <1>3, <2>2
<1> QED BY <1>4, <1>5, <1>6, <1>7 DEF Outcome

(* What a statement that sets row k to s may make, e, of database d.       *)
StatementResult(d, k, s, r, e) ==
  /\ e \in Database /\ Settled(e)
  /\ Cardinality(AtRisk(e)) <= Cardinality(AtRisk(d)) + 1
  /\ e.work \in {d.work, d.disk, [d.work EXCEPT ![k] = s]}
  /\ e.disk \in {d.disk, [d.work EXCEPT ![k] = s]}
  /\ d.tx => e.disk = d.disk
  /\ r = "ok" => e.tx = d.tx

(* EMDC_sql_insert and EMDC_sql_update touch the row they name and no      *)
(* other, whatever their outcome.                                          *)
LEMMA StatementFacts ==
  ASSUME IsFiniteSet(Samples), NEW d \in Database, Settled(d),
         NEW k \in Samples, NEW s \in Status, NEW r \in Outcome
  PROVE  /\ StatementResult(d, k, s, r, EMDC_sql_insert(d, k, s, r))
         /\ StatementResult(d, k, s, r, EMDC_sql_update(d, s, k, r))
<1> DEFINE t == [d.work EXCEPT ![k] = s]
           w == Written(d, t, r)
<1>1. t \in Table
  BY DEF Database, Table
<1>2. StatementResult(d, k, s, r, d)
  BY AtRiskFinite DEF StatementResult
<1>3. StatementResult(d, k, s, r, w)
  <2>1. w \in Database /\ Settled(w) /\ w.work \in {d.work, d.disk, t} /\ w.disk \in {d.disk, t}
    BY <1>1, WrittenFacts
  <2>2. Cardinality(AtRisk(w)) <= Cardinality(AtRisk(d)) + 1
    BY StatementAtRisk
  <2>3. (d.tx => w.disk = d.disk) /\ (r = "ok" => w.tx = d.tx)
    BY <1>1, WrittenFacts
  <2> QED BY <2>1, <2>2, <2>3 DEF StatementResult
<1> QED BY <1>2, <1>3 DEF EMDC_sql_insert, EMDC_sql_update

-----------------------------------------------------------------------------
(* How rows evolve                                                         *)

(* What a row may become, given the acknowledged samples A: recorded, then *)
(* marked.                                                                 *)
MayBecome(old, new, acknowledged) ==
  \/ new = old
  \/ old = Absent /\ new = STATUS_TO_DELIVER
  \/ new = STATUS_DELIVERED /\ acknowledged

(* The disk may become the working copy, and only acknowledged samples are *)
(* marked in either.                                                       *)
RowsOK(d, A) ==
  \A k \in Samples :
    /\ {d.disk[k], d.work[k]} \subseteq {Absent, STATUS_TO_DELIVER, STATUS_DELIVERED}
    /\ STATUS_DELIVERED \in {d.disk[k], d.work[k]} => k \in A
    /\ MayBecome(d.disk[k], d.work[k], k \in A)

DiskStep(d, e, A) == \A k \in Samples : MayBecome(d.disk[k], e.disk[k], k \in A)

LEMMA RowsOKRollback ==
  ASSUME NEW d \in Database, NEW A, RowsOK(d, A)
  PROVE  RowsOK(Rollback(d), A) /\ DiskStep(d, Rollback(d), A)
<1>1. Rollback(d).work = d.disk /\ Rollback(d).disk = d.disk
  BY RollbackFacts
<1> QED BY <1>1 DEF RowsOK, DiskStep, MayBecome

LEMMA RowsOKCommit ==
  ASSUME NEW d \in Database, NEW A, RowsOK(d, A), NEW r \in Outcome
  PROVE  RowsOK(EMDC_sql_commit_tnx(d, r), A) /\ DiskStep(d, EMDC_sql_commit_tnx(d, r), A)
<1> DEFINE e == EMDC_sql_commit_tnx(d, r)
<1>1. CASE CommitSucceeds(d, r)
  <2>1. e.work = d.work /\ e.disk = d.work
    BY <1>1, CommitFacts
  <2> HIDE DEF e
  <2>2. RowsOK(e, A) /\ DiskStep(d, e, A)
    BY <2>1 DEF RowsOK, DiskStep, MayBecome
  <2> QED BY <2>2 DEF e
<1>2. CASE ~CommitSucceeds(d, r)
  <2>1. e = d \/ e = Rollback(d)
    BY <1>2, CommitFacts
  <2>2. RowsOK(d, A) /\ DiskStep(d, d, A)
    BY DEF DiskStep, MayBecome
  <2> HIDE DEF e
  <2>3. RowsOK(e, A) /\ DiskStep(d, e, A)
    BY <2>1, <2>2, RowsOKRollback
  <2> QED BY <2>3 DEF e
<1> QED BY <1>1, <1>2

(* Writing one row, from Absent to TO_DELIVER or to DELIVERED of an        *)
(* acknowledged sample.                                                    *)
LEMMA RowsOKWritten ==
  ASSUME NEW d \in Database, Settled(d), NEW A, RowsOK(d, A), NEW r \in Outcome,
         NEW k \in Samples, NEW s \in {STATUS_TO_DELIVER, STATUS_DELIVERED},
         s = STATUS_TO_DELIVER => d.work[k] = Absent, s = STATUS_DELIVERED => k \in A
  PROVE  RowsOK(Written(d, [d.work EXCEPT ![k] = s], r), A)
         /\ DiskStep(d, Written(d, [d.work EXCEPT ![k] = s], r), A)
<1> DEFINE t == [d.work EXCEPT ![k] = s]
           e == Written(d, t, r)
<1>1. t \in Table
  BY DEF Database, Table, Status
<1>2. \A j \in Samples : t[j] = IF j = k THEN s ELSE d.work[j]
  BY DEF Database, Table
<1>3. CASE r = "ok"
  <2>1. e.work = t /\ e.disk = IF d.tx THEN d.disk ELSE t
    BY <1>3 DEF Written, Database
  <2>2. ~d.tx => d.work = d.disk
    BY DEF Settled
  <2> HIDE DEF e, t
  <2>3. \A j \in Samples : MayBecome(d.work[j], t[j], j \in A)
    BY <1>2 DEF MayBecome
  <2>4. \A j \in Samples : MayBecome(d.disk[j], t[j], j \in A)
    BY <1>2 DEF RowsOK, MayBecome
  <2>5. \A j \in Samples : t[j] \in {Absent, STATUS_TO_DELIVER, STATUS_DELIVERED}
                            /\ (t[j] = STATUS_DELIVERED => j \in A)
    BY <1>2 DEF RowsOK
  <2>6. RowsOK(e, A)
    BY <2>1, <2>2, <2>4, <2>5 DEF RowsOK, MayBecome
  <2>7. DiskStep(d, e, A)
    BY <2>1, <2>4 DEF DiskStep, MayBecome
  <2> QED BY <2>6, <2>7 DEF e, t
<1>4. CASE r = "busy"
  <2>1. e = d
    BY <1>1, <1>4, WrittenFacts
  <2> HIDE DEF e
  <2>2. RowsOK(e, A) /\ DiskStep(d, e, A)
    BY <2>1 DEF DiskStep, MayBecome
  <2> QED BY <2>2 DEF e
<1>5. CASE r = "full"
  <2>1. e = Rollback(d)
    BY <1>1, <1>5, WrittenFacts
  <2> HIDE DEF e
  <2>2. RowsOK(e, A) /\ DiskStep(d, e, A)
    BY <2>1, RowsOKRollback
  <2> QED BY <2>2 DEF e
<1> QED BY <1>3, <1>4, <1>5 DEF Outcome

LEMMA RowsOKStatement ==
  ASSUME NEW d \in Database, Settled(d), NEW A, RowsOK(d, A), NEW r \in Outcome, NEW k \in Samples
  PROVE  /\ RowsOK(EMDC_sql_insert(d, k, STATUS_TO_DELIVER, r), A)
         /\ DiskStep(d, EMDC_sql_insert(d, k, STATUS_TO_DELIVER, r), A)
         /\ k \in A => /\ RowsOK(EMDC_sql_update(d, STATUS_DELIVERED, k, r), A)
                       /\ DiskStep(d, EMDC_sql_update(d, STATUS_DELIVERED, k, r), A)
<1>1. RowsOK(d, A) /\ DiskStep(d, d, A)
  BY DEF DiskStep, MayBecome
<1>2. STATUS_TO_DELIVER # STATUS_DELIVERED
  BY DEF STATUS_TO_DELIVER, STATUS_DELIVERED
<1> QED BY <1>1, <1>2, RowsOKWritten DEF EMDC_sql_insert, EMDC_sql_update

LEMMA DiskStepTransitive ==
  ASSUME NEW d, NEW e, NEW f, NEW A, DiskStep(d, e, A), DiskStep(e, f, A)
  PROVE  DiskStep(d, f, A)
BY DEF DiskStep, MayBecome, STATUS_TO_DELIVER, STATUS_DELIVERED, Absent

-----------------------------------------------------------------------------
(* dbmgr.                                                                  *)

(* The publisher's steps, in the words of this module.                     *)
LEMMA PublisherFacts ==
  /\ PublisherReceive =>
       EMDC_queue_rcv(qout, pub', qout')
       /\ UNCHANGED <<own, qin, db, acked, captures, faults, history>>
  /\ PublisherAcked =>
       /\ pub # NoMsg /\ pub.status = STATUS_TO_DELIVER
       /\ acked' = acked \cup {pub.sample} /\ pub' = Delivered(pub)
       /\ UNCHANGED <<own, queues, db, captures, faults, history>>
  /\ PublisherReport =>
       /\ pub # NoMsg /\ pub.status = STATUS_DELIVERED
       /\ qin' = EMDC_queue_send(qin, QinMax, pub) /\ pub' = NoMsg
       /\ UNCHANGED <<own, qout, db, acked, captures, faults, history>>
  /\ PublisherLoses =>
       pub' = NoMsg /\ UNCHANGED <<own, queues, db, acked, captures, faults, history>>
BY DEF PublisherReceive, PublisherAcked, PublisherReport, PublisherLoses, Elsewhere, queues,
       Contract!Receive, Contract!Acknowledge, Contract!Report, Contract!Lose,
       Contract!EMDC_queue_rcv, Contract!EMDC_queue_send, Contract!Delivered,
       Contract!STATUS_TO_DELIVER, Contract!STATUS_DELIVERED,
       EMDC_queue_rcv, EMDC_queue_send, Delivered, STATUS_TO_DELIVER, STATUS_DELIVERED

(* The database and its counter agree.  The last conjunct is what makes    *)
(* AtRiskBounded inductive: while nothing has failed, the transaction is   *)
(* open whenever something is counted, so the commit that is due succeeds. *)
DbInv ==
  /\ Settled(db)
  /\ CountTracksTransaction
  /\ Cardinality(AtRisk(db)) <= commit_count
  /\ faults = 0 => /\ commit_count < MaxCommit
                   /\ pc # "down" /\ commit_count > 0 => db.tx
  /\ pc = "down" => ~db.tx

Inv == TypeOK /\ DbInv

(* What a statement followed by CountAndCommit does to the database.       *)
LEMMA CountAndCommitFacts ==
  ASSUME NEW d \in Database, Settled(d), NEW r \in Outcome, NEW c \in Outcome,
         commit_count \in Nat, faults \in Nat,
         Cardinality(AtRisk(d)) <= commit_count + 1,
         CountAndCommit(d, r, c)
  PROVE  /\ db' \in Database /\ Settled(db)' /\ CountTracksTransaction'
         /\ db'.work \in {d.work, d.disk} /\ db'.disk \in {d.work, d.disk}
         /\ commit_count' \in Nat /\ faults' \in Nat
         /\ Cardinality(AtRisk(db)') <= commit_count'
         /\ faults' = 0 => faults = 0 /\ r = "ok"
         /\ faults' = 0 /\ commit_count < MaxCommit /\ d.tx =>
              commit_count' < MaxCommit /\ (commit_count' > 0 => db'.tx)
<1> USE DbMgrAssumption
<1> DEFINE n == commit_count + 1
<1>1. /\ faults' = faults + (Cost(r) + Cost(c)) /\ faults' \in Nat
      /\ faults' = 0 => faults = 0 /\ r = "ok" /\ c = "ok"
  BY DEF CountAndCommit, Charge, Cost
<1>2. /\ db' = IF CommitDue(n) THEN EMDC_sql_commit_tnx(d, c) ELSE d
      /\ commit_count' = IF CommitDue(n) THEN AfterCommit(n, d, c) ELSE n
  BY DEF CountAndCommit
<1>3. CASE ~CommitDue(n)
  <2>1. db' = d /\ commit_count' = n
    BY <1>2, <1>3
  <2>2. Settled(db)' /\ AtRisk(db)' = AtRisk(d) /\ CountTracksTransaction'
    BY <2>1 DEF Settled, AtRisk, CountTracksTransaction
  <2>3. commit_count < MaxCommit => commit_count' < MaxCommit
    BY <1>3, <2>1 DEF CommitDue
  <2> QED BY <1>1, <2>1, <2>2, <2>3
<1>4. CASE CommitDue(n) /\ CommitSucceeds(d, c)
  <2>1. db' = EMDC_sql_commit_tnx(d, c) /\ commit_count' = 0
    BY <1>2, <1>4 DEF AfterCommit
  <2>2. db' \in Database /\ db'.work = d.work /\ db'.disk = d.work /\ ~db'.tx
    BY <1>4, <2>1, CommitFacts
  <2>3. Settled(db)' /\ CountTracksTransaction'
    BY <2>2 DEF Settled, CountTracksTransaction
  <2>4. AtRisk(db)' = AtRisk(db')
    BY DEF AtRisk
  <2>5. Cardinality(AtRisk(db)') = 0
    BY <2>2, <2>4, AtRiskFinite
  <2> QED BY <1>1, <2>1, <2>2, <2>3, <2>5
<1>5. CASE CommitDue(n) /\ ~CommitSucceeds(d, c)
  <2>1. db' = EMDC_sql_commit_tnx(d, c) /\ commit_count' = n
    BY <1>2, <1>5 DEF AfterCommit
  <2>2. db' = d \/ db' = Rollback(d)
    BY <1>5, <2>1, CommitFacts
  <2>3. /\ db' \in Database /\ db'.work \in {d.work, d.disk} /\ db'.disk = d.disk
        /\ db' = d \/ db'.work = db'.disk
    BY <2>2, RollbackFacts
  <2>4. Settled(db)' /\ CountTracksTransaction'
    BY <2>1, <2>3 DEF Settled, CountTracksTransaction
  <2>5. AtRisk(db)' = AtRisk(db')
    BY DEF AtRisk
  <2>6. Cardinality(AtRisk(db)') <= commit_count'
    BY <2>1, <2>3, <2>5, AtRiskFinite
  <2>7. ~(faults' = 0 /\ d.tx)
    BY <1>1, <1>5 DEF CommitSucceeds
  <2> QED BY <1>1, <2>1, <2>3, <2>4, <2>6, <2>7
<1> QED BY <1>3, <1>4, <1>5

(* The database part of the invariant is untouched by a step that leaves   *)
(* the database, its counter and the failures alone and neither starts nor *)
(* ends the program.                                                       *)
LEMMA DbUntouched ==
  ASSUME DbInv, UNCHANGED <<db, commit_count, faults>>, pc = "down" <=> pc' = "down"
  PROVE  DbInv'
BY DEF DbInv, Settled, CountTracksTransaction, AtRisk

(* A rolled back database satisfies it with any counter that is not above  *)
(* the one before, when the program is down or nothing is counted.         *)
LEMMA DbRolledBack ==
  ASSUME TypeOK, DbInv, db' = Rollback(db) \/ (db' \in Database /\ ~db'.tx /\ db'.work = db'.disk),
         commit_count' = commit_count \/ commit_count' = 0,
         pc' = "down" \/ commit_count' = 0,
         faults' = 0 => faults = 0
  PROVE  db' \in Database /\ DbInv'
<1> USE DbMgrAssumption
<1>1. db \in Database /\ commit_count \in Nat
  BY DEF TypeOK
<1>2. db' \in Database /\ ~db'.tx /\ db'.work = db'.disk
  BY <1>1, RollbackFacts
<1>3. AtRisk(db)' = AtRisk(db')
  BY DEF AtRisk
<1>4. Cardinality(AtRisk(db)') = 0
  BY <1>2, <1>3, AtRiskFinite
<1> QED BY <1>1, <1>2, <1>4 DEF DbInv, Settled, CountTracksTransaction

(* "begin" when nothing is counted.                                        *)
LEMMA BegunFacts ==
  ASSUME TypeOK, DbInv
  PROVE  /\ Begun \in Database /\ Settled(Begun)
         /\ Begun.work = db.work /\ Begun.disk = db.disk
         /\ Cardinality(AtRisk(Begun)) <= commit_count
         /\ faults = 0 /\ pc # "down" => Begun.tx
<1>1. db \in Database /\ commit_count \in Nat
  BY DEF TypeOK
<1>2. CASE commit_count = 0
  <2>1. Begun = EMDC_sql_begin_tnx(db)
    BY <1>2 DEF Begun
  <2>2. /\ Begun \in Database /\ Begun.work = db.work /\ Begun.disk = db.disk /\ Begun.tx = TRUE
    BY <1>1, <2>1, BeginFacts
  <2>3. AtRisk(Begun) = AtRisk(db)
    BY <2>2 DEF AtRisk
  <2> QED BY <2>2, <2>3 DEF DbInv, Settled
<1>3. CASE commit_count # 0
  BY <1>1, <1>3 DEF Begun, DbInv
<1> QED BY <1>2, <1>3

(* A statement and its commit keep the database part of the invariant.     *)
LEMMA StatementStep ==
  ASSUME TypeOK, DbInv, pc \in {"insert", "update"},
         NEW r \in Outcome, NEW c \in Outcome, NEW d,
         d \in {EMDC_sql_insert(Begun, msg.sample, msg.status, r),
                EMDC_sql_update(Begun, msg.status, msg.sample, r)},
         CountAndCommit(d, r, c), pc' # "down"
  PROVE  db' \in Database /\ commit_count' \in Nat /\ faults' \in Nat /\ DbInv'
<1> USE DbMgrAssumption
<1>1. msg.sample \in Samples /\ msg.status \in Status /\ commit_count \in Nat /\ faults \in Nat
  BY DEF TypeOK, Buffer, EMDCsample
<1>2. /\ Begun \in Database /\ Settled(Begun) /\ Cardinality(AtRisk(Begun)) <= commit_count
      /\ faults = 0 => Begun.tx
  BY BegunFacts
<1>3. /\ d \in Database /\ Settled(d)
      /\ Cardinality(AtRisk(d)) <= Cardinality(AtRisk(Begun)) + 1
      /\ r = "ok" => d.tx = Begun.tx
  BY <1>1, <1>2, StatementFacts DEF StatementResult
<1>4. Cardinality(AtRisk(d)) <= commit_count + 1
  BY <1>1, <1>2, <1>3, AtRiskFinite
<1>5. /\ db' \in Database /\ Settled(db)' /\ CountTracksTransaction'
      /\ commit_count' \in Nat /\ faults' \in Nat
      /\ Cardinality(AtRisk(db)') <= commit_count'
      /\ faults' = 0 => faults = 0 /\ r = "ok"
      /\ faults' = 0 /\ commit_count < MaxCommit /\ d.tx =>
           commit_count' < MaxCommit /\ (commit_count' > 0 => db'.tx)
  BY <1>1, <1>3, <1>4, CountAndCommitFacts
<1>6. faults' = 0 => commit_count < MaxCommit /\ d.tx
  BY <1>2, <1>3, <1>5 DEF DbInv
<1> QED BY <1>5, <1>6 DEF DbInv

-----------------------------------------------------------------------------
(* The inductive invariant                                                 *)

LEMMA InitInv == Init => Inv
<1> SUFFICES ASSUME Init PROVE Inv
  OBVIOUS
<1>1. TypeOK
  <2>1. qin \in Seq(EMDCsample) /\ qout \in Seq(EMDCsample) /\ Len(qin) = 0 /\ Len(qout) = 0
    BY DEF Init
  <2>2. db \in Database
    BY EmptyDatabaseIsSettled DEF Init
  <2>3. /\ pc \in PC /\ msg \in Buffer /\ pub \in Buffer /\ acked \subseteq Samples
        /\ pc \notin {"insert", "update", "forward"}
    BY DEF Init, PC, Buffer
  <2>4. do_commit_on_timer \in BOOLEAN /\ go \in BOOLEAN
    BY DEF Init
  <2>5. {commit_count, captures, faults, crashes, stops} \subseteq Nat
    BY DEF Init
  <2> QED BY <2>1, <2>2, <2>3, <2>4, <2>5, DbMgrAssumption DEF TypeOK
<1>2. db.work = db.disk /\ ~db.tx
  BY DEF Init, EmptyDatabase
<1>3. Cardinality(AtRisk(db)) = 0
  BY <1>1, <1>2, DbMgrAssumption, AtRiskFinite DEF TypeOK
<1> QED BY <1>1, <1>2, <1>3, DbMgrAssumption DEF Inv, Init, DbInv, Settled, CountTracksTransaction

LEMMA NextInv == Inv /\ [Next]_vars => Inv'
<1> USE DbMgrAssumption DEF Inv, own, queues, others, history
<1> SUFFICES ASSUME Inv, [Next]_vars PROVE Inv'
  OBVIOUS
<1>c. \A c \in CommitFaults \cup {"ok"} : c \in Outcome
  BY DEF Outcome
<1>s. \A r \in StatementFaults \cup {"ok"} : r \in Outcome
  BY DEF Outcome
<1>1. CASE Loop
  BY <1>1, DbUntouched DEF Loop, TypeOK, PC
<1>2. CASE Receive
  <2>1. EMDC_queue_rcv(qin, msg', qin')
    BY <1>2 DEF Receive
  <2>2. msg' \in EMDCsample /\ qin' \in Seq(EMDCsample) /\ Len(qin') <= QinMax
    BY <2>1, ReceiveFacts DEF TypeOK
  <2>3. TypeOK'
    BY <1>2, <2>2, NoMsgAssumption DEF Receive, TypeOK, PC, Buffer
  <2> QED BY <1>2, <2>3, DbUntouched DEF Receive
<1>3. CASE ReceiveNothing
  BY <1>3, DbUntouched DEF ReceiveNothing, TypeOK, PC
<1>4. CASE process_msg_insert
  <2>1. PICK r \in StatementFaults \cup {"ok"}, c \in CommitFaults \cup {"ok"} :
          CountAndCommit(EMDC_sql_insert(Begun, msg.sample, msg.status, r), r, c)
    BY <1>4 DEF process_msg_insert
  <2>2. db' \in Database /\ commit_count' \in Nat /\ faults' \in Nat /\ DbInv'
    BY <1>4, <1>c, <1>s, <2>1, StatementStep DEF process_msg_insert
  <2> QED BY <1>4, <2>2 DEF process_msg_insert, TypeOK, PC
<1>5. CASE process_msg_update
  <2>1. PICK r \in StatementFaults \cup {"ok"}, c \in CommitFaults \cup {"ok"} :
          CountAndCommit(EMDC_sql_update(Begun, msg.status, msg.sample, r), r, c)
    BY <1>5 DEF process_msg_update
  <2>2. db' \in Database /\ commit_count' \in Nat /\ faults' \in Nat /\ DbInv'
    BY <1>5, <1>c, <1>s, <2>1, StatementStep DEF process_msg_update
  <2> QED BY <1>5, <2>2 DEF process_msg_update, TypeOK, PC, Buffer
<1>6. CASE Forward
  <2>1. msg \in EMDCsample
    BY <1>6 DEF Forward, TypeOK, Buffer
  <2>2. qout' \in Seq(EMDCsample) /\ Len(qout') <= QoutMax
    BY <1>6, <2>1, SendFacts DEF Forward, TypeOK
  <2> QED BY <1>6, <2>2, DbUntouched DEF Forward, TypeOK, PC, Buffer
<1>7. CASE TimerCheck
  <2>1. CASE do_commit_on_timer /\ commit_count > 0
    <3>1. PICK c \in CommitFaults \cup {"ok"} :
            /\ Charge(Cost(c))
            /\ db' = EMDC_sql_commit_tnx(db, c)
            /\ commit_count' = AfterCommit(commit_count, db, c)
      BY <1>7, <2>1 DEF TimerCheck
    <3>2. faults' \in Nat /\ (faults' = 0 => faults = 0 /\ c = "ok")
      BY <3>1 DEF Charge, Cost, TypeOK
    <3>3. CASE CommitSucceeds(db, c)
      <4>1. commit_count' = 0
        BY <3>1, <3>3 DEF AfterCommit
      <4>2. db' \in Database /\ ~db'.tx /\ db'.work = db'.disk
        BY <1>c, <3>1, <3>3, CommitFacts DEF TypeOK
      <4>3. DbInv'
        BY <3>2, <4>1, <4>2, DbRolledBack
      <4> QED BY <1>7, <3>2, <4>1, <4>2, <4>3 DEF TimerCheck, TypeOK, PC
    <3>4. CASE ~CommitSucceeds(db, c)
      <4>1. commit_count' = commit_count /\ (db' = db \/ db' = Rollback(db))
        BY <1>c, <3>1, <3>4, CommitFacts DEF TypeOK, AfterCommit
      <4>2. db' \in Database /\ (db' = db \/ (~db'.tx /\ db'.work = db'.disk))
        BY <4>1, RollbackFacts DEF TypeOK
      <4>3. Settled(db)' /\ CountTracksTransaction'
        BY <2>1, <4>1, <4>2 DEF DbInv, Settled, CountTracksTransaction
      <4>4. AtRisk(db)' = AtRisk(db')
        BY DEF AtRisk
      <4>5. Cardinality(AtRisk(db)') <= commit_count'
        BY <4>1, <4>2, <4>4, AtRiskFinite DEF DbInv, TypeOK
      <4>6. faults' # 0
        BY <1>7, <2>1, <3>2, <3>4 DEF CommitSucceeds, DbInv, TimerCheck, TypeOK
      <4>7. DbInv'
        BY <1>7, <4>3, <4>5, <4>6 DEF DbInv, TimerCheck
      <4> QED BY <1>7, <3>2, <4>1, <4>2, <4>7 DEF TimerCheck, TypeOK, PC
    <3> QED BY <3>3, <3>4
  <2>2. CASE ~(do_commit_on_timer /\ commit_count > 0)
    BY <1>7, <2>2, DbUntouched DEF TimerCheck, TypeOK, PC
  <2> QED BY <2>1, <2>2
<1>8. CASE TimerClear
  BY <1>8, DbUntouched DEF TimerClear, TypeOK, PC
<1>9. CASE fini
  <2>1. /\ pc' = "down" /\ commit_count' = commit_count
        /\ faults' \in Nat /\ (faults' = 0 => faults = 0)
    BY <1>9 DEF fini, Charge, Cost, TypeOK
  <2>2. db' \in Database /\ ~db'.tx /\ db'.work = db'.disk
    <3>1. CASE db' = Rollback(db)
      BY <3>1, RollbackFacts DEF TypeOK
    <3>2. ASSUME NEW c \in CommitFaults \cup {"ok"}, db' = Rollback(EMDC_sql_commit_tnx(db, c))
          PROVE  db' \in Database /\ ~db'.tx /\ db'.work = db'.disk
      <4> DEFINE e == EMDC_sql_commit_tnx(db, c)
      <4>1. e \in Database
        BY <1>c, CommitFacts DEF TypeOK
      <4> HIDE DEF e
      <4>2. db' = Rollback(e)
        BY <3>2 DEF e
      <4> QED BY <4>1, <4>2, RollbackFacts
    <3> QED BY <1>9, <3>1, <3>2 DEF fini, EMDC_sql_release
  <2>3. DbInv'
    BY <2>1, <2>2, DbRolledBack
  <2> QED BY <1>9, <2>1, <2>2, <2>3 DEF fini, TypeOK, PC
<1>10. CASE timer_handler
  BY <1>10, DbUntouched DEF timer_handler, TypeOK
<1>11. CASE signal_callback_handler
  <2>1. TypeOK'
    <3>1. go' \in BOOLEAN
      BY <1>11 DEF signal_callback_handler
    <3>2. stops' \in Nat
      BY <1>11 DEF signal_callback_handler, TypeOK
    <3> QED BY <1>11, <3>1, <3>2 DEF signal_callback_handler, TypeOK
  <2>2. DbInv'
    BY <1>11, DbUntouched DEF signal_callback_handler
  <2> QED BY <2>1, <2>2
<1>12. CASE init
  <2>1. ~db.tx /\ db.work = db.disk
    BY <1>12 DEF DbInv, Settled, init
  <2>2. DbInv'
    BY <1>12, <2>1, DbRolledBack DEF init, TypeOK
  <2> QED BY <1>12, <2>2 DEF init, TypeOK, PC, Buffer
<1>13. CASE Crash
  BY <1>13, DbRolledBack DEF Crash, TypeOK, PC
<1>14. CASE PowerLoss
  BY <1>14, DbRolledBack DEF PowerLoss, TypeOK, PC, Buffer
<1>15. CASE \E k \in Samples : Capture(k)
  <2>1. PICK k \in Samples : Capture(k)
    BY <1>15
  <2>2. Fresh(k) \in EMDCsample
    BY DEF Fresh, EMDCsample, Status
  <2>3. qin' \in Seq(EMDCsample) /\ Len(qin') <= QinMax
    BY <2>1, <2>2, SendFacts DEF Capture, TypeOK
  <2> QED BY <2>1, <2>3, DbUntouched DEF Capture, TypeOK
<1>16. CASE PublisherReceive
  <2>1. EMDC_queue_rcv(qout, pub', qout')
    BY <1>16, PublisherFacts
  <2>2. pub' \in EMDCsample /\ qout' \in Seq(EMDCsample) /\ Len(qout') <= QoutMax
    BY <2>1, ReceiveFacts DEF TypeOK
  <2> QED BY <1>16, <2>2, DbUntouched, PublisherFacts DEF TypeOK, Buffer
<1>17. CASE PublisherAcked
  <2>1. pub \in EMDCsample
    BY <1>17, PublisherFacts DEF TypeOK, Buffer
  <2>2. pub.sample \in Samples /\ pub' \in EMDCsample
    BY <1>17, <2>1, PublisherFacts DEF Delivered, EMDCsample, Status
  <2> QED BY <1>17, <2>2, DbUntouched, PublisherFacts DEF TypeOK, Buffer
<1>18. CASE PublisherReport
  <2>1. pub \in EMDCsample
    BY <1>18, PublisherFacts DEF TypeOK, Buffer
  <2>2. qin' \in Seq(EMDCsample) /\ Len(qin') <= QinMax
    BY <1>18, <2>1, SendFacts, PublisherFacts DEF TypeOK
  <2> QED BY <1>18, <2>2, DbUntouched, PublisherFacts DEF TypeOK, Buffer
<1>19. CASE PublisherLoses
  BY <1>19, DbUntouched, PublisherFacts DEF TypeOK, Buffer
<1>20. CASE UNCHANGED vars
  BY <1>20, DbUntouched DEF vars, TypeOK
<1> QED
  BY <1>1, <1>2, <1>3, <1>4, <1>5, <1>6, <1>7, <1>8, <1>9, <1>10, <1>11, <1>12, <1>13, <1>14,
     <1>15, <1>16, <1>17, <1>18, <1>19, <1>20 DEF Next, Local, Main, Publisher

(* The types hold, and no queue exceeds its mq_maxmsg (main_loop, fini,    *)
(* process_msg and its callees, the handlers).                             *)
THEOREM TypeCorrect == Spec => []TypeOK
<1>1. Inv => TypeOK
  BY DEF Inv
<1> QED BY <1>1, InitInv, NextInv, PTL DEF Spec

(* No begin is issued inside a transaction: the counter of process_msg_*,  *)
(* main_loop and fini is zero only when none is open.                      *)
THEOREM CountTracksTransactionHolds == Spec => []CountTracksTransaction
<1>1. Inv => CountTracksTransaction
  BY DEF Inv, DbInv
<1> QED BY <1>1, InitInv, NextInv, PTL DEF Spec

(* A crash of dbmgr takes back at most commit_count rows, and, while no    *)
(* statement or commit has failed, fewer than COMMIT_COUNT.                *)
THEOREM AtRiskBoundedHolds == Spec => []AtRiskBounded
<1>1. Inv => AtRiskBounded
  <2> SUFFICES ASSUME Inv PROVE AtRiskBounded
    OBVIOUS
  <2>1. Cardinality(AtRisk(db)) \in Nat
    BY DbMgrAssumption, AtRiskFinite DEF Inv, TypeOK
  <2> QED BY <2>1, DbMgrAssumption DEF Inv, TypeOK, DbInv, AtRiskBounded
<1> QED BY <1>1, InitInv, NextInv, PTL DEF Spec

-----------------------------------------------------------------------------
(* Delivery reports and the abstract store                                 *)

(* A message tells the truth: nobody reports NOT_DELIVERED, and DELIVERED  *)
(* is said of acknowledged samples only.                                   *)
Truthful(m) ==
  /\ m.status # STATUS_NOT_DELIVERED
  /\ m.status = STATUS_DELIVERED => m.sample \in acked

(* What is in the queues, in dbmgr's buffer, in the publisher's hands and  *)
(* in the table.  process_msg's branch is remembered by pc.                *)
StoreInv ==
  /\ \A m \in InQueue(qin) \cup InQueue(qout) : Truthful(m)
  /\ msg # NoMsg => Truthful(msg)
  /\ pub # NoMsg => Truthful(pub)
  /\ pc = "insert" => msg.status = STATUS_TO_DELIVER
  /\ pc = "update" => msg.status = STATUS_DELIVERED
  /\ RowsOK(db, acked)

FullInv == Inv /\ StoreInv

(* What a step of SampleStore does to the disk.                            *)
StoreStep == DiskStep(db, db', acked) /\ acked' = acked

(* A step that leaves the table and the acknowledgements alone.            *)
LEMMA StoreUntouched ==
  ASSUME StoreInv, UNCHANGED <<db, acked>>
  PROVE  StoreStep /\ RowsOK(db, acked)'
BY DEF StoreInv, StoreStep, DiskStep, MayBecome, RowsOK

(* A step that rolls back.                                                 *)
LEMMA StoreRolledBack ==
  ASSUME TypeOK, StoreInv, db' = Rollback(db), acked' = acked
  PROVE  StoreStep /\ RowsOK(db, acked)'
<1>1. db \in Database /\ RowsOK(db, acked)
  BY DEF TypeOK, StoreInv
<1>2. RowsOK(Rollback(db), acked) /\ DiskStep(db, Rollback(db), acked)
  BY <1>1, RowsOKRollback
<1>3. RowsOK(db', acked) /\ DiskStep(db, db', acked)
  BY <1>2
<1> QED BY <1>3 DEF StoreStep, RowsOK

(* A commit, from any database the rows of which are in order.             *)
LEMMA StoreCommitted ==
  ASSUME NEW d \in Database, RowsOK(d, acked), DiskStep(db, d, acked), NEW c \in Outcome,
         db' \in {d, EMDC_sql_commit_tnx(d, c)}, acked' = acked
  PROVE  StoreStep /\ RowsOK(db, acked)'
<1>1. RowsOK(db', acked) /\ DiskStep(d, db', acked)
  BY RowsOKCommit DEF DiskStep, MayBecome
<1>2. DiskStep(db, db', acked)
  BY <1>1, DiskStepTransitive
<1> QED BY <1>1, <1>2 DEF StoreStep, RowsOK

(* A statement and its commit.                                             *)
LEMMA StoreStatement ==
  ASSUME Inv, StoreInv, NEW r \in Outcome, NEW c \in Outcome, NEW d, acked' = acked,
         CountAndCommit(d, r, c),
         \/ pc = "insert" /\ d = EMDC_sql_insert(Begun, msg.sample, msg.status, r)
         \/ pc = "update" /\ d = EMDC_sql_update(Begun, msg.status, msg.sample, r)
  PROVE  StoreStep /\ RowsOK(db, acked)'
<1>1. msg \in EMDCsample /\ msg.sample \in Samples /\ msg.status \in Status /\ Truthful(msg)
  BY NoMsgAssumption DEF Inv, TypeOK, Buffer, EMDCsample, StoreInv
<1>2. Begun \in Database /\ Settled(Begun) /\ Begun.work = db.work /\ Begun.disk = db.disk
  BY BegunFacts DEF Inv
<1>3. RowsOK(Begun, acked)
  BY <1>2 DEF StoreInv, RowsOK
<1>4. /\ RowsOK(d, acked) /\ DiskStep(Begun, d, acked)
      /\ d \in Database
  <2>1. CASE pc = "insert" /\ d = EMDC_sql_insert(Begun, msg.sample, msg.status, r)
    <3>1. msg.status = STATUS_TO_DELIVER
      BY <2>1 DEF StoreInv
    <3>2. d = EMDC_sql_insert(Begun, msg.sample, STATUS_TO_DELIVER, r)
      BY <2>1, <3>1
    <3>3. d \in Database
      BY <1>1, <1>2, <2>1, StatementFacts, DbMgrAssumption DEF StatementResult
    <3>4. /\ RowsOK(EMDC_sql_insert(Begun, msg.sample, STATUS_TO_DELIVER, r), acked)
          /\ DiskStep(Begun, EMDC_sql_insert(Begun, msg.sample, STATUS_TO_DELIVER, r), acked)
      BY <1>1, <1>2, <1>3, RowsOKStatement
    <3> QED BY <3>2, <3>3, <3>4
  <2>2. CASE pc = "update" /\ d = EMDC_sql_update(Begun, msg.status, msg.sample, r)
    <3>1. msg.status = STATUS_DELIVERED /\ msg.sample \in acked
      BY <1>1, <2>2 DEF StoreInv, Truthful
    <3>2. d = EMDC_sql_update(Begun, STATUS_DELIVERED, msg.sample, r)
      BY <2>2, <3>1
    <3>3. d \in Database
      BY <1>1, <1>2, <2>2, StatementFacts, DbMgrAssumption DEF StatementResult
    <3>4. /\ RowsOK(EMDC_sql_update(Begun, STATUS_DELIVERED, msg.sample, r), acked)
          /\ DiskStep(Begun, EMDC_sql_update(Begun, STATUS_DELIVERED, msg.sample, r), acked)
      BY <1>1, <1>2, <1>3, <3>1, RowsOKStatement
    <3> QED BY <3>2, <3>3, <3>4
  <2> QED BY <2>1, <2>2
<1>5. DiskStep(db, d, acked)
  BY <1>2, <1>4 DEF DiskStep
<1>6. db' \in {d, EMDC_sql_commit_tnx(d, c)}
  BY DEF CountAndCommit
<1> QED BY <1>4, <1>5, <1>6, StoreCommitted

(* Every step keeps the messages truthful and is a step of the store, or   *)
(* an acknowledgement.                                                     *)
LEMMA NextStore ==
  ASSUME Inv, StoreInv, [Next]_vars
  PROVE  StoreInv' /\ (StoreStep \/ Store!Acknowledge)
<1> USE DEF own, queues, others, history
<1> DEFINE Told == /\ \A m \in InQueue(qin) \cup InQueue(qout) : Truthful(m)
                   /\ msg # NoMsg => Truthful(msg)
                   /\ pub # NoMsg => Truthful(pub)
           Branch == /\ pc = "insert" => msg.status = STATUS_TO_DELIVER
                     /\ pc = "update" => msg.status = STATUS_DELIVERED
<1>t. Told /\ Branch /\ TypeOK
  BY DEF StoreInv, Inv
<1>o. \A c \in CommitFaults \cup {"ok"} : c \in Outcome
  BY DbMgrAssumption DEF Outcome
<1>r. \A r \in StatementFaults \cup {"ok"} : r \in Outcome
  BY DbMgrAssumption DEF Outcome
<1>q. ASSUME Told', Branch', StoreStep, RowsOK(db, acked)'
      PROVE  StoreInv' /\ StoreStep
  BY <1>q DEF StoreInv
<1>1. CASE Loop
  BY <1>1, <1>q, <1>t, StoreUntouched DEF Loop, Truthful
<1>2. CASE Receive
  <2>1. EMDC_queue_rcv(qin, msg', qin') /\ UNCHANGED <<qout, db, acked, pub>>
    BY <1>2 DEF Receive
  <2>2. /\ msg' \in EMDCsample /\ msg' \in InQueue(qin)
        /\ InQueue(qin') \subseteq InQueue(qin)
    BY <1>t, <2>1, ReceiveFacts DEF TypeOK
  <2>3. InQueue(qin)' = InQueue(qin') /\ InQueue(qout)' = InQueue(qout)
    BY <2>1 DEF InQueue
  <2>4. Told'
    BY <1>t, <2>1, <2>2, <2>3 DEF Truthful
  <2>5. Branch'
    <3>1. msg'.status \in {STATUS_TO_DELIVER, STATUS_DELIVERED}
      BY <1>t, <2>2 DEF Truthful, EMDCsample, Status
    <3>2. pc' = IF msg'.status = STATUS_TO_DELIVER THEN "insert" ELSE "update"
      BY <1>2 DEF Receive
    <3> QED BY <3>1, <3>2
  <2> QED BY <1>q, <2>1, <2>4, <2>5, StoreUntouched
<1>3. CASE ReceiveNothing
  BY <1>3, <1>q, <1>t, StoreUntouched DEF ReceiveNothing, Truthful
<1>4. CASE process_msg_insert
  <2>1. PICK r \in StatementFaults \cup {"ok"}, c \in CommitFaults \cup {"ok"} :
          CountAndCommit(EMDC_sql_insert(Begun, msg.sample, msg.status, r), r, c)
    BY <1>4 DEF process_msg_insert
  <2>2. StoreStep /\ RowsOK(db, acked)'
    BY <1>4, <1>o, <1>r, <2>1, StoreStatement DEF process_msg_insert
  <2>3. Told' /\ Branch'
    BY <1>4, <1>t DEF process_msg_insert, Truthful, InQueue
  <2> QED BY <1>q, <2>2, <2>3
<1>5. CASE process_msg_update
  <2>1. PICK r \in StatementFaults \cup {"ok"}, c \in CommitFaults \cup {"ok"} :
          CountAndCommit(EMDC_sql_update(Begun, msg.status, msg.sample, r), r, c)
    BY <1>5 DEF process_msg_update
  <2>2. StoreStep /\ RowsOK(db, acked)'
    BY <1>5, <1>o, <1>r, <2>1, StoreStatement DEF process_msg_update
  <2>3. Told' /\ Branch'
    BY <1>5, <1>t DEF process_msg_update, Truthful, InQueue
  <2> QED BY <1>q, <2>2, <2>3
<1>6. CASE Forward
  <2>1. msg \in EMDCsample /\ Truthful(msg)
    BY <1>6, <1>t DEF Forward, TypeOK, Buffer
  <2>2. InQueue(qout') \subseteq InQueue(qout) \cup {msg}
    BY <1>6, <1>t, <2>1, SendFacts, DbMgrAssumption DEF Forward, TypeOK
  <2>3. InQueue(qin)' = InQueue(qin) /\ InQueue(qout)' = InQueue(qout')
    BY <1>6 DEF Forward, InQueue
  <2>4. Told' /\ Branch'
    BY <1>6, <1>t, <2>1, <2>2, <2>3 DEF Forward, Truthful
  <2> QED BY <1>6, <1>q, <2>4, StoreUntouched DEF Forward
<1>7. CASE TimerCheck
  <2>1. db' = db \/ \E c \in Outcome : db' = EMDC_sql_commit_tnx(db, c)
    BY <1>7, <1>o DEF TimerCheck
  <2>2. StoreStep /\ RowsOK(db, acked)'
    <3>1. db \in Database /\ RowsOK(db, acked) /\ DiskStep(db, db, acked) /\ acked' = acked
      BY <1>7, <1>t DEF TypeOK, StoreInv, DiskStep, MayBecome, TimerCheck
    <3> QED BY <2>1, <3>1, StoreCommitted DEF Outcome
  <2>3. Told' /\ Branch'
    BY <1>7, <1>t DEF TimerCheck, Truthful, InQueue
  <2> QED BY <1>q, <2>2, <2>3
<1>8. CASE TimerClear
  BY <1>8, <1>q, <1>t, StoreUntouched DEF TimerClear, Truthful
<1>9. CASE fini
  <2>1. StoreStep /\ RowsOK(db, acked)'
    <3>1. CASE db' = Rollback(db)
      BY <1>9, <1>t, <3>1, StoreRolledBack DEF fini
    <3>2. ASSUME NEW c \in CommitFaults \cup {"ok"}, db' = Rollback(EMDC_sql_commit_tnx(db, c))
          PROVE  StoreStep /\ RowsOK(db, acked)'
      <4> DEFINE e == EMDC_sql_commit_tnx(db, c)
      <4>1. e \in Database /\ RowsOK(e, acked) /\ DiskStep(db, e, acked)
        BY <1>o, <1>t, CommitFacts, RowsOKCommit DEF TypeOK, StoreInv
      <4>2. db' = Rollback(e) /\ acked' = acked
        BY <1>9, <3>2 DEF fini
      <4> HIDE DEF e
      <4>3. RowsOK(db', acked) /\ DiskStep(e, db', acked)
        BY <4>1, <4>2, RowsOKRollback
      <4>4. DiskStep(db, db', acked)
        BY <4>1, <4>3, DiskStepTransitive
      <4> QED BY <4>2, <4>3, <4>4 DEF StoreStep, RowsOK
    <3> QED BY <1>9, <3>1, <3>2 DEF fini, EMDC_sql_release
  <2>2. Told' /\ Branch'
    BY <1>9, <1>t DEF fini, Truthful, InQueue
  <2> QED BY <1>q, <2>1, <2>2
<1>10. CASE timer_handler
  BY <1>10, <1>q, <1>t, StoreUntouched DEF timer_handler, Truthful
<1>11. CASE signal_callback_handler
  BY <1>11, <1>q, <1>t, StoreUntouched DEF signal_callback_handler, Truthful
<1>12. CASE init
  BY <1>12, <1>q, <1>t, StoreUntouched DEF init, Truthful
<1>13. CASE Crash
  <2>1. Told' /\ Branch'
    BY <1>13, <1>t DEF Crash, Truthful, InQueue
  <2> QED BY <1>13, <1>q, <1>t, <2>1, StoreRolledBack DEF Crash
<1>14. CASE PowerLoss
  <2>1. Told' /\ Branch'
    BY <1>14, <1>t DEF PowerLoss, Truthful, InQueue
  <2> QED BY <1>14, <1>q, <1>t, <2>1, StoreRolledBack DEF PowerLoss
<1>15. CASE \E k \in Samples : Capture(k)
  <2>1. PICK k \in Samples : Capture(k)
    BY <1>15
  <2>2. Fresh(k) \in EMDCsample /\ Fresh(k).status = STATUS_TO_DELIVER
    BY DEF Fresh, EMDCsample, Status
  <2>3. InQueue(qin') \subseteq InQueue(qin) \cup {Fresh(k)}
    BY <1>t, <2>1, <2>2, SendFacts, DbMgrAssumption DEF Capture, TypeOK
  <2>4. InQueue(qin)' = InQueue(qin') /\ InQueue(qout)' = InQueue(qout)
    BY <2>1 DEF Capture, InQueue
  <2>5. Told' /\ Branch'
    BY <1>t, <2>1, <2>2, <2>3, <2>4
    DEF Capture, Truthful, STATUS_TO_DELIVER, STATUS_DELIVERED, STATUS_NOT_DELIVERED
  <2> QED BY <1>q, <2>1, <2>5, StoreUntouched DEF Capture
<1>16. CASE PublisherReceive
  <2>1. EMDC_queue_rcv(qout, pub', qout') /\ UNCHANGED <<pc, msg, qin, db, acked>>
    BY <1>16, PublisherFacts
  <2>2. pub' \in InQueue(qout) /\ InQueue(qout') \subseteq InQueue(qout)
    BY <1>t, <2>1, ReceiveFacts DEF TypeOK
  <2>3. InQueue(qin)' = InQueue(qin) /\ InQueue(qout)' = InQueue(qout')
    BY <2>1 DEF InQueue
  <2>4. Told' /\ Branch'
    BY <1>t, <2>1, <2>2, <2>3 DEF Truthful
  <2> QED BY <1>q, <2>1, <2>4, StoreUntouched
<1>17. CASE PublisherAcked
  <2>1. pub \in EMDCsample /\ pub.sample \in Samples
    BY <1>17, <1>t, PublisherFacts DEF TypeOK, Buffer, EMDCsample
  <2>2. /\ acked' = acked \cup {pub.sample} /\ pub' = Delivered(pub)
        /\ UNCHANGED <<qin, qout, pc, msg, db>>
    BY <1>17, PublisherFacts
  <2>3. pub'.sample = pub.sample /\ pub'.status = STATUS_DELIVERED
    BY <2>1, <2>2 DEF Delivered, EMDCsample
  <2>4. Truthful(pub)'
    BY <2>2, <2>3 DEF Truthful, STATUS_DELIVERED, STATUS_NOT_DELIVERED
  <2>5. \A m : Truthful(m) => Truthful(m)'
    BY <2>2 DEF Truthful
  <2>6. Told' /\ Branch'
    BY <1>t, <2>2, <2>4, <2>5 DEF InQueue, Truthful
  <2>7. RowsOK(db, acked)'
    BY <2>2 DEF StoreInv, RowsOK, MayBecome
  <2>8. Store!Acknowledge
    BY <2>1, <2>2 DEF Store!Acknowledge
  <2> QED BY <2>6, <2>7, <2>8 DEF StoreInv
<1>18. CASE PublisherReport
  <2>1. pub \in EMDCsample /\ Truthful(pub)
    BY <1>18, <1>t, PublisherFacts DEF TypeOK, Buffer
  <2>2. InQueue(qin') \subseteq InQueue(qin) \cup {pub}
    BY <1>18, <1>t, <2>1, SendFacts, DbMgrAssumption, PublisherFacts DEF TypeOK
  <2>3. InQueue(qin)' = InQueue(qin') /\ InQueue(qout)' = InQueue(qout)
    BY <1>18, PublisherFacts DEF InQueue
  <2>4. Told' /\ Branch'
    BY <1>18, <1>t, <2>1, <2>2, <2>3, PublisherFacts DEF Truthful
  <2> QED BY <1>18, <1>q, <2>4, StoreUntouched, PublisherFacts
<1>19. CASE PublisherLoses
  BY <1>19, <1>q, <1>t, StoreUntouched, PublisherFacts DEF Truthful
<1>20. CASE UNCHANGED vars
  BY <1>20, <1>q, <1>t, StoreUntouched DEF vars, Truthful
<1> QED
  BY <1>1, <1>2, <1>3, <1>4, <1>5, <1>6, <1>7, <1>8, <1>9, <1>10, <1>11, <1>12, <1>13, <1>14,
     <1>15, <1>16, <1>17, <1>18, <1>19, <1>20 DEF Next, Local, Main, Publisher

LEMMA InitStore == Init => StoreInv
BY DEF Init, StoreInv, InQueue, RowsOK, MayBecome, EmptyDatabase, EmptyTable,
       STATUS_DELIVERED, STATUS_TO_DELIVER, Absent

LEMMA FullInvariance == Spec => []FullInv
<1>1. Init => FullInv
  BY InitInv, InitStore DEF FullInv
<1>2. FullInv /\ [Next]_vars => FullInv'
  BY NextInv, NextStore DEF FullInv
<1> QED BY <1>1, <1>2, PTL DEF Spec

(* No row and no message claims a delivery the broker did not acknowledge, *)
(* whatever dbmgr, the queues, the publisher or the machine lose           *)
(* (process_msg_update and everything that can come between).              *)
THEOREM DeliveredIsAckedHolds == Spec => []DeliveredIsAcked
<1>1. FullInv => DeliveredIsAcked
  BY DEF FullInv, StoreInv, DeliveredIsAcked, RowsOK, Messages, Truthful
<1> QED BY <1>1, FullInvariance, PTL

(* dbmgr's table on disk is an implementation of SampleStore: rows are     *)
(* recorded once, marked only after the acknowledgement, and never         *)
(* disappear or change back.                                               *)
THEOREM ImplementsSampleStore == Spec => RefinesSampleStore
<1>1. Init => Store!Init
  BY DEF Init, Store!Init, EmptyDatabase, EmptyTable
<1>2. FullInv /\ FullInv' /\ [Next]_vars => [Store!Next]_(Store!vars)
  <2> SUFFICES ASSUME FullInv, FullInv', [Next]_vars PROVE [Store!Next]_(Store!vars)
    OBVIOUS
  <2>1. StoreStep \/ Store!Acknowledge
    BY NextStore DEF FullInv
  <2>2. CASE StoreStep
    <3>1. \A k \in Samples : Store!RowMayBecome(k, db'.disk[k])
      BY <2>2 DEF StoreStep, DiskStep, MayBecome, Store!RowMayBecome
    <3>2. db'.disk \in [Samples -> {Absent, STATUS_TO_DELIVER, STATUS_DELIVERED}]
      BY DEF FullInv, Inv, TypeOK, Database, Table, StoreInv, RowsOK
    <3>3. Store!Commit
      BY <2>2, <3>1, <3>2 DEF StoreStep, Store!Commit
    <3> QED BY <3>3 DEF Store!Next
  <2>3. CASE Store!Acknowledge
    BY <2>3 DEF Store!Next
  <2> QED BY <2>1, <2>2, <2>3
<1> QED BY <1>1, <1>2, FullInvariance, PTL DEF Spec, RefinesSampleStore, Store!Spec
-----------------------------------------------------------------------------
(* Every report finds its row, as long as nothing fails and nothing is     *)
(* killed: the table then only grows, and a sample is in it before it      *)
(* leaves for the publisher.                                               *)

Healthy == faults = 0 /\ crashes = 0

RowsGrow == Stored(db.work) \subseteq Stored(db'.work)

(* A statement that succeeds, and its commit, if it is due.                *)
LEMMA HealthyStatement ==
  ASSUME Inv, pc \in {"insert", "update"}, NEW r \in Outcome, NEW c \in Outcome, NEW d,
         \/ pc = "insert" /\ d = EMDC_sql_insert(Begun, msg.sample, msg.status, r)
         \/ pc = "update" /\ d = EMDC_sql_update(Begun, msg.status, msg.sample, r),
         CountAndCommit(d, r, c), faults' = 0
  PROVE  faults = 0 /\ RowsGrow /\ (pc = "insert" => msg.sample \in Stored(db'.work))
<1>1. r = "ok" /\ c = "ok" /\ faults = 0
  BY DEF CountAndCommit, Charge, Cost, Inv, TypeOK
<1>2. msg.sample \in Samples /\ msg.status \in Status
  BY DEF Inv, TypeOK, Buffer, EMDCsample
<1>3. Begun \in Database /\ Begun.work = db.work /\ db.work \in Table
  BY BegunFacts DEF Inv, Database
<1> DEFINE t == [db.work EXCEPT ![msg.sample] = msg.status]
<1>4. \A k \in Samples : t[k] = IF k = msg.sample THEN msg.status ELSE db.work[k]
  BY <1>2, <1>3 DEF Table
<1>5. t \in Table
  BY <1>2, <1>3 DEF Table
<1>6. d \in Database /\ (d.work = t \/ (d.work = db.work /\ (pc = "insert" => db.work[msg.sample] # Absent)))
  <2>1. Written(Begun, t, r) \in Database /\ Written(Begun, t, r).work = t
    BY <1>1, <1>3, <1>5, WrittenFacts
  <2> HIDE DEF t
  <2>2. (d = Begun /\ (pc = "insert" => db.work[msg.sample] # Absent)) \/ d = Written(Begun, t, r)
    BY <1>3 DEF EMDC_sql_insert, EMDC_sql_update, t
  <2> QED BY <1>3, <2>1, <2>2
<1> HIDE DEF t
<1>7. msg.status # Absent
  BY <1>2 DEF Status, Absent, STATUS_TO_DELIVER, STATUS_DELIVERED, STATUS_NOT_DELIVERED
<1>8. Stored(db.work) \subseteq Stored(d.work) /\ (pc = "insert" => msg.sample \in Stored(d.work))
  BY <1>2, <1>4, <1>6, <1>7 DEF Stored
<1>9. db'.work = d.work
  <2>1. db' = d \/ db' = EMDC_sql_commit_tnx(d, c)
    BY DEF CountAndCommit
  <2> QED BY <1>1, <1>6, <2>1 DEF EMDC_sql_commit_tnx, CommitSucceeds, Database
<1> QED BY <1>1, <1>8, <1>9 DEF RowsGrow

(* While all is well no step takes a row out of the table.                 *)
LEMMA HealthyRows ==
  ASSUME Inv, [Next]_vars, Healthy'
  PROVE  Healthy /\ RowsGrow /\ (process_msg_insert => msg.sample \in Stored(db'.work))
<1> USE DEF Healthy, own, queues, others, history
<1>c. \A c \in CommitFaults \cup {"ok"} : c \in Outcome
  BY DbMgrAssumption DEF Outcome
<1>r. \A r \in StatementFaults \cup {"ok"} : r \in Outcome
  BY DbMgrAssumption DEF Outcome
<1>t. db \in Database /\ faults \in Nat /\ crashes \in Nat /\ commit_count \in Nat
  BY DEF Inv, TypeOK
<1>0. ASSUME UNCHANGED <<db, faults, crashes>>, ~process_msg_insert
      PROVE  Healthy /\ RowsGrow /\ (process_msg_insert => msg.sample \in Stored(db'.work))
  BY <1>0 DEF RowsGrow
<1>1. CASE process_msg_insert
  <2>1. PICK r \in StatementFaults \cup {"ok"}, c \in CommitFaults \cup {"ok"} :
          CountAndCommit(EMDC_sql_insert(Begun, msg.sample, msg.status, r), r, c)
    BY <1>1 DEF process_msg_insert
  <2> QED BY <1>1, <1>c, <1>r, <2>1, HealthyStatement DEF process_msg_insert
<1>2. CASE process_msg_update
  <2>1. PICK r \in StatementFaults \cup {"ok"}, c \in CommitFaults \cup {"ok"} :
          CountAndCommit(EMDC_sql_update(Begun, msg.status, msg.sample, r), r, c)
    BY <1>2 DEF process_msg_update
  <2>2. pc = "update" /\ ~process_msg_insert /\ crashes = crashes'
    BY <1>2 DEF process_msg_update, process_msg_insert
  <2>3. faults = 0 /\ RowsGrow
    BY <1>c, <1>r, <2>1, <2>2, HealthyStatement
  <2> QED BY <2>2, <2>3
<1>3. CASE TimerCheck
  <2>1. ~process_msg_insert /\ crashes = crashes'
    BY <1>3 DEF TimerCheck, process_msg_insert
  <2>2. CASE UNCHANGED <<db, faults>>
    BY <1>0, <2>1, <2>2
  <2>3. ASSUME NEW c \in CommitFaults \cup {"ok"}, Charge(Cost(c)), db' = EMDC_sql_commit_tnx(db, c)
        PROVE  faults = 0 /\ RowsGrow
    <3>1. c = "ok" /\ faults = 0
      BY <1>t, <2>3 DEF Charge, Cost
    <3>2. db'.work = db.work
      BY <1>t, <2>3, <3>1 DEF EMDC_sql_commit_tnx, CommitSucceeds, Database
    <3> QED BY <3>1, <3>2 DEF RowsGrow
  <2> QED BY <1>3, <2>1, <2>2, <2>3 DEF TimerCheck
<1>4. CASE fini
  <2>1. ~process_msg_insert /\ crashes = crashes' /\ pc = "fini"
    BY <1>4 DEF fini, process_msg_insert
  <2>2. CASE commit_count > 0
    <3>1. PICK c \in CommitFaults \cup {"ok"} :
            Charge(Cost(c)) /\ db' = Rollback(EMDC_sql_commit_tnx(db, c))
      BY <1>4, <2>2 DEF fini, EMDC_sql_release
    <3>2. c = "ok" /\ faults = 0
      BY <1>t, <3>1 DEF Charge, Cost
    <3>3. db.tx
      BY <2>1, <2>2, <3>2 DEF Inv, DbInv
    <3> DEFINE e == EMDC_sql_commit_tnx(db, c)
    <3>4. e \in Database /\ e.disk = db.work
      BY <1>t, <1>c, <3>2, <3>3, CommitFacts DEF CommitSucceeds
    <3> HIDE DEF e
    <3>5. db' = Rollback(e)
      BY <3>1 DEF e
    <3>6. db'.work = db.work
      BY <3>4, <3>5, RollbackFacts
    <3> QED BY <2>1, <3>2, <3>6 DEF RowsGrow
  <2>3. CASE ~(commit_count > 0)
    <3>1. db' = Rollback(db) /\ faults' = faults
      BY <1>4, <2>3 DEF fini, EMDC_sql_release
    <3>2. db.work = db.disk
      BY <1>t, <2>3 DEF Inv, DbInv, CountTracksTransaction, Settled
    <3>3. db'.work = db.work
      BY <1>t, <3>1, <3>2, RollbackFacts
    <3> QED BY <2>1, <3>1, <3>3 DEF RowsGrow
  <2> QED BY <2>2, <2>3
<1>5. CASE Crash \/ PowerLoss
  BY <1>t, <1>5 DEF Crash, PowerLoss
<1>6. CASE Loop \/ Receive \/ ReceiveNothing \/ Forward \/ TimerClear
  BY <1>0, <1>6 DEF Loop, Receive, ReceiveNothing, Forward, TimerClear, process_msg_insert
<1>7. CASE timer_handler \/ signal_callback_handler \/ init \/ \E k \in Samples : Capture(k)
  <2>1. UNCHANGED <<db, faults, crashes>>
    BY <1>7 DEF timer_handler, signal_callback_handler, init, Capture
  <2> QED BY <1>0, <1>1, <2>1
<1>8. CASE Publisher \/ UNCHANGED vars
  <2>1. UNCHANGED <<db, faults, crashes>>
    BY <1>8, PublisherFacts DEF Publisher, vars
  <2> QED BY <1>0, <1>1, <2>1
<1> QED BY <1>1, <1>2, <1>3, <1>4, <1>5, <1>6, <1>7, <1>8 DEF Next, Local, Main

(* A message that is on its way from dbmgr to the publisher and back.      *)
Left(m) == m.sample \in Stored(db.work)

ForwardInv ==
  Healthy =>
    /\ \A m \in InQueue(qout) : Left(m)
    /\ \A m \in InQueue(qin) : m.status # STATUS_TO_DELIVER => Left(m)
    /\ pub # NoMsg => Left(pub)
    /\ msg # NoMsg /\ msg.status # STATUS_TO_DELIVER => Left(msg)
    /\ pc = "forward" => Left(msg)
    /\ acked \subseteq Stored(db.work)

LEMMA NextForwardInv == Inv /\ ForwardInv /\ [Next]_vars => ForwardInv'
<1> SUFFICES ASSUME Inv, ForwardInv, [Next]_vars, Healthy' PROVE ForwardInv'
  BY DEF ForwardInv
<1> USE DEF own, queues, others, history
<1>h. Healthy /\ RowsGrow /\ (process_msg_insert => msg.sample \in Stored(db'.work))
  BY HealthyRows
<1>l. \A m : Left(m) => Left(m)'
  BY <1>h DEF RowsGrow, Left
<1>t. TypeOK
  BY DEF Inv
<1>i. /\ \A m \in InQueue(qout) : Left(m)'
      /\ \A m \in InQueue(qin) : m.status # STATUS_TO_DELIVER => Left(m)'
      /\ pub # NoMsg => Left(pub) /\ pub.sample \in Stored(db'.work)
      /\ msg # NoMsg /\ msg.status # STATUS_TO_DELIVER => Left(msg) /\ msg.sample \in Stored(db'.work)
      /\ pc = "forward" => Left(msg) /\ msg.sample \in Stored(db'.work)
      /\ acked \subseteq Stored(db'.work)
  BY <1>h, <1>l DEF ForwardInv, RowsGrow, Left
<1> DEFINE SameQueues == InQueue(qin)' = InQueue(qin) /\ InQueue(qout)' = InQueue(qout)
<1>0. ASSUME UNCHANGED <<qin, qout, pub, acked>>, msg' = msg \/ msg' = NoMsg,
             pc' = "forward" => pc = "forward" /\ msg' = msg
      PROVE  ForwardInv'
  <2>1. SameQueues
    BY <1>0 DEF InQueue
  <2> QED BY <1>0, <1>i, <2>1 DEF ForwardInv, Left
<1>1. CASE Loop \/ ReceiveNothing \/ process_msg_update \/ TimerCheck \/ TimerClear \/ fini
  BY <1>0, <1>1 DEF Loop, ReceiveNothing, process_msg_update, TimerCheck, TimerClear, fini
<1>2. CASE timer_handler \/ signal_callback_handler \/ init \/ Crash \/ UNCHANGED vars
  BY <1>0, <1>2 DEF timer_handler, signal_callback_handler, init, Crash, vars
<1>3. CASE process_msg_insert
  <2>1. UNCHANGED <<qin, qout, pub, acked, msg>> /\ pc' = "forward"
    BY <1>3 DEF process_msg_insert
  <2>2. SameQueues
    BY <2>1 DEF InQueue
  <2> QED BY <1>3, <1>h, <1>i, <2>1, <2>2 DEF ForwardInv, Left
<1>4. CASE Receive
  <2>1. EMDC_queue_rcv(qin, msg', qin') /\ UNCHANGED <<qout, pub, acked, db>> /\ pc' \in {"insert", "update"}
    BY <1>4 DEF Receive
  <2>2. msg' \in InQueue(qin) /\ InQueue(qin') \subseteq InQueue(qin)
    BY <1>t, <2>1, ReceiveFacts DEF TypeOK
  <2>3. InQueue(qin)' = InQueue(qin') /\ InQueue(qout)' = InQueue(qout)
    BY <2>1 DEF InQueue
  <2>4. msg'.status # STATUS_TO_DELIVER => msg'.sample \in Stored(db'.work)
    BY <1>i, <2>2 DEF Left
  <2> QED BY <1>i, <2>1, <2>2, <2>3, <2>4 DEF ForwardInv, Left
<1>5. CASE Forward
  <2>1. msg \in EMDCsample /\ pc = "forward" /\ pc' = "timer" /\ msg' = NoMsg
        /\ qout' = EMDC_queue_send(qout, QoutMax, msg) /\ UNCHANGED <<qin, pub, acked>>
    BY <1>5, <1>t DEF Forward, TypeOK, Buffer
  <2>2. InQueue(qout') \subseteq InQueue(qout) \cup {msg}
    BY <1>t, <2>1, SendFacts, DbMgrAssumption DEF TypeOK
  <2>3. InQueue(qin)' = InQueue(qin) /\ InQueue(qout)' = InQueue(qout')
    BY <2>1 DEF InQueue
  <2> QED BY <1>i, <2>1, <2>2, <2>3 DEF ForwardInv, Left
<1>6. CASE PowerLoss
  BY <1>6, <1>h, <1>t DEF PowerLoss, Healthy, TypeOK
<1>7. CASE \E k \in Samples : Capture(k)
  <2>1. PICK k \in Samples : Capture(k)
    BY <1>7
  <2>2. Fresh(k) \in EMDCsample /\ Fresh(k).status = STATUS_TO_DELIVER
    BY DEF Fresh, EMDCsample, Status
  <2>3. InQueue(qin') \subseteq InQueue(qin) \cup {Fresh(k)}
    BY <1>t, <2>1, <2>2, SendFacts, DbMgrAssumption DEF Capture, TypeOK
  <2>4. InQueue(qin)' = InQueue(qin') /\ InQueue(qout)' = InQueue(qout)
    BY <2>1 DEF Capture, InQueue
  <2> QED BY <1>i, <2>1, <2>2, <2>3, <2>4 DEF Capture, ForwardInv, Left
<1>8. CASE PublisherReceive
  <2>1. EMDC_queue_rcv(qout, pub', qout') /\ UNCHANGED <<pc, msg, qin, db, acked>>
    BY <1>8, PublisherFacts
  <2>2. pub' \in InQueue(qout) /\ InQueue(qout') \subseteq InQueue(qout)
    BY <1>t, <2>1, ReceiveFacts DEF TypeOK
  <2>3. InQueue(qin)' = InQueue(qin) /\ InQueue(qout)' = InQueue(qout')
    BY <2>1 DEF InQueue
  <2>4. pub'.sample \in Stored(db'.work)
    BY <1>i, <2>2 DEF Left
  <2> QED BY <1>i, <2>1, <2>2, <2>3, <2>4 DEF ForwardInv, Left
<1>9. CASE PublisherAcked
  <2>1. pub # NoMsg /\ pub \in EMDCsample
    BY <1>9, <1>t, PublisherFacts DEF TypeOK, Buffer
  <2>2. /\ acked' = acked \cup {pub.sample} /\ pub' = Delivered(pub)
        /\ UNCHANGED <<qin, qout, pc, msg, db>>
    BY <1>9, PublisherFacts
  <2>3. pub'.sample = pub.sample
    BY <2>1, <2>2 DEF Delivered, EMDCsample
  <2>4. SameQueues
    BY <2>2 DEF InQueue
  <2> QED BY <1>i, <2>1, <2>2, <2>3, <2>4 DEF ForwardInv, Left
<1>10. CASE PublisherReport
  <2>1. pub # NoMsg /\ pub \in EMDCsample
    BY <1>10, <1>t, PublisherFacts DEF TypeOK, Buffer
  <2>2. /\ qin' = EMDC_queue_send(qin, QinMax, pub) /\ pub' = NoMsg
        /\ UNCHANGED <<pc, msg, qout, db, acked>>
    BY <1>10, PublisherFacts
  <2>3. InQueue(qin') \subseteq InQueue(qin) \cup {pub}
    BY <1>t, <2>1, <2>2, SendFacts, DbMgrAssumption DEF TypeOK
  <2>4. InQueue(qin)' = InQueue(qin') /\ InQueue(qout)' = InQueue(qout)
    BY <2>2 DEF InQueue
  <2> QED BY <1>i, <2>1, <2>2, <2>3, <2>4 DEF ForwardInv, Left
<1>11. CASE PublisherLoses
  <2>1. pub' = NoMsg /\ UNCHANGED <<pc, msg, qin, qout, db, acked>>
    BY <1>11, PublisherFacts
  <2>2. SameQueues
    BY <2>1 DEF InQueue
  <2> QED BY <1>i, <2>1, <2>2 DEF ForwardInv, Left
<1> QED
  BY <1>1, <1>2, <1>3, <1>4, <1>5, <1>6, <1>7, <1>8, <1>9, <1>10, <1>11 DEF Next, Local, Main, Publisher

(* A sample that has left for the publisher has a row, and so has every    *)
(* acknowledged one, until a statement fails or a process is killed        *)
(* (process_msg: insert before forward; fini commits before it closes).    *)
THEOREM ForwardedIsStoredHolds == Spec => []ForwardedIsStored
<1>1. Init => ForwardInv
  BY DEF Init, ForwardInv, InQueue
<1>2. Inv /\ ForwardInv /\ [Next]_vars => (Inv /\ ForwardInv)'
  BY NextInv, NextForwardInv
<1>3. ForwardInv => ForwardedIsStored
  BY DEF ForwardInv, Healthy, ForwardedIsStored, Messages, Left
<1> QED BY <1>1, <1>2, <1>3, InitInv, PTL DEF Spec

-----------------------------------------------------------------------------
(* The contract of the queues, seen from dbmgr's side.  What is about to   *)
(* be inserted and forwarded is fresh.                                     *)
FreshInv == pc \in {"insert", "forward"} => msg.status = STATUS_TO_DELIVER

LEMMA NextFreshInv == FreshInv /\ [Next]_vars => FreshInv'
<1> SUFFICES ASSUME FreshInv, [Next]_vars PROVE FreshInv'
  OBVIOUS
<1> USE DEF FreshInv, own
<1>1. CASE Main
  BY <1>1 DEF Main, Loop, Receive, ReceiveNothing, process_msg_insert, process_msg_update, Forward,
              TimerCheck, TimerClear, fini
<1>2. CASE timer_handler \/ signal_callback_handler \/ init \/ Crash \/ PowerLoss
  BY <1>2 DEF timer_handler, signal_callback_handler, init, Crash, PowerLoss
<1>3. CASE \E k \in Samples : Capture(k)
  BY <1>3 DEF Capture
<1>4. CASE Publisher \/ UNCHANGED vars
  BY <1>4, PublisherFacts DEF Publisher, vars
<1> QED BY <1>1, <1>2, <1>3, <1>4 DEF Next, Local

(* What dbmgr and the captures do to the queues is a neighbour's doing.    *)
LEMMA LocalIsNeighbour ==
  TypeOK /\ FreshInv /\ Local => Contract!Neighbour \/ UNCHANGED Contract!vars
<1> SUFFICES ASSUME TypeOK, FreshInv, Local PROVE Contract!Neighbour \/ UNCHANGED Contract!vars
  OBVIOUS
<1> USE DEF queues, others
<1> DEFINE Mute == UNCHANGED <<qin, qout, pub, acked>>
<1>0. CASE Mute
  BY <1>0 DEF Contract!vars
<1>1. CASE Receive
  <2>1. qin # <<>> /\ qin' = Tail(qin) /\ UNCHANGED <<qout, pub, acked>>
    BY <1>1 DEF Receive, EMDC_queue_rcv
  <2> QED BY <2>1 DEF Contract!Neighbour
<1>2. CASE Forward
  <2>1. /\ pc = "forward" /\ qout' = EMDC_queue_send(qout, QoutMax, msg)
        /\ UNCHANGED <<qin, pub, acked>>
    BY <1>2 DEF Forward
  <2>2. msg \in EMDCsample /\ msg.status = STATUS_TO_DELIVER
    BY <2>1 DEF TypeOK, FreshInv, Buffer
  <2>3. msg.sample \in Samples /\ msg = Fresh(msg.sample)
    BY <2>2 DEF EMDCsample, Fresh
  <2>4. \E k \in Samples : qout' = EMDC_queue_send(qout, QoutMax, Fresh(k))
    BY <2>1, <2>3
  <2> QED BY <2>1, <2>4 DEF Contract!Neighbour, Contract!EMDC_queue_send, EMDC_queue_send,
       Contract!Fresh, Fresh, Contract!STATUS_TO_DELIVER, STATUS_TO_DELIVER
<1>3. CASE \E k \in Samples : Capture(k)
  <2>1. \E k \in Samples : qin' = EMDC_queue_send(qin, QinMax, Fresh(k)) /\ UNCHANGED <<qout, pub, acked>>
    BY <1>3 DEF Capture
  <2> QED BY <2>1 DEF Contract!Neighbour, Contract!EMDC_queue_send, EMDC_queue_send,
       Contract!Fresh, Fresh, Contract!STATUS_TO_DELIVER, STATUS_TO_DELIVER
<1>4. Loop \/ ReceiveNothing \/ process_msg_insert \/ process_msg_update => Mute
  BY DEF Loop, ReceiveNothing, process_msg_insert, process_msg_update
<1>5. TimerCheck \/ TimerClear \/ fini => Mute
  BY DEF TimerCheck, TimerClear, fini
<1>6. timer_handler \/ signal_callback_handler \/ init \/ Crash => Mute
  BY DEF timer_handler, signal_callback_handler, init, Crash
<1> HIDE DEF Mute
<1> QED BY <1>0, <1>1, <1>2, <1>3, <1>4, <1>5, <1>6 DEF Local, Main

Agreed == Publisher \/ Contract!Neighbour \/ Contract!PowerLoss

LEMMA StepIsAgreed == TypeOK /\ FreshInv /\ [Next]_vars => [Agreed]_(Contract!vars)
<1> SUFFICES ASSUME TypeOK, FreshInv, [Next]_vars PROVE [Agreed]_(Contract!vars)
  OBVIOUS
<1>1. CASE Local
  BY <1>1, LocalIsNeighbour DEF Agreed
<1>2. CASE PowerLoss
  BY <1>2 DEF PowerLoss, Agreed, Contract!PowerLoss
<1>3. CASE Publisher
  BY <1>3 DEF Agreed
<1>4. CASE UNCHANGED vars
  BY <1>4 DEF vars, queues, others, Contract!vars
<1> QED BY <1>1, <1>2, <1>3, <1>4 DEF Next

(* What datapublish may rely on: no step but the publisher's does anything *)
(* to the queues, to the sample in its hands or to the acknowledgements    *)
(* that the contract does not say, however dbmgr, a capture or the machine *)
(* ends or fails (main_loop, process_msg).                                 *)
THEOREM HonoursContractHolds == Spec => HonoursContract
<1>1. Init => FreshInv /\ Contract!Init
  BY DEF Init, FreshInv, Contract!Init
<1> QED BY <1>1, NextFreshInv, TypeCorrect, StepIsAgreed, PTL DEF Spec, HonoursContract, Agreed

(* The same as a refinement: dbmgr and its neighbours implement the        *)
(* contract of the two queues, as datapublish and its own do.              *)
THEOREM ImplementsPublisher == Spec => Contract!Spec
<1>1. Publisher => Contract!Step
  BY DEF Publisher, PublisherReceive, PublisherAcked, PublisherReport, PublisherLoses, Contract!Step
<1>2. [Agreed]_(Contract!vars) => [Contract!Next]_(Contract!vars)
  BY <1>1 DEF Agreed, Contract!Next
<1> QED BY <1>2, HonoursContractHolds, PTL DEF HonoursContract, Agreed, Contract!Spec
=============================================================================
