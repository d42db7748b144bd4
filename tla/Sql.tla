-------------------------------- MODULE Sql --------------------------------
(* The samples table of dbmgr's SQLite file, as sql.c uses it.  disk is    *)
(* what a crash leaves; work is what the connection reads and writes; tx   *)
(* says whether "begin transaction" is in force.  Without a transaction a  *)
(* statement commits itself.                                               *)
(*                                                                         *)
(* A statement or a commit ends "ok", "busy" (SQLITE_BUSY: another         *)
(* connection holds the lock, the transaction stays open) or "full"        *)
(* (SQLITE_FULL, SQLITE_IOERR, SQLITE_NOMEM: SQLite rolls the transaction  *)
(* back by itself).                                                        *)
EXTENDS EmdcSample

Absent == "ABSENT"

Table == [Samples -> Status \cup {Absent}]

Database == [disk : Table, work : Table, tx : BOOLEAN]

Outcome == {"ok", "busy", "full"}

EmptyTable == [k \in Samples |-> Absent]

EmptyDatabase == [disk |-> EmptyTable, work |-> EmptyTable, tx |-> FALSE]

Stored(t) == {k \in Samples : t[k] # Absent}

(* The rows a crash would lose or take back.                               *)
AtRisk(d) == {k \in Samples : d.work[k] # d.disk[k]}

(* The uncommitted changes are undone: by "rollback", by SQLite when a     *)
(* statement fails "full", and by sqlite3_close or the end of the process. *)
Rollback(d) == [d EXCEPT !.work = d.disk, !.tx = FALSE]

(* A "begin transaction" inside a transaction is refused: nothing changes. *)
EMDC_sql_begin_tnx(d) == [d EXCEPT !.tx = TRUE]

(* What the statement that writes table t leaves.                          *)
Written(d, t, r) ==
  CASE r = "ok" -> [d EXCEPT !.work = t, !.disk = IF d.tx THEN d.disk ELSE t]
    [] r = "busy" -> d
    [] r = "full" -> Rollback(d)

(* A mutation of EMDC_sql_insert: "insert or replace".                     *)
InsertOrReplace(d, k, s, r) == Written(d, [d.work EXCEPT ![k] = s], r)

(* "insert into samples": a row with the same primary key makes it fail    *)
(* with SQLITE_CONSTRAINT; the transaction goes on.                        *)
EMDC_sql_insert(d, k, s, r) ==
  IF d.work[k] = Absent THEN Written(d, [d.work EXCEPT ![k] = s], r) ELSE d

(* A mutation of EMDC_sql_update: the where clause forgets the meter, and  *)
(* every row changes.                                                      *)
UpdateEveryRow(d, s, k, r) ==
  Written(d, [j \in Samples |-> IF d.work[j] = Absent THEN Absent ELSE s], r)

(* "update samples set status where key": no row, no change.               *)
EMDC_sql_update(d, s, k, r) ==
  IF d.work[k] = Absent THEN d ELSE Written(d, [d.work EXCEPT ![k] = s], r)

(* The return code of EMDC_sql_commit_tnx: "commit" without a transaction  *)
(* ("cannot commit - no transaction is active") fails too.                 *)
CommitSucceeds(d, r) == d.tx /\ r = "ok"

EMDC_sql_commit_tnx(d, r) ==
  IF CommitSucceeds(d, r) THEN [d EXCEPT !.disk = d.work, !.tx = FALSE]
  ELSE IF r = "full" THEN Rollback(d) ELSE d

EMDC_sql_release(d) == Rollback(d)
===========================================================================
