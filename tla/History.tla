------------------------------- MODULE History -------------------------------
(***************************************************************************)
(* The history database that concurrent runs share (history.py), statement *)
(* by statement: every run that writes an HTML report, an audit too, reads *)
(* it (html_report.py), and then every scan adds itself (cli.py).          *)
(*                                                                          *)
(* SQLite makes a statement atomic, lets one connection write at a time,   *)
(* and shows a transaction to the others when it commits.  A connection of *)
(* Python's sqlite3 opens a transaction at the first INSERT only: CREATE   *)
(* TABLE and SELECT stand for themselves.                                  *)
(***************************************************************************)
EXTENDS Integers, Sequences

CONSTANTS
  Runs,       \* runs of the tool, each a process of its own
  Audits,     \* those of them that are `aegis audit`, which records nothing
  Html,       \* those of them that write the HTML report
  TargetsOf,  \* run -> the set of its targets
  Limit       \* how many entries the report asks for

ASSUME HistoryAssumption ==
  /\ Audits \subseteq Runs /\ Html \subseteq Runs
  /\ "nobody" \notin Runs
  /\ Limit \in Nat

VARIABLES
  pc,       \* per run, the statement it is at
  task,     \* per run, what it opened the database for: "show" or "record"
  db,       \* the database as everyone reads it: its tables and their rows
  tx,       \* the database as the write transaction sees it
  writer,   \* the run whose transaction holds the write lock, or Nobody
  unread,   \* per run, the ids get_history has and whose targets it has not
  entries   \* per run, what get_history has put together

vars == <<pc, task, db, tx, writer, unread, entries>>

Nobody == "nobody"

Tables == {"scans", "scan_targets"}

(* Rows of scans are numbered by AUTOINCREMENT and never deleted. *)
Empty == [tables |-> {}, scans |-> <<>>, scan_targets |-> {}]

Ended == {"ok", "raised", "killed"}

(* A scan goes on to ScanHistory().add_scan, an audit to its gate. *)
AfterReports(r) == IF r \in Audits THEN "gate" ELSE "scans"

Init ==
  /\ pc = [r \in Runs |-> IF r \in Html THEN "scans" ELSE AfterReports(r)]
  /\ task = [r \in Runs |-> IF r \in Html THEN "show" ELSE "record"]
  /\ db = Empty /\ tx = Empty /\ writer = Nobody
  /\ unread = [r \in Runs |-> {}] /\ entries = [r \in Runs |-> {}]

At(r, statement) == pc[r] = statement

Goto(r, statement) == pc' = [pc EXCEPT ![r] = statement]

-----------------------------------------------------------------------------
(* CREATE TABLE IF NOT EXISTS needs the write lock when the table does not.  *)
Missing_OnlyWhenEmpty(table) == db.tables = {}

Missing(table) == table \notin db.tables

AfterSchema(r) == IF task[r] = "show" THEN "select" ELSE "insert"

(* ScanHistory(): each table in a statement, and a commit, of its own.       *)
CreateTable(r) ==
  /\ pc[r] \in Tables
  /\ IF Missing(pc[r])
     THEN /\ writer = Nobody
          /\ db' = [db EXCEPT !.tables = @ \cup {pc[r]}]
          /\ tx' = db'
     ELSE UNCHANGED <<db, tx>>
  /\ Goto(r, IF At(r, "scans") THEN "scan_targets" ELSE AfterSchema(r))
  /\ UNCHANGED <<task, writer, unread, entries>>

(* get_history: the newest rows of scans... *)
NewestIds_Oldest == {id \in DOMAIN db.scans : id <= Limit}

NewestIds == {id \in DOMAIN db.scans : id > Len(db.scans) - Limit}

SelectScans(r) ==
  /\ At(r, "select")
  /\ unread' = [unread EXCEPT ![r] = NewestIds]
  /\ Goto(r, "select targets")
  /\ UNCHANGED <<task, db, tx, writer, entries>>

(* ... and a query for the targets of each, newest first, which may see what *)
(* others have committed since.                                              *)
Entry(id) == [id |-> id, targets |-> {row[2] : row \in {r \in db.scan_targets : r[1] = id}}]

SelectTargets(r) ==
  /\ At(r, "select targets")
  /\ \E id \in unread[r] :
       /\ \A other \in unread[r] : other <= id
       /\ entries' = [entries EXCEPT ![r] = @ \cup {Entry(id)}]
       /\ unread' = [unread EXCEPT ![r] = @ \ {id}]
  /\ UNCHANGED <<pc, task, db, tx, writer>>

(* The report is rendered and written.                                       *)
WriteHtml(r) ==
  /\ At(r, "select targets") /\ unread[r] = {}
  /\ task' = [task EXCEPT ![r] = "record"]
  /\ Goto(r, AfterReports(r))
  /\ UNCHANGED <<db, tx, writer, unread, entries>>

(* What the other connections see of a transaction after one of its          *)
(* statements, before it is committed.                                       *)
SeenByOthers_Autocommit(view) == view

SeenByOthers(view) == db

(* add_scan: the first INSERT opens the transaction and takes the lock... *)
InsertScan(r) ==
  /\ At(r, "insert") /\ writer = Nobody
  /\ writer' = r
  /\ tx' = [db EXCEPT !.scans = Append(@, r)]
  /\ db' = SeenByOthers(tx')
  /\ Goto(r, "insert targets")
  /\ UNCHANGED <<task, unread, entries>>

ToInsert(r) == {<<Len(tx.scans), url>> : url \in TargetsOf[r]} \ tx.scan_targets

(* ... each target is a row, under the id of the scan (cur.lastrowid)...     *)
InsertTarget(r) ==
  /\ At(r, "insert targets")
  /\ \E row \in ToInsert(r) : tx' = [tx EXCEPT !.scan_targets = @ \cup {row}]
  /\ db' = SeenByOthers(tx')
  /\ UNCHANGED <<pc, task, writer, unread, entries>>

(* ... and the commit shows them all.                                        *)
Commit(r) ==
  /\ At(r, "insert targets") /\ ToInsert(r) = {}
  /\ db' = tx /\ writer' = Nobody
  /\ Goto(r, "gate")
  /\ UNCHANGED <<task, tx, unread, entries>>

(* The run goes on to its gate and ends. *)
Finish(r) ==
  /\ At(r, "gate")
  /\ Goto(r, "ok")
  /\ UNCHANGED <<task, db, tx, writer, unread, entries>>

-----------------------------------------------------------------------------
(* `with conn` rolls back at an exception; a process that dies leaves its    *)
(* changes to the journal, with the same effect.                             *)
Released_ByCommitOnly(r) == writer

Released(r) == IF writer = r THEN Nobody ELSE writer

GiveUp(r) ==
  /\ pc[r] \notin Ended
  /\ tx' = IF writer = r THEN db ELSE tx
  /\ writer' = Released(r)
  /\ UNCHANGED <<task, db, unread, entries>>

(* Any statement may fail: a full disk, or a lock not had within 5 seconds.  *)
Raise(r) == GiveUp(r) /\ Goto(r, "raised")

Kill(r) == GiveUp(r) /\ Goto(r, "killed")

Work(r) ==
  \/ CreateTable(r)
  \/ SelectScans(r) \/ SelectTargets(r) \/ WriteHtml(r)
  \/ InsertScan(r) \/ InsertTarget(r) \/ Commit(r) \/ Finish(r)

Next == \E r \in Runs : Work(r) \/ Raise(r) \/ Kill(r)

Spec == Init /\ [][Next]_vars

(* A process that can go on does; that a statement fails is not relied on.  *)
FairSpec == Spec /\ \A r \in Runs : WF_vars(Work(r))

-----------------------------------------------------------------------------
Url == UNION {TargetsOf[r] : r \in Runs}

Database ==
  [tables : SUBSET Tables, scans : Seq(Runs), scan_targets : SUBSET (Nat \X Url)]

TypeOK ==
  /\ pc \in [Runs -> Tables \cup Ended \cup
               {"select", "select targets", "insert", "insert targets", "gate"}]
  /\ task \in [Runs -> {"show", "record"}]
  /\ db \in Database /\ tx \in Database
  /\ writer \in Runs \cup {Nobody}
  /\ unread \in [Runs -> SUBSET Nat]
  /\ entries \in [Runs -> SUBSET [id : Nat, targets : SUBSET Url]]

(* The queries of get_history are no transaction, yet each entry it returns  *)
(* is whole: exactly the targets of the scan that was recorded under its id, *)
(* whoever records, fails or dies meanwhile.                                 *)
EntriesWhole ==
  \A r \in Runs : \A e \in entries[r] :
    e.id \in DOMAIN db.scans /\ e.targets = TargetsOf[db.scans[e.id]]

(* No query or insertion meets a table that is not there, whatever a run     *)
(* that died in the middle of ScanHistory() left behind.                     *)
TablesReady ==
  \A r \in Runs :
    pc[r] \in {"select", "select targets", "insert", "insert targets"} => db.tables = Tables

(* No run waits for ever on the write lock, not even on that of a run that   *)
(* raised or died between its first INSERT and the commit.                   *)
EveryRunEnds == \A r \in Runs : <>(pc[r] \in Ended)

(* The scans that share the database see it as HistoryLog says: a log that   *)
(* scans add themselves to once and whole, read at one moment, that of the   *)
(* first query.                                                              *)
Shown(r) == entries[r] \cup {Entry(id) : id \in unread[r]}

Outcome(r) ==
  CASE pc[r] = "ok" -> "ok"
    [] pc[r] \in {"raised", "killed"} -> "failed"
    [] OTHER -> "running"

Log == INSTANCE HistoryLog WITH
  log <- db.scans,
  shown <- [r \in Runs |-> Shown(r)],
  outcome <- [r \in Runs |-> Outcome(r)]

ImplementsLog == Log!Spec
=============================================================================
