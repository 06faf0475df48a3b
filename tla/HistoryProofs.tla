---------------------------- MODULE HistoryProofs ----------------------------
(***************************************************************************)
(* Proofs about History, for any number of runs, scans and audits, any     *)
(* targets and any length of the report's history: what get_history        *)
(* returns is whole, no statement meets a missing table, and the database  *)
(* is the log that HistoryLog describes.                                   *)
(***************************************************************************)
EXTENDS History, SequenceTheorems, TLAPS

(* A transaction is held exactly where add_scan is between its first INSERT *)
(* and the commit.                                                          *)
OneWriter == \A r \in Runs : At(r, "insert targets") <=> writer = r

(* What it has done: its scan is the last, and each new row is one of it.   *)
Transaction ==
  /\ writer = Nobody => tx = db
  /\ \A r \in Runs : writer = r =>
       /\ tx.tables = db.tables /\ tx.scans = Append(db.scans, r)
       /\ db.scan_targets \subseteq tx.scan_targets
       /\ \A row \in tx.scan_targets \ db.scan_targets :
            row[1] = Len(tx.scans) /\ row[2] \in TargetsOf[r]

(* What the others see: the rows of each scan are its targets. *)
RowsWhole ==
  /\ \A row \in db.scan_targets :
       row[1] \in DOMAIN db.scans /\ row[2] \in TargetsOf[db.scans[row[1]]]
  /\ \A id \in DOMAIN db.scans : \A url \in TargetsOf[db.scans[id]] :
       <<id, url>> \in db.scan_targets

UnreadThere == \A r \in Runs : unread[r] \subseteq DOMAIN db.scans

(* The tables are created one after the other. *)
Schema ==
  /\ TablesReady
  /\ \A r \in Runs : At(r, "scan_targets") => "scans" \in db.tables

IInv ==
  TypeOK /\ OneWriter /\ Transaction /\ RowsWhole /\ UnreadThere /\ Schema /\ EntriesWhole

-----------------------------------------------------------------------------
(* What the query for the targets of a recorded scan brings: its targets.   *)
LEMMA EntryIsWhole ==
  ASSUME TypeOK, RowsWhole, NEW id \in DOMAIN db.scans
  PROVE  Entry(id) = [id |-> id, targets |-> TargetsOf[db.scans[id]]]
<1>1. ASSUME NEW url \in {row[2] : row \in {r \in db.scan_targets : r[1] = id}}
      PROVE  url \in TargetsOf[db.scans[id]]
  BY <1>1 DEF RowsWhole
<1>2. ASSUME NEW url \in TargetsOf[db.scans[id]]
      PROVE  url \in {row[2] : row \in {r \in db.scan_targets : r[1] = id}}
  <2>1. <<id, url>> \in db.scan_targets
    BY DEF RowsWhole
  <2> QED BY <2>1
<1> QED BY <1>1, <1>2 DEF Entry

(* Before any run has made a statement. *)
LEMMA InitHolds ==
  ASSUME Init PROVE IInv
<1> USE HistoryAssumption
<1>1. Empty \in Database
  BY DEF Empty, Database
<1>2. TypeOK
  BY <1>1 DEF Init, TypeOK, AfterReports, Tables, Nobody
<1>3. \A r \in Runs : pc[r] \in {"scans", "gate"}
  BY DEF Init, AfterReports
<1>4. OneWriter
  BY <1>3 DEF Init, OneWriter, At, Nobody
<1>5. Transaction /\ RowsWhole /\ UnreadThere /\ EntriesWhole
  BY DEF Init, Transaction, RowsWhole, UnreadThere, EntriesWhole, Empty, Nobody
<1>6. Schema
  BY <1>3 DEF Schema, TablesReady, At
<1> QED BY <1>2, <1>4, <1>5, <1>6 DEF IInv

(* A statement of one run that leaves the database, the transaction and the *)
(* lock alone, and enters or leaves no transaction.                         *)
LEMMA ReadKeeps ==
  ASSUME IInv, TypeOK', NEW r \in Runs, UNCHANGED <<db, tx, writer>>,
         NEW to, pc' = [pc EXCEPT ![r] = to], to # "insert targets", pc[r] # "insert targets",
         to \in {"select", "select targets", "insert"} => db.tables = Tables,
         to = "scan_targets" => "scans" \in db.tables,
         \A s \in Runs \ {r} : unread'[s] = unread[s] /\ entries'[s] = entries[s],
         unread'[r] \subseteq DOMAIN db.scans,
         \A e \in entries'[r] :
           e.id \in DOMAIN db.scans /\ e.targets = TargetsOf[db.scans[e.id]]
  PROVE  IInv'
<1>1. OneWriter'
  BY DEF IInv, TypeOK, OneWriter, At
<1>2. Transaction' /\ RowsWhole'
  BY DEF IInv, Transaction, RowsWhole
<1>3. UnreadThere' /\ EntriesWhole'
  BY DEF IInv, UnreadThere, EntriesWhole
<1>4. Schema'
  BY DEF IInv, TypeOK, Schema, TablesReady, At
<1> QED BY <1>1, <1>2, <1>3, <1>4 DEF IInv

(* What a database is made of, and what an update of one part leaves. *)
LEMMA DatabaseParts ==
  ASSUME NEW d \in Database
  PROVE  /\ d.tables \subseteq Tables /\ d.scans \in Seq(Runs)
         /\ Len(d.scans) \in Nat /\ DOMAIN d.scans = 1..Len(d.scans)
         /\ d.scan_targets \subseteq Nat \X Url
<1>1. d.scans \in Seq(Runs)
  BY DEF Database
<1>2. Len(d.scans) \in Nat /\ DOMAIN d.scans = 1..Len(d.scans)
  BY <1>1, LenProperties
<1> QED BY <1>1, <1>2 DEF Database

LEMMA TablesUpdate ==
  ASSUME NEW d \in Database, NEW T \in SUBSET Tables
  PROVE  LET e == [d EXCEPT !.tables = T]
         IN  /\ e \in Database
             /\ e.tables = T /\ e.scans = d.scans /\ e.scan_targets = d.scan_targets
BY DEF Database

LEMMA ScansUpdate ==
  ASSUME NEW d \in Database, NEW s \in Seq(Runs)
  PROVE  LET e == [d EXCEPT !.scans = s]
         IN  /\ e \in Database
             /\ e.tables = d.tables /\ e.scans = s /\ e.scan_targets = d.scan_targets
BY DEF Database

LEMMA RowsUpdate ==
  ASSUME NEW d \in Database, NEW R \in SUBSET (Nat \X Url)
  PROVE  LET e == [d EXCEPT !.scan_targets = R]
         IN  /\ e \in Database
             /\ e.tables = d.tables /\ e.scans = d.scans /\ e.scan_targets = R
BY DEF Database

LEMMA NewestAreNumbers ==
  ASSUME db \in Database
  PROVE  NewestIds \subseteq Nat
<1>1. \A id \in DOMAIN db.scans : id \in Nat
  BY DatabaseParts
<1> QED BY <1>1 DEF NewestIds

LEMMA EntryTyped ==
  ASSUME db \in Database, NEW id \in Nat
  PROVE  Entry(id) \in [id : Nat, targets : SUBSET Url]
<1>1. \A row \in db.scan_targets : row[2] \in Url
  BY DatabaseParts
<1>2. Entry(id).targets \subseteq Url
  BY <1>1 DEF Entry
<1> QED BY <1>2 DEF Entry

(* Every step keeps the types. *)
LEMMA TypeStep ==
  ASSUME TypeOK, [Next]_vars
  PROVE  TypeOK'
<1> USE HistoryAssumption
<1> SUFFICES ASSUME NEW r \in Runs, Work(r) \/ Raise(r) \/ Kill(r)
             PROVE  TypeOK'
  BY DEF Next, vars, TypeOK
<1> USE DEF TypeOK, Goto, At
<1>1. CASE CreateTable(r)
  <2>1. pc' \in [Runs -> Tables \cup Ended \cup
                    {"select", "select targets", "insert", "insert targets", "gate"}]
    BY <1>1 DEF CreateTable, AfterSchema, Tables
  <2>2. db' \in Database /\ tx' \in Database
    <3>1. db.tables \cup {pc[r]} \in SUBSET Tables
      BY <1>1, DatabaseParts DEF CreateTable
    <3>2. CASE Missing(pc[r])
      <4>1. db' = [db EXCEPT !.tables = db.tables \cup {pc[r]}] /\ tx' = db'
        BY <1>1, <3>2 DEF CreateTable
      <4> QED BY <3>1, <4>1, TablesUpdate
    <3>3. CASE ~Missing(pc[r])
      BY <1>1, <3>3 DEF CreateTable
    <3> QED BY <3>2, <3>3
  <2> QED BY <1>1, <2>1, <2>2 DEF CreateTable
<1>2. CASE SelectScans(r)
  <2>1. NewestIds \subseteq Nat
    BY NewestAreNumbers
  <2> QED BY <1>2, <2>1 DEF SelectScans
<1>3. CASE SelectTargets(r)
  <2>1. PICK id \in unread[r] :
          /\ entries' = [entries EXCEPT ![r] = @ \cup {Entry(id)}]
          /\ unread' = [unread EXCEPT ![r] = @ \ {id}]
    BY <1>3 DEF SelectTargets
  <2>2. Entry(id) \in [id : Nat, targets : SUBSET Url]
    BY <2>1, EntryTyped
  <2> QED BY <1>3, <2>1, <2>2 DEF SelectTargets
<1>4. CASE WriteHtml(r)
  BY <1>4 DEF WriteHtml, AfterReports, Tables
<1>5. CASE InsertScan(r)
  <2>1. tx' \in Database /\ db' \in Database
    <3>1. Append(db.scans, r) \in Seq(Runs)
      BY DatabaseParts, AppendProperties
    <3>2. tx' = [db EXCEPT !.scans = Append(db.scans, r)] /\ db' = db
      BY <1>5 DEF InsertScan, SeenByOthers
    <3> QED BY <3>1, <3>2, ScansUpdate
  <2> QED BY <1>5, <2>1 DEF InsertScan
<1>6. CASE InsertTarget(r)
  <2>1. PICK row \in ToInsert(r) : tx' = [tx EXCEPT !.scan_targets = @ \cup {row}]
    BY <1>6 DEF InsertTarget
  <2>2. row \in Nat \X Url
    <3>1. PICK url \in TargetsOf[r] : row = <<Len(tx.scans), url>>
      BY <2>1 DEF ToInsert
    <3>2. url \in Url
      BY <3>1 DEF Url
    <3>3. Len(tx.scans) \in Nat
      BY DatabaseParts
    <3> QED BY <3>1, <3>2, <3>3
  <2>3. tx' \in Database /\ db' \in Database
    <3>1. tx.scan_targets \cup {row} \in SUBSET (Nat \X Url)
      BY <2>2, DatabaseParts
    <3>2. tx' = [tx EXCEPT !.scan_targets = tx.scan_targets \cup {row}] /\ db' = db
      BY <1>6, <2>1 DEF InsertTarget, SeenByOthers
    <3> QED BY <3>1, <3>2, RowsUpdate
  <2> QED BY <1>6, <2>3 DEF InsertTarget
<1>7. CASE Commit(r)
  BY <1>7 DEF Commit
<1>8. CASE Finish(r)
  BY <1>8 DEF Finish, Ended
<1>9. CASE Raise(r) \/ Kill(r)
  BY <1>9 DEF Raise, Kill, GiveUp, Released, Ended
<1> QED BY <1>1, <1>2, <1>3, <1>4, <1>5, <1>6, <1>7, <1>8, <1>9 DEF Work

(* A table appears: what was there stays, and nobody is in a transaction.   *)
LEMMA CreateTableKeeps ==
  ASSUME IInv, TypeOK', NEW r \in Runs, CreateTable(r)
  PROVE  IInv'
<1> USE DEF IInv, Goto, At
<1>1. db'.tables = db.tables \cup {pc[r]} /\ db'.scans = db.scans
        /\ db'.scan_targets = db.scan_targets
  <2>1. db.tables \cup {pc[r]} \in SUBSET Tables
    BY DatabaseParts DEF CreateTable, TypeOK
  <2>2. CASE Missing(pc[r])
    <3>1. db' = [db EXCEPT !.tables = db.tables \cup {pc[r]}]
      BY <2>2 DEF CreateTable
    <3> QED BY <2>1, <3>1, TablesUpdate DEF TypeOK
  <2>3. CASE ~Missing(pc[r])
    BY <2>3 DEF CreateTable, Missing
  <2> QED BY <2>2, <2>3
<1>2. pc[r] \in Tables /\ pc'[r] \in {"scan_targets", "select", "insert"}
        /\ \A s \in Runs \ {r} : pc'[s] = pc[s]
  BY DEF CreateTable, AfterSchema, TypeOK
<1>3. OneWriter'
  BY <1>2 DEF OneWriter, CreateTable, TypeOK, Tables
<1>4. Transaction'
  BY DEF Transaction, CreateTable, Missing, Nobody, HistoryAssumption
<1>5. RowsWhole'
  BY <1>1 DEF RowsWhole
<1>6. UnreadThere' /\ EntriesWhole'
  BY <1>1 DEF UnreadThere, EntriesWhole, CreateTable
<1>7. Schema'
  <2>1. db'.tables \subseteq Tables
    BY DEF TypeOK, Database
  <2>2. CASE pc[r] = "scans"
    BY <1>1, <1>2, <2>1, <2>2 DEF Schema, TablesReady, CreateTable, TypeOK
  <2>3. CASE pc[r] = "scan_targets"
    BY <1>1, <1>2, <2>1, <2>3 DEF Schema, TablesReady, Tables
  <2> QED BY <1>2, <2>2, <2>3 DEF Tables
<1> QED BY <1>3, <1>4, <1>5, <1>6, <1>7

(* get_history, the report, and the gate. *)
LEMMA ReadersKeep ==
  ASSUME IInv, TypeOK', NEW r \in Runs,
         SelectScans(r) \/ SelectTargets(r) \/ WriteHtml(r) \/ Finish(r)
  PROVE  IInv'
<1> USE DEF At, Goto
<1>1. CASE SelectScans(r)
  <2>1. NewestIds \subseteq DOMAIN db.scans
    BY DEF NewestIds
  <2>2. db.tables = Tables
    BY <1>1 DEF SelectScans, IInv, Schema, TablesReady
  <2> QED
    BY <1>1, <2>1, <2>2, ReadKeeps DEF SelectScans, IInv, EntriesWhole, TypeOK
<1>2. CASE SelectTargets(r)
  <2>1. PICK id \in unread[r] :
          /\ entries' = [entries EXCEPT ![r] = @ \cup {Entry(id)}]
          /\ unread' = [unread EXCEPT ![r] = @ \ {id}]
    BY <1>2 DEF SelectTargets
  <2>2. id \in DOMAIN db.scans
    BY DEF IInv, UnreadThere
  <2>3. Entry(id).id = id /\ Entry(id).targets = TargetsOf[db.scans[id]]
    BY <2>2, EntryIsWhole DEF IInv
  <2>4. UNCHANGED <<pc, db, tx, writer>>
    BY <1>2 DEF SelectTargets
  <2>5. EntriesWhole' /\ UnreadThere'
    BY <2>1, <2>2, <2>3, <2>4 DEF IInv, EntriesWhole, UnreadThere, TypeOK
  <2> QED
    BY <2>4, <2>5 DEF IInv, OneWriter, Transaction, RowsWhole, Schema, TablesReady
<1>3. CASE WriteHtml(r)
  <2>1. AfterReports(r) \in {"scans", "gate"}
    BY DEF AfterReports
  <2> QED
    BY <1>3, <2>1, ReadKeeps DEF WriteHtml, IInv, EntriesWhole, UnreadThere, TypeOK
<1>4. CASE Finish(r)
  BY <1>4, ReadKeeps DEF Finish, IInv, EntriesWhole, UnreadThere, TypeOK
<1> QED BY <1>1, <1>2, <1>3, <1>4

(* add_scan before its commit: nobody else sees anything of it.             *)
LEMMA InsertScanKeeps ==
  ASSUME IInv, TypeOK', NEW r \in Runs, InsertScan(r)
  PROVE  IInv'
<1> USE DEF At, Goto
<1>1. tx = db /\ db' = db
  BY DEF InsertScan, SeenByOthers, IInv, Transaction
<1>2. writer = Nobody /\ writer' = r /\ r # Nobody
  BY HistoryAssumption DEF InsertScan, Nobody
<1>3. pc'[r] = "insert targets" /\ \A s \in Runs \ {r} : pc'[s] = pc[s]
  BY DEF InsertScan, IInv, TypeOK
<1>4. /\ tx'.tables = db.tables /\ tx'.scans = Append(db.scans, r)
      /\ tx'.scan_targets = db.scan_targets
  <2>1. Append(db.scans, r) \in Seq(Runs)
    BY DatabaseParts, AppendProperties DEF IInv, TypeOK
  <2> QED BY <2>1, ScansUpdate DEF InsertScan, IInv, TypeOK
<1>5. OneWriter'
  BY <1>2, <1>3, HistoryAssumption DEF IInv, OneWriter, Nobody
<1>6. Transaction'
  BY <1>1, <1>2, <1>4 DEF Transaction
<1>7. RowsWhole' /\ UnreadThere' /\ EntriesWhole'
  BY <1>1 DEF InsertScan, IInv, RowsWhole, UnreadThere, EntriesWhole
<1>8. Schema'
  <2>1. db.tables = Tables
    BY DEF InsertScan, IInv, Schema, TablesReady
  <2> QED BY <1>1, <1>3, <2>1 DEF IInv, Schema, TablesReady
<1> QED BY <1>5, <1>6, <1>7, <1>8 DEF IInv

LEMMA InsertTargetKeeps ==
  ASSUME IInv, TypeOK', NEW r \in Runs, InsertTarget(r)
  PROVE  IInv'
<1> USE DEF At
<1>1. writer = r /\ r # Nobody
  BY HistoryAssumption DEF InsertTarget, IInv, OneWriter, Nobody
<1>2. UNCHANGED <<pc, db, writer, unread, entries>>
  BY DEF InsertTarget, SeenByOthers
<1>3. PICK row \in ToInsert(r) : tx' = [tx EXCEPT !.scan_targets = tx.scan_targets \cup {row}]
  BY DEF InsertTarget
<1>4. row[1] = Len(tx.scans) /\ row[2] \in TargetsOf[r]
  BY DEF ToInsert
<1>5. /\ tx'.tables = tx.tables /\ tx'.scans = tx.scans
      /\ tx'.scan_targets = tx.scan_targets \cup {row}
  BY <1>3 DEF IInv, TypeOK, Database
<1>6. Transaction'
  BY <1>1, <1>2, <1>4, <1>5 DEF IInv, Transaction
<1>7. OneWriter' /\ RowsWhole' /\ UnreadThere' /\ EntriesWhole' /\ Schema'
  BY <1>2 DEF IInv, OneWriter, RowsWhole, UnreadThere, EntriesWhole, Schema, TablesReady
<1> QED BY <1>6, <1>7 DEF IInv

(* The commit: the log grows by a scan all of whose rows are there.         *)
LEMMA CommitAppends ==
  ASSUME IInv, NEW r \in Runs, Commit(r)
  PROVE  /\ writer = r /\ db'.tables = db.tables
         /\ db'.scans = Append(db.scans, r)
         /\ DOMAIN db.scans \subseteq DOMAIN db'.scans
         /\ \A id \in DOMAIN db.scans : db'.scans[id] = db.scans[id]
         /\ RowsWhole'
<1>1. writer = r
  BY HistoryAssumption DEF Commit, IInv, OneWriter, At
<1>2. db' = tx
  BY DEF Commit
<1>3. /\ tx.tables = db.tables /\ tx.scans = Append(db.scans, r)
      /\ db.scan_targets \subseteq tx.scan_targets
      /\ \A row \in tx.scan_targets \ db.scan_targets :
           row[1] = Len(tx.scans) /\ row[2] \in TargetsOf[r]
  BY <1>1 DEF IInv, Transaction
<1>4. /\ db.scans \in Seq(Runs) /\ Len(db.scans) \in Nat
      /\ DOMAIN db.scans = 1..Len(db.scans)
  BY DatabaseParts DEF IInv, TypeOK
<1> DEFINE n == Len(db.scans) + 1
<1>5. /\ Len(tx.scans) = n /\ DOMAIN tx.scans = 1..n /\ tx.scans[n] = r
      /\ \A id \in 1..Len(db.scans) : tx.scans[id] = db.scans[id]
  BY <1>3, <1>4, AppendProperties, LenProperties
<1>6. ASSUME NEW row \in tx.scan_targets
      PROVE  row[1] \in DOMAIN tx.scans /\ row[2] \in TargetsOf[tx.scans[row[1]]]
  <2>1. CASE row \in db.scan_targets
    <3>1. row[1] \in DOMAIN db.scans /\ row[2] \in TargetsOf[db.scans[row[1]]]
      BY <2>1 DEF IInv, RowsWhole
    <3> QED BY <1>4, <1>5, <3>1
  <2>2. CASE row \notin db.scan_targets
    <3>1. row[1] = n /\ row[2] \in TargetsOf[r]
      BY <1>3, <1>5, <2>2
    <3> QED BY <1>4, <1>5, <3>1
  <2> QED BY <2>1, <2>2
<1>7. ASSUME NEW id \in DOMAIN tx.scans, NEW url \in TargetsOf[tx.scans[id]]
      PROVE  <<id, url>> \in tx.scan_targets
  <2>1. CASE id \in DOMAIN db.scans
    <3>1. url \in TargetsOf[db.scans[id]]
      BY <1>4, <1>5, <2>1
    <3> QED BY <1>3, <2>1, <3>1 DEF IInv, RowsWhole
  <2>2. CASE id = n
    <3>1. url \in TargetsOf[r]
      BY <1>5, <2>2
    <3>2. <<n, url>> \in {<<Len(tx.scans), u>> : u \in TargetsOf[r]}
      BY <1>5, <3>1
    <3> QED BY <2>2, <3>2 DEF Commit, ToInsert
  <2> QED BY <1>4, <1>5, <2>1, <2>2
<1>8. RowsWhole'
  BY <1>2, <1>6, <1>7 DEF RowsWhole
<1> QED BY <1>1, <1>2, <1>3, <1>4, <1>5, <1>8

LEMMA CommitKeeps ==
  ASSUME IInv, TypeOK', NEW r \in Runs, Commit(r)
  PROVE  IInv'
<1> USE CommitAppends DEF At, Goto
<1>1. pc'[r] = "gate" /\ \A s \in Runs \ {r} : pc'[s] = pc[s]
  BY DEF Commit, IInv, TypeOK
<1>2. writer' = Nobody /\ tx' = tx /\ db' = tx /\ UNCHANGED <<unread, entries>>
  BY DEF Commit
<1>3. OneWriter'
  BY <1>1, <1>2, HistoryAssumption DEF IInv, OneWriter, Nobody
<1>4. Transaction'
  BY <1>2, HistoryAssumption DEF Transaction, Nobody
<1>5. UnreadThere'
  BY <1>2 DEF IInv, UnreadThere
<1>6. EntriesWhole'
  BY <1>2 DEF IInv, EntriesWhole
<1>7. Schema'
  BY <1>1 DEF IInv, Schema, TablesReady
<1> QED BY <1>3, <1>4, <1>5, <1>6, <1>7 DEF IInv

(* A run that raises or dies gives up the lock, and its changes with it.    *)
LEMMA GiveUpKeeps ==
  ASSUME IInv, TypeOK', NEW r \in Runs, Raise(r) \/ Kill(r)
  PROVE  IInv'
<1> USE DEF At, Goto
<1>1. pc'[r] \in {"raised", "killed"} /\ \A s \in Runs \ {r} : pc'[s] = pc[s]
  BY DEF Raise, Kill, GiveUp, IInv, TypeOK
<1>2. UNCHANGED <<task, db, unread, entries>>
  BY DEF Raise, Kill, GiveUp
<1>3. /\ writer' = IF writer = r THEN Nobody ELSE writer
      /\ tx' = IF writer = r THEN db ELSE tx
  BY DEF Raise, Kill, GiveUp, Released
<1>4. OneWriter'
  BY <1>1, <1>3, HistoryAssumption DEF IInv, OneWriter, Nobody
<1>5. Transaction'
  BY <1>2, <1>3, HistoryAssumption DEF IInv, Transaction, Nobody
<1>6. RowsWhole' /\ UnreadThere' /\ EntriesWhole'
  BY <1>2 DEF IInv, RowsWhole, UnreadThere, EntriesWhole
<1>7. Schema'
  BY <1>1, <1>2 DEF IInv, Schema, TablesReady
<1> QED BY <1>4, <1>5, <1>6, <1>7 DEF IInv

LEMMA NextKeeps ==
  ASSUME IInv, [Next]_vars
  PROVE  IInv'
<1>1. TypeOK'
  BY TypeStep DEF IInv
<1>2. CASE UNCHANGED vars
  BY <1>2 DEF vars, IInv, TypeOK, OneWriter, Transaction, RowsWhole, UnreadThere, Schema,
              TablesReady, EntriesWhole, At
<1>3. ASSUME NEW r \in Runs, Work(r) \/ Raise(r) \/ Kill(r)
      PROVE  IInv'
  BY <1>1, <1>3, CreateTableKeeps, ReadersKeep, InsertScanKeeps, InsertTargetKeeps,
     CommitKeeps, GiveUpKeeps DEF Work
<1> QED BY <1>2, <1>3 DEF Next

-----------------------------------------------------------------------------
LEMMA InvariantHolds == Spec => []IInv
<1>1. Init => IInv
  BY InitHolds
<1>2. IInv /\ [Next]_vars => IInv'
  BY NextKeeps
<1> QED BY <1>1, <1>2, PTL DEF Spec

(* TypeOK is an invariant for any runs. *)
THEOREM HistoryTyped == Spec => []TypeOK
<1>1. IInv => TypeOK
  BY DEF IInv
<1> QED BY <1>1, InvariantHolds, PTL

(* Every entry that get_history returns has exactly the targets of the scan *)
(* recorded under its id, although a query of its own brings them.          *)
THEOREM NoTornEntry == Spec => []EntriesWhole
<1>1. IInv => EntriesWhole
  BY DEF IInv
<1> QED BY <1>1, InvariantHolds, PTL

(* No SELECT or INSERT runs before both its tables are there.               *)
THEOREM SchemaComesFirst == Spec => []TablesReady
<1>1. IInv => TablesReady
  BY DEF IInv, Schema
<1> QED BY <1>1, InvariantHolds, PTL

-----------------------------------------------------------------------------
(* How far a run is, by what it has recorded and read.                      *)
Recorded(r) == \E id \in DOMAIN db.scans : db.scans[id] = r

Progress ==
  \A r \in Runs :
    /\ Recorded(r) => pc[r] \in {"gate", "ok", "raised", "killed"}
    /\ pc[r] \in {"gate", "ok"} => Recorded(r) \/ r \in Audits
    /\ pc[r] \in {"insert", "insert targets"} => r \notin Audits
    /\ pc[r] \in Tables /\ task[r] = "record" => r \notin Audits
    /\ pc[r] \in Tables /\ task[r] = "show" => entries[r] = {}
    /\ pc[r] = "select" => entries[r] = {}

LEMMA ProgressStarts ==
  ASSUME Init PROVE Progress
<1>1. db.scans = <<>>
  BY DEF Init, Empty
<1>2. \A r \in Runs : ~Recorded(r)
  BY <1>1 DEF Recorded
<1> QED BY <1>2 DEF Init, Progress, AfterReports, Tables

(* What is recorded changes at a commit alone.                              *)
LEMMA RecordedByCommit ==
  ASSUME IInv, NEW r \in Runs, Commit(r), NEW s \in Runs
  PROVE  Recorded(s)' <=> Recorded(s) \/ s = r
<1>1. /\ db.scans \in Seq(Runs) /\ Len(db.scans) \in Nat
      /\ DOMAIN db.scans = 1..Len(db.scans)
  BY DatabaseParts DEF IInv, TypeOK
<1>2. db'.scans = Append(db.scans, r)
  BY CommitAppends
<1>3. /\ DOMAIN db'.scans = 1..(Len(db.scans) + 1) /\ db'.scans[Len(db.scans) + 1] = r
      /\ \A id \in 1..Len(db.scans) : db'.scans[id] = db.scans[id]
  BY <1>1, <1>2, AppendProperties, LenProperties
<1> QED BY <1>1, <1>3 DEF Recorded

LEMMA OthersKeepLog ==
  ASSUME IInv, NEW r \in Runs,
         CreateTable(r) \/ SelectScans(r) \/ SelectTargets(r) \/ WriteHtml(r)
           \/ InsertScan(r) \/ InsertTarget(r) \/ Finish(r) \/ Raise(r) \/ Kill(r)
  PROVE  db'.scans = db.scans /\ db'.scan_targets = db.scan_targets
<1>1. CASE CreateTable(r)
  <2>1. db.tables \cup {pc[r]} \in SUBSET Tables
    BY <1>1, DatabaseParts DEF CreateTable, IInv, TypeOK
  <2>2. CASE db' = [db EXCEPT !.tables = db.tables \cup {pc[r]}]
    BY <2>1, <2>2, TablesUpdate DEF IInv, TypeOK
  <2>3. CASE db' = db
    BY <2>3
  <2> QED BY <1>1, <2>2, <2>3 DEF CreateTable
<1>2. CASE ~CreateTable(r)
  BY <1>2 DEF SelectScans, SelectTargets, WriteHtml, InsertScan, InsertTarget, Finish,
              Raise, Kill, GiveUp, SeenByOthers
<1> QED BY <1>1, <1>2

LEMMA ProgressKept ==
  ASSUME IInv, Progress, [Next]_vars
  PROVE  Progress'
<1> USE DEF At, Goto
<1>1. CASE UNCHANGED vars
  BY <1>1 DEF vars, Progress, Recorded
<1>2. ASSUME NEW r \in Runs, Work(r) \/ Raise(r) \/ Kill(r)
      PROVE  Progress'
  <2>1. /\ pc \in [Runs -> Tables \cup Ended \cup
                    {"select", "select targets", "insert", "insert targets", "gate"}]
        /\ task \in [Runs -> {"show", "record"}]
        /\ unread \in [Runs -> SUBSET Nat]
        /\ entries \in [Runs -> SUBSET [id : Nat, targets : SUBSET Url]]
    BY DEF IInv, TypeOK
  <2>2. ASSUME ~Commit(r)
        PROVE  \A s \in Runs : Recorded(s)' <=> Recorded(s)
    BY <1>2, <2>2, OthersKeepLog DEF Work, Recorded
  <2>3. CASE CreateTable(r)
    <3>1. ~Commit(r)
      BY <2>3 DEF CreateTable, Commit, Tables
    <3> QED BY <2>1, <2>2, <2>3, <3>1 DEF CreateTable, AfterSchema, Progress, Tables
  <2>4. CASE SelectScans(r)
    <3>1. ~Commit(r)
      BY <2>4 DEF SelectScans, Commit
    <3> QED BY <2>1, <2>2, <2>4, <3>1 DEF SelectScans, Progress, Tables
  <2>5. CASE SelectTargets(r)
    <3>1. ~Commit(r)
      BY <2>5 DEF SelectTargets, Commit, ToInsert
    <3> QED BY <2>1, <2>2, <2>5, <3>1 DEF SelectTargets, Progress, Tables
  <2>6. CASE WriteHtml(r)
    <3>1. ~Commit(r)
      BY <2>6 DEF WriteHtml, Commit
    <3> QED BY <2>1, <2>2, <2>6, <3>1 DEF WriteHtml, AfterReports, Progress, Tables
  <2>7. CASE InsertScan(r)
    <3>1. ~Commit(r)
      BY <2>7 DEF InsertScan, Commit
    <3> QED BY <2>1, <2>2, <2>7, <3>1 DEF InsertScan, Progress, Tables
  <2>8. CASE InsertTarget(r)
    <3>1. ~Commit(r)
      BY <2>8 DEF InsertTarget, Commit
    <3> QED BY <2>1, <2>2, <2>8, <3>1 DEF InsertTarget, Progress, Tables
  <2>9. CASE Commit(r)
    BY <2>1, <2>9, RecordedByCommit DEF Commit, Progress, Tables
  <2>10. CASE Finish(r)
    <3>1. ~Commit(r)
      BY <2>10 DEF Finish, Commit
    <3> QED BY <2>1, <2>2, <2>10, <3>1 DEF Finish, Progress, Tables
  <2>11. CASE Raise(r) \/ Kill(r)
    <3>1. ~Commit(r)
      BY <2>1, <2>11 DEF Raise, Kill, Commit
    <3> QED BY <2>1, <2>2, <2>11, <3>1 DEF Raise, Kill, GiveUp, Progress, Tables
  <2> QED BY <1>2, <2>3, <2>4, <2>5, <2>6, <2>7, <2>8, <2>9, <2>10, <2>11 DEF Work
<1> QED BY <1>1, <1>2 DEF Next

-----------------------------------------------------------------------------
(* The rows of a recorded scan are never touched again, so an entry that is *)
(* still to be read is the one its first query could have read.             *)
LEMMA EntryStays ==
  ASSUME IInv, [Next]_vars, NEW id \in DOMAIN db.scans
  PROVE  /\ Entry(id) = [id |-> id, targets |-> TargetsOf[db.scans[id]]]
         /\ Entry(id)' = Entry(id)
<1>1. Entry(id) = [id |-> id, targets |-> TargetsOf[db.scans[id]]]
  BY EntryIsWhole DEF IInv
<1>2. CASE db'.scan_targets = db.scan_targets
  <2>1. Entry(id)' = Entry(id)
    BY <1>2 DEF Entry
  <2> QED BY <1>1, <2>1
<1>3. ASSUME NEW r \in Runs, Commit(r)
      PROVE  Entry(id)' = Entry(id)
  <2>1. RowsWhole' /\ id \in DOMAIN db'.scans /\ db'.scans[id] = db.scans[id]
    BY <1>3, CommitAppends
  <2>2. ASSUME NEW url \in {row[2] : row \in {s \in db'.scan_targets : s[1] = id}}
        PROVE  url \in TargetsOf[db.scans[id]]
    BY <2>1, <2>2 DEF RowsWhole
  <2>3. ASSUME NEW url \in TargetsOf[db.scans[id]]
        PROVE  url \in {row[2] : row \in {s \in db'.scan_targets : s[1] = id}}
    <3>1. <<id, url>> \in db'.scan_targets
      BY <2>1 DEF RowsWhole
    <3> QED BY <3>1
  <2> QED BY <1>1, <2>2, <2>3 DEF Entry
<1>4. (\E r \in Runs : Commit(r)) \/ db'.scan_targets = db.scan_targets
  BY OthersKeepLog DEF Next, Work, vars
<1> QED BY <1>1, <1>2, <1>3, <1>4

(* The log and what is shown start empty, every run running.                *)
LEMMA LogStarts ==
  ASSUME Init PROVE Log!Init
<1>1. db.scans = <<>>
  BY DEF Init, Empty
<1>2. \A r \in Runs : Shown(r) = {}
  BY DEF Init, Shown
<1>3. \A r \in Runs : Outcome(r) = "running"
  BY DEF Init, AfterReports, Outcome
<1> QED BY <1>1, <1>2, <1>3 DEF Log!Init

(* What a statement of a run does not change of the log.                    *)
LEMMA ShownStays ==
  ASSUME IInv, [Next]_vars, NEW s \in Runs, UNCHANGED <<unread, entries>>
  PROVE  Shown(s)' = Shown(s)
<1>1. \A id \in unread[s] : Entry(id)' = Entry(id)
  BY EntryStays DEF IInv, UnreadThere
<1> QED BY <1>1 DEF Shown

LEMMA LogStep ==
  ASSUME IInv, Progress, [Next]_vars
  PROVE  [Log!Next]_(Log!vars)
<1> USE DEF At, Goto
<1> DEFINE shown == [s \in Runs |-> Shown(s)]
           outcome == [s \in Runs |-> Outcome(s)]
<1>0. (db'.scans = db.scans /\ shown' = shown /\ outcome' = outcome)
        => [Log!Next]_(Log!vars)
  BY DEF Log!vars
<1>1. CASE UNCHANGED vars
  <2>1. \A s \in Runs : Shown(s)' = Shown(s) /\ Outcome(s)' = Outcome(s)
    BY <1>1, ShownStays DEF vars, Outcome
  <2> QED BY <1>0, <1>1, <2>1 DEF vars
<1>2. ASSUME NEW r \in Runs, Work(r) \/ Raise(r) \/ Kill(r)
      PROVE  [Log!Next]_(Log!vars)
  <2>1. /\ pc \in [Runs -> Tables \cup Ended \cup
                    {"select", "select targets", "insert", "insert targets", "gate"}]
        /\ unread \in [Runs -> SUBSET Nat]
        /\ entries \in [Runs -> SUBSET [id : Nat, targets : SUBSET Url]]
    BY DEF IInv, TypeOK
  <2>2. ASSUME UNCHANGED <<unread, entries>>
        PROVE  shown' = shown
    BY <2>2, ShownStays
  <2>3. ASSUME NEW to, pc' = [pc EXCEPT ![r] = to],
               to \notin Ended, pc[r] \notin Ended
        PROVE  outcome' = outcome
    <3>1. \A s \in Runs : Outcome(s)' = Outcome(s)
      BY <2>1, <2>3 DEF Outcome, Ended
    <3> QED BY <3>1
  <2>4. CASE CreateTable(r) \/ InsertScan(r)
    <3>1. db'.scans = db.scans /\ UNCHANGED <<unread, entries>>
      BY <2>4, OthersKeepLog DEF CreateTable, InsertScan
    <3>2. outcome' = outcome
      BY <2>3, <2>4 DEF CreateTable, InsertScan, AfterSchema, Tables, Ended
    <3> QED BY <1>0, <2>2, <3>1, <3>2
  <2>5. CASE SelectScans(r)
    <3>1. db' = db /\ unread' = [unread EXCEPT ![r] = NewestIds] /\ entries' = entries
      BY <2>5 DEF SelectScans
    <3>2. outcome' = outcome
      BY <2>3, <2>5 DEF SelectScans, Ended
    <3>3. \A s \in Runs \ {r} : Shown(s)' = Shown(s)
      <4>1. \A i : Entry(i)' = Entry(i)
        BY <3>1 DEF Entry
      <4> QED BY <2>1, <3>1, <4>1 DEF Shown
    <3>4. Shown(r)' = {Entry(id) : id \in NewestIds}
      <4>1. entries[r] = {}
        BY <2>5 DEF SelectScans, Progress
      <4> QED BY <2>1, <3>1, <4>1 DEF Shown, Entry
    <3>5. Log!Newest = {Entry(id) : id \in NewestIds}
      <4>1. \A id \in DOMAIN db.scans : Entry(id) = Log!Entry(id)
        BY EntryStays DEF Log!Entry
      <4> QED BY <4>1 DEF Log!Newest, NewestIds
    <3>6. shown' = [shown EXCEPT ![r] = Log!Newest]
      BY <3>3, <3>4, <3>5
    <3>7. outcome[r] = "running"
      BY <2>5 DEF SelectScans, Outcome
    <3>8. ~Log!Recorded(r)
      BY <2>5 DEF SelectScans, Progress, Recorded, Log!Recorded
    <3>9. Log!Show(r)
      BY <3>1, <3>2, <3>6, <3>7, <3>8 DEF Log!Show
    <3> QED BY <3>9 DEF Log!Next
  <2>6. CASE SelectTargets(r)
    <3>1. PICK id \in unread[r] :
            /\ entries' = [entries EXCEPT ![r] = @ \cup {Entry(id)}]
            /\ unread' = [unread EXCEPT ![r] = @ \ {id}]
      BY <2>6 DEF SelectTargets
    <3>2. db' = db /\ pc' = pc
      BY <2>6 DEF SelectTargets
    <3>3. \A i : Entry(i)' = Entry(i)
      BY <3>2 DEF Entry
    <3>4. \A s \in Runs \ {r} : Shown(s)' = Shown(s)
      BY <2>1, <3>1, <3>3 DEF Shown
    <3>5. Shown(r)' = Shown(r)
      <4>1. Shown(r)' = (entries[r] \cup {Entry(id)}) \cup {Entry(i) : i \in unread[r] \ {id}}
        BY <2>1, <3>1, <3>3 DEF Shown
      <4> QED BY <4>1 DEF Shown
    <3>6. outcome' = outcome
      BY <3>2 DEF Outcome
    <3> QED BY <1>0, <3>2, <3>4, <3>5, <3>6
  <2>7. CASE WriteHtml(r)
    <3>1. db'.scans = db.scans /\ UNCHANGED <<unread, entries>>
      BY <2>7 DEF WriteHtml
    <3>2. outcome' = outcome
      BY <2>3, <2>7 DEF WriteHtml, AfterReports, Ended
    <3> QED BY <1>0, <2>2, <3>1, <3>2
  <2>8. CASE InsertTarget(r)
    <3>1. db'.scans = db.scans /\ UNCHANGED <<pc, unread, entries>>
      BY <2>8 DEF InsertTarget, SeenByOthers
    <3>2. outcome' = outcome
      BY <3>1 DEF Outcome
    <3> QED BY <1>0, <2>2, <3>1, <3>2
  <2>9. CASE Commit(r)
    <3>1. db'.scans = Append(db.scans, r)
      BY <2>9, CommitAppends
    <3>2. shown' = shown
      BY <2>2, <2>9 DEF Commit
    <3>3. outcome' = outcome
      BY <2>3, <2>9 DEF Commit, Ended
    <3>4. outcome[r] = "running"
      BY <2>9 DEF Commit, Outcome
    <3>5. ~Log!Recorded(r) /\ r \notin Audits
      BY <2>9 DEF Commit, Progress, Recorded, Log!Recorded
    <3>6. Log!Record(r)
      BY <3>1, <3>2, <3>3, <3>4, <3>5 DEF Log!Record
    <3> QED BY <3>6 DEF Log!Next
  <2>10. CASE Finish(r)
    <3>1. db' = db /\ pc' = [pc EXCEPT ![r] = "ok"] /\ UNCHANGED <<unread, entries>>
      BY <2>10 DEF Finish
    <3>2. shown' = shown
      BY <2>2, <3>1
    <3>3. \A s \in Runs : Outcome(s)' = IF s = r THEN "ok" ELSE Outcome(s)
      BY <2>1, <3>1 DEF Outcome
    <3>4. outcome' = [outcome EXCEPT ![r] = "ok"]
      BY <3>3
    <3>5. outcome[r] = "running"
      BY <2>10 DEF Finish, Outcome
    <3>6. Log!Recorded(r) \/ r \in Audits
      BY <2>10 DEF Finish, Progress, Recorded, Log!Recorded
    <3>7. Log!Finish(r)
      BY <3>1, <3>2, <3>4, <3>5, <3>6 DEF Log!Finish
    <3> QED BY <3>7 DEF Log!Next
  <2>11. CASE Raise(r) \/ Kill(r)
    <3>1. db' = db /\ UNCHANGED <<unread, entries>> /\ pc[r] \notin Ended
      BY <2>11 DEF Raise, Kill, GiveUp
    <3>2. PICK end \in {"raised", "killed"} : pc' = [pc EXCEPT ![r] = end]
      BY <2>11 DEF Raise, Kill
    <3>3. shown' = shown
      BY <2>2, <3>1
    <3>4. \A s \in Runs : Outcome(s)' = IF s = r THEN "failed" ELSE Outcome(s)
      BY <2>1, <3>2 DEF Outcome
    <3>5. outcome' = [outcome EXCEPT ![r] = "failed"]
      BY <3>4
    <3>6. outcome[r] = "running"
      BY <3>1 DEF Outcome, Ended
    <3>7. Log!Fail(r)
      BY <3>1, <3>3, <3>5, <3>6 DEF Log!Fail
    <3> QED BY <3>7 DEF Log!Next
  <2> QED BY <1>2, <2>4, <2>5, <2>6, <2>7, <2>8, <2>9, <2>10, <2>11 DEF Work
<1> QED BY <1>1, <1>2 DEF Next

(* The database the runs share is the log of HistoryLog: scans are recorded *)
(* once and whole, and each report shows the newest of one moment.          *)
THEOREM DatabaseIsLog == Spec => ImplementsLog
<1>1. Init => IInv /\ Progress /\ Log!Init
  BY InitHolds, ProgressStarts, LogStarts
<1>2. IInv /\ Progress /\ [Next]_vars
        => IInv' /\ Progress' /\ [Log!Next]_(Log!vars)
  BY NextKeeps, ProgressKept, LogStep
<1> QED BY <1>1, <1>2, PTL DEF Spec, ImplementsLog, Log!Spec
=============================================================================
