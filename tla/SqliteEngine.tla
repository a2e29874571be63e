---------------------------- MODULE SqliteEngine ----------------------------
(***************************************************************************)
(* The SQLite engine (storage_sqlite.cpp), as several acx processes use    *)
(* one acx.db: a table of contacts with unique ids, e-mails and phones, a  *)
(* table of history rows, and the one write transaction that SQLite grants *)
(* at a time.  A statement that meets the transaction of another process   *)
(* fails at once, for no busy timeout is set.                              *)
(*                                                                         *)
(* add is two statements, the contact and its history row, and the result  *)
(* of the second is not looked at.  import_data wraps its adds in BEGIN    *)
(* IMMEDIATE and COMMIT, whose results are not looked at either: when the  *)
(* BEGIN is refused, every statement stands for itself, and when the       *)
(* COMMIT fails, the import answers success all the same.  It is the last  *)
(* call of its process (cli.cpp:792), as of every process of acx.          *)
(***************************************************************************)
EXTENDS Engine

CONSTANTS Procs, Nobody

ASSUME NobodyAssumption == Nobody \notin Procs

VARIABLES
    table,    \* committed contacts: id -> row
    log,      \* ids with a committed history row
    txn,      \* the write transaction: its owner, and the tables as it sees them
    conn,     \* what each process is doing
    unlogged  \* ids whose history row was refused or never written

sqlVars == << table, log, txn, conn, unlogged >>

NoTxn == [owner |-> Nobody, table |-> Nothing, log |-> {}]

\* begun: whether the BEGIN of the import was granted; result: what the call returned.
Idle == [doing |-> "idle", lines |-> << >>, file |-> << >>, id |-> Blank,
         begun |-> FALSE, result |-> TRUE]

SqlInit ==
    /\ table = Nothing
    /\ log = {}
    /\ txn = NoTxn
    /\ conn = [p \in Procs |-> Idle]
    /\ unlogged = {}

Busy(p) == txn.owner \notin {p, Nobody}

InTxn(p) == txn.owner = p

Table(p) == IF InTxn(p) THEN txn.table ELSE table

\* A statement of p leaves these contacts, in its transaction or at once.
Write(p, t) ==
    IF InTxn(p) THEN txn' = [txn EXCEPT !.table = t] /\ UNCHANGED table
                ELSE table' = t /\ UNCHANGED txn

WriteLog(p, id) ==
    IF InTxn(p) THEN txn' = [txn EXCEPT !.log = @ \cup {id}] /\ UNCHANGED log
                ELSE log' = log \cup {id} /\ UNCHANGED txn

\* Mutant: a table without idx_phone.
FitsByEmail(t, c) == c.id \notin DOMAIN t /\ \A i \in DOMAIN t : t[i].email # c.email

\* The constraints of the table: PRIMARY KEY, idx_email and idx_phone.
Fits(t, c) == c.id \notin DOMAIN t /\ \A i \in DOMAIN t : ~SameKey(t[i], c)

\* The id of a row is made up at random and met nowhere else.
UsedRowIds == DOMAIN table \cup DOMAIN txn.table \cup log \cup txn.log \cup unlogged

Return(p, result) ==
    conn' = [conn EXCEPT ![p] = [Idle EXCEPT !.result = result, !.begun = conn[p].begun]]

\* Mutant: an imported contact gets no history row.
InsertUnlogged(p, row) ==
    \E c \in Named(row, UsedRowIds) :
       /\ Storable(row) /\ ~Busy(p) /\ Fits(Table(p), c)
       /\ Write(p, Put(Table(p), c.id, c))
       /\ conn' = IF conn[p].file = << >>
                  THEN [conn EXCEPT ![p].doing = "history", ![p].id = c.id]
                  ELSE [conn EXCEPT ![p].lines = Tail(@)]
       /\ UNCHANGED << log, unlogged >>

\* The first statement of add.
Insert(p, row) ==
    \E c \in Named(row, UsedRowIds) :
       /\ Storable(row) /\ ~Busy(p) /\ Fits(Table(p), c)
       /\ Write(p, Put(Table(p), c.id, c))
       /\ conn' = [conn EXCEPT ![p].doing = "history", ![p].id = c.id]
       /\ UNCHANGED << log, unlogged >>

CannotInsert(p, row) ==
    \/ ~Storable(row)
    \/ Busy(p)
    \/ ~Fits(Table(p), row)

SqlAdd(p, row) ==
    /\ conn[p].doing = "idle"
    /\ \/ Insert(p, row)
       \/ CannotInsert(p, row) /\ Return(p, FALSE) /\ UNCHANGED << table, log, txn, unlogged >>

\* The second statement of add; an import goes on with the next line.
SqlHistory(p) ==
    LET next == IF conn[p].file = << >> THEN Idle
                ELSE [conn[p] EXCEPT !.doing = "import", !.id = Blank, !.lines = Tail(@)]
    IN /\ conn[p].doing = "history"
       /\ conn' = [conn EXCEPT ![p] = next]
       /\ IF Busy(p)
          THEN unlogged' = unlogged \cup {conn[p].id} /\ UNCHANGED << log, txn >>
          ELSE WriteLog(p, conn[p].id) /\ UNCHANGED unlogged
       /\ UNCHANGED table

\* UPDATE: only the constraints are looked after, and no row with the id is no error.
SqlEdit(p, id, o) ==
    LET t == Table(p)
        d == Changed(t[id], o)
        fits == Fits(Without(t, id), d)
    IN /\ conn[p].doing = "idle"
       /\ \/ /\ ~Busy(p) /\ id \in DOMAIN t /\ fits
             /\ Write(p, Put(t, id, d))
             /\ Return(p, TRUE)
          \/ /\ Busy(p) \/ (id \in DOMAIN t /\ ~fits)
             /\ Return(p, FALSE)
             /\ UNCHANGED << table, txn >>
       /\ UNCHANGED << log, unlogged >>

\* DELETE leaves the history rows.
SqlRemove(p, id) ==
    /\ conn[p].doing = "idle"
    /\ ~Busy(p)
    /\ Write(p, Without(Table(p), id))
    /\ Return(p, TRUE)
    /\ UNCHANGED << log, unlogged >>

\* Mutant: an import that begins no transaction.
SqlBeginNothing(p, file) ==
    /\ conn[p].doing = "idle"
    /\ conn' = [conn EXCEPT ![p] = [Idle EXCEPT !.doing = "import", !.lines = file,
                                                !.file = file, !.begun = ~Busy(p)]]
    /\ UNCHANGED << table, log, txn, unlogged >>

\* BEGIN IMMEDIATE, granted unless another process is in its transaction.
SqlBeginImport(p, file) ==
    /\ conn[p].doing = "idle"
    /\ conn' = [conn EXCEPT ![p] = [Idle EXCEPT !.doing = "import", !.lines = file,
                                                !.file = file, !.begun = ~Busy(p)]]
    /\ txn' = IF Busy(p) THEN txn ELSE [owner |-> p, table |-> table, log |-> log]
    /\ UNCHANGED << table, log, unlogged >>

\* ROLLBACK, which fails unnoticed outside of a transaction.
Rollback(p) == txn' = IF InTxn(p) THEN NoTxn ELSE txn

SqlImportLine(p) ==
    LET row == Head(conn[p].lines)
    IN /\ conn[p].doing = "import"
       /\ conn[p].lines # << >>
       /\ \/ /\ row = Unread
             /\ conn' = [conn EXCEPT ![p].lines = Tail(@)]
             /\ UNCHANGED << table, log, txn, unlogged >>
          \/ row # Unread /\ Insert(p, row)
          \/ /\ row # Unread /\ CannotInsert(p, row)
             /\ Rollback(p)
             /\ Return(p, FALSE)
             /\ UNCHANGED << table, log, unlogged >>

\* COMMIT, which goes unnoticed outside of a transaction.
SqlEndImport(p) ==
    /\ conn[p].doing = "import"
    /\ conn[p].lines = << >>
    /\ table' = Table(p)
    /\ log' = IF InTxn(p) THEN txn.log ELSE log
    /\ Rollback(p)
    /\ Return(p, TRUE)
    /\ UNCHANGED unlogged

\* COMMIT fails inside the transaction, unnoticed too: it stays open until the
\* connection is closed.
SqlCommitFails(p) ==
    /\ conn[p].doing = "import"
    /\ conn[p].lines = << >>
    /\ InTxn(p)
    /\ conn' = [conn EXCEPT ![p].doing = "uncommitted", ![p].result = TRUE]
    /\ UNCHANGED << table, log, txn, unlogged >>

\* The process ends anywhere; SQLite takes back a transaction it left open.
SqlKill(p) ==
    /\ conn[p].doing # "idle"
    /\ unlogged' = IF conn[p].doing = "history" /\ ~InTxn(p)
                   THEN unlogged \cup {conn[p].id} ELSE unlogged
    /\ Rollback(p)
    /\ Return(p, conn[p].doing = "uncommitted")
    /\ UNCHANGED << table, log >>

SqlNext == \E p \in Procs :
    \/ \E row \in Additions : SqlAdd(p, row)
    \/ SqlHistory(p)
    \/ \E id \in Ids : SqlRemove(p, id) \/ \E o \in Changes : SqlEdit(p, id, o)
    \/ \E file \in Files : SqlBeginImport(p, file)
    \/ SqlImportLine(p)
    \/ SqlEndImport(p)
    \/ SqlCommitFails(p)
    \/ SqlKill(p)

SqlSpec == SqlInit /\ [][SqlNext]_sqlVars

-----------------------------------------------------------------------------

IsTable(t) == PartialMap(t, Ids, Row)

Conn == [doing : {"idle", "history", "import", "uncommitted"}, lines : Seq(Given \cup {Unread}),
         file : Seq(Given \cup {Unread}), id : Ids \cup {Blank},
         begun : BOOLEAN, result : BOOLEAN]

SqlTypeOK ==
    /\ IsTable(table) /\ IsTable(txn.table)
    /\ log \subseteq Ids /\ txn.log \subseteq Ids /\ unlogged \subseteq Ids
    /\ txn.owner \in Procs \cup {Nobody}
    /\ conn \in [Procs -> Conn]

Readable(file) == {file[i] : i \in {j \in DOMAIN file : file[j] # Unread}}

StoredAs(row, t) ==
    \E i \in DOMAIN t : t[i].name = row.name /\ t[i].email = row.email /\ t[i].phone = row.phone

Importing(p) == conn[p].doing # "idle" /\ conn[p].file # << >>

\* While an import runs whose BEGIN was granted, no process changes what the
\* others see, except the import itself when it ends well; then every row it
\* could read is there.  Killed, refused a row, or with a COMMIT that fails, it
\* leaves no trace (storage_sqlite.cpp:154-167).
ImportAllOrNothing ==
    [][ \A p \in Procs : Importing(p) /\ conn[p].begun /\ table' # table =>
           /\ conn'[p].doing = "idle" /\ conn'[p].result
           /\ \A row \in Readable(conn[p].file) : StoredAs(row, table') ]_sqlVars

\* Every contact has a history row, unless a process is still about to write
\* it, or was killed or refused before it could (storage_sqlite.cpp:65-75):
\* nothing else, a rolled back import or a removal, sets the two tables apart.
HistoryComplete ==
    \A id \in DOMAIN table \ (log \cup unlogged) :
        \E p \in Procs : conn[p].doing = "history" /\ conn[p].id = id

\* However statements of several processes meet, are refused, rolled back or
\* never committed, each step that others see is one a contact store may take:
\* an addition of rows that leaves the others as they are, an edit of one row or
\* the removal of one, and the keys stay unique.  (That an import is one such
\* step, or none, is what ImportAllOrNothing says.)
SqlStore == INSTANCE ContactStore WITH store <- table, voided <- FALSE
SqlRefinesStore == SqlStore!Spec
=============================================================================
