---------------------------- MODULE EnginesProofs ----------------------------
(***************************************************************************)
(* Proofs about the two database engines, for every number of processes    *)
(* and every set of rows, options and files.                               *)
(*                                                                         *)
(* SqliteEngine: the types, that every contact has its history row, that   *)
(* an import is all or nothing, and that the engine implements             *)
(* ContactStore.  RocksEngine: the types, that a search through a key      *)
(* finds what a search through all contacts finds, and again ContactStore. *)
(* Each engine is first treated by itself; the steps of Engines are those  *)
(* of the engine chosen, so that its theorems carry over.                  *)
(***************************************************************************)
EXTENDS Engines, TLAPS

-----------------------------------------------------------------------------
(* SQLite                                                                    *)

TxnShape == txn = [owner |-> txn.owner, table |-> txn.table, log |-> txn.log]

TablesUnique == KeysUnique(table) /\ KeysUnique(txn.table)

\* The transaction belongs to an import that is under way and was granted it.
Owner(p) ==
    /\ InTxn(p) => conn[p].doing # "idle" /\ conn[p].begun
    /\ Importing(p) /\ conn[p].begun => InTxn(p)
    /\ conn[p].doing = "import" /\ conn[p].lines # << >> => conn[p].file # << >>
    /\ conn[p].doing = "history" /\ conn[p].file # << >> => conn[p].lines # << >>
    /\ conn[p].doing = "idle" => conn[p].file = << >>
    /\ conn[p].doing = "history" => conn[p].id \in Ids
    /\ InTxn(p) /\ conn[p].doing = "history" =>
          /\ conn[p].file # << >>
          /\ conn[p].id \in DOMAIN txn.table \ DOMAIN table
OwnerImports == \A p \in Procs : Owner(p)

\* It sees the committed contacts as they are, and more.
Extends(t) == \A i \in DOMAIN table : i \in DOMAIN t /\ t[i] = table[i]
TxnExtends == txn.owner # Nobody => Extends(txn.table)

AboutToLog(id) == \E p \in Procs : conn[p].doing = "history" /\ conn[p].id = id
TxnLogged == txn.owner # Nobody =>
    \A id \in DOMAIN txn.table \ (txn.log \cup unlogged) : AboutToLog(id)

\* The import has stored the rows that it has read.
Progress(p) ==
    LET file == conn[p].file
        rest == conn[p].lines
    IN /\ Len(rest) <= Len(file)
       /\ \A i \in 1 .. Len(rest) : rest[i] = file[Len(file) - Len(rest) + i]
       /\ \A i \in 1 .. Len(file) - Len(rest) :
             file[i] # Unread => StoredAs(file[i], txn.table)
       /\ conn[p].doing = "history" => rest # << >> /\ StoredAs(Head(rest), txn.table)
TxnProgress == \A p \in Procs : InTxn(p) => Progress(p)

\* The inductive invariant.
SqlInv ==
    /\ SqlTypeOK /\ TxnShape /\ TablesUnique /\ OwnerImports
    /\ TxnExtends /\ HistoryComplete /\ TxnLogged /\ TxnProgress

-----------------------------------------------------------------------------
(* Rows and tables                                                           *)

LEMMA PutTable ==
    ASSUME NEW t, IsTable(t), NEW k \in Ids, NEW v \in Row
    PROVE  IsTable(Put(t, k, v))
BY DEF IsTable, PartialMap, Put

LEMMA WithoutTable ==
    ASSUME NEW t, IsTable(t), NEW k
    PROVE  IsTable(Without(t, k))
BY DEF IsTable, PartialMap, Without

LEMMA NothingTable == IsTable(Nothing) /\ KeysUnique(Nothing) /\ DOMAIN Nothing = {}
BY DEF IsTable, PartialMap, Nothing, KeysUnique

LEMMA NamedSqlRow ==
    ASSUME NEW row \in Given, NEW used, NEW c \in Named(row, used)
    PROVE  /\ c \in Row /\ c.id \in Ids
           /\ c.name = row.name /\ c.email = row.email /\ c.phone = row.phone
<1>1. CASE row.id = Blank
  BY <1>1 DEF Named, Given, Row
<1>2. CASE row.id # Blank
  BY <1>2 DEF Named, Given, Row
<1> QED
  BY <1>1, <1>2

LEMMA ChangedSqlRow ==
    ASSUME NEW c \in Row, NEW o \in Options
    PROVE  Changed(c, o) \in Row
<1>1. /\ c.name \in Names /\ c.email \in Emails /\ c.phone \in Phones
      /\ o.name \in Names \cup {Blank} /\ o.email \in Emails \cup {Blank}
      /\ o.phone \in Phones \cup {Blank}
  BY DEF Row, Options
<1>2. /\ Or(o.name, c.name) \in Names
      /\ Or(o.email, c.email) \in Emails
      /\ Or(o.phone, c.phone) \in Phones
  BY <1>1 DEF Or
<1>3. Changed(c, o) = [c EXCEPT !.name = Or(o.name, c.name), !.email = Or(o.email, c.email),
                                !.phone = Or(o.phone, c.phone)]
  BY DEF Changed, Row
<1> QED
  BY <1>2, <1>3 DEF Row

\* A row that fits joins the others without a clash.
LEMMA PutUnique ==
    ASSUME NEW t, KeysUnique(t), NEW c, Fits(t, c)
    PROVE  KeysUnique(Put(t, c.id, c))
BY DEF KeysUnique, Fits, Put, SameKey

LEMMA WithoutUnique ==
    ASSUME NEW t, KeysUnique(t), NEW id
    PROVE  KeysUnique(Without(t, id))
BY DEF KeysUnique, Without

\* A changed row that fits the others may take the place of the old one.
LEMMA EditUnique ==
    ASSUME NEW t, KeysUnique(t), NEW id \in DOMAIN t, NEW d, Fits(Without(t, id), d)
    PROVE  KeysUnique(Put(t, id, d))
BY DEF KeysUnique, Fits, Put, Without, SameKey

\* What a row is stored as stays stored when another id comes in.
LEMMA StoredStays ==
    ASSUME NEW t, NEW k, k \notin DOMAIN t, NEW v, NEW row, StoredAs(row, t)
    PROVE  StoredAs(row, Put(t, k, v))
<1>1. PICK i \in DOMAIN t : t[i].name = row.name /\ t[i].email = row.email
                              /\ t[i].phone = row.phone
  BY DEF StoredAs
<1>2. i \in DOMAIN Put(t, k, v) /\ Put(t, k, v)[i] = t[i]
  BY <1>1 DEF Put
<1> QED
  BY <1>1, <1>2 DEF StoredAs

LEMMA StoredNow ==
    ASSUME NEW t, NEW k, NEW c, NEW row,
           c.name = row.name, c.email = row.email, c.phone = row.phone
    PROVE  StoredAs(row, Put(t, k, c))
<1>1. k \in DOMAIN Put(t, k, c) /\ Put(t, k, c)[k] = c
  BY DEF Put
<1> QED
  BY <1>1 DEF StoredAs

\* A statement that is not refused goes into the own transaction, or is
\* committed at once when there is none.
LEMMA WriteCases ==
    ASSUME SqlInv, NEW p \in Procs, ~Busy(p), NEW t, Write(p, t)
    PROVE  \/ /\ InTxn(p) /\ Table(p) = txn.table /\ table' = table
              /\ txn' = [owner |-> p, table |-> t, log |-> txn.log]
           \/ /\ txn.owner = Nobody /\ Table(p) = table /\ table' = t /\ txn' = txn
<1>1. CASE InTxn(p)
  BY <1>1 DEF Write, Table, InTxn, SqlInv, TxnShape
<1>2. CASE ~InTxn(p)
  BY <1>2 DEF Write, Table, InTxn, Busy
<1> QED
  BY <1>1, <1>2

LEMMA SqlInitInv == SqlInit => SqlInv
<1> SUFFICES ASSUME SqlInit PROVE SqlInv
  OBVIOUS
<1>0. /\ table = Nothing /\ log = {} /\ txn = NoTxn /\ unlogged = {}
      /\ conn = [p \in Procs |-> Idle]
  BY DEF SqlInit
<1>1. Idle \in Conn
  BY BlankAssumption DEF Idle, Conn
<1>2. SqlTypeOK
  BY <1>0, <1>1, NothingTable DEF SqlTypeOK, NoTxn
<1>3. TxnShape /\ TablesUnique /\ TxnExtends /\ TxnLogged /\ HistoryComplete
  BY <1>0, NothingTable
     DEF TxnShape, TablesUnique, TxnExtends, TxnLogged, HistoryComplete, NoTxn
<1>4. OwnerImports /\ TxnProgress
  BY <1>0, NobodyAssumption DEF OwnerImports, Owner, TxnProgress, InTxn, Importing, Idle, NoTxn
<1> QED
  BY <1>2, <1>3, <1>4 DEF SqlInv

\* What is said of a process holds as long as it stands where it is, in or out
\* of a transaction that goes on.
LEMMA OtherOwner ==
    ASSUME SqlInv, NEW q \in Procs, conn'[q] = conn[q],
           \/ ~InTxn(q) /\ ~InTxn(q)'
           \/ InTxn(q) /\ InTxn(q)' /\ txn'.table = txn.table /\ table' = table
    PROVE  Owner(q)'
BY DEF SqlInv, OwnerImports, Owner, Importing, InTxn

\* What Return leaves of a process.
LEMMA IdleConn ==
    ASSUME NEW result \in BOOLEAN, NEW begun \in BOOLEAN
    PROVE  LET c == [Idle EXCEPT !.result = result, !.begun = begun]
           IN  c \in Conn /\ c.doing = "idle" /\ c.file = << >> /\ c.lines = << >>
<1> DEFINE none == << >>
           Fresh(e) == [doing |-> "idle", lines |-> e, file |-> e, id |-> Blank,
                        begun |-> FALSE, result |-> TRUE]
           c == [Idle EXCEPT !.result = result, !.begun = begun]
<1>1. Idle = Fresh(none) /\ none \in Seq(Given \cup {Unread})
  BY DEF Idle
<1> HIDE DEF none
<1>2. c \in Conn /\ c.doing = "idle" /\ c.file = none /\ c.lines = none
  BY <1>1 DEF Conn
<1> QED
  BY <1>2 DEF none

LEMMA Returned ==
    ASSUME SqlTypeOK, NEW p \in Procs, NEW result \in BOOLEAN, Return(p, result)
    PROVE  /\ conn' \in [Procs -> Conn]
           /\ conn'[p].doing = "idle" /\ conn'[p].file = << >> /\ conn'[p].lines = << >>
           /\ \A q \in Procs \ {p} : conn'[q] = conn[q]
<1> DEFINE c == [Idle EXCEPT !.result = result, !.begun = conn[p].begun]
<1>1. conn \in [Procs -> Conn] /\ conn[p].begun \in BOOLEAN
  BY DEF SqlTypeOK, Conn
<1>2. c \in Conn /\ c.doing = "idle" /\ c.file = << >> /\ c.lines = << >>
  BY <1>1, IdleConn
<1>3. conn' = [conn EXCEPT ![p] = c]
  BY DEF Return
<1> QED
  BY <1>1, <1>2, <1>3

-----------------------------------------------------------------------------
(* The steps                                                                 *)

\* The first statement of add, alone or in an import.
LEMMA InsertInv ==
    ASSUME SqlInv, NEW p \in Procs, NEW row \in Given, Insert(p, row),
           \/ conn[p].doing = "idle"
           \/ /\ conn[p].doing = "import" /\ conn[p].lines # << >>
              /\ row = Head(conn[p].lines)
    PROVE  SqlInv'
<1> USE DEF SqlInv
<1>1. PICK c \in Named(row, UsedRowIds) :
         /\ ~Busy(p) /\ Fits(Table(p), c)
         /\ Write(p, Put(Table(p), c.id, c))
         /\ conn' = [conn EXCEPT ![p].doing = "history", ![p].id = c.id]
         /\ log' = log /\ unlogged' = unlogged
  BY DEF Insert
<1>2. /\ c \in Row /\ c.id \in Ids
      /\ c.name = row.name /\ c.email = row.email /\ c.phone = row.phone
  BY NamedSqlRow
<1>3. /\ conn[p] \in Conn /\ conn'[p] \in Conn
      /\ conn'[p] = [conn[p] EXCEPT !.doing = "history", !.id = c.id]
      /\ \A q \in Procs \ {p} : conn'[q] = conn[q]
      /\ conn' \in [Procs -> Conn]
  <2>1. conn \in [Procs -> Conn] /\ conn[p] \in Conn
    BY DEF SqlTypeOK
  <2>2. [conn[p] EXCEPT !.doing = "history", !.id = c.id] \in Conn
    BY <1>2, <2>1 DEF Conn
  <2>3. conn' = [conn EXCEPT ![p] = [conn[p] EXCEPT !.doing = "history", !.id = c.id]]
    BY <1>1, <2>1 DEF Conn
  <2> HIDE DEF Conn
  <2> QED
    BY <2>1, <2>2, <2>3
<1>4. /\ conn'[p].doing = "history" /\ conn'[p].id = c.id
      /\ conn'[p].file = conn[p].file /\ conn'[p].lines = conn[p].lines
      /\ conn'[p].begun = conn[p].begun
  BY <1>3 DEF Conn
<1>5. \A id : AboutToLog(id) => AboutToLog(id)'
  BY <1>3 DEF AboutToLog
<1>6. AboutToLog(c.id)'
  BY <1>4 DEF AboutToLog
<1>7. c.id \notin DOMAIN Table(p)
  BY <1>1 DEF Fits
<1>8. DOMAIN Put(Table(p), c.id, c) = DOMAIN Table(p) \cup {c.id}
  BY DEF Put
<1>10. CASE /\ InTxn(p) /\ Table(p) = txn.table /\ table' = table
            /\ txn' = [owner |-> p, table |-> Put(txn.table, c.id, c), log |-> txn.log]
  <2>1. /\ txn'.owner = p /\ txn'.table = Put(txn.table, c.id, c) /\ txn'.log = txn.log
        /\ txn.owner = p /\ p # Nobody
    BY <1>10, NobodyAssumption DEF InTxn
  <2>2. conn[p].doing = "import" /\ conn[p].lines # << >> /\ row = Head(conn[p].lines)
    BY <1>10 DEF OwnerImports, Owner
  <2>3. SqlTypeOK'
    BY <1>1, <1>2, <1>3, <1>10, <2>1, PutTable DEF SqlTypeOK
  <2>4. TxnShape' /\ TablesUnique'
    BY <1>1, <1>10, <2>1, PutUnique DEF TxnShape, TablesUnique
  <2>5. OwnerImports'
    <3>1. c.id \in DOMAIN txn'.table \ DOMAIN table'
      BY <1>7, <1>8, <1>10, <2>1 DEF TxnExtends, Extends
    <3>2. InTxn(p)' /\ conn[p].file # << >> /\ conn[p].begun
      BY <1>10, <2>1, <2>2 DEF OwnerImports, Owner, InTxn
    <3>3. Owner(p)'
      BY <1>2, <1>4, <2>2, <3>1, <3>2 DEF Owner, Importing
    <3>4. ASSUME NEW q \in Procs \ {p} PROVE Owner(q)'
      BY <1>3, <1>10, <2>1, OtherOwner DEF InTxn
    <3> QED
      BY <3>3, <3>4 DEF OwnerImports
  <2>6. TxnExtends'
    BY <1>7, <1>10, <2>1 DEF TxnExtends, Extends, Put
  <2>7. HistoryComplete'
    BY <1>1, <1>5, <1>10 DEF HistoryComplete, AboutToLog
  <2>8. TxnLogged'
    BY <1>1, <1>5, <1>6, <1>8, <1>10, <2>1 DEF TxnLogged
  <2>9. TxnProgress'
    <3>1. Progress(p)
      BY <1>10 DEF TxnProgress
    <3>2. StoredAs(row, txn'.table)
      BY <1>2, <2>1, StoredNow
    <3>3. \A r : StoredAs(r, txn.table) => StoredAs(r, txn'.table)
      BY <1>7, <1>10, <2>1, StoredStays
    <3>4. Progress(p)'
      BY <1>4, <2>2, <3>1, <3>2, <3>3 DEF Progress
    <3> QED
      BY <2>1, <3>4 DEF TxnProgress, InTxn
  <2> QED
    BY <2>3, <2>4, <2>5, <2>6, <2>7, <2>8, <2>9
<1>11. CASE /\ txn.owner = Nobody /\ Table(p) = table /\ txn' = txn
            /\ table' = Put(table, c.id, c)
  <2>1. \A q \in Procs : ~InTxn(q) /\ ~InTxn(q)'
    BY <1>11, NobodyAssumption DEF InTxn
  <2>2. SqlTypeOK'
    BY <1>1, <1>2, <1>3, <1>11, PutTable DEF SqlTypeOK
  <2>3. TxnShape' /\ TablesUnique'
    BY <1>1, <1>11, PutUnique DEF TxnShape, TablesUnique
  <2>4. OwnerImports'
    <3>1. Owner(p)'
      BY <1>2, <1>4, <1>11, <2>1 DEF OwnerImports, Owner, Importing
    <3>2. ASSUME NEW q \in Procs \ {p} PROVE Owner(q)'
      BY <1>3, <2>1, OtherOwner
    <3> QED
      BY <3>1, <3>2 DEF OwnerImports
  <2>5. HistoryComplete'
    BY <1>1, <1>5, <1>6, <1>8, <1>11 DEF HistoryComplete, AboutToLog
  <2>6. TxnExtends' /\ TxnLogged' /\ TxnProgress'
    BY <1>11, <2>1 DEF TxnExtends, TxnLogged, TxnProgress
  <2> QED
    BY <2>2, <2>3, <2>4, <2>5, <2>6
<1> QED
  BY <1>1, <1>10, <1>11, WriteCases

\* A call that returns without having changed what others see: refused,
\* killed, rolled back, or the end of an import that had no transaction.
LEMMA LeaveInv ==
    ASSUME SqlInv, NEW p \in Procs, NEW result \in BOOLEAN, Return(p, result), Rollback(p),
           table' = table, log' = log, unlogged \subseteq unlogged', unlogged' \subseteq Ids,
           conn[p].doing = "history" /\ ~InTxn(p) => conn[p].id \in unlogged'
    PROVE  SqlInv'
<1> USE DEF SqlInv
<1>3. /\ conn' \in [Procs -> Conn]
      /\ conn'[p].doing = "idle" /\ conn'[p].file = << >> /\ conn'[p].lines = << >>
      /\ \A q \in Procs \ {p} : conn'[q] = conn[q]
  BY Returned
<1>4. txn' = IF InTxn(p) THEN NoTxn ELSE txn
  BY DEF Rollback
<1>5. ~InTxn(p)' /\ \A q \in Procs \ {p} : InTxn(q)' => InTxn(q) /\ txn' = txn
  BY <1>4, NobodyAssumption DEF InTxn, NoTxn
<1>6. SqlTypeOK'
  <2>1. /\ IsTable(txn'.table) /\ txn'.log \subseteq Ids
        /\ txn'.owner \in Procs \cup {Nobody}
    BY <1>4, NothingTable DEF SqlTypeOK, NoTxn
  <2>2. IsTable(table') /\ log' \subseteq Ids
    BY DEF SqlTypeOK
  <2> QED
    BY <1>3, <2>1, <2>2 DEF SqlTypeOK
<1>7. TxnShape' /\ TablesUnique' /\ TxnExtends'
  BY <1>4, NothingTable DEF TxnShape, TablesUnique, TxnExtends, Extends, NoTxn
<1>8. OwnerImports'
  <2>1. Owner(p)'
    BY <1>3, <1>5 DEF Owner, Importing
  <2>2. ASSUME NEW q \in Procs \ {p} PROVE Owner(q)'
    <3>1. CASE InTxn(q)
      BY <1>3, <1>4, <3>1, OtherOwner DEF InTxn
    <3>2. CASE ~InTxn(q)
      BY <1>3, <1>5, <3>2, OtherOwner
    <3> QED
      BY <3>1, <3>2
  <2> QED
    BY <2>1, <2>2 DEF OwnerImports
<1>9. HistoryComplete'
  <2> SUFFICES ASSUME NEW id \in DOMAIN table \ (log \cup unlogged')
               PROVE  \E q \in Procs : conn'[q].doing = "history" /\ conn'[q].id = id
    BY DEF HistoryComplete
  <2>1. PICK q \in Procs : conn[q].doing = "history" /\ conn[q].id = id
    BY DEF HistoryComplete
  <2>2. q # p
    BY <2>1 DEF OwnerImports, Owner
  <2> QED
    BY <1>3, <2>1, <2>2
<1>10. TxnLogged'
  <2> SUFFICES ASSUME txn'.owner # Nobody,
                      NEW id \in DOMAIN txn'.table \ (txn'.log \cup unlogged')
               PROVE  AboutToLog(id)'
    BY DEF TxnLogged
  <2>1. ~InTxn(p) /\ txn' = txn
    BY <1>4 DEF NoTxn
  <2>2. PICK q \in Procs : conn[q].doing = "history" /\ conn[q].id = id
    BY <2>1 DEF TxnLogged, AboutToLog
  <2>3. q # p
    BY <2>1, <2>2
  <2> QED
    BY <1>3, <2>2, <2>3 DEF AboutToLog
<1>11. TxnProgress'
  <2> SUFFICES ASSUME NEW q \in Procs, InTxn(q)' PROVE Progress(q)'
    BY DEF TxnProgress
  <2>1. q # p /\ InTxn(q) /\ txn' = txn /\ conn'[q] = conn[q]
    BY <1>3, <1>5
  <2> QED
    BY <2>1 DEF TxnProgress, Progress
<1> QED
  BY <1>6, <1>7, <1>8, <1>9, <1>10, <1>11

\* An edit or a removal, which stands outside of any transaction.
LEMMA DirectInv ==
    ASSUME SqlInv, NEW p \in Procs, Return(p, TRUE), conn[p].doing = "idle", ~Busy(p),
           NEW t, Write(p, t), IsTable(t), KeysUnique(t), DOMAIN t \subseteq DOMAIN table,
           log' = log, unlogged' = unlogged
    PROVE  SqlInv'
<1> USE DEF SqlInv
<1>1. txn.owner = Nobody /\ table' = t /\ txn' = txn
  BY WriteCases DEF OwnerImports, Owner
<1>4. /\ conn' \in [Procs -> Conn]
      /\ conn'[p].doing = "idle" /\ conn'[p].file = << >> /\ conn'[p].lines = << >>
      /\ \A q \in Procs \ {p} : conn'[q] = conn[q]
  BY Returned
<1>5. \A q \in Procs : ~InTxn(q) /\ ~InTxn(q)'
  BY <1>1, NobodyAssumption DEF InTxn
<1>6. SqlTypeOK' /\ TxnShape' /\ TablesUnique'
  <2>1. IsTable(table') /\ KeysUnique(table')
    BY <1>1
  <2> QED
    BY <1>1, <1>4, <2>1 DEF SqlTypeOK, TxnShape, TablesUnique
<1>7. OwnerImports'
  <2>1. Owner(p)'
    BY <1>4, <1>5 DEF Owner, Importing
  <2>2. ASSUME NEW q \in Procs \ {p} PROVE Owner(q)'
    BY <1>4, <1>5, OtherOwner
  <2> QED
    BY <2>1, <2>2 DEF OwnerImports
<1>8. HistoryComplete'
  <2> SUFFICES ASSUME NEW id \in DOMAIN t \ (log \cup unlogged)
               PROVE  \E q \in Procs : conn'[q].doing = "history" /\ conn'[q].id = id
    BY <1>1 DEF HistoryComplete
  <2>1. PICK q \in Procs : conn[q].doing = "history" /\ conn[q].id = id
    BY DEF HistoryComplete
  <2> QED
    BY <1>4, <2>1
<1>9. TxnExtends' /\ TxnLogged' /\ TxnProgress'
  BY <1>1, <1>5 DEF TxnExtends, TxnLogged, TxnProgress
<1> QED
  BY <1>6, <1>7, <1>8, <1>9

LEMMA SqlEditInv ==
    ASSUME SqlInv, NEW p \in Procs, NEW id \in Ids, NEW o \in Changes, SqlEdit(p, id, o)
    PROVE  SqlInv'
<1> DEFINE d == Changed(Table(p)[id], o)
<1>1. CASE /\ ~Busy(p) /\ id \in DOMAIN Table(p) /\ Fits(Without(Table(p), id), d)
           /\ Write(p, Put(Table(p), id, d)) /\ Return(p, TRUE)
  <2>1. Table(p) = table /\ IsTable(table) /\ KeysUnique(table)
    BY <1>1, WriteCases DEF SqlInv, OwnerImports, Owner, SqlEdit, SqlTypeOK, TablesUnique
  <2>2. d \in Row
    BY <1>1, <2>1, InputsAssumption, ChangedSqlRow DEF IsTable, PartialMap
  <2> HIDE DEF d
  <2>3. IsTable(Put(table, id, d)) /\ DOMAIN Put(table, id, d) \subseteq DOMAIN table
    BY <1>1, <2>1, <2>2, PutTable DEF Put
  <2>4. KeysUnique(Put(table, id, d))
    BY <1>1, <2>1, EditUnique
  <2> QED
    BY <1>1, <2>1, <2>3, <2>4, DirectInv DEF SqlEdit
<1>2. CASE Return(p, FALSE) /\ UNCHANGED << table, txn >>
  BY <1>2, LeaveInv DEF SqlEdit, SqlInv, SqlTypeOK, Rollback, OwnerImports, Owner
<1> QED
  BY <1>1, <1>2 DEF SqlEdit

LEMMA SqlRemoveInv ==
    ASSUME SqlInv, NEW p \in Procs, NEW id \in Ids, SqlRemove(p, id)
    PROVE  SqlInv'
<1>1. Table(p) = table /\ IsTable(table) /\ KeysUnique(table)
  BY WriteCases DEF SqlInv, OwnerImports, Owner, SqlRemove, SqlTypeOK, TablesUnique
<1>2. IsTable(Without(table, id)) /\ KeysUnique(Without(table, id))
  BY <1>1, WithoutTable, WithoutUnique
<1>3. DOMAIN Without(table, id) \subseteq DOMAIN table
  BY DEF Without
<1> QED
  BY <1>1, <1>2, <1>3, DirectInv DEF SqlRemove

LEMMA BeginInv ==
    ASSUME SqlInv, NEW p \in Procs, NEW file \in Files, SqlBeginImport(p, file)
    PROVE  SqlInv'
<1> USE DEF SqlInv
<1> DEFINE Left == Seq(Given \cup {Unread})
           Fresh(e) == [doing |-> "idle", lines |-> e, file |-> e, id |-> Blank,
                        begun |-> FALSE, result |-> TRUE]
           none == << >>
           c == [Idle EXCEPT !.doing = "import", !.lines = file, !.file = file, !.begun = ~Busy(p)]
<1>1. file \in Left /\ Idle = Fresh(none) /\ none \in Left
  BY InputsAssumption DEF Idle
<1> HIDE DEF none
<1>2. /\ c \in Conn /\ c.doing = "import" /\ c.lines = file /\ c.file = file
      /\ c.begun = ~Busy(p)
  BY <1>1 DEF Conn, Busy
<1>3. conn' = [conn EXCEPT ![p] = c] /\ conn \in [Procs -> Conn]
  BY DEF SqlBeginImport, SqlTypeOK
<1> HIDE DEF c, Left
<1>4. /\ conn' \in [Procs -> Conn]
      /\ conn'[p].doing = "import" /\ conn'[p].lines = file /\ conn'[p].file = file
      /\ conn'[p].begun = ~Busy(p)
      /\ \A q \in Procs \ {p} : conn'[q] = conn[q]
  BY <1>2, <1>3
<1>5. ~InTxn(p) /\ p # Nobody
  BY NobodyAssumption DEF SqlBeginImport, OwnerImports, Owner
<1>6. /\ table' = table /\ log' = log /\ unlogged' = unlogged
      /\ txn' = IF Busy(p) THEN txn ELSE [owner |-> p, table |-> table, log |-> log]
  BY DEF SqlBeginImport
<1>7. \A id : AboutToLog(id) => AboutToLog(id)'
  BY <1>4 DEF AboutToLog, SqlBeginImport
<1>8. CASE Busy(p)
  <2>1. txn' = txn /\ ~InTxn(p)'
    BY <1>5, <1>6, <1>8 DEF InTxn
  <2>2. SqlTypeOK' /\ TxnShape' /\ TablesUnique' /\ TxnExtends'
    BY <1>4, <1>6, <2>1 DEF SqlTypeOK, TxnShape, TablesUnique, TxnExtends, Extends
  <2>3. OwnerImports'
    <3>1. Owner(p)'
      BY <1>4, <1>8, <2>1 DEF Owner, Importing
    <3>2. ASSUME NEW q \in Procs \ {p} PROVE Owner(q)'
      BY <1>4, <1>6, <2>1, OtherOwner DEF InTxn
    <3> QED
      BY <3>1, <3>2 DEF OwnerImports
  <2>4. HistoryComplete' /\ TxnLogged'
    BY <1>6, <1>7, <2>1 DEF HistoryComplete, TxnLogged, AboutToLog
  <2>5. TxnProgress'
    <3> SUFFICES ASSUME NEW q \in Procs, InTxn(q)' PROVE Progress(q)'
      BY DEF TxnProgress
    <3>1. q # p /\ InTxn(q)
      BY <2>1 DEF InTxn
    <3> QED
      BY ZenonT(30), <1>4, <2>1, <3>1 DEF TxnProgress, Progress
  <2> QED
    BY <2>2, <2>3, <2>4, <2>5
<1>9. CASE ~Busy(p)
  <2>1. /\ txn.owner = Nobody /\ txn'.owner = p /\ txn'.table = table /\ txn'.log = log
        /\ txn' = [owner |-> p, table |-> table, log |-> log]
    BY <1>5, <1>6, <1>9 DEF Busy, InTxn
  <2>2. \A q \in Procs : ~InTxn(q) /\ (InTxn(q)' => q = p)
    BY <2>1, NobodyAssumption DEF InTxn
  <2>3. SqlTypeOK'
    BY <1>4, <1>6, <2>1 DEF SqlTypeOK
  <2>4. TxnShape' /\ TablesUnique' /\ TxnExtends'
    BY <1>6, <2>1 DEF TxnShape, TablesUnique, TxnExtends, Extends
  <2>5. OwnerImports'
    <3>1. Owner(p)'
      BY <1>4, <1>9, <2>1 DEF Owner, Importing, InTxn
    <3>2. ASSUME NEW q \in Procs \ {p} PROVE Owner(q)'
      BY <1>4, <2>2, OtherOwner
    <3> QED
      BY <3>1, <3>2 DEF OwnerImports
  <2>6. HistoryComplete' /\ TxnLogged'
    BY <1>6, <1>7, <2>1 DEF HistoryComplete, TxnLogged, AboutToLog
  <2>7. TxnProgress'
    <3>1. Len(file) \in Nat
      BY <1>1 DEF Left
    <3>2. Progress(p)'
      BY <1>4, <3>1 DEF Progress
    <3> QED
      BY <2>2, <3>2 DEF TxnProgress
  <2> QED
    BY <2>3, <2>4, <2>5, <2>6, <2>7
<1> QED
  BY <1>8, <1>9

\* What Progress says of the rows read goes on to hold one line later.
LEMMA ProgressTail ==
    ASSUME NEW S, NEW file \in Seq(S), NEW rest \in Seq(S), rest # << >>,
           Len(rest) <= Len(file), NEW done,
           \A i \in 1 .. Len(rest) : rest[i] = file[Len(file) - Len(rest) + i],
           \A i \in 1 .. Len(file) - Len(rest) : file[i] \in done,
           Head(rest) \in done
    PROVE  /\ Len(Tail(rest)) <= Len(file)
           /\ \A i \in 1 .. Len(Tail(rest)) :
                 Tail(rest)[i] = file[Len(file) - Len(Tail(rest)) + i]
           /\ \A i \in 1 .. Len(file) - Len(Tail(rest)) : file[i] \in done
<1>1. /\ Len(rest) \in Nat \ {0} /\ Len(file) \in Nat
      /\ Len(Tail(rest)) = Len(rest) - 1
      /\ \A i \in 1 .. Len(rest) - 1 : Tail(rest)[i] = rest[i + 1]
      /\ Head(rest) = rest[1]
  OBVIOUS
<1>2. ASSUME NEW i \in 1 .. Len(rest) - 1
      PROVE  Tail(rest)[i] = file[Len(file) - (Len(rest) - 1) + i]
  <2>1. Tail(rest)[i] = rest[i + 1] /\ i + 1 \in 1 .. Len(rest)
    BY <1>1
  <2>2. Len(file) - Len(rest) + (i + 1) = Len(file) - (Len(rest) - 1) + i
    BY <1>1
  <2> QED
    BY <2>1, <2>2
<1>3. ASSUME NEW i \in 1 .. Len(file) - (Len(rest) - 1)
      PROVE  file[i] \in done
  <2>1. CASE i \in 1 .. Len(file) - Len(rest)
    BY <2>1
  <2>2. CASE i = Len(file) - Len(rest) + 1
    <3>1. Head(rest) = file[i]
      BY <1>1, <2>2
    <3> QED
      BY <3>1
  <2> QED
    BY <1>1, <2>1, <2>2
<1> QED
  BY <1>1, <1>2, <1>3

LEMMA ProgressNext ==
    ASSUME SqlInv, NEW p \in Procs, Progress(p), conn[p].lines # << >>,
           Head(conn[p].lines) # Unread => StoredAs(Head(conn[p].lines), txn.table),
           conn'[p].file = conn[p].file, conn'[p].lines = Tail(conn[p].lines),
           conn'[p].doing = "import", txn'.table = txn.table
    PROVE  Progress(p)'
<1> DEFINE S == Given \cup {Unread}
           done == {row \in S : row # Unread => StoredAs(row, txn.table)}
           file == conn[p].file
           rest == conn[p].lines
<1>1. file \in Seq(S) /\ rest \in Seq(S)
  BY DEF SqlInv, SqlTypeOK, Conn
<1>2. /\ Len(rest) <= Len(file)
      /\ \A i \in 1 .. Len(rest) : rest[i] = file[Len(file) - Len(rest) + i]
      /\ \A i \in 1 .. Len(file) - Len(rest) :
            file[i] # Unread => StoredAs(file[i], txn.table)
  BY DEF Progress
<1>3. Len(file) \in Nat /\ Len(rest) \in Nat /\ Head(rest) \in S
      /\ \A i \in 1 .. Len(file) : file[i] \in S
  BY <1>1
<1>4. Head(rest) \in done /\ \A i \in 1 .. Len(file) - Len(rest) : file[i] \in done
  BY <1>2, <1>3
<1> HIDE DEF S, done
<1>5. /\ Len(Tail(rest)) <= Len(file)
      /\ \A i \in 1 .. Len(Tail(rest)) :
            Tail(rest)[i] = file[Len(file) - Len(Tail(rest)) + i]
      /\ \A i \in 1 .. Len(file) - Len(Tail(rest)) : file[i] \in done
  BY <1>1, <1>2, <1>4, ProgressTail
<1>6. \A i \in 1 .. Len(file) - Len(Tail(rest)) :
          file[i] # Unread => StoredAs(file[i], txn'.table)
  BY SMTT(30), <1>5 DEF done, StoredAs
<1> QED
  BY <1>5, <1>6 DEF Progress

\* A line that cannot be read is passed over.
LEMMA UnreadInv ==
    ASSUME SqlInv, NEW p \in Procs, conn[p].doing = "import", conn[p].lines # << >>,
           Head(conn[p].lines) = Unread, conn' = [conn EXCEPT ![p].lines = Tail(@)],
           UNCHANGED << table, log, txn, unlogged >>
    PROVE  SqlInv'
<1> USE DEF SqlInv
<1>1. conn \in [Procs -> Conn] /\ conn[p] \in Conn
  BY DEF SqlTypeOK
<1>2. Tail(conn[p].lines) \in Seq(Given \cup {Unread})
  BY <1>1 DEF Conn
<1>3. [conn[p] EXCEPT !.lines = Tail(conn[p].lines)] \in Conn
  BY <1>1, <1>2 DEF Conn
<1>4. /\ conn' \in [Procs -> Conn]
      /\ conn'[p] = [conn[p] EXCEPT !.lines = Tail(conn[p].lines)]
      /\ \A q \in Procs \ {p} : conn'[q] = conn[q]
  BY <1>1, <1>3
<1>5. /\ conn'[p].doing = "import" /\ conn'[p].file = conn[p].file
      /\ conn'[p].lines = Tail(conn[p].lines) /\ conn'[p].begun = conn[p].begun
  BY <1>1, <1>4 DEF Conn
<1>6. \A id : AboutToLog(id) => AboutToLog(id)'
  BY <1>4 DEF AboutToLog
<1>7. SqlTypeOK' /\ TxnShape' /\ TablesUnique' /\ TxnExtends'
  BY <1>4 DEF SqlTypeOK, TxnShape, TablesUnique, TxnExtends, Extends
<1>8. OwnerImports'
  <2>1. Owner(p)'
    BY <1>5 DEF OwnerImports, Owner, Importing, InTxn
  <2>2. ASSUME NEW q \in Procs \ {p} PROVE Owner(q)'
    BY <1>4, OtherOwner DEF InTxn
  <2> QED
    BY <2>1, <2>2 DEF OwnerImports
<1>9. HistoryComplete' /\ TxnLogged'
  BY <1>6 DEF HistoryComplete, TxnLogged, AboutToLog
<1>10. TxnProgress'
  <2>1. ASSUME InTxn(p)' PROVE Progress(p)'
    BY <1>5, <2>1, ProgressNext DEF TxnProgress, InTxn
  <2>2. ASSUME NEW q \in Procs \ {p}, InTxn(q)' PROVE Progress(q)'
    <3>1. Progress(q) /\ txn' = txn /\ conn'[q] = conn[q]
      BY <1>4, <2>2 DEF TxnProgress, InTxn
    <3> QED
      BY <3>1 DEF Progress
  <2> QED
    BY <2>1, <2>2 DEF TxnProgress
<1> QED
  BY <1>7, <1>8, <1>9, <1>10

LEMMA ImportLineInv ==
    ASSUME SqlInv, NEW p \in Procs, SqlImportLine(p)
    PROVE  SqlInv'
<1> DEFINE row == Head(conn[p].lines)
<1>1. row \in Given \cup {Unread}
  BY DEF SqlInv, SqlTypeOK, Conn, SqlImportLine
<1>2. CASE row = Unread
  BY <1>2, UnreadInv DEF SqlImportLine
<1>3. CASE row # Unread /\ Insert(p, row)
  BY <1>1, <1>3, InsertInv DEF SqlImportLine
<1>4. CASE row # Unread /\ Rollback(p) /\ Return(p, FALSE) /\ UNCHANGED << table, log, unlogged >>
  BY <1>4, LeaveInv DEF SqlImportLine, SqlInv, SqlTypeOK
<1> QED
  BY <1>2, <1>3, <1>4 DEF SqlImportLine

LEMMA EndImportInv ==
    ASSUME SqlInv, NEW p \in Procs, SqlEndImport(p)
    PROVE  SqlInv'
<1> USE DEF SqlInv
<1>1. CASE ~InTxn(p)
  BY <1>1, LeaveInv DEF SqlEndImport, Table, SqlTypeOK
<1>2. CASE InTxn(p)
  <2>1. /\ conn' \in [Procs -> Conn]
        /\ conn'[p].doing = "idle" /\ conn'[p].file = << >>
        /\ \A q \in Procs \ {p} : conn'[q] = conn[q]
    BY Returned DEF SqlEndImport
  <2>2. /\ table' = txn.table /\ log' = txn.log /\ txn' = NoTxn /\ unlogged' = unlogged
        /\ conn[p].doing = "import" /\ txn.owner # Nobody
    BY <1>2, NobodyAssumption DEF SqlEndImport, Table, Rollback, InTxn
  <2>3. \A q \in Procs : ~InTxn(q)' /\ (q # p => ~InTxn(q))
    BY <1>2, <2>2, NobodyAssumption DEF InTxn, NoTxn
  <2>4. SqlTypeOK'
    <3>1. /\ IsTable(txn'.table) /\ txn'.log \subseteq Ids
          /\ txn'.owner \in Procs \cup {Nobody}
      BY <2>2, NothingTable DEF NoTxn
    <3>2. IsTable(table') /\ log' \subseteq Ids
      BY <2>2 DEF SqlTypeOK
    <3> QED
      BY <2>1, <2>2, <3>1, <3>2 DEF SqlTypeOK
  <2>5. TxnShape' /\ TablesUnique' /\ TxnExtends'
    BY <2>2, NothingTable DEF TxnShape, TablesUnique, TxnExtends, NoTxn
  <2>6. OwnerImports'
    <3>1. Owner(p)'
      BY <2>1, <2>3 DEF Owner, Importing
    <3>2. ASSUME NEW q \in Procs \ {p} PROVE Owner(q)'
      BY <2>1, <2>3, OtherOwner
    <3> QED
      BY <3>1, <3>2 DEF OwnerImports
  <2>7. HistoryComplete'
    <3> SUFFICES ASSUME NEW id \in DOMAIN txn.table \ (txn.log \cup unlogged)
                 PROVE  \E q \in Procs : conn'[q].doing = "history" /\ conn'[q].id = id
      BY <2>2 DEF HistoryComplete
    <3>1. PICK q \in Procs : conn[q].doing = "history" /\ conn[q].id = id
      BY <2>2 DEF TxnLogged, AboutToLog
    <3> QED
      BY <2>1, <2>2, <3>1
  <2>8. TxnLogged' /\ TxnProgress'
    BY <2>2, <2>3 DEF TxnLogged, TxnProgress, NoTxn
  <2> QED
    BY <2>4, <2>5, <2>6, <2>7, <2>8
<1> QED
  BY <1>1, <1>2

\* A COMMIT that fails leaves everything as it is.
LEMMA CommitFailsInv ==
    ASSUME SqlInv, NEW p \in Procs, SqlCommitFails(p)
    PROVE  SqlInv'
<1> USE DEF SqlInv
<1>1. /\ table' = table /\ log' = log /\ txn' = txn /\ unlogged' = unlogged
      /\ conn[p].doing = "import" /\ conn[p].lines = << >> /\ InTxn(p)
  BY DEF SqlCommitFails
<1>2. /\ conn' \in [Procs -> Conn]
      /\ conn'[p] = [conn[p] EXCEPT !.doing = "uncommitted", !.result = TRUE]
      /\ \A q \in Procs \ {p} : conn'[q] = conn[q]
  <2> DEFINE c == [conn[p] EXCEPT !.doing = "uncommitted", !.result = TRUE]
  <2>1. conn \in [Procs -> Conn] /\ conn' = [conn EXCEPT ![p] = c]
    BY DEF SqlCommitFails, SqlTypeOK
  <2>2. c \in Conn
    BY <2>1 DEF Conn
  <2> HIDE DEF c
  <2>3. /\ conn' \in [Procs -> Conn] /\ conn'[p] = c
        /\ \A q \in Procs \ {p} : conn'[q] = conn[q]
    BY <2>1, <2>2
  <2> QED
    BY <2>3 DEF c
<1>3. /\ conn'[p].doing = "uncommitted" /\ conn'[p].lines = conn[p].lines
      /\ conn'[p].file = conn[p].file /\ conn'[p].begun = conn[p].begun
  BY <1>2 DEF SqlTypeOK, Conn
<1>4. /\ SqlTypeOK' /\ TxnShape' /\ TablesUnique' /\ TxnExtends'
  BY <1>1, <1>2 DEF SqlTypeOK, TxnShape, TablesUnique, TxnExtends, Extends
<1>5. OwnerImports'
  <2>1. Owner(p)'
    BY <1>1, <1>3 DEF OwnerImports, Owner, Importing, InTxn
  <2>2. ASSUME NEW q \in Procs \ {p} PROVE Owner(q)'
    BY <1>1, <1>2, OtherOwner DEF InTxn
  <2> QED
    BY <2>1, <2>2 DEF OwnerImports
<1>6. HistoryComplete' /\ TxnLogged'
  <2>1. \A id : AboutToLog(id) => AboutToLog(id)'
    BY <1>1, <1>2 DEF AboutToLog
  <2> QED
    BY <1>1, <2>1 DEF HistoryComplete, TxnLogged, AboutToLog
<1>7. TxnProgress'
  <2> SUFFICES ASSUME NEW q \in Procs, InTxn(q)' PROVE Progress(q)'
    BY DEF TxnProgress
  <2>1. Progress(q) /\ txn' = txn
    BY <1>1 DEF TxnProgress, InTxn
  <2>2. CASE q = p
    BY <1>3, <2>1, <2>2 DEF Progress
  <2>3. CASE q # p
    BY <1>2, <2>1, <2>3 DEF Progress
  <2> QED
    BY <2>2, <2>3
<1> QED
  BY <1>4, <1>5, <1>6, <1>7

LEMMA HistoryInv ==
    ASSUME SqlInv, NEW p \in Procs, SqlHistory(p)
    PROVE  SqlInv'
<1> USE DEF SqlInv
<1> DEFINE next == [conn[p] EXCEPT !.doing = "import", !.id = Blank, !.lines = Tail(conn[p].lines)]
<1>1. /\ conn \in [Procs -> Conn] /\ conn[p] \in Conn /\ conn[p].id \in Ids \cup {Blank}
      /\ conn[p].doing = "history" /\ table' = table
  BY DEF SqlTypeOK, SqlHistory, Conn
<1>2. ASSUME conn[p].file # << >>
      PROVE  /\ conn[p].lines # << >> /\ next \in Conn
             /\ next.doing = "import" /\ next.lines = Tail(conn[p].lines)
             /\ next.file = conn[p].file /\ next.begun = conn[p].begun
  <2>1. conn[p].lines # << >>
    BY <1>1, <1>2 DEF OwnerImports, Owner
  <2>2. Tail(conn[p].lines) \in Seq(Given \cup {Unread})
    BY <1>1, <2>1 DEF Conn
  <2> QED
    BY <1>1, <2>1, <2>2 DEF Conn
<1>3. /\ Idle \in Conn /\ Idle.doing = "idle" /\ Idle.file = << >> /\ Idle.lines = << >>
      /\ Idle.begun = FALSE
  BY BlankAssumption DEF Idle, Conn
<1>4. conn' = [conn EXCEPT ![p] = IF conn[p].file = << >> THEN Idle ELSE next]
  BY DEF SqlHistory
<1> HIDE DEF next
<1>5. /\ conn' \in [Procs -> Conn]
      /\ conn'[p] = IF conn[p].file = << >> THEN Idle ELSE next
      /\ \A q \in Procs \ {p} : conn'[q] = conn[q]
  BY <1>1, <1>2, <1>3, <1>4
<1>6. /\ txn'.table = txn.table /\ txn'.owner = txn.owner
      /\ txn' = [owner |-> txn'.owner, table |-> txn'.table, log |-> txn'.log]
      /\ log \subseteq log' /\ txn.log \subseteq txn'.log /\ unlogged \subseteq unlogged'
  BY DEF SqlHistory, WriteLog, TxnShape
<1>7. /\ InTxn(p) => conn[p].id \in txn'.log
      /\ ~InTxn(p) => conn[p].id \in log' \cup unlogged'
  BY DEF SqlHistory, WriteLog, InTxn, TxnShape, Busy
<1>8. log' \subseteq Ids /\ txn'.log \subseteq Ids /\ unlogged' \subseteq Ids
  BY <1>1, <1>6 DEF SqlHistory, WriteLog, SqlTypeOK, TxnShape, OwnerImports, Owner
<1>9. SqlTypeOK'
  BY <1>1, <1>5, <1>6, <1>8 DEF SqlTypeOK
<1>10. TxnShape' /\ TablesUnique' /\ TxnExtends'
  BY <1>1, <1>6 DEF TxnShape, TablesUnique, TxnExtends, Extends
<1>11. OwnerImports'
  <2>1. Owner(p)'
    <3>1. CASE conn[p].file = << >>
      <4>1. ~InTxn(p)'
        BY <1>1, <1>6, <3>1 DEF OwnerImports, Owner, InTxn
      <4> QED
        BY <1>3, <1>5, <3>1, <4>1 DEF Owner, Importing
    <3>2. CASE conn[p].file # << >>
      <4>1. /\ conn'[p].doing = "import" /\ conn'[p].file = conn[p].file
            /\ conn'[p].begun = conn[p].begun
        BY <1>2, <1>5, <3>2
      <4>2. InTxn(p)' <=> InTxn(p)
        BY <1>6 DEF InTxn
      <4> QED
        BY <1>1, <3>2, <4>1, <4>2 DEF OwnerImports, Owner, Importing
    <3> QED
      BY <3>1, <3>2
  <2>2. ASSUME NEW q \in Procs \ {p} PROVE Owner(q)'
    BY <1>1, <1>5, <1>6, OtherOwner DEF InTxn
  <2> QED
    BY <2>1, <2>2 DEF OwnerImports
<1>12. HistoryComplete'
  <2> SUFFICES ASSUME NEW id \in DOMAIN table \ (log' \cup unlogged')
               PROVE  \E q \in Procs : conn'[q].doing = "history" /\ conn'[q].id = id
    BY <1>1 DEF HistoryComplete
  <2>1. PICK q \in Procs : conn[q].doing = "history" /\ conn[q].id = id
    BY <1>6 DEF HistoryComplete
  <2>2. q # p
    BY <1>1, <1>7, <2>1 DEF OwnerImports, Owner
  <2> QED
    BY <1>5, <2>1, <2>2
<1>13. TxnLogged'
  <2> SUFFICES ASSUME txn'.owner # Nobody,
                      NEW id \in DOMAIN txn'.table \ (txn'.log \cup unlogged')
               PROVE  AboutToLog(id)'
    BY DEF TxnLogged
  <2>1. PICK q \in Procs : conn[q].doing = "history" /\ conn[q].id = id
    BY <1>6 DEF TxnLogged, AboutToLog
  <2>2. CASE q # p
    BY <1>5, <2>1, <2>2 DEF AboutToLog
  <2>3. CASE q = p
    <3>1. ~InTxn(p) => Busy(p)
      BY <1>6 DEF InTxn, Busy
    <3>2. Busy(p) => conn[p].id \in unlogged'
      BY DEF SqlHistory
    <3> QED
      BY <1>7, <2>1, <2>3, <3>1, <3>2
  <2> QED
    BY <2>2, <2>3
<1>14. TxnProgress'
  <2>1. ASSUME InTxn(p)' PROVE Progress(p)'
    <3>1. InTxn(p) /\ conn[p].file # << >> /\ Progress(p)
      BY <1>1, <1>6, <2>1 DEF InTxn, OwnerImports, Owner, TxnProgress
    <3>2. conn[p].lines # << >> /\ StoredAs(Head(conn[p].lines), txn.table)
      BY <1>1, <3>1 DEF Progress
    <3>3. /\ conn'[p].file = conn[p].file /\ conn'[p].lines = Tail(conn[p].lines)
          /\ conn'[p].doing = "import"
      BY <1>2, <1>5, <3>1
    <3> QED
      BY <1>6, <3>1, <3>2, <3>3, ProgressNext
  <2>2. ASSUME NEW q \in Procs \ {p}, InTxn(q)' PROVE Progress(q)'
    <3>1. Progress(q) /\ txn'.table = txn.table /\ conn'[q] = conn[q]
      BY <1>5, <1>6, <2>2 DEF TxnProgress, InTxn
    <3> QED
      BY <3>1 DEF Progress
  <2> QED
    BY <2>1, <2>2 DEF TxnProgress
<1> QED
  BY <1>9, <1>10, <1>11, <1>12, <1>13, <1>14

LEMMA KillInv ==
    ASSUME SqlInv, NEW p \in Procs, SqlKill(p)
    PROVE  SqlInv'
<1>1. unlogged \subseteq unlogged' /\ unlogged' \subseteq Ids
  BY DEF SqlKill, SqlInv, SqlTypeOK, OwnerImports, Owner
<1>2. conn[p].doing = "history" /\ ~InTxn(p) => conn[p].id \in unlogged'
  BY DEF SqlKill
<1> QED
  BY <1>1, <1>2, LeaveInv DEF SqlKill

LEMMA SqlAddInv ==
    ASSUME SqlInv, NEW p \in Procs, NEW row \in Additions, SqlAdd(p, row)
    PROVE  SqlInv'
<1>1. CASE Insert(p, row)
  BY <1>1, InputsAssumption, InsertInv DEF SqlAdd
<1>2. CASE Return(p, FALSE) /\ UNCHANGED << table, log, txn, unlogged >>
  BY <1>2, LeaveInv DEF SqlAdd, SqlInv, SqlTypeOK, Rollback, OwnerImports, Owner
<1> QED
  BY <1>1, <1>2 DEF SqlAdd

LEMMA SqlStepInv ==
    ASSUME SqlInv, [SqlNext]_sqlVars
    PROVE  SqlInv'
<1>1. ASSUME NEW p \in Procs, NEW row \in Additions, SqlAdd(p, row) PROVE SqlInv'
  BY <1>1, SqlAddInv
<1>2. ASSUME NEW p \in Procs, SqlHistory(p) PROVE SqlInv'
  BY <1>2, HistoryInv
<1>3. ASSUME NEW p \in Procs, NEW id \in Ids, SqlRemove(p, id) PROVE SqlInv'
  BY <1>3, SqlRemoveInv
<1>4. ASSUME NEW p \in Procs, NEW id \in Ids, NEW o \in Changes, SqlEdit(p, id, o) PROVE SqlInv'
  BY <1>4, SqlEditInv
<1>5. ASSUME NEW p \in Procs, NEW file \in Files, SqlBeginImport(p, file) PROVE SqlInv'
  BY <1>5, BeginInv
<1>6. ASSUME NEW p \in Procs, SqlImportLine(p) \/ SqlEndImport(p) \/ SqlKill(p) PROVE SqlInv'
  BY <1>6, ImportLineInv, EndImportInv, KillInv
<1>8. ASSUME NEW p \in Procs, SqlCommitFails(p) PROVE SqlInv'
  BY <1>8, CommitFailsInv
<1>7. CASE UNCHANGED sqlVars
  <2>1. /\ table' = table /\ log' = log /\ txn' = txn /\ conn' = conn
        /\ unlogged' = unlogged
    BY <1>7 DEF sqlVars
  <2>2. /\ SqlTypeOK' /\ TxnShape' /\ TablesUnique' /\ TxnExtends'
    BY <2>1 DEF SqlInv, SqlTypeOK, TxnShape, TablesUnique, TxnExtends, Extends
  <2>3. OwnerImports'
    BY <2>1, OtherOwner DEF OwnerImports, InTxn
  <2>4. HistoryComplete' /\ TxnLogged'
    BY <2>1 DEF SqlInv, HistoryComplete, TxnLogged, AboutToLog
  <2>5. TxnProgress'
    BY <2>1 DEF SqlInv, TxnProgress, InTxn, Progress
  <2> QED
    BY <2>2, <2>3, <2>4, <2>5 DEF SqlInv
<1> QED
  BY <1>1, <1>2, <1>3, <1>4, <1>5, <1>6, <1>7, <1>8 DEF SqlNext

-----------------------------------------------------------------------------
(* The theorems                                                              *)

\* Tables, history, transaction and processes are as the code needs them at
\* every moment, whoever is killed or refused.
THEOREM SqlInvariant == SqlSpec => []SqlInv
<1>1. SqlInit => SqlInv
  BY SqlInitInv
<1>2. SqlInv /\ [SqlNext]_sqlVars => SqlInv'
  BY SqlStepInv
<1> QED
  BY <1>1, <1>2, PTL DEF SqlSpec

THEOREM SqlTypes == SqlSpec => []SqlTypeOK
<1>1. SqlInv => SqlTypeOK
  BY DEF SqlInv
<1> QED
  BY <1>1, SqlInvariant, PTL

\* Every contact has its history row, or a process that is about to write it,
\* or was refused it, or killed before it.
THEOREM SqlHistories == SqlSpec => []HistoryComplete
<1>1. SqlInv => HistoryComplete
  BY DEF SqlInv
<1> QED
  BY <1>1, SqlInvariant, PTL

\* While p imports in a transaction, only the end of the import changes the
\* committed contacts.
LEMMA OnlyTheEnd ==
    ASSUME SqlInv, [SqlNext]_sqlVars, NEW p \in Procs, InTxn(p), table' # table
    PROVE  SqlEndImport(p)
<1>1. \A q \in Procs : q # p => Busy(q) /\ ~InTxn(q) /\ Table(q) = table
  BY NobodyAssumption DEF Busy, InTxn, Table
<1>2. \A q \in Procs : \A t : ~Busy(q) /\ Write(q, t) => table' = table
  BY <1>1 DEF Write, InTxn
<1>3. ASSUME NEW q \in Procs, NEW row, Insert(q, row) PROVE FALSE
  BY <1>2, <1>3 DEF Insert
<1>4. ASSUME NEW q \in Procs, NEW row \in Additions, SqlAdd(q, row) PROVE FALSE
  BY <1>3, <1>4 DEF SqlAdd
<1>5. ASSUME NEW q \in Procs, NEW id \in Ids, NEW o \in Changes, SqlEdit(q, id, o) PROVE FALSE
  BY <1>2, <1>5 DEF SqlEdit
<1>6. ASSUME NEW q \in Procs, NEW id \in Ids, SqlRemove(q, id) PROVE FALSE
  BY <1>2, <1>6 DEF SqlRemove
<1>7. ASSUME NEW q \in Procs, SqlImportLine(q) PROVE FALSE
  BY <1>3, <1>7 DEF SqlImportLine
<1>8. ASSUME NEW q \in Procs, SqlEndImport(q) PROVE q = p
  BY <1>1, <1>8 DEF SqlEndImport
<1> QED
  BY <1>4, <1>5, <1>6, <1>7, <1>8 DEF SqlNext, sqlVars, SqlHistory, SqlBeginImport, SqlCommitFails, SqlKill

\* An import whose BEGIN was granted is seen by others whole or not at all.
THEOREM SqlImports == SqlSpec => ImportAllOrNothing
<1>1. ASSUME SqlInv, SqlInv', [SqlNext]_sqlVars, NEW p \in Procs,
             Importing(p), conn[p].begun, table' # table
      PROVE  /\ conn'[p].doing = "idle" /\ conn'[p].result
             /\ \A row \in Readable(conn[p].file) : StoredAs(row, table')
  <2>1. InTxn(p) /\ conn \in [Procs -> Conn]
    BY <1>1 DEF SqlInv, OwnerImports, Owner, SqlTypeOK
  <2>2. SqlEndImport(p)
    BY <1>1, <2>1, OnlyTheEnd
  <2>3. conn'[p].doing = "idle" /\ conn'[p].result
    BY <2>1, <2>2 DEF SqlEndImport, Return, Idle
  <2>4. table' = txn.table /\ conn[p].lines = << >> /\ Progress(p)
    BY <1>1, <2>1, <2>2 DEF SqlEndImport, Table, SqlInv, TxnProgress
  <2>5. \A i \in 1 .. Len(conn[p].file) :
            conn[p].file[i] # Unread => StoredAs(conn[p].file[i], txn.table)
    <3>1. conn[p].file \in Seq(Given \cup {Unread}) /\ Len(conn[p].lines) = 0
      BY <2>1, <2>4 DEF Conn
    <3> QED
      BY <2>4, <3>1 DEF Progress
  <2>6. DOMAIN conn[p].file = 1 .. Len(conn[p].file)
    BY <2>1 DEF Conn
  <2>7. ASSUME NEW row \in Readable(conn[p].file) PROVE StoredAs(row, table')
    BY <2>4, <2>5, <2>6, <2>7 DEF Readable
  <2> QED
    BY <2>3, <2>7
<1>2. ASSUME SqlInv, SqlInv', [SqlNext]_sqlVars
      PROVE  [ \A p \in Procs : Importing(p) /\ conn[p].begun /\ table' # table =>
                 /\ conn'[p].doing = "idle" /\ conn'[p].result
                 /\ \A row \in Readable(conn[p].file) : StoredAs(row, table') ]_sqlVars
  BY <1>1, <1>2
<1> QED
  BY <1>2, SqlInvariant, PTL DEF SqlSpec, ImportAllOrNothing

\* Each step others can see is one operation of a contact store: a whole import
\* is one Insert.
LEMMA SqlStepRefines ==
    ASSUME SqlInv, SqlInv', [SqlNext]_sqlVars
    PROVE  SqlStore!Next \/ UNCHANGED << table, FALSE >>
<1> SUFFICES ASSUME table' # table PROVE SqlStore!Next
  OBVIOUS
<1>1. SqlStore!KeysUnique(table)'
  BY DEF SqlInv, TablesUnique, SqlStore!KeysUnique, KeysUnique, SqlStore!SameKey, SameKey
<1>2. SqlStore!Insert \/ (\E id \in Ids : SqlStore!Edit(id) \/ SqlStore!Remove(id))
      => SqlStore!Next
  BY <1>1 DEF SqlStore!Next
<1>3. ASSUME NEW p \in Procs, NEW row, Insert(p, row) PROVE SqlStore!Insert
  <2>1. PICK c : ~Busy(p) /\ Fits(Table(p), c) /\ Write(p, Put(Table(p), c.id, c))
    BY <1>3 DEF Insert
  <2>2. Table(p) = table /\ table' = Put(table, c.id, c) /\ c.id \notin DOMAIN table
    BY <2>1, WriteCases DEF Fits
  <2> QED
    BY <2>2 DEF SqlStore!Insert, SqlStore!Keeps, Put
<1>4. ASSUME NEW p \in Procs, NEW row \in Additions, SqlAdd(p, row) PROVE SqlStore!Insert
  BY <1>3, <1>4 DEF SqlAdd
<1>5. ASSUME NEW p \in Procs, NEW id \in Ids, NEW o \in Changes, SqlEdit(p, id, o)
      PROVE  SqlStore!Edit(id)
  <2>1. /\ ~Busy(p) /\ id \in DOMAIN Table(p)
        /\ Write(p, Put(Table(p), id, Changed(Table(p)[id], o)))
    BY <1>5 DEF SqlEdit
  <2>2. Table(p) = table /\ table' = Put(table, id, Changed(table[id], o))
    BY <2>1, WriteCases
  <2> QED
    BY <2>1, <2>2 DEF SqlStore!Edit, SqlStore!Keeps, Put
<1>6. ASSUME NEW p \in Procs, NEW id \in Ids, SqlRemove(p, id) PROVE SqlStore!Remove(id)
  BY <1>6, WriteCases DEF SqlRemove, SqlStore!Remove, SqlStore!Without, Without
<1>7. ASSUME NEW p \in Procs, SqlImportLine(p) PROVE SqlStore!Insert
  BY <1>3, <1>7 DEF SqlImportLine
<1>8. ASSUME NEW p \in Procs, SqlEndImport(p) PROVE SqlStore!Insert
  <2>1. table' = txn.table /\ txn.owner # Nobody
    BY <1>8, NobodyAssumption DEF SqlEndImport, Table, InTxn
  <2> QED
    BY <2>1 DEF SqlInv, TxnExtends, Extends, SqlStore!Insert, SqlStore!Keeps
<1> QED
  BY <1>2, <1>4, <1>5, <1>6, <1>7, <1>8
     DEF SqlNext, sqlVars, SqlHistory, SqlBeginImport, SqlCommitFails, SqlKill

\* However many processes use the file, the engine implements the contact store.
THEOREM SqlRefines == SqlSpec => SqlRefinesStore
<1>1. SqlInit => SqlStore!Init
  BY DEF SqlInit, SqlStore!Init, SqlStore!Nothing, Nothing
<1>2. SqlInv /\ SqlInv' /\ [SqlNext]_sqlVars => [SqlStore!Next]_<< table, FALSE >>
  BY SqlStepRefines
<1> QED
  BY <1>1, <1>2, SqlInvariant, PTL DEF SqlSpec, SqlRefinesStore, SqlStore!Spec, SqlStore!vars

-----------------------------------------------------------------------------
(* RocksDB                                                                   *)

\* One kind of keys is exact: it maps each stored value to the id that has it,
\* and nothing else.  f gives the value of each stored contact.
Exact(f, keys) ==
    /\ \A i \in DOMAIN f : f[i] \in DOMAIN keys /\ keys[f[i]] = i
    /\ \A e \in DOMAIN keys : keys[e] \in DOMAIN f /\ f[keys[e]] = e

EmailOf == [i \in DOMAIN contacts |-> contacts[i].email]
PhoneOf == [i \in DOMAIN contacts |-> contacts[i].phone]

\* The inductive invariant: as long as nothing was taken over, both are exact.
KeysExact == ~taken => Exact(EmailOf, emailKey) /\ Exact(PhoneOf, phoneKey)

RocksInv == RocksTypeOK /\ KeysExact

-----------------------------------------------------------------------------
(* Partial maps, and what keeps a kind of keys exact                         *)

LEMMA PutPartial ==
    ASSUME NEW f, NEW D, NEW R, PartialMap(f, D, R), NEW k \in D, NEW v \in R
    PROVE  PartialMap(Put(f, k, v), D, R)
BY DEF PartialMap, Put

LEMMA WithoutPartial ==
    ASSUME NEW f, NEW D, NEW R, PartialMap(f, D, R), NEW k
    PROVE  PartialMap(Without(f, k), D, R)
BY DEF PartialMap, Without

LEMMA NothingPartial == ASSUME NEW D, NEW R PROVE PartialMap(Nothing, D, R)
BY DEF PartialMap, Nothing

LEMMA ExactAdded ==
    ASSUME NEW f, NEW keys, Exact(f, keys),
           NEW i, i \notin DOMAIN f, NEW e, e \notin DOMAIN keys
    PROVE  Exact(Put(f, i, e), Put(keys, e, i))
BY DEF Exact, Put

LEMMA ExactMoved ==
    ASSUME NEW f, NEW keys, Exact(f, keys),
           NEW i \in DOMAIN f, NEW e, ~HeldByOther(keys, e, i)
    PROVE  Exact(Put(f, i, e), Moved(keys, f[i], e, i))
BY DEF Exact, Put, Without, Moved, HeldByOther

LEMMA ExactRemoved ==
    ASSUME NEW f, NEW keys, Exact(f, keys), NEW i \in DOMAIN f
    PROVE  Exact(Without(f, i), Without(keys, f[i]))
BY DEF Exact, Without

\* After a step that took nothing over, stored rows share no key.
LEMMA UniqueAfter ==
    ASSUME RocksInv', ~taken'
    PROVE  KeysUnique(contacts)'
BY DEF RocksInv, KeysExact, Exact, EmailOf, PhoneOf, KeysUnique, SameKey

-----------------------------------------------------------------------------
(* Rows                                                                      *)

\* The row that add stores, with an id of its own if it brought none.
LEMMA NamedRow ==
    ASSUME NEW row \in Given, NEW used, NEW c \in Named(row, used)
    PROVE  c \in Row /\ c.email = row.email /\ c.phone = row.phone
<1>1. CASE row.id = Blank
  BY <1>1 DEF Named, Given, Row
<1>2. CASE row.id # Blank
  BY <1>2 DEF Named, Given, Row
<1> QED
  BY <1>1, <1>2

\* Options that are left out keep the field of the row, so its type is kept.
LEMMA ChangedRow ==
    ASSUME NEW c \in Row, NEW o \in Options
    PROVE  Changed(c, o) \in Row
<1>1. /\ c.name \in Names /\ c.email \in Emails /\ c.phone \in Phones
      /\ o.name \in Names \cup {Blank} /\ o.email \in Emails \cup {Blank}
      /\ o.phone \in Phones \cup {Blank}
  BY DEF Row, Options
<1>2. /\ Or(o.name, c.name) \in Names
      /\ Or(o.email, c.email) \in Emails
      /\ Or(o.phone, c.phone) \in Phones
  BY <1>1 DEF Or
<1> HIDE DEF Or
<1>3. [c EXCEPT !.name = Or(o.name, c.name)] \in Row
  BY <1>2 DEF Row
<1>4. [c EXCEPT !.name = Or(o.name, c.name), !.email = Or(o.email, c.email)] \in Row
  BY <1>2 DEF Row
<1>5. Changed(c, o) = [c EXCEPT !.name = Or(o.name, c.name), !.email = Or(o.email, c.email),
                                !.phone = Or(o.phone, c.phone)]
  BY DEF Changed, Row
<1> QED
  BY <1>2, <1>5 DEF Row

-----------------------------------------------------------------------------
(* The steps                                                                 *)

LEMMA RocksInitInv == RocksInit => RocksInv
<1> SUFFICES ASSUME RocksInit PROVE RocksInv
  OBVIOUS
<1>1. RocksTypeOK
  <2>1. lines \in Seq(Given \cup {Unread})
    BY DEF RocksInit
  <2> QED
    BY <2>1, NothingPartial DEF RocksInit, RocksTypeOK
<1>2. KeysExact
  BY DEF RocksInit, KeysExact, Exact, EmailOf, PhoneOf, Nothing
<1> QED
  BY <1>1, <1>2 DEF RocksInv

\* The batch of add keeps the invariant.
LEMMA StoreInv ==
    ASSUME RocksInv, NEW c \in Row, Store(c), FreeKeys(c), lines' \in Seq(Given \cup {Unread})
    PROVE  RocksInv'
<1> USE DEF RocksInv
<1>1. c.id \in Ids /\ c.email \in Emails /\ c.phone \in Phones
  BY DEF Row
<1>2. RocksTypeOK'
  BY <1>1, PutPartial DEF RocksTypeOK, Store
<1>3. KeysExact'
  <2> SUFFICES ASSUME ~taken'
               PROVE  Exact(EmailOf, emailKey)' /\ Exact(PhoneOf, phoneKey)'
    BY DEF KeysExact
  <2>1. ~taken /\ c.id \notin DOMAIN contacts
    BY DEF Store, RocksTypeOK
  <2>2. EmailOf' = Put(EmailOf, c.id, c.email) /\ PhoneOf' = Put(PhoneOf, c.id, c.phone)
    BY <2>1 DEF EmailOf, PhoneOf, Store, Put
  <2>3. Exact(Put(EmailOf, c.id, c.email), Put(emailKey, c.email, c.id))
    BY <2>1, ExactAdded DEF KeysExact, EmailOf, FreeKeys
  <2>4. Exact(Put(PhoneOf, c.id, c.phone), Put(phoneKey, c.phone, c.id))
    BY <2>1, ExactAdded DEF KeysExact, PhoneOf, FreeKeys
  <2> QED
    BY <2>2, <2>3, <2>4 DEF Store, Exact
<1> QED
  BY <1>2, <1>3

LEMMA SameKeysInv ==
    ASSUME RocksInv, UNCHANGED rocksKeys, lines' \in Seq(Given \cup {Unread})
    PROVE  RocksInv'
BY DEF RocksInv, rocksKeys, RocksTypeOK, KeysExact, Exact, EmailOf, PhoneOf, PartialMap

LEMMA AddRowInv ==
    ASSUME RocksInv, NEW row \in Given, RocksAddRow(row), lines' \in Seq(Given \cup {Unread})
    PROVE  RocksInv'
<1>1. CASE Storable(row) /\ FreeKeys(row)
  <2>1. PICK c \in Named(row, UsedIds) : Store(c)
    BY <1>1 DEF RocksAddRow
  <2>2. c \in Row /\ FreeKeys(c)
    BY <1>1, NamedRow DEF FreeKeys
  <2> QED
    BY <2>1, <2>2, StoreInv
<1>2. CASE ~(Storable(row) /\ FreeKeys(row))
  BY <1>2, SameKeysInv DEF RocksAddRow
<1> QED
  BY <1>1, <1>2

LEMMA RocksEditInv ==
    ASSUME RocksInv, NEW id \in Ids, NEW o \in Changes, RocksEdit(id, o)
    PROVE  RocksInv'
<1> DEFINE c == contacts[id]
           d == Changed(c, o)
<1> USE DEF RocksInv
<1>1. c \in Row /\ d \in Row /\ id \in DOMAIN contacts
  BY InputsAssumption, ChangedRow DEF RocksEdit, RocksTypeOK, PartialMap
<1>2. d.email \in Emails /\ d.phone \in Phones
  BY <1>1 DEF Row
<1>3. /\ contacts' = Put(contacts, id, d)
      /\ emailKey' = Moved(emailKey, c.email, d.email, id)
      /\ phoneKey' = Moved(phoneKey, c.phone, d.phone, id)
      /\ taken' = (taken \/ HeldByOther(emailKey, d.email, id)
                         \/ HeldByOther(phoneKey, d.phone, id))
      /\ lines' = lines
  BY DEF RocksEdit
<1> HIDE DEF c, d
<1>4. RocksTypeOK'
  <2>1. PartialMap(contacts', Ids, Row)
    BY <1>1, <1>3, PutPartial DEF RocksTypeOK
  <2>2. PartialMap(emailKey', Emails, Ids)
    BY <1>2, <1>3, PutPartial, WithoutPartial DEF RocksTypeOK, Moved
  <2>3. PartialMap(phoneKey', Phones, Ids)
    BY <1>2, <1>3, PutPartial, WithoutPartial DEF RocksTypeOK, Moved
  <2> QED
    BY <2>1, <2>2, <2>3, <1>3 DEF RocksTypeOK
<1>5. KeysExact'
  <2> SUFFICES ASSUME ~taken'
               PROVE  Exact(EmailOf, emailKey)' /\ Exact(PhoneOf, phoneKey)'
    BY DEF KeysExact
  <2>1. ~taken /\ ~HeldByOther(emailKey, d.email, id) /\ ~HeldByOther(phoneKey, d.phone, id)
    BY <1>3
  <2>2. EmailOf' = Put(EmailOf, id, d.email) /\ PhoneOf' = Put(PhoneOf, id, d.phone)
    BY <1>1, <1>3 DEF EmailOf, PhoneOf, Put
  <2>3. EmailOf[id] = c.email /\ PhoneOf[id] = c.phone
    BY <1>1 DEF EmailOf, PhoneOf, c
  <2>4. Exact(Put(EmailOf, id, d.email), Moved(emailKey, c.email, d.email, id))
    BY <1>1, <2>1, <2>3, ExactMoved DEF KeysExact, EmailOf
  <2>5. Exact(Put(PhoneOf, id, d.phone), Moved(phoneKey, c.phone, d.phone, id))
    BY <1>1, <2>1, <2>3, ExactMoved DEF KeysExact, PhoneOf
  <2> QED
    BY <1>3, <2>2, <2>4, <2>5 DEF Exact
<1> QED
  BY <1>4, <1>5

LEMMA RocksRemoveInv ==
    ASSUME RocksInv, NEW id \in Ids, RocksRemove(id)
    PROVE  RocksInv'
<1> USE DEF RocksInv
<1>1. RocksTypeOK'
  BY WithoutPartial DEF RocksTypeOK, RocksRemove
<1>2. KeysExact'
  <2> SUFFICES ASSUME ~taken'
               PROVE  Exact(EmailOf, emailKey)' /\ Exact(PhoneOf, phoneKey)'
    BY DEF KeysExact
  <2>1. ~taken /\ id \in DOMAIN contacts
    BY DEF RocksRemove
  <2>2. EmailOf' = Without(EmailOf, id) /\ PhoneOf' = Without(PhoneOf, id)
    BY DEF EmailOf, PhoneOf, RocksRemove, Without
  <2>3. Exact(Without(EmailOf, id), Without(emailKey, EmailOf[id]))
    BY <2>1, ExactRemoved DEF KeysExact, EmailOf
  <2>4. Exact(Without(PhoneOf, id), Without(phoneKey, PhoneOf[id]))
    BY <2>1, ExactRemoved DEF KeysExact, PhoneOf
  <2>5. EmailOf[id] = contacts[id].email /\ PhoneOf[id] = contacts[id].phone
    BY <2>1 DEF EmailOf, PhoneOf
  <2> QED
    BY <2>2, <2>3, <2>4, <2>5 DEF Exact, RocksRemove
<1> QED
  BY <1>1, <1>2

LEMMA RocksStepInv ==
    ASSUME RocksInv, [RocksNext]_rocksVars
    PROVE  RocksInv'
<1>1. ASSUME NEW row \in Additions, RocksAdd(row) PROVE RocksInv'
  <2>1. row \in Given /\ lines' \in Seq(Given \cup {Unread})
    BY <1>1, InputsAssumption DEF RocksAdd, RocksInv, RocksTypeOK
  <2> QED
    BY <1>1, <2>1, AddRowInv DEF RocksAdd
<1>2. ASSUME NEW id \in Ids, NEW o \in Changes, RocksEdit(id, o) PROVE RocksInv'
  BY <1>2, RocksEditInv
<1>3. ASSUME NEW id \in Ids, RocksRemove(id) PROVE RocksInv'
  BY <1>3, RocksRemoveInv
<1>4. ASSUME NEW file \in Files, RocksBeginImport(file) PROVE RocksInv'
  BY <1>4, InputsAssumption, SameKeysInv DEF RocksBeginImport
<1>5. CASE RocksImportLine
  <2>1. lines \in Seq(Given \cup {Unread}) /\ lines # << >>
    BY <1>5 DEF RocksImportLine, RocksInv, RocksTypeOK
  <2>2. lines' \in Seq(Given \cup {Unread}) /\ Head(lines) \in Given \cup {Unread}
    BY <1>5, <2>1 DEF RocksImportLine
  <2>3. CASE Head(lines) = Unread
    BY <1>5, <2>2, <2>3, SameKeysInv DEF RocksImportLine
  <2>4. CASE Head(lines) # Unread
    BY <1>5, <2>2, <2>4, AddRowInv DEF RocksImportLine
  <2> QED
    BY <2>3, <2>4
<1>6. CASE RocksKill
  BY <1>6, SameKeysInv DEF RocksKill
<1>7. CASE UNCHANGED rocksVars
  BY <1>7, SameKeysInv DEF rocksVars, rocksKeys, RocksInv, RocksTypeOK
<1> QED
  BY <1>1, <1>2, <1>3, <1>4, <1>5, <1>6, <1>7 DEF RocksNext

-----------------------------------------------------------------------------
(* The theorems                                                              *)

\* Contacts and keys have the types the code gives them, and the keys are exact
\* until one is taken over.
THEOREM RocksInvariant == RocksSpec => []RocksInv
<1>1. RocksInit => RocksInv
  BY RocksInitInv
<1>2. RocksInv /\ [RocksNext]_rocksVars => RocksInv'
  BY RocksStepInv
<1> QED
  BY <1>1, <1>2, PTL DEF RocksSpec

THEOREM RocksTypes == RocksSpec => []RocksTypeOK
<1>1. RocksInv => RocksTypeOK
  BY DEF RocksInv
<1> QED
  BY <1>1, RocksInvariant, PTL

\* A search through a key finds what a search through all contacts finds, until
\* a key or an id is taken over.
THEOREM RocksSearch == RocksSpec => []KeySearchIsScan
<1>1. ASSUME RocksInv PROVE KeySearchIsScan
  <2> SUFFICES ASSUME ~taken
               PROVE  /\ \A e \in Emails : ByKey(emailKey, e) = Scan(LAMBDA c : c.email = e)
                      /\ \A p \in Phones : ByKey(phoneKey, p) = Scan(LAMBDA c : c.phone = p)
    BY DEF KeySearchIsScan
  <2>1. Exact(EmailOf, emailKey) /\ Exact(PhoneOf, phoneKey)
    BY <1>1 DEF RocksInv, KeysExact
  <2>2. ASSUME NEW e \in Emails PROVE ByKey(emailKey, e) = Scan(LAMBDA c : c.email = e)
    <3>1. CASE e \in DOMAIN emailKey
      <4>1. ByKey(emailKey, e) = {contacts[emailKey[e]]}
        BY <2>1, <3>1 DEF Exact, EmailOf, ByKey
      <4>2. \A j \in DOMAIN contacts : contacts[j].email = e <=> j = emailKey[e]
        BY <2>1, <3>1 DEF Exact, EmailOf
      <4>3. emailKey[e] \in DOMAIN contacts
        BY <2>1, <3>1 DEF Exact, EmailOf
      <4>4. Scan(LAMBDA c : c.email = e) = {contacts[emailKey[e]]}
        BY <4>2, <4>3 DEF Scan
      <4> QED
        BY <4>1, <4>4
    <3>2. CASE e \notin DOMAIN emailKey
      <4>1. ByKey(emailKey, e) = {}
        BY <3>2 DEF ByKey
      <4>2. {j \in DOMAIN contacts : contacts[j].email = e} = {}
        BY <2>1, <3>2 DEF Exact, EmailOf
      <4> QED
        BY <4>1, <4>2 DEF Scan
    <3> QED
      BY <3>1, <3>2
  <2>3. ASSUME NEW p \in Phones PROVE ByKey(phoneKey, p) = Scan(LAMBDA c : c.phone = p)
    <3>1. CASE p \in DOMAIN phoneKey
      <4>1. ByKey(phoneKey, p) = {contacts[phoneKey[p]]}
        BY <2>1, <3>1 DEF Exact, PhoneOf, ByKey
      <4>2. \A j \in DOMAIN contacts : contacts[j].phone = p <=> j = phoneKey[p]
        BY <2>1, <3>1 DEF Exact, PhoneOf
      <4>3. phoneKey[p] \in DOMAIN contacts
        BY <2>1, <3>1 DEF Exact, PhoneOf
      <4>4. Scan(LAMBDA c : c.phone = p) = {contacts[phoneKey[p]]}
        BY <4>2, <4>3 DEF Scan
      <4> QED
        BY <4>1, <4>4
    <3>2. CASE p \notin DOMAIN phoneKey
      <4>1. ByKey(phoneKey, p) = {}
        BY <3>2 DEF ByKey
      <4>2. {j \in DOMAIN contacts : contacts[j].phone = p} = {}
        BY <2>1, <3>2 DEF Exact, PhoneOf
      <4> QED
        BY <4>1, <4>2 DEF Scan
    <3> QED
      BY <3>1, <3>2
  <2> QED
    BY <2>2, <2>3
<1> QED
  BY <1>1, RocksInvariant, PTL

\* Each operation of the engine is an operation of a contact store, or leaves
\* the store alone, until a key or an id is taken over.
LEMMA AddRowRefines ==
    ASSUME RocksInv, RocksInv', NEW row \in Given, RocksAddRow(row)
    PROVE  RocksStore!Next \/ UNCHANGED << contacts, taken >>
<1>1. CASE Storable(row) /\ FreeKeys(row)
  <2>1. PICK c \in Named(row, UsedIds) : Store(c)
    BY <1>1 DEF RocksAddRow
  <2>2. taken' \in BOOLEAN
    BY DEF RocksInv, RocksTypeOK
  <2>3. CASE taken'
    BY <2>2, <2>3 DEF RocksStore!Next
  <2>4. CASE ~taken'
    <3>1. c.id \notin DOMAIN contacts
      BY <2>1, <2>4 DEF Store, RocksInv, RocksTypeOK
    <3>2. RocksStore!Insert
      BY <2>1, <3>1 DEF RocksStore!Insert, RocksStore!Keeps, Store, Put
    <3>3. KeysUnique(contacts)'
      BY <2>4, UniqueAfter
    <3> QED
      BY <2>2, <2>4, <3>2, <3>3 DEF RocksStore!Next, RocksStore!KeysUnique, KeysUnique,
                                    RocksStore!SameKey, SameKey
  <2> QED
    BY <2>3, <2>4
<1>2. CASE ~(Storable(row) /\ FreeKeys(row))
  BY <1>2 DEF RocksAddRow, rocksKeys
<1> QED
  BY <1>1, <1>2

LEMMA RocksStepRefines ==
    ASSUME RocksInv, RocksInv', [RocksNext]_rocksVars
    PROVE  RocksStore!Next \/ UNCHANGED << contacts, taken >>
<1>0. taken' \in BOOLEAN
  BY DEF RocksInv, RocksTypeOK
<1>1. CASE taken'
  BY <1>0, <1>1 DEF RocksStore!Next
<1>2. CASE ~taken'
  <2>1. KeysUnique(contacts)'
    BY <1>2, UniqueAfter
  <2>2. ASSUME NEW row \in Additions, RocksAdd(row)
        PROVE  RocksStore!Next \/ UNCHANGED << contacts, taken >>
    BY <2>2, InputsAssumption, AddRowRefines DEF RocksAdd
  <2>3. ASSUME NEW id \in Ids, NEW o \in Changes, RocksEdit(id, o)
        PROVE  RocksStore!Next
    <3>1. RocksStore!Edit(id)
      BY <2>3 DEF RocksEdit, RocksStore!Edit, RocksStore!Keeps, Put
    <3> QED
      BY <1>0, <1>2, <2>1, <3>1 DEF RocksStore!Next, RocksStore!KeysUnique, KeysUnique,
                                    RocksStore!SameKey, SameKey
  <2>4. ASSUME NEW id \in Ids, RocksRemove(id) PROVE RocksStore!Next
    <3>1. RocksStore!Remove(id)
      BY <2>4 DEF RocksRemove, RocksStore!Remove, RocksStore!Without, Without
    <3> QED
      BY <1>0, <1>2, <2>1, <3>1 DEF RocksStore!Next, RocksStore!KeysUnique, KeysUnique,
                                    RocksStore!SameKey, SameKey
  <2>5. ASSUME NEW file \in Files, RocksBeginImport(file) PROVE UNCHANGED << contacts, taken >>
    BY <2>5 DEF RocksBeginImport, rocksKeys
  <2>6. CASE RocksImportLine
    <3>1. lines \in Seq(Given \cup {Unread}) /\ lines # << >>
      BY <2>6 DEF RocksImportLine, RocksInv, RocksTypeOK
    <3>2. Head(lines) \in Given \cup {Unread}
      BY <3>1
    <3>3. CASE Head(lines) = Unread
      BY <2>6, <3>3 DEF RocksImportLine, rocksKeys
    <3>4. CASE Head(lines) # Unread
      BY <2>6, <3>2, <3>4, AddRowRefines DEF RocksImportLine
    <3> QED
      BY <3>3, <3>4
  <2>7. CASE RocksKill \/ UNCHANGED rocksVars
    BY <2>7 DEF RocksKill, rocksVars, rocksKeys
  <2> QED
    BY <2>2, <2>3, <2>4, <2>5, <2>6, <2>7 DEF RocksNext
<1> QED
  BY <1>1, <1>2

\* The engine implements the abstract store for every input.
THEOREM RocksRefines == RocksSpec => RocksRefinesStore
<1>1. RocksInit => RocksStore!Init
  BY DEF RocksInit, RocksStore!Init, RocksStore!Nothing, Nothing
<1>2. RocksInv /\ RocksInv' /\ [RocksNext]_rocksVars => [RocksStore!Next]_<< contacts, taken >>
  BY RocksStepRefines
<1> QED
  BY <1>1, <1>2, RocksInvariant, PTL DEF RocksSpec, RocksRefinesStore, RocksStore!Spec, RocksStore!vars

-----------------------------------------------------------------------------
(* Either engine                                                             *)

(* The engine that was chosen takes its own steps, the other none.           *)
LEMMA EachByItself == Spec => SqlSpec /\ RocksSpec
<1>1. Init => SqlInit /\ RocksInit
  BY DEF Init
<1>2. [Next]_vars => [SqlNext]_sqlVars
  BY DEF Next, vars, sqlVars, rocksVars
<1>3. [Next]_vars => [RocksNext]_rocksVars
  BY DEF Next, vars, sqlVars, rocksVars
<1> QED
  BY <1>1, <1>2, <1>3, PTL DEF Spec, SqlSpec, RocksSpec

\* Tables and keys have the types the code gives them, whichever engine main
\* creates (cli.cpp:674-681).
THEOREM EngineTypes == Spec => []TypeOK
<1>1. SqlTypeOK /\ RocksTypeOK => TypeOK
  BY DEF TypeOK
<1> QED
  BY <1>1, EachByItself, SqlTypes, RocksTypes, PTL

\* A search through a key of RocksDB finds what a search through all contacts
\* finds, until a key or an id is taken over (search, add and edit of
\* storage_rocksdb.cpp).
THEOREM EngineSearch == Spec => []KeySearchIsScan
BY EachByItself, RocksSearch, PTL

\* Every contact of the SQLite table has its history row, or a process that is
\* about to write it, or was refused it, or killed before it (add of
\* storage_sqlite.cpp).
THEOREM EngineHistories == Spec => []HistoryComplete
BY EachByItself, SqlHistories, PTL

\* While an import whose BEGIN was granted runs, others see no change but its
\* successful end, with every row it could read (storage_sqlite.cpp:154-167).
THEOREM EngineImports == Spec => ImportAllOrNothing
BY EachByItself, SqlImports, PTL

\* Whichever engine is chosen, both stores are used as the abstract ContactStore.
THEOREM EnginesRefine == Spec => SqlRefinesStore /\ RocksRefinesStore
BY EachByItself, SqlRefines, RocksRefines, PTL
=============================================================================
