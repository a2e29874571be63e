------------------------------ MODULE Engines -------------------------------
(***************************************************************************)
(* The engine that main creates for ACX_ENGINE or --engine (cli.cpp): one  *)
(* of the two databases.  (The third, JSONL, is modelled by ContactRepo.)  *)
(* The files of the engine that was not chosen stay as they are.           *)
(***************************************************************************)
EXTENDS SqliteEngine, RocksEngine

VARIABLE engine

vars == << engine, sqlVars, rocksVars >>

Init ==
    /\ engine \in {"sqlite", "rocksdb"}
    /\ SqlInit
    /\ RocksInit

Next ==
    \/ engine = "sqlite" /\ SqlNext /\ UNCHANGED << engine, rocksVars >>
    \/ engine = "rocksdb" /\ RocksNext /\ UNCHANGED << engine, sqlVars >>

Spec == Init /\ [][Next]_vars

TypeOK == SqlTypeOK /\ RocksTypeOK
=============================================================================
