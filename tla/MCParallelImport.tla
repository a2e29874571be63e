-------------------------- MODULE MCParallelImport --------------------------
(* Small instances of ParallelImport for TLC. *)
EXTENDS ParallelImport

CONSTANTS i1, n1, e1, e2, e3, p1, p2, p3

Row(e, p) == [id |-> i1, name |-> n1, email |-> e, phone |-> p, note |-> Blank, created |-> 1]

\* Files of three rows: a chain in which the middle row clashes with both others, one
\* of which may be in the book; three rows with one e-mail; an e-mail that is not
\* valid; rows that do not clash.
MCInputs == { << Row(e1, p1), Row(e1, p2), Row(e2, p2) >>,
              << Row(e1, p1), Row(e1, p2), Row(e1, p3) >>,
              << Row(e3, p1), Row(e1, p1) >>,
              << Row(e1, p1), Row(e2, p2) >>, << >> }

MCBooks == { << >>, << Row(e2, p3) >> }
=============================================================================
