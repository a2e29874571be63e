----------------------------- MODULE MCEngines ------------------------------
(* Small instances of the storage engines for TLC. *)
EXTENDS Engines, TLC

CONSTANTS pa, pb, i1, i2, i3, n1, bad, e1, e2, p1, p2

R(id, n, e, p) == [id |-> id, name |-> n, email |-> e, phone |-> p]

\* Two contacts that may both be stored, and one that clashes with both.
MCAdditions == {R(Blank, n1, e1, p1), R(Blank, n1, e2, p2), R(Blank, n1, e1, p2)}

\* Edits that move a contact to another e-mail or phone, held or free.
MCChanges == {[name |-> Blank, email |-> e2, phone |-> Blank],
              [name |-> Blank, email |-> e1, phone |-> p1]}

\* A file that brings an id which may be stored already; one that holds a line
\* that cannot be read between two rows; one whose second row is refused.
MCFiles == { << R(i1, n1, e2, p2) >>,
             << R(Blank, n1, e1, p1), Unread, R(i2, n1, e2, p2) >>,
             << R(Blank, n1, e1, p1), R(Blank, bad, e2, p2) >> }

Alike == Permutations({pa, pb})
=============================================================================
