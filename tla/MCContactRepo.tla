--------------------------- MODULE MCContactRepo ---------------------------
(* Small instances of ContactRepo for TLC. *)
EXTENDS ContactRepo, TLC

CONSTANTS i1, i2, n1, e1, e2, e3, p1, p2, w

\* Masking makes two different e-mails, and two different phones, one.
MCMask == [x \in {n1, e1, e2, e3, p1, p2} |->
             CASE x = n1 -> n1 [] x \in {e1, e2, e3} -> e3 [] OTHER -> p2]

Row(i, e, p, t, n) == [id |-> i, name |-> n1, email |-> e, phone |-> p, note |-> n, created |-> t]

\* Two contacts that may both be stored, one that clashes with both, and one whose
\* e-mail no validation accepts.  add gives them their id and date.
MCAdditions == { Row(Blank, e1, p1, 1, w), Row(Blank, e2, p2, 1, Blank),
                 Row(Blank, e1, p2, 1, Blank), Row(Blank, e3, p2, 1, w) }

\* Edits that move a contact to an e-mail or a phone that another may have, some of
\* which are refused after the e-mail has been changed; one that adds a note.
MCEdits == { [name |-> Blank, email |-> e, phone |-> p, note |-> Blank] :
                e \in {e1, e2, e3}, p \in {p1, p2, Blank} }
           \cup {[name |-> Blank, email |-> Blank, phone |-> Blank, note |-> w]}

\* Input files: two rows that clash with each other, and whose e-mail and phone
\* may belong to different contacts of the book; a row with an e-mail that no
\* validation accepts; a row without an id.  Their ids may be in the book, with
\* other contacts.
MCFiles == { << Row(i1, e1, p1, 2, w), Row(i2, e1, p2, 1, Blank) >>,
             << Row(i2, e3, p1, 2, w) >>,
             << Row(Blank, e1, p1, 1, Blank) >> }

\* No state is explored further once a save has not been clean: every property
\* of the run then holds for good, since clean never becomes TRUE again.
StillClean == clean
=============================================================================
