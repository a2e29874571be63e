---------------------------- MODULE MCRepoProcs -----------------------------
(* Small instances of RepoProcs for TLC. *)
EXTENDS RepoProcs, TLC

CONSTANTS pa, pb, i1, i2, n1, e1, e2, p1, p2

\* Overwritten by add.
AnyId == CHOOSE id \in Ids : TRUE

Row(e, p) == [id |-> AnyId, name |-> n1, email |-> e, phone |-> p, note |-> Blank, created |-> 1]
NewerRow(e, p) == [Row(e, p) EXCEPT !.created = 2]

\* Two contacts that may both be stored.
MCAdditions == {Row(e1, p1), Row(e2, p2)}

\* An edit that gives a contact the e-mail and the phone another may have.
MCEdits == {[name |-> Blank, email |-> e1, phone |-> p1, note |-> Blank]}

\* A file whose first row may match two contacts, and is newer than either, and
\* whose second row clashes with it.
MCFiles == {<< NewerRow(e1, p2), Row(e2, p2) >>}

\* Processes are alike, and so are ids.
Alike == Permutations({pa, pb}) \cup Permutations({i1, i2})

\* Once processes that overlapped have damaged a file, what follows is not explored;
\* nor is what overlapping processes make of two stored contacts.
Undamaged ==
    overlap => /\ NoClash(data) /\ Len(data) <= 1
               /\ index.of # NoFile => ExactBook(Book(index.of, index.email, index.phone))
=============================================================================
