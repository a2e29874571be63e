---------------------------- MODULE MCSearchIndex ----------------------------
(* Small instances of SearchIndex for TLC. *)
EXTENDS SearchIndex

Line(e, p, size) == [email |-> e, phone |-> p, size |-> size]

\* Two contacts in either order, so that offsets of one version lead to the middle of
\* a line of the other; a version in which a key has moved to another contact, all
\* lines starting where they did; three contacts, in an order that is not that of
\* their keys; none.
MCVersions == { << Line(1, 1, 2), Line(2, 2, 1) >>,
                << Line(2, 2, 1), Line(1, 1, 2) >>,
                << Line(2, 1, 2), Line(1, 3, 1) >>,
                << Line(3, 1, 1), Line(1, 2, 1), Line(2, 3, 1) >>,
                << >> }

\* A search by e-mail, by phone, and by both.
MCQueries == {[email |-> e, phone |-> None] : e \in 1 .. 3}
             \cup {[email |-> None, phone |-> 2], [email |-> 1, phone |-> 2]}

\* A search that was exposed is not followed any further: nothing is claimed of it,
\* and it leaves nothing behind.
Unexposed == \A r \in Searchers : ~search[r].exposed
=============================================================================
