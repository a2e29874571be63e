------------------------------- MODULE Engine -------------------------------
(***************************************************************************)
(* What the storage engines behind IStorageEngine (storage_engine.hpp)     *)
(* have in common: rows as from_json yields them, the fields an edit       *)
(* leaves alone, and when two rows claim the same key.                     *)
(*                                                                         *)
(* Abstractions: an e-mail or phone stands for its normalized form; name   *)
(* stands for all that is neither a key nor an id.                         *)
(***************************************************************************)
EXTENDS Integers, Sequences

CONSTANTS
    Ids, Names, Emails, Phones,
    Blank,      \* the empty string: an id to be made up, an option left out
    Valid,      \* the names, e-mails and phones that is_valid_* accept
    Unread,     \* a line that J::parse or Contact::from_json throws on
    Additions,  \* the rows handed to add
    Changes,    \* the options handed to edit
    Files       \* import files: sequences of rows and Unread

Row == [id : Ids, name : Names, email : Emails, phone : Phones]

\* A row as it is given to a command: its id may still have to be made up.
Given == [id : Ids \cup {Blank}, name : Names, email : Emails, phone : Phones]

\* The options of edit; one that is left out changes nothing.
Options == [name : Names \cup {Blank}, email : Emails \cup {Blank}, phone : Phones \cup {Blank}]

ASSUME BlankAssumption == Blank \notin Valid /\ Blank \notin Ids

ASSUME InputsAssumption ==
    /\ Additions \subseteq Given /\ Changes \subseteq Options
    /\ Unread \notin Given /\ Files \subseteq Seq(Given \cup {Unread})

\* The keys of a partial map are its domain.
Nothing == << >>
Put(f, k, v) == [x \in DOMAIN f \cup {k} |-> IF x = k THEN v ELSE f[x]]
Without(f, k) == [x \in DOMAIN f \ {k} |-> f[x]]

PartialMap(f, D, R) == DOMAIN f \subseteq D /\ f \in [DOMAIN f -> R]

Storable(c) == c.name \in Valid /\ c.email \in Valid /\ c.phone \in Valid

\* uuid_v4 for a row without an id: one that nothing in used carries.
Named(c, used) ==
    IF c.id = Blank THEN {[c EXCEPT !.id = i] : i \in Ids \ used} ELSE {c}

Or(new, old) == IF new = Blank THEN old ELSE new

Changed(c, o) ==
    [c EXCEPT !.name = Or(o.name, @), !.email = Or(o.email, @), !.phone = Or(o.phone, @)]

SameKey(c, d) == c.email = d.email \/ c.phone = d.phone

\* A store maps ids to rows; no two of its rows claim the same e-mail or phone.
KeysUnique(store) ==
    \A i, j \in DOMAIN store : SameKey(store[i], store[j]) => i = j
=============================================================================
