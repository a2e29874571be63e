---------------------------- MODULE ContactBook ----------------------------
(***************************************************************************)
(* The in-memory address book of acx (struct ContactBook of model.hpp) and *)
(* the operations storage.cpp performs on it.  A book is a vector of       *)
(* contacts and two hash maps from a normalized e-mail or phone to the     *)
(* position of a contact in the vector.  Everything else in the program    *)
(* that asks "is this e-mail taken?" asks the maps, never the vector, so   *)
(* the book is right only while the maps describe the vector exactly.      *)
(*                                                                         *)
(* The module has no state: each operator maps a book to a book.           *)
(*                                                                         *)
(* Abstractions: an e-mail or phone stands for its normalized form, the    *)
(* one the maps are keyed by; the history of a contact is never read by    *)
(* the program and is left out; positions count from 1.                    *)
(***************************************************************************)
EXTENDS Integers, Sequences

CONSTANTS
    Ids,          \* contact identifiers: uuid_v4, or what an import file holds, even Blank
    Names, Emails, Phones, Notes,
    Times,        \* created_at; ISO-8601 strings compare as numbers do
    Blank,        \* the empty string, which is also an option left out
    Valid,        \* the names, e-mails and phones that is_valid_* accept
    MaxContacts   \* ACX_MAX_CONTACTS

ASSUME TimesAssumption == Times \subseteq Int
ASSUME BlankAssumption == Blank \notin Valid
ASSUME MaxContactsAssumption == MaxContacts \in Nat

Contact == [id : Ids, name : Names, email : Emails, phone : Phones,
            note : Notes \cup {Blank}, created : Times]

-----------------------------------------------------------------------------
(* Maps from keys to positions.  A key that is not in the map is not in the  *)
(* function's domain.                                                        *)

EmptyMap == << >>

Put(f, k, i) == [x \in DOMAIN f \cup {k} |-> IF x = k THEN i ELSE f[x]]

Erase(f, k) == [x \in DOMAIN f \ {k} |-> f[x]]

IsMap(f, K) == DOMAIN f \subseteq K /\ f \in [DOMAIN f -> Nat]

EmailsOf(cs) == [i \in DOMAIN cs |-> cs[i].email]
PhonesOf(cs) == [i \in DOMAIN cs |-> cs[i].phone]
IdsOf(cs)    == [i \in DOMAIN cs |-> cs[i].id]

Distinct(ks) == \A i, j \in DOMAIN ks : ks[i] = ks[j] => i = j

\* No id is the empty string, which email_exists takes for "skip nobody".
Named(ids) == \A i \in DOMAIN ids : ids[i] # Blank

\* The map is what the vector says: every key at its own position, no other key.
Exact(ks, f) ==
    /\ DOMAIN f = {ks[i] : i \in DOMAIN ks}
    /\ \A i \in DOMAIN ks : f[ks[i]] = i

\* The last position, from lo on, that holds key k: where a loop of
\* assignments map[key] = position leaves the map.
LastAt(ks, lo, k) ==
    CHOOSE i \in DOMAIN ks : /\ i >= lo /\ ks[i] = k
                             /\ \A j \in DOMAIN ks : j > i => ks[j] # k

\* The map after `for (k = lo; k < size; ++k) map[key(k)] = k`.
AssignFrom(f, ks, lo) ==
    LET tail == {ks[i] : i \in {j \in DOMAIN ks : j >= lo}}
    IN  [k \in DOMAIN f \cup tail |-> IF k \in tail THEN LastAt(ks, lo, k) ELSE f[k]]

-----------------------------------------------------------------------------
Book(cs, fe, fp) == [contacts |-> cs, email |-> fe, phone |-> fp]

NoBook == Book(<< >>, EmptyMap, EmptyMap)

IsBook(b) ==
    /\ b.contacts \in Seq(Contact)
    /\ IsMap(b.email, Emails)
    /\ IsMap(b.phone, Phones)

\* Both maps describe the vector.
ExactBook(b) ==
    /\ Exact(EmailsOf(b.contacts), b.email)
    /\ Exact(PhonesOf(b.contacts), b.phone)

\* The loop of PersistentIndex::load_or_build: both maps from scratch.
Rebuilt(cs) == Book(cs, AssignFrom(EmptyMap, EmailsOf(cs), 1),
                        AssignFrom(EmptyMap, PhonesOf(cs), 1))

\* email_exists and phone_exists.  A position beyond the vector is read out of
\* bounds; `oob` is the answer that read happens to give.
Exists(b, f, k, skip, oob) ==
    /\ k \in DOMAIN f
    /\ IF f[k] \in DOMAIN b.contacts THEN b.contacts[f[k]].id # skip ELSE oob

EmailExists(b, e, skip, oob) == Exists(b, b.email, e, skip, oob)
PhoneExists(b, p, skip, oob) == Exists(b, b.phone, p, skip, oob)

\* The answers a read beyond the vector may give; FALSE stands in when the maps
\* of b lead to no such read.
Garbage(b) ==
    IF /\ \A k \in DOMAIN b.email : b.email[k] \in DOMAIN b.contacts
       /\ \A k \in DOMAIN b.phone : b.phone[k] \in DOMAIN b.contacts
    THEN {FALSE} ELSE BOOLEAN

\* Mutant of PushBack: the phone is entered in the e-mail map.
PushBackOneMap(b, c) ==
    LET cs == Append(b.contacts, c)
    IN  Book(cs, Put(b.email, c.phone, Len(cs)), Put(b.phone, c.phone, Len(cs)))

\* contacts.push_back(c) with both maps set to the new position.
PushBack(b, c) ==
    LET cs == Append(b.contacts, c)
    IN  Book(cs, Put(b.email, c.email, Len(cs)), Put(b.phone, c.phone, Len(cs)))

-----------------------------------------------------------------------------
\* Mutant of CanAdd: only the e-mail is looked up.
CanAddByEmail(b, c, oob) ==
    /\ Len(b.contacts) < MaxContacts
    /\ {c.name, c.email, c.phone} \subseteq Valid
    /\ ~EmailExists(b, c.email, Blank, oob)

(* add_contact, up to the point where the book is saved.                     *)

CanAdd(b, c, oob) ==
    /\ Len(b.contacts) < MaxContacts
    /\ {c.name, c.email, c.phone} \subseteq Valid
    /\ ~EmailExists(b, c.email, Blank, oob)
    /\ ~PhoneExists(b, c.phone, Blank, oob)

(* edit_contact, up to the point where the book is saved.  The fields are    *)
(* changed one after the other, so an edit refused at the phone has already  *)
(* changed the name and the e-mail of the contact in memory.  An option left *)
(* out is Blank.                                                             *)

EditOptions == [name : Names \cup {Blank}, email : Emails \cup {Blank},
                phone : Phones \cup {Blank}, note : Notes \cup {Blank}]

Positions(b, id) == {i \in DOMAIN b.contacts : b.contacts[i].id = id}

FirstPosition(b, id) ==
    CHOOSE i \in Positions(b, id) : \A j \in Positions(b, id) : i <= j

SetName(b, i, name) ==
    IF name = Blank THEN b
    ELSE Book([b.contacts EXCEPT ![i].name = name], b.email, b.phone)

\* Mutant of SetEmail: the old key stays in the map.
SetEmailKeepsKey(b, i, email) ==
    IF email = Blank THEN b
    ELSE Book([b.contacts EXCEPT ![i].email = email], Put(b.email, email, i), b.phone)

SetEmail(b, i, email) ==
    IF email = Blank THEN b
    ELSE Book([b.contacts EXCEPT ![i].email = email],
              Put(Erase(b.email, b.contacts[i].email), email, i), b.phone)

SetPhone(b, i, phone) ==
    IF phone = Blank THEN b
    ELSE Book([b.contacts EXCEPT ![i].phone = phone], b.email,
              Put(Erase(b.phone, b.contacts[i].phone), phone, i))

SetNote(b, i, note) ==
    IF note = Blank THEN b
    ELSE Book([b.contacts EXCEPT ![i].note = note], b.email, b.phone)

NameRefused(name) == name # Blank /\ name \notin Valid

EmailRefused(b, id, email, oob) ==
    email # Blank /\ (email \notin Valid \/ EmailExists(b, email, id, oob))

PhoneRefused(b, id, phone, oob) ==
    phone # Blank /\ (phone \notin Valid \/ PhoneExists(b, phone, id, oob))

\* What an edit leaves in memory, and whether it got as far as saving.
Edited(b, id, o, oob) ==
    IF Positions(b, id) = {} THEN [ok |-> FALSE, book |-> b]
    ELSE LET i  == FirstPosition(b, id)
             b1 == SetName(b, i, o.name)
             b2 == SetEmail(b1, i, o.email)
             b3 == SetPhone(b2, i, o.phone)
         IN  IF NameRefused(o.name) THEN [ok |-> FALSE, book |-> b]
             ELSE IF EmailRefused(b1, id, o.email, oob) THEN [ok |-> FALSE, book |-> b1]
             ELSE IF PhoneRefused(b2, id, o.phone, oob) THEN [ok |-> FALSE, book |-> b2]
             ELSE [ok |-> TRUE, book |-> SetNote(b3, i, o.note)]

(* delete_contact: both keys are erased, the contact is taken out of the     *)
(* vector and every contact after it is indexed again at its new position.   *)

WithoutPosition(cs, i) ==
    [j \in 1 .. Len(cs) - 1 |-> IF j < i THEN cs[j] ELSE cs[j + 1]]

\* Mutant of Deleted: the contacts after the deleted one are not indexed again.
DeletedNoReindex(b, i) ==
    Book(WithoutPosition(b.contacts, i),
         Erase(b.email, b.contacts[i].email), Erase(b.phone, b.contacts[i].phone))

Deleted(b, i) ==
    LET cs == WithoutPosition(b.contacts, i)
    IN  Book(cs, AssignFrom(Erase(b.email, b.contacts[i].email), EmailsOf(cs), i),
                 AssignFrom(Erase(b.phone, b.contacts[i].phone), PhonesOf(cs), i))

-----------------------------------------------------------------------------
(* merge_from_file: what a row of the file matches, and what the strategy    *)
(* makes of the contact it matched.                                          *)

Strategies == {"skip", "prefer-existing", "prefer-newer"}

\* The position the maps give for row c, by e-mail first; 0 when neither does.
Match(b, c) ==
    IF c.email \in DOMAIN b.email THEN b.email[c.email]
    ELSE IF c.phone \in DOMAIN b.phone THEN b.phone[c.phone] ELSE 0

\* Whether row c makes the strategy change the contact it matched ...
MergeEdits(strat, c, old) ==
    \/ strat = "prefer-newer" /\ c.created > old.created
    \/ strat = "prefer-existing" /\ old.note = Blank /\ c.note # Blank

\* Mutant of MergeOptions: prefer-existing also takes over the e-mail.
MergeOptionsTakeEmail(strat, c) ==
    LET Newer(x) == IF strat = "prefer-newer" THEN x ELSE Blank
    IN  [name |-> Newer(c.name), email |-> c.email, phone |-> Newer(c.phone), note |-> c.note]

\* ... and how.
MergeOptions(strat, c) ==
    LET Newer(x) == IF strat = "prefer-newer" THEN x ELSE Blank
    IN  [name |-> Newer(c.name), email |-> Newer(c.email), phone |-> Newer(c.phone), note |-> c.note]

-----------------------------------------------------------------------------
(* import_data_parallel: several threads take the rows of a file in an order *)
(* of their own, and accept a row that clashes with no contact of the book   *)
(* and with no row accepted before.  What may have been accepted in the end: *)

Clash(c, d) == c.email = d.email \/ c.phone = d.phone

Acceptable(cs, f) ==
    {k \in DOMAIN f : /\ {f[k].name, f[k].email, f[k].phone} \subseteq Valid
                      /\ \A i \in DOMAIN cs : ~Clash(cs[i], f[k])}

\* Sequences of positions from S, in increasing order.
Ascents(S, max) ==
    UNION {{p \in [1 .. n -> S] : \A i, j \in 1 .. n : i < j => p[i] < p[j]} : n \in 0 .. max}

At(s, p) == [i \in DOMAIN p |-> s[p[i]]]

\* The rows that may have been accepted when the threads are done.
Acceptances(cs, f) ==
    {p \in Ascents(Acceptable(cs, f), Len(f)) :
        /\ \A i, j \in DOMAIN p : i < j => ~Clash(f[p[i]], f[p[j]])
        /\ \A k \in Acceptable(cs, f) : \E i \in DOMAIN p : p[i] = k \/ Clash(f[p[i]], f[k])}
=============================================================================
