---------------------------- MODULE RocksEngine -----------------------------
(***************************************************************************)
(* The RocksDB engine (storage_rocksdb.cpp): a key-value store that holds  *)
(* each contact under contact:<id> and, beside it, email:<e> and           *)
(* phone:<p>, which name the id.  Every change is one WriteBatch, so the   *)
(* three kinds of keys never differ by half a change; but edit puts its    *)
(* new keys without asking who holds them, and add puts its contact        *)
(* without asking whether the id is stored.  RocksDB lets one process open *)
(* the database, which then runs one command.                              *)
(***************************************************************************)
EXTENDS Engine

VARIABLES
    contacts,   \* contact:<id> -> row
    emailKey,   \* email:<e> -> id
    phoneKey,   \* phone:<p> -> id
    lines,      \* what import_data has left to read
    taken       \* whether a change took over a key, or the id, of another contact

rocksVars == << contacts, emailKey, phoneKey, lines, taken >>
rocksKeys == << contacts, emailKey, phoneKey, taken >>

RocksInit ==
    /\ contacts = Nothing
    /\ emailKey = Nothing
    /\ phoneKey = Nothing
    /\ lines = << >>
    /\ taken = FALSE

Held(keys) == {keys[k] : k \in DOMAIN keys}

UsedIds == DOMAIN contacts \cup Held(emailKey) \cup Held(phoneKey)

\* Mutant: the phone is not asked for.
FreeEmail(c) == c.email \notin DOMAIN emailKey

FreeKeys(c) == c.email \notin DOMAIN emailKey /\ c.phone \notin DOMAIN phoneKey

\* The batch of add, for a row that passed the checks before it.
Store(c) ==
    /\ contacts' = Put(contacts, c.id, c)
    /\ emailKey' = Put(emailKey, c.email, c.id)
    /\ phoneKey' = Put(phoneKey, c.phone, c.id)
    /\ taken' = (taken \/ c.id \in DOMAIN contacts)

\* add: a row that is not valid, or whose keys are held, is refused.
RocksAddRow(row) ==
    IF Storable(row) /\ FreeKeys(row)
    THEN \E c \in Named(row, UsedIds) : Store(c)
    ELSE UNCHANGED rocksKeys

RocksAdd(row) == lines = << >> /\ RocksAddRow(row) /\ UNCHANGED lines

\* Mutants: the new key is put before the old is deleted; key and id are swapped.
PutThenDeleted(keys, old, new, id) == Without(Put(keys, new, id), old)
MovedSwapped(keys, old, new, id) == Put(Without(keys, old), id, new)

\* Where a key points once edit has deleted the old and put the new.
Moved(keys, old, new, id) == Put(Without(keys, old), new, id)

HeldByOther(keys, k, id) == k \in DOMAIN keys /\ keys[k] # id

RocksEdit(id, o) ==
    LET c == contacts[id]
        d == Changed(c, o)
    IN /\ lines = << >>
       /\ id \in DOMAIN contacts
       /\ Storable(d)
       /\ contacts' = Put(contacts, id, d)
       /\ emailKey' = Moved(emailKey, c.email, d.email, id)
       /\ phoneKey' = Moved(phoneKey, c.phone, d.phone, id)
       /\ taken' = (taken \/ HeldByOther(emailKey, d.email, id)
                          \/ HeldByOther(phoneKey, d.phone, id))
       /\ UNCHANGED lines

RocksRemove(id) ==
    /\ lines = << >>
    /\ id \in DOMAIN contacts
    /\ contacts' = Without(contacts, id)
    /\ emailKey' = Without(emailKey, contacts[id].email)
    /\ phoneKey' = Without(phoneKey, contacts[id].phone)
    /\ UNCHANGED << lines, taken >>

RocksBeginImport(file) ==
    /\ lines = << >>
    /\ lines' = file
    /\ UNCHANGED rocksKeys

\* A line that cannot be read is passed over, like a row that add refuses; the
\* rows of a CSV file go the same way.
RocksImportLine ==
    /\ lines # << >>
    /\ lines' = Tail(lines)
    /\ IF Head(lines) = Unread THEN UNCHANGED rocksKeys ELSE RocksAddRow(Head(lines))

\* The process is killed between two batches.
RocksKill ==
    /\ lines # << >>
    /\ lines' = << >>
    /\ UNCHANGED rocksKeys

RocksNext ==
    \/ \E row \in Additions : RocksAdd(row)
    \/ \E id \in Ids : RocksRemove(id) \/ \E o \in Changes : RocksEdit(id, o)
    \/ \E file \in Files : RocksBeginImport(file)
    \/ RocksImportLine
    \/ RocksKill

RocksSpec == RocksInit /\ [][RocksNext]_rocksVars

\* search by e-mail or by phone: through the key to the contact, if both are there.
ByKey(keys, k) ==
    IF k \in DOMAIN keys /\ keys[k] \in DOMAIN contacts THEN {contacts[keys[k]]} ELSE {}

\* search by name goes through all contacts; so could every other search.
Scan(Matches(_)) == {contacts[i] : i \in {j \in DOMAIN contacts : Matches(contacts[j])}}

-----------------------------------------------------------------------------

RocksTypeOK ==
    /\ PartialMap(contacts, Ids, Row)
    /\ PartialMap(emailKey, Emails, Ids)
    /\ PartialMap(phoneKey, Phones, Ids)
    /\ lines \in Seq(Given \cup {Unread})
    /\ taken \in BOOLEAN

\* A search through a key finds what going through all contacts would find,
\* after any sequence of batches, edits that keep, change or swap keys
\* included, as long as no edit took a key that another contact held and no
\* row replaced a stored contact (storage_rocksdb.cpp:56-82).
KeySearchIsScan ==
    ~taken => /\ \A e \in Emails : ByKey(emailKey, e) = Scan(LAMBDA c : c.email = e)
              /\ \A p \in Phones : ByKey(phoneKey, p) = Scan(LAMBDA c : c.phone = p)

\* The engine keeps the promise of a contact store, as long as the same holds.
RocksStore == INSTANCE ContactStore WITH store <- contacts, voided <- taken
RocksRefinesStore == RocksStore!Spec
=============================================================================
