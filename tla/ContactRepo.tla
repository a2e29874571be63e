---------------------------- MODULE ContactRepo ----------------------------
(***************************************************************************)
(* A contact repository used by one acx process at a time: the data file   *)
(* (contacts.jsonl), the index file beside it, and the commands of cli.cpp *)
(* that load, change and save them.  A process loads the book, runs one    *)
(* command and exits; it may also be killed between any two of its steps.  *)
(*                                                                         *)
(* The index file carries the hash of the data it was computed from, and a *)
(* load trusts its maps when the hash is that of the data file.  A hash is *)
(* modelled by the very contents it is taken of.                           *)
(*                                                                         *)
(* Saving writes the data file and then the index file.  Whether the index *)
(* write succeeds is never looked at, so a save leaves either both files   *)
(* new, or a new data file beside an old index file (a failed write and a  *)
(* process killed in between look the same), or nothing changed.           *)
(***************************************************************************)
EXTENDS ContactBook

CONSTANTS
    Additions, \* what add may be given: contacts, but for the id and the date
    Edits,     \* the options edit may be given
    Files,     \* what an input file may hold: sequences of contacts
    Mask,      \* mask_name, mask_email and mask_phone, as one function
    NoFile,    \* the `of` of an index file that was never written
    FileCap    \* bound on the model: no import makes a book longer than this

VARIABLES
    data,      \* the contacts in the data file, in order
    index,     \* the index file: [of, email, phone]
    book,      \* the ContactBook of the running process
    job,       \* what the running process is doing
    clean      \* history: see Save

vars == << data, index, book, job, clean >>

Job(cmd, dry, strat, todo) == [cmd |-> cmd, dry |-> dry, strat |-> strat, todo |-> todo]

NoJob == Job("none", FALSE, "skip", << >>)
Open  == Job("open", FALSE, "skip", << >>)

IndexOf(b) == [of |-> b.contacts, email |-> b.email, phone |-> b.phone]

ASSUME AdditionsAssumption == Additions \subseteq Contact
ASSUME EditsAssumption == Edits \subseteq EditOptions
ASSUME FilesAssumption == Files \subseteq Seq(Contact)
ASSUME MaskAssumption ==
    /\ \A n \in Names : Mask[n] \in Names
    /\ \A e \in Emails : Mask[e] \in Emails
    /\ \A p \in Phones : Mask[p] \in Phones
ASSUME NoFileAssumption == NoFile \notin Seq(Contact)
ASSUME FileCapAssumption == FileCap \in Nat

\* The files, the book in memory and the job hold what the code keeps in them; the
\* maps lead to numbers, which need not be positions of the vector.
TypeOK ==
    /\ data \in Seq(Contact)
    /\ index.of \in Seq(Contact) \cup {NoFile}
    /\ IsMap(index.email, Emails) /\ IsMap(index.phone, Phones)
    /\ IsBook(book)
    /\ job \in [cmd : {"none", "open", "import", "merge"}, dry : BOOLEAN,
               strat : Strategies, todo : Seq(Contact)]
    /\ clean \in BOOLEAN

Init ==
    /\ data = << >>
    /\ index = [of |-> NoFile, email |-> EmptyMap, phone |-> EmptyMap]
    /\ book = NoBook
    /\ job = NoJob
    /\ clean = TRUE

-----------------------------------------------------------------------------
(* Storage::load and PersistentIndex::load_or_build, at the start of main.   *)

Load ==
    /\ job = NoJob
    /\ job' = Open
    /\ \/ /\ data = << >>
          /\ book' = NoBook /\ UNCHANGED index
       \/ /\ data # << >> /\ index.of = data
          /\ book' = Book(data, index.email, index.phone) /\ UNCHANGED index
       \/ /\ data # << >> /\ index.of # data
          /\ book' = Rebuilt(data)
          /\ index' \in {index, IndexOf(Rebuilt(data))}
    /\ UNCHANGED << data, clean >>

\* The process is gone and its book with it.
Exit == job' = NoJob /\ book' = NoBook

\* A command that only reads, or a process killed between two steps.
Leave == job # NoJob /\ Exit /\ UNCHANGED << data, index, clean >>

\* Storage::save.  `faithful` says that the command kept the maps of b in step
\* with its contacts.  `clean` records that every save so far was faithful and
\* gave every contact an id of its own, and that no row without one was imported.
Save(b, faithful) ==
    \/ UNCHANGED << data, index, clean >>
    \/ /\ data' = b.contacts
       /\ index' \in {index, IndexOf(b)}
       /\ clean' = (/\ clean /\ faithful
                   /\ Distinct(IdsOf(b.contacts)) /\ Named(IdsOf(b.contacts)))

\* The save inside add, edit, delete and import, which --dry-run skips.
Persist(b, dry) ==
    IF dry THEN UNCHANGED << data, index, clean >> ELSE Save(b, TRUE)

\* uuid_v4.
FreshId(b, id) == id # Blank /\ Positions(b, id) = {}

\* The contact made of what was entered for c: the id is new, the date is today's.
New(c, id, t) == [c EXCEPT !.id = id, !.created = t]

-----------------------------------------------------------------------------
(* The commands that change one contact.                                     *)

Add ==
    /\ job = Open
    /\ \E a \in Additions, id \in Ids, t \in Times, dry \in BOOLEAN, oob \in Garbage(book) :
         /\ FreshId(book, id)
         /\ LET c == New(a, id, t)
            IN  IF CanAdd(book, c, oob) THEN Persist(PushBack(book, c), dry)
                                        ELSE UNCHANGED << data, index, clean >>
    /\ Exit

Edit ==
    /\ job = Open
    /\ \E id \in Ids, o \in Edits, dry \in BOOLEAN, oob \in Garbage(book) :
         LET r == Edited(book, id, o, oob)
         IN  IF r.ok THEN Persist(r.book, dry) ELSE UNCHANGED << data, index, clean >>
    /\ Exit

Delete ==
    /\ job = Open
    /\ \E id \in Ids, dry \in BOOLEAN :
         IF Positions(book, id) # {}
           THEN Persist(Deleted(book, FirstPosition(book, id)), dry)
           ELSE UNCHANGED << data, index, clean >>
    /\ Exit

-----------------------------------------------------------------------------
(* import: the rows are taken one by one into the book, and the book is      *)
(* saved once at the end.  Rows are neither validated nor given new ids.     *)

BeginImport ==
    /\ job = Open
    /\ \E f \in Files, dry \in BOOLEAN :
         /\ Len(book.contacts) + Len(f) <= FileCap
         /\ job' = Job("import", dry, "skip", f)
    /\ UNCHANGED << data, index, book, clean >>

ImportRow ==
    /\ job.cmd = "import" /\ job.todo # << >>
    /\ LET c == Head(job.todo)
       IN  \E oob \in Garbage(book) :
             book' = IF EmailExists(book, c.email, Blank, oob)
                          \/ PhoneExists(book, c.phone, Blank, oob)
                     THEN book ELSE PushBack(book, c)
    /\ clean' = (clean /\ Head(job.todo).id # Blank)
    /\ job' = [job EXCEPT !.todo = Tail(@)]
    /\ UNCHANGED << data, index >>

EndImport ==
    /\ job.cmd = "import" /\ job.todo = << >>
    /\ Persist(book, job.dry)
    /\ Exit

(* import --parallel: its threads accept rows in any order (see              *)
(* ParallelImport), so which of two clashing rows wins is open.  The rows    *)
(* accepted are appended in file order, those without an id with a new one;  *)
(* the maps are not updated.                                                 *)

WithId(c, ids, k) == IF c.id = Blank THEN [c EXCEPT !.id = ids[k]] ELSE c

\* New ids for the rows of f that have none.
NewIds(b, f) ==
    {ids \in [{k \in DOMAIN f : f[k].id = Blank} -> {id \in Ids : FreshId(b, id)}] :
        \A k, l \in DOMAIN ids : ids[k] = ids[l] => k = l}

ImportParallel ==
    /\ job = Open
    /\ \E f \in Files, dry \in BOOLEAN :
         /\ Len(book.contacts) + Len(f) <= FileCap
         /\ \E p \in Acceptances(book.contacts, f), ids \in NewIds(book, f) :
              LET rows == [k \in DOMAIN f |-> WithId(f[k], ids, k)]
                  cs   == book.contacts \o At(rows, p)
              IN  IF dry THEN UNCHANGED << data, index, clean >>
                         ELSE Save(Book(cs, book.email, book.phone), FALSE)
    /\ Exit

-----------------------------------------------------------------------------
(* merge: every row adds or edits a contact and saves the book by itself;    *)
(* the book is saved once more at the end, whatever --dry-run says.          *)

BeginMerge ==
    /\ job = Open
    /\ \E f \in Files, dry \in BOOLEAN, strat \in Strategies :
         job' = Job("merge", dry, strat, f)
    /\ UNCHANGED << data, index, book, clean >>

MergeNew ==
    /\ job.cmd = "merge" /\ job.todo # << >>
    /\ LET row == Head(job.todo)
       IN  /\ Match(book, row) = 0
           /\ \E id \in Ids, t \in Times, oob \in Garbage(book) :
                /\ FreshId(book, id)
                /\ LET c == New(row, id, t)
                   IN  IF CanAdd(book, c, oob)
                         THEN book' = PushBack(book, c) /\ Persist(book', job.dry)
                         ELSE UNCHANGED << data, index, book, clean >>
    /\ job' = [job EXCEPT !.todo = Tail(@)]

\* A position beyond the vector would be read out of bounds; no repository used by
\* one process at a time leads there, and the row is then taken to change nothing.
MergeMatch ==
    /\ job.cmd = "merge" /\ job.todo # << >>
    /\ LET row == Head(job.todo)
           i   == Match(book, row)
       IN  /\ i # 0
           /\ IF i \in DOMAIN book.contacts /\ MergeEdits(job.strat, row, book.contacts[i])
                THEN \E oob \in Garbage(book) :
                       LET r == Edited(book, book.contacts[i].id, MergeOptions(job.strat, row), oob)
                       IN  /\ book' = r.book
                           /\ IF r.ok THEN Persist(book', job.dry)
                                      ELSE UNCHANGED << data, index, clean >>
                ELSE UNCHANGED << data, index, book, clean >>
    /\ job' = [job EXCEPT !.todo = Tail(@)]

EndMerge ==
    /\ job.cmd = "merge" /\ job.todo = << >>
    /\ Save(book, TRUE)
    /\ Exit

-----------------------------------------------------------------------------
(* prune and scrub save a book made beside the one that was loaded: prune's  *)
(* has empty maps, scrub's has the maps of the unmasked keys.  scrub saves   *)
(* under --dry-run too.                                                      *)

Prune ==
    /\ job = Open
    /\ \E before \in Times, dry \in BOOLEAN :
         LET kept == {i \in DOMAIN book.contacts : book.contacts[i].created >= before}
         IN  \E p \in Ascents(kept, Len(book.contacts)) :
               /\ kept = {p[i] : i \in DOMAIN p}
               /\ IF dry THEN UNCHANGED << data, index, clean >>
                         ELSE Save(Book(At(book.contacts, p), EmptyMap, EmptyMap), FALSE)
    /\ Exit

Redacted(c, policy) ==
    [c EXCEPT !.name  = IF "name"  \in policy THEN Mask[@] ELSE @,
              !.email = IF "email" \in policy THEN Mask[@] ELSE @,
              !.phone = IF "phone" \in policy THEN Mask[@] ELSE @]

Scrub ==
    /\ job = Open
    /\ \E policy \in SUBSET {"name", "email", "phone"} :
         LET cs == [i \in DOMAIN book.contacts |-> Redacted(book.contacts[i], policy)]
         IN  Save(Book(cs, book.email, book.phone), policy \subseteq {"name"})
    /\ Exit

Next ==
    \/ Load \/ Leave
    \/ Add \/ Edit \/ Delete
    \/ BeginImport \/ ImportRow \/ EndImport \/ ImportParallel
    \/ BeginMerge \/ MergeNew \/ MergeMatch \/ EndMerge
    \/ Prune \/ Scrub

Spec == Init /\ [][Next]_vars

-----------------------------------------------------------------------------
(* Properties                                                                *)

NoClash(cs) == \A i, j \in DOMAIN cs : i # j => ~Clash(cs[i], cs[j])

\* As long as every save was faithful, no two stored contacts share an e-mail
\* or a phone, whatever sequence of adds, edits, deletes, imports, merges and
\* name-only scrubs, killed anywhere, led there.  (email_exists, phone_exists
\* and the upkeep of the maps in storage.cpp.)
UniqueKeys == clean => NoClash(data)

\* The index file never lies about the data it names: even a stale one, left
\* by a save killed half-way, maps every key of that older data to its place,
\* so a data file that returns to those contents may trust it again.
\* (PersistentIndex::save and load_or_build.)
IndexTruthful ==
    clean /\ index.of # NoFile => ExactBook(Book(index.of, index.email, index.phone))

\* In memory the maps describe the vector at every point between two steps of
\* a command: after an edit refused half-way, between two rows of an import,
\* and for every contact that a delete has moved down.
BookExact == clean => ExactBook(book)

\* merge with "skip" never touches a stored contact and with "prefer-existing"
\* only fills empty notes: the stored contacts stay where they are, with their
\* ids, keys, names and dates, and new ones come after them.  (merge_from_file,
\* which finds the contact by position and edits it by id.)
MergeKeepsExisting ==
    [][ clean /\ job.cmd = "merge" /\ job.strat # "prefer-newer" =>
          /\ Len(data) <= Len(data')
          /\ \A i \in DOMAIN data :
               \/ data'[i] = data[i]
               \/ /\ job.strat = "prefer-existing" /\ data[i].note = Blank
                  /\ data'[i] = [data[i] EXCEPT !.note = data'[i].note] ]_vars

\* storage.hpp:22 says of add_contact "dedup/validation included": a contact it
\* stores shares no e-mail and no phone with those stored before.
AddIsDeduplicated ==
    [][ Add /\ data' # data =>
          \A i \in DOMAIN data : ~Clash(data'[Len(data')], data[i]) ]_vars
=============================================================================
