----------------------------- MODULE RepoProcs ------------------------------
(***************************************************************************)
(* Several acx processes on one repository.  ContactRepo runs one process  *)
(* at a time and takes each command for a step; here every read and every  *)
(* write of a file, and the lock, is a step of its own.                    *)
(*                                                                         *)
(* main loads the book first and only then looks which command it is to    *)
(* run.  edit, delete, import, merge, prune and backup take the lock after *)
(* that; add and scrub change the data without it, and every command that  *)
(* merely reads may write the index file.  The lock is a directory: it     *)
(* outlives a process that was killed holding it, and nobody removes it.   *)
(*                                                                         *)
(* list stands for the commands that only read.  prune, scrub and import   *)
(* --parallel, which save maps that do not describe the contacts, are left *)
(* out (see ContactRepo), and so is --dry-run.  The write of one file is   *)
(* one step (FileWrite says when it is).                                   *)
(***************************************************************************)
EXTENDS ContactBook

CONSTANTS
    Procs,
    Kinds,      \* the commands that are run
    Additions,  \* the contacts that add may be given, but for the id and the date
    Today,      \* the date that add gives a contact
    Edits,      \* the options that edit may be given
    Files,      \* what the input of import and merge may hold
    Merges,     \* the strategies that merge may be given
    NoFile,     \* the `of` of an index file that was never written
    Nobody,     \* the lock directory does not exist
    Stale       \* it exists, and the process that made it is gone

AllKinds == {"list", "add", "edit", "delete", "import", "merge"}

ASSUME KindsAssumption == Kinds \subseteq AllKinds
ASSUME AdditionsAssumption == Additions \subseteq Contact /\ Today \in Times
ASSUME EditsAssumption == Edits \subseteq EditOptions
ASSUME FilesAssumption == Files \subseteq Seq(Contact) /\ Merges \subseteq Strategies
ASSUME NoFileAssumption == NoFile \notin Seq(Contact)
ASSUME ProcsAssumption == Nobody \notin Procs /\ Stale \notin Procs /\ Nobody # Stale

VARIABLES
    data,       \* the contacts in the data file
    index,      \* the index file: [of, email, phone]
    lock,       \* the lock directory: who made it, Stale or Nobody
    proc,       \* the processes
    overlap     \* whether a command that changes the data ever ran beside another

vars == << data, index, lock, proc, overlap >>

Locked   == {"edit", "delete", "import", "merge"}
Changing == {"add", "edit", "delete", "import", "merge"}

\* then: what comes after the index has been written, or would be: "ready" until
\* the load is over, "end" after a save, "change" after the save of a merged row.
\* hash and read are the data file as it was last hashed, and as it was loaded.
Off == [pc |-> "off", kind |-> "list", then |-> "ready", book |-> NoBook,
        hash |-> << >>, read |-> << >>, todo |-> << >>, strat |-> "skip"]

\* The files, the lock and what every process knows.
TypeOK ==
    /\ data \in Seq(Contact)
    /\ index.of \in Seq(Contact) \cup {NoFile}
    /\ IsMap(index.email, Emails) /\ IsMap(index.phone, Phones)
    /\ lock \in Procs \cup {Nobody, Stale}
    /\ \A p \in Procs :
         /\ proc[p].pc \in {"off", "hash", "look", "rehash", "index", "ready", "change", "write", "end"}
         /\ proc[p].kind \in Kinds \cup {"list"} /\ proc[p].then \in {"ready", "change", "end"}
         /\ IsBook(proc[p].book)
         /\ proc[p].hash \in Seq(Contact) /\ proc[p].read \in Seq(Contact)
         /\ proc[p].todo \in Seq(Contact) /\ proc[p].strat \in Strategies
    /\ overlap \in BOOLEAN

Init ==
    /\ data = << >>
    /\ index = [of |-> NoFile, email |-> EmptyMap, phone |-> EmptyMap]
    /\ lock = Nobody
    /\ proc = [p \in Procs |-> Off]
    /\ overlap = FALSE

\* A process that only has to end: what it knew no longer matters.
Ending(r) == [r EXCEPT !.pc = "end", !.book = NoBook, !.hash = << >>, !.read = << >>,
                       !.todo = << >>]

-----------------------------------------------------------------------------
(* Storage::load and PersistentIndex::load_or_build                          *)

\* A process starts and reads the contacts.
ReadRows(p, kind) ==
    /\ proc[p].pc = "off"
    /\ proc' = [proc EXCEPT ![p] =
         [Off EXCEPT !.kind = kind, !.read = data, !.book = Book(data, EmptyMap, EmptyMap),
                     !.pc = IF data = << >> THEN "ready" ELSE "hash"]]
    /\ overlap' = (overlap \/ \E q \in Procs \ {p} :
                                /\ proc[q].pc # "off"
                                /\ kind \in Changing \/ proc[q].kind \in Changing)
    /\ UNCHANGED << data, index, lock >>

\* The data file is read again, for its hash.
HashRows(p) ==
    /\ proc[p].pc = "hash"
    /\ proc' = [proc EXCEPT ![p].hash = data, ![p].pc = "look"]
    /\ UNCHANGED << data, index, lock, overlap >>

\* Mutant of LookIndex: any index file is trusted.
TrustIndex(p) ==
    /\ proc[p].pc = "look"
    /\ LET cs == proc[p].book.contacts
       IN  proc' = [proc EXCEPT ![p] =
             IF index.of # NoFile
               THEN [@ EXCEPT !.book = Book(cs, index.email, index.phone),
                              !.hash = << >>, !.pc = "ready"]
               ELSE [@ EXCEPT !.book = Rebuilt(cs), !.hash = << >>, !.pc = "rehash"]]
    /\ UNCHANGED << data, index, lock, overlap >>

LookIndex(p) ==
    /\ proc[p].pc = "look"
    /\ LET cs == proc[p].book.contacts
       IN  proc' = [proc EXCEPT ![p] =
             IF index.of = @.hash
               THEN [@ EXCEPT !.book = Book(cs, index.email, index.phone),
                              !.hash = << >>, !.pc = "ready"]
               ELSE [@ EXCEPT !.book = Rebuilt(cs), !.hash = << >>, !.pc = "rehash"]]
    /\ UNCHANGED << data, index, lock, overlap >>

\* PersistentIndex::save, after a rebuild and after a save: it hashes the file
\* that is there now, not the contacts its maps were made from.
Rehash(p) ==
    /\ proc[p].pc = "rehash"
    /\ proc' = [proc EXCEPT ![p].hash = data, ![p].pc = "index"]
    /\ UNCHANGED << data, index, lock, overlap >>

\* Mutant of WriteIndex: the two maps change places.
WriteIndexSwapped(p) ==
    /\ proc[p].pc = "index"
    /\ index' = [of |-> proc[p].hash, email |-> proc[p].book.phone, phone |-> proc[p].book.email]
    /\ proc' = [proc EXCEPT ![p] = IF @.then = "end" THEN Ending(@)
                                   ELSE [@ EXCEPT !.hash = << >>, !.pc = proc[p].then]]
    /\ UNCHANGED << data, lock, overlap >>

WriteIndex(p) ==
    /\ proc[p].pc = "index"
    /\ index' = [of |-> proc[p].hash, email |-> proc[p].book.email, phone |-> proc[p].book.phone]
    /\ proc' = [proc EXCEPT ![p] = IF @.then = "end" THEN Ending(@)
                                   ELSE [@ EXCEPT !.hash = << >>, !.pc = proc[p].then]]
    /\ UNCHANGED << data, lock, overlap >>

-----------------------------------------------------------------------------
(* The command                                                               *)

\* The command begins, with the input file and the strategy if it takes them.
Begun(r, f, m) ==
    IF r.kind \in {"import", "merge"}
    THEN [r EXCEPT !.pc = "change", !.todo = f, !.strat = m]
    ELSE [r EXCEPT !.pc = "change"]

Dispatch(p) ==
    /\ proc[p].pc = "ready" /\ proc[p].kind \notin Locked
    /\ proc' = [proc EXCEPT ![p] = IF @.kind = "list" THEN Ending(@) ELSE [@ EXCEPT !.pc = "change"]]
    /\ UNCHANGED << data, index, lock, overlap >>

\* Mutant of Acquire: the lock is taken whether it is there or not.
AcquireAnyway(p) ==
    /\ proc[p].pc = "ready" /\ proc[p].kind \in Locked
    /\ lock' = p
    /\ \E f \in Files, m \in Merges : proc' = [proc EXCEPT ![p] = Begun(@, f, m)]
    /\ UNCHANGED << data, index, overlap >>

\* RepoLock: the process that cannot make the directory gives up at once.
Acquire(p) ==
    /\ proc[p].pc = "ready" /\ proc[p].kind \in Locked
    /\ \/ /\ lock = Nobody /\ lock' = p
          /\ \E f \in Files, m \in Merges : proc' = [proc EXCEPT ![p] = Begun(@, f, m)]
       \/ /\ lock # Nobody /\ UNCHANGED lock
          /\ proc' = [proc EXCEPT ![p] = Ending(@)]
    /\ UNCHANGED << data, index, overlap >>

\* An id that no process and no file knows.
Unused(id) ==
    /\ id # Blank
    /\ \A i \in DOMAIN data : data[i].id # id
    /\ \A p \in Procs : Positions(proc[p].book, id) = {}

WithNewId(c) == {[c EXCEPT !.id = id] : id \in {x \in Ids : Unused(x)}}

\* add_contact: what it may make of the book, and whether it goes on to save it.
Added(b, a) ==
    {IF CanAdd(b, c, oob) THEN [ok |-> TRUE, book |-> PushBack(b, c)]
                          ELSE [ok |-> FALSE, book |-> b] :
       c \in WithNewId([a EXCEPT !.created = Today]), oob \in Garbage(b)}

\* The commands on one contact.
Outcomes(p) ==
    LET b == proc[p].book
    IN  CASE proc[p].kind = "add" -> UNION {Added(b, a) : a \in Additions}
          [] proc[p].kind = "edit" ->
               {Edited(b, id, o, oob) : id \in Ids, o \in Edits, oob \in Garbage(b)}
          [] proc[p].kind = "delete" ->
               {IF Positions(b, id) = {}
                  THEN [ok |-> FALSE, book |-> b]
                  ELSE [ok |-> TRUE, book |-> Deleted(b, FirstPosition(b, id))] : id \in Ids}

\* add draws an id that nobody has; when the model has no such id left, it fails.
Change(p) ==
    /\ proc[p].pc = "change" /\ proc[p].kind \in {"add", "edit", "delete"}
    /\ \/ \E r \in Outcomes(p) :
            proc' = [proc EXCEPT ![p] = IF r.ok
                                        THEN [@ EXCEPT !.book = r.book, !.pc = "write", !.then = "end"]
                                        ELSE Ending(@)]
       \/ Outcomes(p) = {} /\ proc' = [proc EXCEPT ![p] = Ending(@)]
    /\ UNCHANGED << data, index, lock, overlap >>

\* A row of an import whose keys are free goes into the book, under an id that is
\* new here as well (ContactRepo imports other ids too).
ImportRow(p) ==
    LET b == proc[p].book
        row == Head(proc[p].todo)
    IN  /\ proc[p].pc = "change" /\ proc[p].kind = "import" /\ proc[p].todo # << >>
        /\ \E oob \in Garbage(b), bx \in {b} \cup {PushBack(b, c) : c \in WithNewId(row)} :
              /\ bx = b <=> \/ EmailExists(b, row.email, Blank, oob)
                            \/ PhoneExists(b, row.phone, Blank, oob)
              /\ proc' = [proc EXCEPT ![p].todo = Tail(@), ![p].book = bx]
        /\ UNCHANGED << data, index, lock, overlap >>

\* What a row of a merge may make of the book, and whether that is saved.
Merged(b, row, strat) ==
    LET i == Match(b, row)
    IN  IF i = 0 THEN Added(b, row)
        ELSE IF i \in DOMAIN b.contacts /\ MergeEdits(strat, row, b.contacts[i])
        THEN {Edited(b, b.contacts[i].id, MergeOptions(strat, row), oob) : oob \in Garbage(b)}
        ELSE {[ok |-> FALSE, book |-> b]}

\* Each row is saved by itself; one that is refused may have changed the book.
MergeRow(p) ==
    /\ proc[p].pc = "change" /\ proc[p].kind = "merge" /\ proc[p].todo # << >>
    /\ \E r \in Merged(proc[p].book, Head(proc[p].todo), proc[p].strat) :
          LET next == [proc[p] EXCEPT !.book = r.book, !.todo = Tail(proc[p].todo)]
          IN  proc' = [proc EXCEPT ![p] =
                IF r.ok THEN [next EXCEPT !.pc = "write", !.then = "change"] ELSE next]
    /\ UNCHANGED << data, index, lock, overlap >>

\* Both save the book when the file is done.
EndFile(p) ==
    /\ proc[p].pc = "change" /\ proc[p].kind \in {"import", "merge"} /\ proc[p].todo = << >>
    /\ proc' = [proc EXCEPT ![p].pc = "write", ![p].then = "end"]
    /\ UNCHANGED << data, index, lock, overlap >>

\* What the process takes for the data from then on, if it goes on at all.
ReadAfter(r) == IF r.then = "end" THEN << >> ELSE r.book.contacts

\* Mutant of WriteData: the index gets the hash of the contacts that were loaded.
WriteDataOldHash(p) ==
    /\ proc[p].pc = "write"
    /\ data' = proc[p].book.contacts
    /\ proc' = [proc EXCEPT ![p].pc = "index", ![p].hash = proc[p].read,
                            ![p].read = ReadAfter(proc[p])]
    /\ UNCHANGED << index, lock, overlap >>

\* Storage::save: the data file first, then the index.
WriteData(p) ==
    /\ proc[p].pc = "write"
    /\ data' = proc[p].book.contacts
    /\ proc' = [proc EXCEPT ![p].pc = "rehash", ![p].read = ReadAfter(proc[p])]
    /\ UNCHANGED << index, lock, overlap >>

\* The process ends, and its RepoLock removes the directory if it made it.
End(p) ==
    /\ proc[p].pc = "end"
    /\ lock' = IF lock = p THEN Nobody ELSE lock
    /\ proc' = [proc EXCEPT ![p] = Off]
    /\ UNCHANGED << data, index, overlap >>

Kill(p) ==
    /\ proc[p].pc # "off"
    /\ lock' = IF lock = p THEN Stale ELSE lock
    /\ proc' = [proc EXCEPT ![p] = Off]
    /\ UNCHANGED << data, index, overlap >>

Step(p) ==
    \/ HashRows(p) \/ LookIndex(p) \/ Rehash(p) \/ WriteIndex(p)
    \/ Dispatch(p) \/ Acquire(p) \/ Change(p) \/ ImportRow(p) \/ MergeRow(p) \/ EndFile(p)
    \/ WriteData(p) \/ End(p)

Next == \E p \in Procs : Step(p) \/ Kill(p) \/ \E kind \in Kinds : ReadRows(p, kind)

Spec == Init /\ [][Next]_vars

-----------------------------------------------------------------------------
(* Properties                                                                *)

NoClash(cs) ==
    \A i, j \in DOMAIN cs : i # j => cs[i].email # cs[j].email /\ cs[i].phone # cs[j].phone

\* As long as no command that changes the data has run beside another process, no
\* key is stored twice, wherever processes were killed and however many of them
\* were listing at once.  (The maps that add and edit consult come from files
\* that are read three times and written twice per command.)
UniqueKeys == ~overlap => NoClash(data)

\* Under the same condition the index file describes the data it names, although
\* PersistentIndex::save hashes whatever data file it finds: processes that only
\* list may rebuild and write it at the same time, and a save may be killed
\* between its two files.
IndexTruthful ==
    ~overlap /\ index.of # NoFile => ExactBook(Book(index.of, index.email, index.phone))

InSection(p) ==
    /\ proc[p].kind \in Locked
    /\ proc[p].pc \in {"change", "write"} \/ proc[p].then # "ready"

\* Whatever runs beside whatever, two of the commands that take the lock are never
\* between its acquisition and their end together, and a lock that a killed
\* process left behind keeps all of them out.  (Lock of lock.cpp.)
LockExcludes ==
    \A p \in Procs : InSection(p) =>
        /\ lock # Stale
        /\ \A q \in Procs \ {p} : ~InSection(q)

\* CHANGELOG.md:84 "Cross-process repo lock to serialize write ops": a command that
\* replaces the data replaces what it has read, so that no change made in between
\* by another command is lost.
WritesSerialized == [][ \A p \in Procs : WriteData(p) => data = proc[p].read ]_vars
=============================================================================
