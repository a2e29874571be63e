# Verification of the acx contact repository

TLA+ models of `acx` (AUSP59/acx-contact-cli), a command line program in C++20
that keeps contacts in a JSONL file or in a database. The models follow the code under
`src/src/`; file names below are relative to that directory.

## The system

One `acx` process loads the whole address book, runs one command and exits.
There is no server; several processes may use one directory at the same time.

| Part | State | Operations | Talks to |
| --- | --- | --- | --- |
| Contact book (`model.hpp`, `storage.cpp`) | `contacts` (vector), `email_to_i`, `phone_to_i` (key to position) | `add_contact`, `edit_contact`, `delete_contact`, `email_exists`, `phone_exists`, `search_contacts` | storage |
| Storage (`storage.cpp`) | `contacts.jsonl`, backups, audit log | `load`, `save`, `import_data`, `import_data_parallel`, `export_data`, `backup_last` | book, indexes, file writes |
| Persistent index (`index.cpp`) | index file: hash of the data, both maps | `load_or_build`, `save` | read and written on every load, written on every save |
| Disk index (`disk_index.cpp`) | meta file with the hash, sorted keys with byte offsets | `build`, `lookup_*`; `fast_search_one` | written on every save, read by a fast search |
| Merge, diff, redact (`merge.cpp`, `diff.cpp`, `redact.cpp`) | none | `merge_from_file`, `compute_diff`, `redact_book` | book, storage |
| File primitives (`utils.cpp`) | a file and its `.tmp` | `write_file_atomic`, `copy_file_to`, `read_file` | file system |
| Lock (`lock.cpp`) | a directory | constructor, destructor | `cli.cpp` |
| Command line (`cli.cpp`) | the book of this run, environment | one branch per command | everything |
| File helpers (static functions `acx_*_cmd` of `cli.cpp`, which `main` does not call) | files of JSON lines, a temporary file | `dedupe`, `redact`, `normalize`, `merge`, `sample`, `grep`, `backup`, `diff`, `validate`, `report` | the file system only |
| Line queue (`cli.cpp`, for two of those helpers) | queue, condition variable, threads, counters | `process_lines_parallel` | the threaded `validate` and `report` |
| RocksDB engine (`storage_rocksdb.cpp`) | `contact:`, `email:` and `phone:` keys | `add`, `edit`, `remove`, `search`, `import_data` | `cli.cpp`, when compiled in and asked for by `ACX_ENGINE` |
| SQLite engine (`storage_sqlite.cpp`) | tables of contacts and of their history | the same | the same |
| Interchange (`csv.cpp`, `jsonl.cpp`, `model.cpp`, `storage.cpp`) | exported files, the texts of data and index file | escape, dump, parse | export, import, load, merge, diff |
| Encryption (`crypto_file.cpp`) | an encrypted file | `encrypt_file_aes256gcm`, `decrypt_file_aes256gcm` | the commands `encrypt` and `decrypt` |
| Validation, config, policy, logs, self-tests | none | pure functions, or output only | all |

What is hard about it, and what makes each part correct:

* **The maps stand for the vector.** Every duplicate check asks the maps, never
  the vector, and believes the position it finds. The maps must stay exact
  through partial edits, deletes that move what follows, imports, and a round
  trip through an index file. Then no e-mail and no phone is stored twice.
* **Two files that belong together** are written one after the other, the second
  without looking at the result, by processes that may be killed in between. A
  stale index must not describe any data but its own.
* **Processes interleave.** The book is loaded before the lock is taken; `add`,
  `scrub` and the writing of the index by readers do not take it.
* **Files are replaced under readers**, with a shared temporary name, a fallback
  that copies in place, and no fsync.
* **Threads** decide which of two clashing rows of a parallel import wins, count
  the lines of a file, and must all end.
* **Two engines keep one promise in two ways.** RocksDB never has half a change,
  but its keys are kept by hand; SQLite looks after keys by itself, but nobody
  looks at the results of its statements.
* **What one piece of code writes, another reads**: an exported CSV file, escapes
  in JSON lines, a file cut short, a key in the index file, a sealed file.

## Modules

| Module | Models | Kind |
| --- | --- | --- |
| `ContactBook` | the book and its operations, as operators on records `[contacts, email, phone]` | pure |
| `ContactRepo` | a repository used by one process at a time: data file, index file, book, the command under way | state machine over `ContactBook` |
| `FileWrite` | `write_file_atomic`, `copy_file_to`, `read_file`, one system call a step, with faults | state machine |
| `AtomicFile` | what a file write promises | abstract specification, implemented by `FileWrite` |
| `RepoProcs` | several processes, each file read and write and the lock a step | state machine over `ContactBook` |
| `ParallelImport` | the threads of `import_data_parallel` | state machine over `ContactBook` |
| `SearchIndex` | the binary index, and a fast search beside a save | state machine |
| `Engine` | rows, options and keys, as both engines see them | pure |
| `ContactStore` | what a storage engine promises | abstract specification, implemented by both engines |
| `RocksEngine`, `SqliteEngine` | the two engines | state machines over `Engine` |
| `Engines` | the choice that `ACX_ENGINE` makes | composition of the two |
| `JsonLines` | what the file helpers make of a line | pure |
| `LineQueue` | the queue and its threads | actions over `JsonLines` |
| `FileHelpers` | the file helpers and their files | state machine over `LineQueue` |
| `Chars`, `Csv`, `Jsonl`, `IndexFile` | texts, and the codecs that write and read them | pure |
| `CryptoFile` | which key seals and opens a file | pure |
| `Interchange` | export, encryption, reading back, diff, the index file | state machine over the five above |
| `MC*` | values of the constants for TLC | instances |
| `FilesProofs` | theorems about `FileWrite` and `Interchange`: how files are written, and what is in them | proofs |
| `*Proofs` | theorems about the module of that name | proofs |

How they fit together: `ContactRepo` takes the write of one file for one step,
which `FileWrite` justifies for one writer; it takes a command for a few steps
with no other process in between, which `RepoProcs` takes apart; it takes
what a parallel import may accept from `Acceptances` of `ContactBook`, which
`ParallelImport` is proved to produce (`ResultAcceptable`); and it takes files
for the contacts in them, for which `Interchange` shows when that is right. The
engines and the file helpers share no file with it: `acx` uses one engine at a
time, and a file helper works on the files it is given.

### ContactBook

`Book(cs, fe, fp)` is `ContactBook` of `model.hpp`. `PushBack`, `SetEmail`,
`SetPhone`, `Deleted`, `Rebuilt` are the loops and assignments of `storage.cpp`
and `index.cpp`; `CanAdd` the checks of `add_contact` in their order; `Edited`
all of `edit_contact` before its save, with what it leaves in memory when it is
refused half-way (`[ok, book]`). `Exact` says that a map describes the vector.
`Exists` keeps the out-of-bounds read of `storage.cpp:101`: a position beyond
the vector answers whatever `oob` says, and the callers quantify over it
(`Garbage`).

Abstractions: an e-mail or phone stands for its normalized form (the key of the
maps), for one fixed default country; `Valid` stands for `is_valid_*`; times are
numbers, as ISO-8601 strings compare alike; positions count from 1; keys are
those the index file can carry (no `=`, no line break: `IndexReadsBack` of
`Interchange` shows that those come back, and what becomes of the others); the
history of a contact is left out of this module, as no check, search or command
looks at it (`Jsonl` has it, for the lines of the data file need it). `Blank` is the empty string and may be an
imported id, name, e-mail or phone.

### ContactRepo

Variables: `data` and `index` (the two files), `book` (the process), `job` (the
command it is in the middle of), and the history variable `clean`. A hash is
modelled by the contents it is taken of (`index.of`), so `index.of = data` is
"the hash matches".

`Load` is `Storage::load` with `load_or_build`; each command is one action that
ends the process, except `import` and `merge`, which take a row a step
(`ImportRow`, `MergeNew`, `MergeMatch`) because a merge saves in between. `Save`
has three outcomes: both files written, the data only (the index write failed,
which the code ignores, or the process was killed), nothing. `Leave` is a reading
command, or a kill between two steps. `Persist` is the save that `--dry-run`
skips; the save at the end of a merge and that of `scrub` are plain `Save`, as in
the code.

`clean` tells whether the maps ever were saved beside contacts they do not
describe (`import --parallel`, `prune`, `scrub` of an e-mail or phone), two
contacts were saved with one id (an import), or a row with an empty id was
imported. From then on the code does not promise anything about keys:
`repo_add_dedup` shows what happens. The safety properties say "as long as
`clean`".

### FileWrite and AtomicFile

Names lead to inodes, so that a writer goes on writing to the inode it opened
after its name has been taken over. The standard stream may hold back the last
block until it is closed (`CloseTmp`), where a full disk goes unnoticed. Faults
are switched on by the constant `Faults`. The refinement mapping reads the file's
inode as the abstract contents; a fault other than a kill takes the abstract
`Void` step.

### RepoProcs

Each process is a record with a program counter: `ReadRows`, `HashRows`,
`LookIndex`, `Rehash`, `WriteIndex` are `Storage::load`; `Dispatch`, `Acquire`,
`Change` or `ImportRow` and `MergeRow`, `WriteData`, `Rehash`, `WriteIndex`, `End`
the command. Its field `then` says what follows the writing of the index, which
the load, every save and the save of a merged row share; `todo` holds the rows
of the input file that are still to be taken, `strat` the strategy of a merge.

`list` stands for the commands that only read; `add`, `edit`, `delete`, `import`
and `merge` are modelled. `prune`, `scrub` and `import --parallel`, which save
maps that do not describe the contacts, are left out, as is `--dry-run`:
`ContactRepo` has them, and nothing is claimed after them. `backup` locks and
writes a file that nobody reads. An input row that is let through gets an id
that nobody uses (imports that bring an id twice are in `ContactRepo`).

`overlap` records that a changing command ever ran beside another process that
had not ended. From then on changes are lost and files are mixed up, as
`procs_lost_update` shows, and only `LockExcludes` and the types are claimed.

### SearchIndex

A save goes through `WriteData`, `HashData`, `WriteMeta`, `OpenIndex`,
`WriteHead`, `WriteEntry` and `CloseIndex`, each a file operation of
`Storage::save` and `DiskIndex::build`; `BreakOff` is a kill, or a failure that
nobody looks at. A search goes through `ReadHash`, `CheckMeta`, `ReadHead`,
`ReadEntry`, `Lookup` and `Slice`. The index is rewritten in place, so a search
may read a part of it. Lines have a size, so that an offset taken from other data
may lead to the start of another line, or into the middle of one, where no
contact can be parsed. Entries are read and written as wholes. `Found` is the
binary search of the code over blocks sorted as the code sorts them.

`cut` records that a save broke off after it renewed the meta file and before it
truncated the index; `exposed` that the data were replaced beside a search, or
that the meta file it checked might have run ahead of the index. In those two
cases the code does answer with wrong contacts, and nothing is claimed: the
module has the hazards of disk_index.cpp:21 and storage.cpp:641, and no property
covers them. A search by e-mail and phone looks
up the e-mail only, and one by name and e-mail ignores the name.

### ParallelImport

Every block under a mutex is one step; `notify_one` comes after the mutex was
released; a waiting worker may wake up by itself. Which of two clashing rows wins
depends on the thread that looks first; only the rows let through are put in
order again.

### Engine, ContactStore, RocksEngine, SqliteEngine, Engines

`ContactStore` is what `storage_engine.hpp` and the duplicate checks of both
engines lead one to expect: an import or an `add` only brings in rows, `edit`
changes one, `remove` takes one away, and no e-mail or phone is stored twice. It
lets an import come row by row, as that of RocksDB does, and that of SQLite when
its `BEGIN` was refused; that a granted one comes at once or not at all is
`ImportAllOrNothing`.

The engines are modelled as what `storage_engine.hpp` offers. Of that, `acx` calls
`load`, `search` and `import_data` today, the last under `RepoLock` (cli.cpp:789):
`add`, `edit` and `remove` of an engine, and two imports that meet, are steps of
the interface and not of any command.

`RocksEngine`: every change is one `WriteBatch`, hence one step, and a kill may
come between any two; an import is a row a step. RocksDB lets one process open a
database. `edit` puts its new keys without asking who holds them, and a row whose
id is stored replaces that contact and leaves its old keys; `taken` records that
either has happened, and it voids the promise in the mapping to `ContactStore`.

`SqliteEngine`: several processes, a statement a step. `conn` is where each one
is, `txn` the one write transaction with the tables as it sees them. A statement
that meets the transaction of another process fails at once, as no busy timeout
is set; that a single statement fails for another reason, as an error of the
disk, is left out. `BEGIN IMMEDIATE`, `COMMIT` and the insert of the history row are done
without looking at the result, so an import whose `BEGIN` was refused (`begun` is
FALSE) goes on statement by statement, and a contact may stay without history
(`unlogged`). A `COMMIT` may fail inside the transaction too (`SqlCommitFails`): the
import answers success, and the transaction stays open until the process ends,
which it does, for the import is the last call it makes (cli.cpp:792). A kill, as
any end of a process, takes the transaction back.

### JsonLines, LineQueue, FileHelpers

These are static functions of cli.cpp, for the commands of docs/DATA_OPERATIONS.md
and docs/ADVANCED_DATAOPS.md; `main` does not call them, and what follows is about the functions
as they are.

A line is what `J::parse` makes of it: empty, broken, no object, or an object
with three fields. The e-mails and the lines that serve as keys are strings
alike, so that an e-mail may read like a line (`Spelled`). Three kinds of helper: `backup`, `dedupe` and `redact` stream
into an output they have emptied before they read; `normalize`, `merge`, `sample`
and `grep` gather everything and hand it to `atomic_write_all`; `validate`,
`report` and `diff` only count. Every line read is a step and so are `CloseStream`,
`WriteTemp` and `RenameTemp`; the process may be killed at any of them, and of what
was written to a stream some first part of its lines reaches the disk.

A file may fail to open, input or output (`OpenFails`, and `AtomicWriteFails` for the
temporary one), and the rename may fail; the command then ends with `EX_IO`, and
the temporary file may stay. No write and no close is checked, so on a full disk
a helper reports success beside a first part of its output. `lost` records that,
and the properties allow for it: success means that what is there is right, and
is all of it unless something was lost.

The threaded `validate` and `report` are the queue: `Push` and `Close` of the
main thread, `Pop`, `Count`, `Judge` and `NoteEmail` of each worker. A block under
the mutex and an atomic counter are a step each; sleepers may wake up unasked.

### Chars, Csv, Jsonl, IndexFile, CryptoFile, Interchange

Texts are sequences of characters here, because the properties are about them:
`CsvEscape` and the reader of `csv.cpp`; printer and parser of `jsonl.cpp`; `IndexText`
and `MapsFrom` of the index file. `Interchange` takes a book through `Export` or
`SaveData` (the data file as `Storage::save` writes it), a file that lost its last
break or its tail, `Seal` and `Unseal`, the readers (`ReadFile`), `Diff`, and
`SaveIndex` and `LoadIndex`; every command is a step. AES-GCM is taken to do what
it is for.

A contact is a number of strings (`Columns`; the first is the id) and a history, a
sequence of entries that hold strings by the keys of `EntryKey`. `Dump` prints it
as `Contact::to_json` and `dump_impl` do: an object with its keys in the order of
`std::map` (`Order`), and in it, under `HistoryKey`, an array of objects.
`FromJson` wants all of that back, as `from_json` does: a key that is missing, or
has another kind of value, makes the line one that merge skips (`IsContact`). The
parser is that of jsonl.cpp for any nesting of arrays, objects and strings: a
stack of what is open (`Inside`, `around`), and what is expected next (`mode`). At the
end of a line a string that is open counts as ended, and an array or object that
is open as an error. What the printer never writes is left out: numbers, `true`,
`false` and `null`, blanks other than TAB, CR and LF, and the escapes for `/`, backspace
and form feed; no line of a data file
has one, and a row of CSV that begins like a number is no contact either way.

`Export` writes CSV for `csv` and for `jsonl` (reading 7 below). `Diff` compares the
columns in `Compared`, which are name, email, phone and note in the code, and finds
contacts by id. An export as `jsonl` ends every diff with an error, for its header is
no JSON; what diff can compare is data files.

Each parser is a step that takes a state and a character (`Fed`, `Took`, `Cut`),
and `Through` its loop over a text. `Char` holds every character, and what counts
as one: `ctl` is any control character that `J::escape` writes as digits, the words
`hash=`, `email:` and `phone:` of the index file are one each, and so is a position,
by `Numbers`. `MapsFrom` fails if some entry (`HasEntry`) has no number
(`NumberIn`), for `std::stoull` then throws.

## Reading the source

Some of the code does not compile as it is. It is read as follows.

1. `if (! /* dry-run */ if (getenv("ACX_DRY_RUN")) return true; st.save(book))`
   (storage.cpp:145, 188, 219, 376, 605): with `ACX_DRY_RUN` set, return true
   after the change in memory; otherwise save.
2. `st.add`, `st.edit` in merge.cpp are `add_contact` and `edit_contact` on that
   storage.
3. `acx::RepoLock` in cli.cpp is `Lock` of lock.cpp on the repository's lock
   directory.
4. cli.cpp:683-686 declares `book` twice: the engine loads, then the storage.
   The book of the storage is the one used.
5. The csv and tsv branches of `import_data` (storage.cpp:387-476) hold export
   code; only the jsonl branch is modelled. `import_csv_rfc` is not called
   by a command; `Csv` models its parser, `csv_parse_rfc4180`.
6. The character sets at storage.cpp:253 and jsonl.cpp:15 hold mangled quotes.
   They are read as comma, quote, line break, and as quote and backslash.
7. `export_data` has two branches for `jsonl`. The first, storage.cpp:312-324, is
   the one that is taken, and it writes a header and CSV rows; the one at 355-358,
   which dumps a contact a line, is never reached.
8. validation.cpp:57-61 hold stray code between two functions; validation is
   modelled as a set, so nothing depends on it.
9. `read_file_bin`, `write_file_bin`, `parse_csv_with_sep` and `compute_diff` are
   called and defined nowhere in the repository. They are taken to read a file, to
   write one, and to load the other book and compare as diff.cpp does.
10. `is_object`, `as_object` and `as_string` of `J` are used in diff.cpp and cli.cpp and
   not declared in jsonl.hpp. They are taken to ask for, and to get, that kind of
   value, and the last two to throw when it is another.

## What TLC checks

| Run | Shows | Bounds |
| --- | --- | --- |
| `repo_commands` (pass) | `TypeOK`, `UniqueKeys`, `IndexTruthful`, `BookExact`, `MergeKeepsExisting` under every sequence of commands, failed saves and kills | two contacts, three e-mails (one not valid), two phones, two dates, two ids and the empty one, files of one or two rows, ten edits and four contacts to add |
| `repo_add_dedup` (violation) | `AddIsDeduplicated`: add stores a duplicate after a parallel import | the same |
| `file_one_writer` (pass) | `RefinesAtomicFile`, `ReadsOneValue`, `SuccessMeansStored` | one writer, one reader, two values of two blocks, three inodes, all faults, one of them besides kills |
| `file_two_writers` (violation) | `FileIsWhole` fails for two writers without any fault | two writers |
| `procs` (pass) | `UniqueKeys`, `IndexTruthful`, `LockExcludes` for all six commands and kills anywhere | two processes, two ids, two additions, one edit, one file of two rows, merge by `prefer-newer` |
| `procs_lost_update` (violation) | `WritesSerialized`: a change is lost | two processes that add or edit |
| `search` (pass) | `IndexHonest`, `AnswerRight` | one process that saves, one that searches, five versions of up to three lines |
| `parallel_import` (pass) | `ResultAcceptable`, `NoClashInside`, `Terminates` | three workers, up to three rows, book of at most one contact |
| `engines` (pass) | `SqlRefinesStore`, `RocksRefinesStore`, `KeySearchIsScan`, `HistoryComplete`, `ImportAllOrNothing` | SQLite with two processes, RocksDB with one; three ids, two e-mails and phones, three additions, two edits, three files |
| `file_helpers` (pass) | `OutputRight`, `SampleRight`, `OthersUntouched`, `CountersRight`, `Ends` | two files of up to four lines out of six contents, samples of none and two, teams of no, one and two threads |
| `interchange` (pass) | `InterTypeOK`, `CsvReadsBack`, `JsonlReadsBack`, `ShortFileHasPrefix`, `OpensForWhoSealed`, `DiffRight`, `IndexReadsBack` | one contact with any name of up to two of nine awkward characters, two with names of up to one, or one with two entries of history; three columns, of which diff compares one; two books to compare with; three keys (one too short), one passphrase, one associated text |
| `csv_own_export` (violation) | `OwnExportReads`: the program's own reader refuses what `export` wrote | the same |

Why the bounds are enough to be interesting. Two contacts make it possible for a
contact to move (delete of the first), for an edit to run into another, and for a
row to match one by e-mail and the other by phone; with two, the limit
`MaxContacts` is reached too. Two blocks tell a part from the whole. Three inodes
are what one writer, one reader and two names can hold. Two processes are enough
for every race between two, and a third state, the stale lock, stands for all
that died. Three workers let one wait while two decide about a chain of rows in
which the middle one clashes with both others. `FileCap` bounds the book an
import may make. `Additions` and `Edits` are few, chosen so that each of them can meet
a duplicate, an invalid e-mail or a refusal after the first field was changed; the
proofs hold for any. In `procs` the first row of the file matches two stored
contacts and the second clashes with the first. In `engines` a file brings an id
that may be stored, another a line that cannot be read between two rows, the
third a row that is refused after one that was stored. In `file_helpers` the six
contents hold, between them, every form of line, keys that differ by case and by
blanks, and records without an e-mail; a full disk may leave any number of the
lines. In `interchange` two characters are what
an escape, a doubled quote or a CR LF takes; the entries of history hold a brace, a
bracket or a quote, so that cuts fall into every kind of nesting; and the books
that are compared differ in an id, in a column that diff compares and in one that it
does not.

`repo_commands` explores no state after `clean` became FALSE: nothing is claimed
there and it never becomes TRUE again. `procs` explores no state after
overlapping changes have damaged a file, for the same reason, and follows
overlapping processes only as long as one contact is stored at most: all that is
claimed beside an overlap is the lock, which does not look at the contacts. `search` does not
follow a search that was exposed: it only reads. Deadlock is checked in `procs`,
`procs_lost_update`, `search`, `engines` and the runs of `FileWrite`. It is
not in `repo_*`, where the supply of ids may run out and an import ends for good,
nor in `parallel_import`, `file_helpers` and the runs of `Interchange`, where one command, or one way of a file, comes to its end.

Fairness is used where threads are. `ParallelImport` has weak fairness of the main
thread and of each worker; `FileHelpers` of the steps that read, write, close
and rename files (not of their failures), of the main thread that pushes and closes, of each worker and of the printing of
the counters. Every step is a system call or a block under a mutex that is held
for a few statements, so a process or thread that can go on will. Waking up
without a notification is not fair: termination must not depend on it. Nor is
starting a command, or a kill.

Findings (the violation runs) are disagreements between the code and a sentence
of the repository, each quoted in `PROJECT.json`. Others were met on the way and
are not run: a merge and `scrub` write under `--dry-run` (merge.cpp:77, against the
help at cli.cpp:927); nothing is flushed before a rename (utils.cpp:30, against
src/README.md:198), and on a full disk a short file is published and called a success
(utils.cpp:29); an export as `jsonl` is CSV, which no reader of JSON lines makes anything
of (storage.cpp:312, against src/README.md:156); index files written under another
default country hold other phones (validation.cpp:56); the index is saved under a hash read later than its
data (index.cpp:76), and the meta file of the disk index is renewed before the
index (disk_index.cpp:21), both against "hash-coupled" in src/CHANGELOG.md:51; `dedupe` and `redact` lose a file that is input and
output; with `ACX_THREADS=0` the threaded helpers count nothing and succeed, and
so they do for a file that does not exist, where the sequential ones answer
`EX_IO`; `add`, `edit` and `delete` go to the JSONL repository whatever
`ACX_ENGINE` says; a key with `=` in it can make every later command
terminate while it loads the index file; the threaded `validate` asks less
of an e-mail than the sequential one.

## What is proved

`ContactRepoProofs` proves, for any sets of ids, names, keys, notes and times,
any limit, any input files and any masking function:

* `KeysAreUnique`: `Spec => []UniqueKeys`
* `IndexNeverLies`: `Spec => []IndexTruthful`
* `MapsStayExact`: `Spec => []BookExact`
* `TypeCorrect`: `Spec => []TypeOK`

None is inductive by itself. That no key is stored twice rests on the maps the
checks ask, the maps on the index file they came from, and the checks of an edit
on no other contact having the id they skip. `IInv` collects: the types
(`FilesTyped`, `JobTyped`); distinct keys and distinct, non-empty ids in the data
file (`DataDistinct`); `IndexTruthful`; `BookExact`; and the ids of the book in
memory (`BookIds`), which an import alone may make equal until it saves.
`Invariance` is `Spec => []IInv`: one lemma per action, of which those that end
the process only need their effect on the files (`ExitStep`). The facts about
maps and vectors are lemmas of `ContactBookProofs`: `ExactAppend`,
`ExactReplace`, `ExactRemove`, `ExactRebuild` for the four ways the code changes
a map, and `ExactDistinct`, which turns exact maps into distinct keys.

`MergeKeeps` (`Spec => MergeKeepsExisting`, an action property) rests on one fact
more, about a merge under way: the book in memory has grown from the data file in
the way its strategy allows (`Kept`, by the relation `Grown`). It needs the
distinct ids: the merge finds a contact by position and edits it by id.

`ParallelImportProofs` proves, for any set of workers, any file and any book:

* `NoTwoClash` (`NoClashInside`): the two seen sets cover all that was let
  through and all that was in the book (`SeenCovers`), and a row is let through in
  the step that looks its keys up.
* `ImportTypes` (`TypeOK`) and `ImportAcceptable` (`ResultAcceptable`), from
  `AInv`: the queue holds the rows that were pushed and not yet taken, in order
  (`QueueInOrder`); each row is in one place, the queue, one worker's hands or the
  output (`OnceEach`); a row let go clashes with what is inside or in the book
  (`Judged`), and every key seen belongs to one that was let through or is in the
  book (`KeysKnown`); the workers end only when the queue is done (`Ending`). At
  the end nothing is in the queue or in a hand, so each row has been judged.

`FilesProofs` proves, of `FileWrite`, `FileTypes` (`TypeOK`) for any number of writers, and for
one writer (`OneWriter`), any number of readers, any values and any faults:
`OneValueRead` (`ReadsOneValue`), `StoredOnSuccess` (`SuccessMeansStored`) and
`ImplementsAtomicFile` (`RefinesAtomicFile`, step by step: the rename, or a step
after a fault, is the step of `AtomicFile`; all others stutter or begin and give
up). One writer is a premise, not a simplification: two share the temporary name,
and `file_two_writers` shows what follows. `IInv` says how far each program
counter has come with the inode behind the temporary name (`Underway`), that the
two names never lead to one inode (`NamesApart`), and, until a fault other than a
kill, that the file is whole and that an inode a reader holds open is never the
one written to (`Promise`).

`RepoProcsProofs` proves, for any number of processes, any files and any of the
six commands: `ProcsExclude` (`LockExcludes`), `ProcsKeys` (`UniqueKeys`),
`ProcsIndex` (`IndexTruthful`) and `ProcsTypes` (`TypeOK`). The strengthening has
two parts. `LockTold`: a process between taking the lock and its end is the one
the lock names; that gives the exclusion, whatever else runs. `Calm`: as long as
there was no `overlap`, a changing process is alone (`Alone`), the stored keys and ids
are distinct, and every process `Knows` what its program counter says it has
looked at: that its book is that of the data file until it changes it, that the
hash it holds is that of the data, that its maps are exact. Listing processes may
run beside each other, each writing the index; what one knows survives the steps
of the others because none of them changes the data.

`SearchIndexProofs` proves, for any versions of the book, any queries and any
number of searches beside one process that saves (`OneSaver`): `SearchTypes`
(`TypeOK`), `HonestIndex` (`IndexHonest`) and `RightAnswers` (`AnswerRight`). The
one saver stands for all that save in turn. Two that overlap, as two `add`s may, are
not modelled: they would rewrite one index file together. `IInv` says that what is in the index is, at any moment, the beginning
of a listing of the data its meta file names, unless that ran ahead (`Filed`);
that what is in the index together with what is still to be written is a listing
of the data (`Saving`); and that from the check of the meta file on, all that a
search has read is of the data it will slice (`Searching`). The last is weaker than
one would think and enough: a save of the same data may rewrite the index
between two reads with equal keys in another order, so what a search has read may be
no listing at all; each entry by itself still belongs to the data, and the lookup
returns an entry with the key. `HonestIndex` needs the order too. The algorithms
are proved for any length by least counterexample, which needs no induction
theorem: that the recursive functions are defined (`SumsExist`, `HalvesExist`), that
each line has a place of its own and is what is sliced there (`OffsetsClimb`,
`LinesAtOffset`), that a block holds every entry (`BlockFacts`, by counting), and
that the binary search finds only entries with the key, and one if there is one
(`FoundFacts`).

`FileHelpersProofs` proves, for any files, any lines, any teams of threads and any
conversions: `HelperTypes` (`TypeOK`), `HelpersTouchOutput` (`OthersUntouched`) and
`ThreadsCountRight` (`CountersRight`). `QInv` is about the queue and its threads: what is
queued is the stretch of the file between what was counted or is in a hand and
what was pushed (`Stretch`), no line is in two places (`NoneTwice`), the counters
are the numbers of lines that were counted, found valid and found bad
(`Counted`, `Judged`), and the e-mails noted are theirs (`Noted`). `FInv` is about the files: at each
stage of a command the temporary file and the gathered lines are what that stage
allows (`Stages`, `Inputs`; of the temporary file, a first part of the lines when the
disk was full), and a file differs from what it was only if it is the
output, with success for those that gather (`Touched`).

`HelpersWriteTheirOutput` (`OutputRight`) and `SamplesAreRight` (`SampleRight`) need
more: what a loop has gathered so far. While a command reads, the lines it holds
are those that the operator on the whole input takes from the part read so far, and
the keys it has seen are the keys of that part (`Carried`, by `ReadSoFar`, `Kept` and
`Met`); a sample has a place of the input of its own for each of its lines, and
counts the records read (`Drawn`). `Progress` says so of every stage of a command.
That the recursive function behind `LinesAt` is defined and goes line by line
is proved by least counterexample. A stream that empties its own input is
excepted, as in `OutputRight` (`Undisturbed`), and on a full disk both theorems speak
of a first part of the output: success never means that the lines were written,
only that what was written is right.

`FilesProofs` proves, of `Interchange`, for any characters, columns and keys, and for books
and histories of any length: `InterTypes` (`InterTypeOK`), `JsonLinesReadBack` (`JsonlReadsBack`),
`ShortFilesGivePrefixes` (`ShortFileHasPrefix`), `CsvFilesReadBack` (`CsvReadsBack`),
`IndexFilesReadBack` (`IndexReadsBack`), `DiffTellsBooksApart` (`DiffRight`) and
`DecryptionNeedsTheSeal` (`OpensForWhoSealed`). `InterInv` is inductive and says where
each file, report and map comes from, which is short, as every command is a step;
the rest is about the codecs. A parser is a walk through its text. There is one walk
through each text (`WalkExists`, `WalkUnique`, by least counterexample), so where it
ends is a function of the text (`End`), a text of two parts is walked one part after
the other (`EndJoined`), and a text of pieces piece by piece (`EndFlattened`); the
recursion of `Through` goes the same way. Then:

* JSON: the escape of a character is read as that character (`ReadsEscaped`) and a
  string as its text, in whatever array or object it stands; a list of keys and
  values, printed in the order of `std::map`, is read as the object with those keys,
  and so are an entry of the history, the history, and a contact, one within the
  other. A text that may end where it does may end anywhere later too (`FlatStays`),
  and a contact without its last brace may not end there; so no beginning of a line
  is a value (`ReadsDump`), wherever in it the cut falls, and a file cut between or
  within lines gives the contacts before the cut
  (`CutPieces`).
* CSV: a field, quoted or not, is read as itself (`ReadsField`), a line as its row
  (`ReadsCsvLine`), and the last one without its break (`ReadsWithoutBreak`). For the
  types, that the header stays the first row whatever follows it (`Headed`).
* The index file: an entry is read as its key and number (`EntryLineFacts`); the
  entries come in the order of some list of the keys, and the map read so far is
  that of the first of them (`EnteredFacts`, `ReadsEntries`).

`EnginesProofs` is about the two engines, each by itself and then side by side.
`RocksSearch` (`KeySearchIsScan`) and `RocksRefines` (`RocksRefinesStore`) rest on
`RocksInv`: types, and, unless something was `taken`, `email:` and `phone:` keys that
are exact inverses of the contacts. That a key never points to a contact without
it is not enough: `edit` deletes the old key by what the contact says, so the
other direction is needed too. `SqlHistories` (`HistoryComplete`), `SqlImports`
(`ImportAllOrNothing`) and `SqlRefines` (`SqlRefinesStore`) hold for any number of
processes. `SqlInv` adds to the types: keys unique both in what is committed and in
what the transaction sees (`TablesUnique`); the owner of the transaction is an
import that was granted it (`OwnerImports`); it sees all committed rows and more
(`TxnExtends`), so that a commit only brings in rows; every row it added is
logged, or about to be (`TxnLogged`); and it has stored the readable rows of the
part of the file it has read (`TxnProgress`), so that a commit at the end brings
in all of them. A transaction whose `COMMIT` failed is one that nobody sees, and it
ends with its process. `EngineTypes`, `EngineSearch`, `EngineHistories`, `EngineImports` and
`EnginesRefine` carry all of it over to `Engines`: a behaviour of the two is one of
each (`EachByItself`).

Assumptions. Of `ContactBook`, `ContactRepo` and `RepoProcs`: times are comparable,
the limit is a number, input files and additions hold contacts, edits hold
options, merges are strategies, masking yields names and keys, the empty string
is not valid, no process is named like a free or a stale lock, an index that was
never written is of no data. Of `ParallelImport`: the workers are finitely many
and there is one, files and books hold contacts. Of `Engine` and `SqliteEngine`:
the empty string is neither valid nor an id, inputs have their shape, nobody is
no process. Of `SearchIndex`: versions are sequences of lines with numbers for
keys and sizes, one is the longest, a query asks for something. Of the file
helpers: there is a path and a size, threads are finitely many, teams are sets of
threads, the conversions of `JsonLines` are functions on its texts, contents are
sequences of lines and no file is none of them. Of `FileWrite`: a value takes at
least one block, no value or inode stands for none, faults are those it names. Of
`Interchange`: the characters that the codecs treat in a way of their own are
characters (`CharAssumption`); the keys of a contact, and those of an entry, differ from
each other and hold no control characters (`KeysAssumption`), and `std::map` has each of
them somewhere (`OrderAssumption`); positions have different numbers, without a break
(`NumbersAssumption`); e-mail and phone have their columns, diff compares columns other
than the id, and no header holds a CR (`ColumnsAssumption`); a book has each id
once, an order of its ids, and a number for each position (`BooksAssumption`); and
what stands for a failure, or for nothing, is no text (`UnsetAssumption`). That ids
are distinct as long as the book is clean is `IInv` of `ContactRepo`. TLC evaluates
all of them in every run of
these modules, and that of `CryptoFile` (good keys are keys) too.

Only model-checked:

* `Ends` and `Terminates`: liveness under fairness, of which the prover has no rule
  for `ENABLED`.
* That the violation runs violate: a counterexample is found, not proved.
* What several writers of one file do.

## Plan

1. `prune`, `scrub` and `import --parallel` in `RepoProcs`, with what may still be
   said of the data when the maps do not describe it.
2. An abstract book of contacts that `ContactRepo` implements as long as it is
   clean, as the engines implement `ContactStore`.

## Not modelled

* Validation and normalization: pure functions on strings. They enter as the set
  `Valid`, and as e-mails and phones that stand for their normalized forms under
  one default country.
* Configuration, policy and masking: reading of files and environment. Masking
  enters `ContactRepo` as a constant.
* Backups, signatures, the audit log, verification: written, or hashed, and never
  read back by the program.
* Logging, metrics, tracing, self-tests, benchmarks, help and version: output.
* Of the codecs: TSV; numbers, `true`, `false` and `null` in JSON, blanks other than TAB,
  CR and LF, and the escapes that the program never writes. Of the crypto
  tools: making keys, HMAC, compression, `checksum`, each a library call
  on one buffer. A header `ACXEG2` can be reached by the function with an empty key
  only, as the command asks for a key first.
* Of the SQLite engine: `search`, `load` and export, which are queries, and single
  statements that fail for another reason than the transaction of another process.
* Of the disk index: two saves at once.
* Of the static functions of cli.cpp that `main` never calls, those beside the file
  helpers: `hash`, `checksum`, the self-check, `doctor`, help, and `config init`, which
  writes a fixed text. The others are `FileHelpers` and `LineQueue`.
