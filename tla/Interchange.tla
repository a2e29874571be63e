---------------------------- MODULE Interchange -----------------------------
(***************************************************************************)
(* The way of a book out of the program and back: export and a save write  *)
(* a file, the file may come from a program that ends it otherwise or may  *)
(* reach us cut short, encrypt and decrypt take it along, merge, the       *)
(* RocksDB import and diff read it.  Each command is one step: the files   *)
(* it writes are written at once or not at all.                            *)
(***************************************************************************)
EXTENDS Csv, Jsonl, IndexFile, CryptoFile, Integers

CONSTANTS Books,      \* sequences of contacts
          OtherBooks, \* those a book is compared with
          Compared,   \* the columns that diff compares
          Malformed   \* J::parse or as_string threw

\* What CSV and the index file hold of a book.
Rows(contacts) == [k \in DOMAIN contacts |-> contacts[k].fields]

\* A contact has its id first, and every column; a book has each id once, as
\* ContactRepo shows of it, and its ids are in the order of strings.
ASSUME ColumnsAssumption ==
    /\ EmailColumn \in 1 .. Columns /\ PhoneColumn \in 1 .. Columns
    /\ Compared \in SUBSET (2 .. Columns)
    /\ Header \in [1 .. Columns -> Seq(Char \ {CR})]
ASSUME BooksAssumption ==
    \A b \in Books \cup OtherBooks :
        /\ b \in Seq(Contact) /\ Len(b) <= Len(Numbers)
        /\ \A k \in DOMAIN b : b[k].fields[1] \in DOMAIN Rank /\ Rank[b[k].fields[1]] \in Int
        /\ \A k, l \in DOMAIN b : Rank[b[k].fields[1]] = Rank[b[l].fields[1]] => k = l

\* Unset is none of the values it stands for the lack of.
ASSUME UnsetAssumption == Unset \notin Seq(Char) /\ Unset \notin {"csv", "jsonl", "data"}

VARIABLES
    book,      \* the contacts in memory: export takes a copy of them
    format,    \* the format export was asked for, or "data" for the data file
    file,      \* the characters of the file, or Unset
    cut,       \* history: how the file came to differ from what was written
    safe,      \* the encrypted file, Refused as long as there is none
    sealer,    \* history: the command and environment that wrote it
    opened,    \* the file decrypt wrote, or Unset
    got,       \* the contacts a reader made of the file, or Unset
    report,    \* what diff printed, or Unset
    index,     \* the text of the index file, or Unset
    maps       \* the key maps of the next process, or Unset

interVars == << book, format, file, cut, safe, sealer, opened, got, report, index, maps >>

InterInit ==
    /\ book \in Books /\ format = Unset /\ file = Unset /\ cut = "whole"
    /\ safe = Refused /\ sealer = Unset /\ opened = Unset /\ got = Unset /\ report = Unset
    /\ index = Unset /\ maps = Unset

\* export as "csv" and as "jsonl": the branch for "jsonl" that writes JSON comes
\* after one that writes CSV.
Export(f) ==
    /\ file = Unset /\ index = Unset
    /\ format' = f
    /\ file' = CsvText(Rows(book))
    /\ UNCHANGED << book, cut, safe, sealer, opened, got, report, index, maps >>

\* Storage::save writes the data file, which is taken along as the file.
SaveData ==
    /\ file = Unset /\ index = Unset
    /\ format' = "data"
    /\ file' = JsonlText(book)
    /\ UNCHANGED << book, cut, safe, sealer, opened, got, report, index, maps >>

\* RFC 4180 lets the last line go without its break.
EndWithoutBreak ==
    /\ format = "csv" /\ cut = "whole" /\ file # Unset /\ got = Unset /\ safe = Refused
    /\ file' = Front(file) /\ cut' = "no break"
    /\ UNCHANGED << book, format, safe, sealer, opened, got, report, index, maps >>

\* Some last part of the file is missing.
LoseTail ==
    /\ format = "data" /\ cut = "whole" /\ file # Unset /\ got = Unset /\ safe = Refused
    /\ \E k \in 0 .. Len(file) - 1 : file' = SubSeq(file, 1, k)
    /\ cut' = "short"
    /\ UNCHANGED << book, format, safe, sealer, opened, got, report, index, maps >>

\* encrypt, as a command or as the function with a key of its own.
Seal(by, env, aad) ==
    /\ file # Unset /\ cut = "whole" /\ got = Unset /\ safe = Refused
    /\ by.cli => CommandHasKey(env)
    /\ safe' = Encrypt(IF by.cli THEN env.key ELSE by.key, env, aad, file)
    /\ sealer' = IF safe' = Refused THEN sealer ELSE [by |-> by, env |-> env]
    /\ UNCHANGED << book, format, file, cut, opened, got, report, index, maps >>

Unseal(by, env) ==
    /\ safe # Refused /\ opened = Unset
    /\ by.cli => CommandHasKey(env)
    /\ Opens(safe, IF by.cli THEN env.key ELSE by.key, env)
    /\ opened' = safe.text
    /\ UNCHANGED << book, format, file, cut, safe, sealer, got, report, index, maps >>

\* A contact that is read from CSV has no history.
Bare(rows) == [k \in DOMAIN rows |-> [fields |-> rows[k], history |-> << >>]]

\* What reads the file: merge and the RocksDB import skip the JSON lines that
\* they cannot read.
ReadFile ==
    /\ got = Unset /\ file # Unset /\ safe = Refused
    /\ got' = IF format # "csv" THEN ReadableContacts(file)
              ELSE IF CsvContacts(file) = Failed THEN Failed ELSE Bare(CsvContacts(file))
    /\ UNCHANGED << book, format, file, cut, safe, sealer, opened, report, index, maps >>

-----------------------------------------------------------------------------
(* The index file.  The data are "h" all the while.                          *)

SaveIndex ==
    /\ index = Unset /\ file = Unset
    /\ index' = IndexText("h", KeyMaps(Rows(book)))
    /\ UNCHANGED << book, format, file, cut, safe, sealer, opened, got, report, maps >>

LoadIndex ==
    /\ index # Unset /\ maps = Unset
    /\ maps' = MapsFrom(index, "h", Rows(book))
    /\ UNCHANGED << book, format, file, cut, safe, sealer, opened, got, report, index >>

-----------------------------------------------------------------------------
(* diff                                                                      *)

\* load_book_from_file takes of an object the strings it compares, and an empty
\* one for a key that is missing; other values it skips.
Wanted == {1} \cup Compared
ReadsLine(line) ==
    /\ IsJson(line)
    /\ IsObj(Parse(line)) => \A i \in Wanted :
            FieldKey[i] \in DOMAIN Parse(line).obj => IsStr(Parse(line).obj[FieldKey[i]])
Sketch(value) ==
    [fields  |-> [i \in 1 .. Columns |->
                    IF i \in Wanted /\ FieldKey[i] \in DOMAIN value.obj
                    THEN value.obj[FieldKey[i]].str ELSE << >>],
     history |-> << >>]

DiffReads(text) == \A k \in DOMAIN LinesOf(text) : ReadsLine(LinesOf(text)[k])
DiffContacts(text) ==
    LET lines == LinesOf(text)
    IN FlattenSeq([k \in DOMAIN lines |->
            IF IsObj(Parse(lines[k])) THEN << Sketch(Parse(lines[k])) >> ELSE << >>])

\* index: the last contact with an id is the one that counts.
ById(contacts) ==
    [id \in {contacts[k].fields[1] : k \in DOMAIN contacts} |->
        contacts[CHOOSE k \in DOMAIN contacts : contacts[k].fields[1] = id /\
                \A l \in DOMAIN contacts : contacts[l].fields[1] = id => l <= k]]

Differ(c, d) == \E i \in Compared : c.fields[i] # d.fields[i]

\* Mutant of DiffBooks: the two sides are mixed up.
DiffSwapped(a, b) ==
    [added |-> DOMAIN a \ DOMAIN b, removed |-> DOMAIN b \ DOMAIN a,
     changed |-> {id \in DOMAIN a \cap DOMAIN b : Differ(a[id], b[id])}]

DiffBooks(a, b) ==
    [added |-> DOMAIN b \ DOMAIN a, removed |-> DOMAIN a \ DOMAIN b,
     changed |-> {id \in DOMAIN a \cap DOMAIN b : Differ(a[id], b[id])}]

\* diff of the file, taken for JSON lines, with the data file of another book;
\* load_book_from_file calls an empty file an error, and a line it cannot read
\* ends the command.
Diff(other) ==
    /\ format \in {"jsonl", "data"} /\ got = Unset /\ safe = Refused /\ report = Unset
    /\ file # << >> /\ other # << >>
    /\ LET theirs == JsonlText(other)
       IN report' = IF ~(DiffReads(file) /\ DiffReads(theirs)) THEN Malformed
                    ELSE [with |-> other,
                          diff |-> DiffBooks(ById(DiffContacts(file)), ById(DiffContacts(theirs)))]
    /\ UNCHANGED << book, format, file, cut, safe, sealer, opened, got, index, maps >>

Callers == {[cli |-> TRUE, key |-> Unset]} \cup [cli : {FALSE}, key : Keys \cup {Unset}]

InterNext ==
    \/ \E f \in {"csv", "jsonl"} : Export(f)
    \/ SaveData \/ EndWithoutBreak \/ LoseTail
    \/ \E by \in Callers, env \in Env, aad \in Aads \cup {Unset} : Seal(by, env, aad)
    \/ \E by \in Callers, env \in Env : Unseal(by, env)
    \/ ReadFile
    \/ SaveIndex \/ LoadIndex
    \/ \E other \in OtherBooks : Diff(other)

InterSpec == InterInit /\ [][InterNext]_interVars

-----------------------------------------------------------------------------

Lacks(rows, c) ==
    \A k \in DOMAIN rows : \A i \in DOMAIN rows[k] : \A j \in DOMAIN rows[k][i] : rows[k][i][j] # c

\* A contact as JSON gives it back: a control character without an escape of its
\* own is lost on the way, for its digits are skipped.
CleanContact(contact) ==
    [fields  |-> [i \in 1 .. Columns |-> Clean(contact.fields[i])],
     history |-> [n \in DOMAIN contact.history |->
                    [i \in DOMAIN EntryKey |-> Clean(contact.history[n][i])]]]
Cleaned(contacts) == [k \in DOMAIN contacts |-> CleanContact(contacts[k])]

Ids(contacts) == {contacts[k].fields[1] : k \in DOMAIN contacts}

\* What is read has the width of a contact, whatever the file holds, and diff
\* takes ids out of a data file only that the book has.
InterTypeOK ==
    /\ book \in Books /\ format \in {"csv", "jsonl", "data", Unset}
    /\ cut \in {"whole", "no break", "short"}
    /\ got \in {Unset, Failed} \/ \A k \in DOMAIN got : DOMAIN got[k].fields = 1 .. Columns
    /\ format = "data" /\ report \notin {Unset, Malformed} =>
          report.diff.removed \subseteq Ids(Cleaned(book))

\* CSV without the break at its end gives every contact back but for its history,
\* sorted by id, as long as no field holds a CR, which csv_escape leaves bare:
\* commas, quotes and line breaks in a field survive.
CsvReadsBack ==
    format = "csv" /\ cut = "no break" /\ got # Unset /\ Lacks(Rows(book), CR) =>
        got = Bare(Sorted(Rows(book)))

\* "Parse RFC4180 CSV into records": a text whose last line ends in a line
\* break, as every export does, is read as well.
OwnExportReads ==
    format = "csv" /\ cut = "whole" /\ got # Unset /\ Lacks(Rows(book), CR) =>
        got = Bare(Sorted(Rows(book)))

\* The lines of a data file give every contact back with its history, in order.
JsonlReadsBack ==
    format = "data" /\ cut = "whole" /\ got # Unset => got = Cleaned(book)

\* A data file cut short anywhere, within the history too, gives the first
\* contacts of the book: it never yields one that was not there, or part of one.
ShortFileHasPrefix ==
    cut = "short" /\ got # Unset =>
        \E k \in 0 .. Len(book) : got = SubSeq(Cleaned(book), 1, k)

\* The next process gets from the index file the maps that were saved, unless a
\* key holds '=' or a line break: then entries are lost, or std::stoull throws
\* out of Storage::load, which main calls outside its try.
IndexReadsBack ==
    maps # Unset /\ Lacks(Rows(book), "=") /\ Lacks(Rows(book), LF) => maps = KeyMaps(Rows(book))

\* What decrypt writes is the exported file, and it needs the secret that
\* sealed it; who encrypts without associated data can decrypt in the same
\* environment.
OpensForWhoSealed ==
    /\ opened # Unset => opened = file /\ safe.aad = Unset
    /\ safe # Refused /\ safe.aad = Unset =>
          Opens(safe, IF sealer.by.cli THEN sealer.env.key ELSE sealer.by.key, sealer.env)

\* diff tells what it compares of two books apart exactly: taking its word for
\* which contacts were removed, changed and added turns the ids and the compared
\* columns of the one into those of the other.  Of created_at and of the history
\* it says nothing.
DiffRight ==
    format = "data" /\ cut = "whole" /\ report \notin {Unset, Malformed}
        /\ Lacks(Rows(book), "ctl") /\ Lacks(Rows(report.with), "ctl") =>
        LET Seen(b) == {[i \in Wanted |-> b[k].fields[i]] : k \in DOMAIN b}
            A == Seen(book)
            B == Seen(report.with)
            d == report.diff
            IdsOf(S) == {c[1] : c \in S}
        IN /\ IdsOf(B \ A) = d.added \cup d.changed
           /\ IdsOf(A \ B) = d.removed \cup d.changed
           /\ d.added \cap IdsOf(A) = {} /\ d.removed \cap IdsOf(B) = {}
=============================================================================
