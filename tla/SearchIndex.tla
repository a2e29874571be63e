----------------------------- MODULE SearchIndex -----------------------------
(***************************************************************************)
(* The binary search index beside the data file (acx-index2.bin and its    *)
(* meta file) and the fast search that uses it (fast_search_one).          *)
(*                                                                         *)
(* A save replaces the data file, then the meta file, which names the data *)
(* by its hash, and then rewrites the index in place.  A search reads the  *)
(* data for its hash, the meta file, the index and the data once more, and *)
(* takes no lock.  When anything does not fit it gives up, and the         *)
(* contacts loaded before are searched instead, which no step here shows.  *)
(*                                                                         *)
(* The data file is a sequence of lines.  Of a line the keys count and its *)
(* size, which decides where the next one starts.  Keys are numbers, for   *)
(* their order.  A hash is modelled by the contents it is taken of.  The   *)
(* index is a head, with the numbers of entries, and entries, each read    *)
(* and written as a whole.                                                 *)
(***************************************************************************)
EXTENDS Integers, Sequences, FiniteSets, SequencesExt

CONSTANTS
    Savers, Searchers,
    Versions,  \* what is saved: sequences of lines, [email, phone, size]
    Queries,   \* what is searched for: [email, phone], a key or None
    None

ASSUME VersionsAssumption == Versions \subseteq Seq([email : Nat, phone : Nat, size : Nat])
ASSUME LongestAssumption == \E d \in Versions : \A e \in Versions : Len(e) <= Len(d)
ASSUME QueriesAssumption ==
    \A q \in Queries : {q.email, q.phone} \subseteq Nat \cup {None} /\ {q.email, q.phone} # {None}
ASSUME NoneAssumption == None \notin Nat /\ None \notin Versions

VARIABLES
    data,      \* the lines of the data file
    meta,      \* the data the meta file names, or None
    index,     \* the index file: head and entries
    saver,     \* the processes that save
    search,    \* the processes that search
    cut        \* history: whether a save broke off between the meta file and the index

vars == << data, meta, index, saver, search, cut >>

\* No index file, or one that was opened and got nothing yet.
Empty == [head |-> None, body |-> << >>]

NotSaving == [pc |-> "idle", rows |-> << >>, hash |-> << >>, todo |-> << >>]

\* `exposed` is history: the data were replaced beside the search, or the meta file
\* it checked ran ahead of the index.
NotSearching == [pc |-> "idle", query |-> None, hash |-> << >>, head |-> None, got |-> << >>,
                 at |-> None, found |-> None, exposed |-> FALSE]

Longest == CHOOSE n \in {Len(d) : d \in Versions} : \A d \in Versions : Len(d) <= n

\* What the files and the processes hold.  An index is rewritten from its start, so
\* it never holds more entries than one save wrote, and a search never reads more.
TypeOK ==
    /\ data \in Versions \cup {<< >>} /\ meta \in Versions \cup {None}
    /\ index.head \in {None} \cup ((0 .. Longest) \X (0 .. Longest))
    /\ Len(index.body) <= 2 * Longest
    /\ \A p \in Savers :
         /\ saver[p].pc \in {"idle", "hash", "meta", "open", "head", "entries"}
         /\ saver[p].rows \in Versions \cup {<< >>} /\ saver[p].hash \in Versions \cup {<< >>}
    /\ \A r \in Searchers :
         /\ search[r].pc \in {"idle", "hash", "meta", "head", "entries", "slice", "answer"}
         /\ search[r].query \in Queries \cup {None} /\ Len(search[r].got) <= 2 * Longest
         /\ search[r].exposed \in BOOLEAN
    /\ cut \in BOOLEAN

Init ==
    /\ data = << >> /\ meta = None /\ index = Empty
    /\ saver = [p \in Savers |-> NotSaving]
    /\ search = [r \in Searchers |-> NotSearching]
    /\ cut = FALSE

-----------------------------------------------------------------------------
(* Places in the data file                                                   *)

\* Mutant of Offsets: the line break is not counted.
OffsetsNoBreak(d) ==
    LET at[i \in 1 .. Len(d) + 1] == IF i = 1 THEN 0 ELSE at[i - 1] + d[i - 1].size
    IN  at

\* What save counts up while it writes the lines.
Offsets(d) ==
    LET at[i \in 1 .. Len(d) + 1] == IF i = 1 THEN 0 ELSE at[i - 1] + d[i - 1].size + 1
    IN  at

\* The lines of d that start at a byte; anything else does not parse as a contact.
LinesAt(d, byte) ==
    LET starts[i \in 1 .. Len(d)] == IF i = 1 THEN 0 ELSE starts[i - 1] + d[i - 1].size + 1
    IN  {d[i] : i \in {j \in DOMAIN d : starts[j] = byte}}

-----------------------------------------------------------------------------
(* The blocks of the index: entries sorted by key, searched by halves.       *)

EmailEntries(d) == {[key |-> d[i].email, off |-> Offsets(d)[i]] : i \in DOMAIN d}
PhoneEntries(d) == {[key |-> d[i].phone, off |-> Offsets(d)[i]] : i \in DOMAIN d}

\* Mutant of Blocks: in the order of the file.
UnsortedBlocks(E) ==
    {s \in SetToSeqs(E) : \A i, j \in DOMAIN s : i <= j => s[i].off <= s[j].off}

\* The orders std::sort may give.
Blocks(E) == {s \in SetToSeqs(E) : \A i, j \in DOMAIN s : i <= j => s[i].key <= s[j].key}

\* bsearch_key: the offset found, as a set of one or none.
Found(block, key) ==
    LET half[span \in (0 .. Len(block)) \X (0 .. Len(block))] ==
          LET lo == span[1]
              hi == span[2]
              mid == (lo + hi) \div 2
          IN  IF lo >= hi THEN {}
              ELSE IF block[mid + 1].key = key THEN {block[mid + 1].off}
              ELSE IF block[mid + 1].key < key THEN half[<< mid + 1, hi >>]
              ELSE half[<< lo, mid >>]
    IN  half[<< 0, Len(block) >>]

FoundIn(head, body, q) ==
    IF q.email # None THEN Found(SubSeq(body, 1, head[1]), q.email)
                      ELSE Found(SubSeq(body, head[1] + 1, head[1] + head[2]), q.phone)

-----------------------------------------------------------------------------
(* Storage::save and DiskIndex::build, by p.  acx-index.json, written before *)
(* the build, is that of ContactRepo.                                        *)

SaverTo(p, r) == saver' = [saver EXCEPT ![p] = r]

\* The data file is replaced; a search under way has read what is no longer there.
WriteData(p, d) ==
    /\ saver[p].pc = "idle"
    /\ data' = d
    /\ SaverTo(p, [NotSaving EXCEPT !.pc = "hash", !.rows = d])
    /\ search' = [r \in Searchers |-> IF search[r].pc = "idle" THEN search[r]
                                      ELSE [search[r] EXCEPT !.exposed = TRUE]]
    /\ UNCHANGED << meta, index, cut >>

\* The data file is read back for its hash.
HashData(p) ==
    /\ saver[p].pc = "hash"
    /\ SaverTo(p, [saver[p] EXCEPT !.pc = "meta", !.hash = data])
    /\ UNCHANGED << data, meta, index, search, cut >>

\* Nobody looks whether the meta file could be written.
WriteMeta(p) ==
    /\ saver[p].pc = "meta"
    /\ meta' \in {meta, saver[p].hash}
    /\ SaverTo(p, [saver[p] EXCEPT !.pc = "open"])
    /\ UNCHANGED << data, index, search, cut >>

\* Mutant of OpenIndex: what was in the file stays.
OpenToAppend(p) ==
    /\ saver[p].pc = "open"
    /\ \E es \in Blocks(EmailEntries(saver[p].rows)), ps \in Blocks(PhoneEntries(saver[p].rows)) :
         SaverTo(p, [saver[p] EXCEPT !.pc = "head", !.todo = es \o ps])
    /\ cut' = (meta # saver[p].hash)
    /\ UNCHANGED << data, meta, index, search >>

\* The index is truncated, and its entries are ready to be written.
OpenIndex(p) ==
    /\ saver[p].pc = "open"
    /\ index' = Empty
    /\ \E es \in Blocks(EmailEntries(saver[p].rows)), ps \in Blocks(PhoneEntries(saver[p].rows)) :
         SaverTo(p, [saver[p] EXCEPT !.pc = "head", !.todo = es \o ps])
    /\ cut' = (meta # saver[p].hash)
    /\ UNCHANGED << data, meta, search >>

WriteHead(p) ==
    /\ saver[p].pc = "head"
    /\ index' = [index EXCEPT !.head = << Len(saver[p].rows), Len(saver[p].rows) >>]
    /\ SaverTo(p, [saver[p] EXCEPT !.pc = "entries"])
    /\ UNCHANGED << data, meta, search, cut >>

WriteEntry(p) ==
    /\ saver[p].pc = "entries" /\ saver[p].todo # << >>
    /\ index' = [index EXCEPT !.body = Append(@, Head(saver[p].todo))]
    /\ SaverTo(p, [saver[p] EXCEPT !.todo = Tail(@)])
    /\ UNCHANGED << data, meta, search, cut >>

CloseIndex(p) ==
    /\ saver[p].pc = "entries" /\ saver[p].todo = << >>
    /\ SaverTo(p, NotSaving)
    /\ UNCHANGED << data, meta, index, search, cut >>

\* The process is killed, the index cannot be opened, or the disk is full; nobody
\* looks at what build returns.
BreakOff(p) ==
    /\ saver[p].pc # "idle"
    /\ SaverTo(p, NotSaving)
    /\ cut' = (cut \/ (saver[p].pc = "open" /\ meta = saver[p].hash))
    /\ UNCHANGED << data, meta, index, search >>

-----------------------------------------------------------------------------
(* fast_search_one, by r.  Whenever it gives up, r is done here.             *)

SearchTo(r, s) == search' = [search EXCEPT ![r] = s]

GiveUp(r) == SearchTo(r, NotSearching)

BeginSearch(r, q) ==
    /\ search[r].pc = "idle" /\ data # << >>
    /\ SearchTo(r, [NotSearching EXCEPT !.pc = "hash", !.query = q])
    /\ UNCHANGED << data, meta, index, saver, cut >>

ReadHash(r) ==
    /\ search[r].pc = "hash"
    /\ SearchTo(r, [search[r] EXCEPT !.pc = "meta", !.hash = data])
    /\ UNCHANGED << data, meta, index, saver, cut >>

\* The meta file may have been renewed without the index.
AheadOfIndex == cut \/ \E p \in Savers : saver[p].pc = "open"

\* Mutant of CheckMeta: any meta file will do.
CheckMetaExists(r) ==
    /\ search[r].pc = "meta"
    /\ IF meta # None
         THEN SearchTo(r, [search[r] EXCEPT !.pc = "head", !.hash = << >>, !.exposed = @ \/ AheadOfIndex])
         ELSE GiveUp(r)
    /\ UNCHANGED << data, meta, index, saver, cut >>

CheckMeta(r) ==
    /\ search[r].pc = "meta"
    /\ IF meta = search[r].hash
         THEN SearchTo(r, [search[r] EXCEPT !.pc = "head", !.hash = << >>, !.exposed = @ \/ AheadOfIndex])
         ELSE GiveUp(r)
    /\ UNCHANGED << data, meta, index, saver, cut >>

\* Without a whole head the numbers of entries are whatever was in memory: load
\* fails, or gives up for want of memory.
ReadHead(r) ==
    /\ search[r].pc = "head"
    /\ IF index.head # None
         THEN SearchTo(r, [search[r] EXCEPT !.pc = "entries", !.head = index.head])
         ELSE GiveUp(r)
    /\ UNCHANGED << data, meta, index, saver, cut >>

Needed(head) == head[1] + head[2]

\* Entries are read from the file as it is by now.
ReadEntry(r) ==
    /\ search[r].pc = "entries" /\ Len(search[r].got) < Needed(search[r].head)
    /\ LET n == Len(search[r].got) + 1
       IN  IF n \in DOMAIN index.body THEN SearchTo(r, [search[r] EXCEPT !.got = Append(@, index.body[n])])
                                      ELSE GiveUp(r)
    /\ UNCHANGED << data, meta, index, saver, cut >>

Lookup(r) ==
    /\ search[r].pc = "entries" /\ Len(search[r].got) >= Needed(search[r].head)
    /\ LET offs == FoundIn(search[r].head, search[r].got, search[r].query)
       IN  IF offs = {} THEN GiveUp(r)
           ELSE \E off \in offs :
                  SearchTo(r, [search[r] EXCEPT !.pc = "slice", !.at = off, !.head = None, !.got = << >>])
    /\ UNCHANGED << data, meta, index, saver, cut >>

\* The line at the offset, in the data file as it is by now.
Slice(r) ==
    /\ search[r].pc = "slice"
    /\ IF LinesAt(data, search[r].at) = {} THEN GiveUp(r)
       ELSE \E c \in LinesAt(data, search[r].at) :
              SearchTo(r, [search[r] EXCEPT !.pc = "answer", !.at = None, !.found = c])
    /\ UNCHANGED << data, meta, index, saver, cut >>

Answer(r) ==
    /\ search[r].pc = "answer"
    /\ SearchTo(r, NotSearching)
    /\ UNCHANGED << data, meta, index, saver, cut >>

Save(p) ==
    \/ \E d \in Versions : WriteData(p, d)
    \/ HashData(p) \/ WriteMeta(p) \/ OpenIndex(p)
    \/ WriteHead(p) \/ WriteEntry(p) \/ CloseIndex(p) \/ BreakOff(p)

Search(r) ==
    \/ \E q \in Queries : BeginSearch(r, q)
    \/ ReadHash(r) \/ CheckMeta(r) \/ ReadHead(r) \/ ReadEntry(r) \/ Lookup(r)
    \/ Slice(r) \/ Answer(r)

Next ==
    \/ \E p \in Savers : Save(p)
    \/ \E r \in Searchers : Search(r)

Spec == Init /\ [][Next]_vars

-----------------------------------------------------------------------------
(* Properties                                                                *)

\* An index that load accepts.
Loads == index.head # None /\ Len(index.body) >= Needed(index.head)

\* The lines of d with the key that a search for q looks up.
Hits(d, q) ==
    {d[i] : i \in {j \in DOMAIN d : IF q.email # None THEN d[j].email = q.email
                                                      ELSE d[j].phone = q.phone}}

\* A lookup in the index leads to a line of d with the key, if there is one, and
\* nowhere otherwise.
Describes(d) ==
    \A q \in Queries :
        LET offs == FoundIn(index.head, index.body, q)
        IN  /\ offs = {} <=> Hits(d, q) = {}
            /\ \A off \in offs : LinesAt(d, off) # {} /\ LinesAt(d, off) \subseteq Hits(d, q)

\* An index that can be loaded describes the data its meta file names, wherever
\* saves were broken off: half an index is never taken for a whole one, and the
\* data may return to what an older index was made of.  The one exception is a save
\* that broke off between the two files, and it ends with the next whole save.
\* (DiskIndex::build, valid_for_data_hash and load.)
IndexHonest ==
    ~AheadOfIndex /\ Loads => Describes(meta)

\* A fast search answers with a contact that is in the data and has the key, also
\* while the index is rewritten under its hands, unless the data were replaced
\* beside it or the meta file ran ahead of the index.  (fast_search_one, which
\* reads four times without a lock and does not look at the contact it found.)
AnswerRight ==
    \A r \in Searchers :
        search[r].pc = "answer" /\ ~search[r].exposed => search[r].found \in Hits(data, search[r].query)
=============================================================================
