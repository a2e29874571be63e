-------------------------- MODULE RepoProcsProofs --------------------------
(***************************************************************************)
(* For any number of processes, killed anywhere: the lock excludes, and as *)
(* long as no command that changes the data has run beside another process *)
(* no key is stored twice and the index file never lies.                   *)
(*                                                                         *)
(* IInv says what the lock directory tells about who made it, and what     *)
(* every process knows at each point of its way through the files: the     *)
(* data it holds are still those in the file, the hash it holds is theirs, *)
(* its maps are exact.  That is true of a process only while nobody else   *)
(* changes the data, and stays true because a process that does is alone.  *)
(***************************************************************************)
EXTENDS RepoProcs, ContactBookProofs

IsProc(r) ==
    /\ r \in [pc : {"off", "hash", "look", "rehash", "index", "ready", "change", "write", "end"},
              kind : Kinds \cup {"list"}, then : {"ready", "change", "end"}, book : {r.book},
              hash : Seq(Contact), read : Seq(Contact), todo : Seq(Contact), strat : Strategies]
    /\ IsBook(r.book)

FilesTyped ==
    /\ data \in Seq(Contact)
    /\ index.of \in Seq(Contact) \cup {NoFile}
    /\ IsMap(index.email, Emails) /\ IsMap(index.phone, Phones)
    /\ lock \in Procs \cup {Nobody, Stale}
    /\ overlap \in BOOLEAN

ProcsTyped == proc = [p \in Procs |-> proc[p]] /\ \A p \in Procs : IsProc(proc[p])

LockTold == \A p \in Procs : InSection(p) => lock = p

\* What a process may rely on, unless a change ran beside it.
Knows(r) ==
    /\ r.pc \in {"change", "write"} \/ r.then # "ready" => r.kind \in Changing
    /\ r.pc \in {"hash", "look", "rehash", "index", "ready"} => r.book.contacts = data
    /\ r.pc \in {"look", "index"} => r.hash = data
    /\ r.pc \in {"rehash", "index", "ready", "change", "write"} => ExactBook(r.book)
    /\ r.pc \in {"change", "write"} => Distinct(IdsOf(r.book.contacts)) /\ Named(IdsOf(r.book.contacts))

DataDistinct ==
    /\ Distinct(EmailsOf(data)) /\ Distinct(PhonesOf(data))
    /\ Distinct(IdsOf(data)) /\ Named(IdsOf(data))

Alone ==
    \A p, q \in Procs : p # q /\ proc[p].pc # "off" /\ proc[q].pc # "off"
                          => proc[p].kind \notin Changing

Calm == ~overlap => DataDistinct /\ Alone /\ \A p \in Procs : Knows(proc[p])

IInv == FilesTyped /\ ProcsTyped /\ LockTold /\ Calm /\ IndexTruthful

-----------------------------------------------------------------------------
(* What the operators make of one process.                                   *)

(* A process that is not running.                                            *)
LEMMA OffFacts == IsProc(Off) /\ Knows(Off) /\ Off.pc = "off" /\ Off.then = "ready"
  <1>1. << >> \in Seq(Contact)
    BY EmptySeq
  <1>2. QED
    BY <1>1, EmptyBookFacts DEF Off, IsProc, Knows, Strategies

(* A process that only has to end.                                           *)
LEMMA EndingFacts ==
    ASSUME NEW r, IsProc(r)
    PROVE  /\ IsProc(Ending(r)) /\ Ending(r).pc = "end"
           /\ Ending(r).kind = r.kind /\ Ending(r).then = r.then
           /\ Knows(r) => Knows(Ending(r))
  <1>1. << >> \in Seq(Contact)
    BY EmptySeq
  <1>2. QED
    BY <1>1, EmptyBookFacts DEF Ending, IsProc, Knows

(* A step of one process that leaves the files, the lock and the others      *)
(* alone.                                                                    *)
LEMMA OneProcess ==
    ASSUME IInv, NEW p \in Procs, NEW x, IsProc(x),
           proc' = [proc EXCEPT ![p] = x], UNCHANGED << data, index, lock, overlap >>,
           proc[p].pc # "off", x.kind = proc[p].kind,
           x.kind \in Locked /\ (x.pc \in {"change", "write"} \/ x.then # "ready") => InSection(p),
           ~overlap => Knows(x)
    PROVE  IInv'
  <1>1. \A q \in Procs : proc'[q] = IF q = p THEN x ELSE proc[q]
    BY DEF IInv, ProcsTyped
  <1>2. FilesTyped' /\ IndexTruthful'
    BY DEF IInv, FilesTyped, IndexTruthful
  <1>3. ProcsTyped'
    BY <1>1 DEF IInv, ProcsTyped
  <1>4. LockTold'
    BY <1>1 DEF IInv, LockTold, InSection
  <1>5. Calm'
    <2>1. CASE overlap
      BY <2>1 DEF Calm
    <2>2. CASE ~overlap
      <3>1. DataDistinct' /\ Alone'
        BY <1>1, <2>2 DEF IInv, Calm, DataDistinct, Alone
      <3>2. \A q \in Procs : Knows(proc'[q])
        BY <1>1, <2>2 DEF IInv, Calm
      <3>3. \A q \in Procs : Knows(proc[q])'
        BY <3>2 DEF Knows
      <3>4. QED
        BY <3>1, <3>3 DEF Calm
    <2>3. QED
      BY <2>1, <2>2
  <1>6. QED
    BY <1>2, <1>3, <1>4, <1>5 DEF IInv

-----------------------------------------------------------------------------
(* One lemma per action.                                                     *)

(* Before the first process.                                                 *)
LEMMA InitInv == Init => IInv
  <1> SUFFICES ASSUME Init PROVE IInv
    OBVIOUS
  <1>1. << >> \in Seq(Contact)
    BY EmptySeq
  <1>2. NoBook.contacts = << >> /\ NoBook.email = EmptyMap /\ NoBook.phone = EmptyMap
    BY DEF NoBook, Book
  <1>3. /\ IsMap(EmptyMap, Emails) /\ IsMap(EmptyMap, Phones)
        /\ Distinct(EmailsOf(<< >>)) /\ Distinct(PhonesOf(<< >>))
    BY <1>2, EmptyBookFacts, ExactBookDistinct DEF IsBook
  <1>4. FilesTyped /\ DataDistinct /\ IndexTruthful
    BY <1>1, <1>3, EmptyBookFacts DEF Init, FilesTyped, DataDistinct, IndexTruthful
  <1>5. \A p \in Procs : proc[p] = Off
    BY DEF Init
  <1>6. ProcsTyped /\ LockTold /\ Alone /\ \A p \in Procs : Knows(proc[p])
    BY <1>5, OffFacts DEF Init, ProcsTyped, LockTold, Alone, InSection
  <1>7. QED
    BY <1>4, <1>6 DEF IInv, Calm

(* A process starts.  If that does not make it overlap with a command that   *)
(* changes the data, it reads data that stay as they are.                    *)
LEMMA ReadRowsStep ==
    ASSUME IInv, NEW p \in Procs, NEW kind \in Kinds, ReadRows(p, kind)
    PROVE  IInv'
  <1> DEFINE x == [Off EXCEPT !.kind = kind, !.read = data,
                              !.book = Book(data, EmptyMap, EmptyMap),
                              !.pc = IF data = << >> THEN "ready" ELSE "hash"]
  <1>1. /\ proc[p].pc = "off" /\ proc' = [proc EXCEPT ![p] = x]
        /\ UNCHANGED << data, index, lock >>
        /\ overlap' = (overlap \/ \E q \in Procs \ {p} :
                                    /\ proc[q].pc # "off"
                                    /\ kind \in Changing \/ proc[q].kind \in Changing)
    BY DEF ReadRows
  <1>2. data \in Seq(Contact) /\ overlap \in BOOLEAN
    BY DEF IInv, FilesTyped
  <1>3. IsBook(Book(data, EmptyMap, EmptyMap))
    BY <1>2 DEF IsBook, Book, IsMap, EmptyMap
  <1>4. << >> \in Seq(Contact)
    BY EmptySeq
  <1>5. /\ IsProc(x) /\ x.kind = kind /\ x.then = "ready" /\ x.pc \in {"ready", "hash"}
        /\ x.book = Book(data, EmptyMap, EmptyMap)
        /\ x.pc = "ready" <=> data = << >>
    BY <1>2, <1>3, <1>4 DEF Off, IsProc, Strategies
  <1>6. Knows(x)
    <2>1. x.book.contacts = data
      BY <1>5 DEF Book
    <2>2. x.pc = "ready" => ExactBook(x.book)
      BY <1>5, EmptyBookFacts DEF NoBook
    <2>3. QED
      BY <1>5, <2>1, <2>2 DEF Knows
  <1> HIDE DEF x
  <1>7. \A q \in Procs : proc'[q] = IF q = p THEN x ELSE proc[q]
    BY <1>1 DEF IInv, ProcsTyped
  <1>8. FilesTyped'
    BY <1>1 DEF IInv, FilesTyped
  <1>9. IndexTruthful'
    BY <1>1, <1>2 DEF IInv, IndexTruthful
  <1>10. ProcsTyped'
    BY <1>1, <1>5, <1>7 DEF IInv, ProcsTyped
  <1>11. LockTold'
    BY <1>1, <1>5, <1>7 DEF IInv, LockTold, InSection
  <1>12. Calm'
    <2> SUFFICES ASSUME ~overlap' PROVE DataDistinct' /\ Alone' /\ (\A q \in Procs : Knows(proc[q]))'
      BY DEF Calm
    <2>1. ~overlap /\ \A q \in Procs \ {p} : proc[q].pc # "off"
                                               => kind \notin Changing /\ proc[q].kind \notin Changing
      BY <1>1, <1>2
    <2>2. DataDistinct'
      BY <1>1, <2>1 DEF IInv, Calm, DataDistinct
    <2>3. Alone'
      BY <1>5, <1>7, <2>1 DEF IInv, Calm, Alone
    <2>4. \A q \in Procs : Knows(proc'[q])
      BY <1>6, <1>7, <2>1 DEF IInv, Calm
    <2>5. QED
      BY <1>1, <2>2, <2>3, <2>4 DEF Knows
  <1>13. QED
    BY <1>8, <1>9, <1>10, <1>11, <1>12 DEF IInv

(* What a process knows, as the steps use it.                                *)
LEMMA ProcFacts ==
    ASSUME IInv, NEW p \in Procs
    PROVE  IsProc(proc[p]) /\ (~overlap => Knows(proc[p])) /\ data \in Seq(Contact)
  BY DEF IInv, ProcsTyped, Calm, FilesTyped

(* The data file hashed for the comparison with the index file.              *)
LEMMA HashRowsStep ==
    ASSUME IInv, NEW p \in Procs, HashRows(p)
    PROVE  IInv'
  <1> DEFINE x == [proc[p] EXCEPT !.hash = data, !.pc = "look"]
  <1>1. proc[p].pc = "hash" /\ proc' = [proc EXCEPT ![p] = x]
    BY DEF HashRows
  <1>2. /\ IsProc(x) /\ x.pc = "look" /\ x.hash = data /\ x.book = proc[p].book
        /\ x.kind = proc[p].kind /\ x.then = proc[p].then
    BY ProcFacts DEF IsProc
  <1>3. ~overlap => Knows(x)
    BY <1>1, <1>2, ProcFacts DEF Knows
  <1>4. QED
    BY <1>1, <1>2, <1>3, OneProcess DEF HashRows, InSection

(* The maps of an index file that names the data, or maps made from them.    *)
LEMMA LookIndexStep ==
    ASSUME IInv, NEW p \in Procs, LookIndex(p)
    PROVE  IInv'
  <1> DEFINE r == proc[p]
             b == IF index.of = r.hash THEN Book(r.book.contacts, index.email, index.phone)
                                       ELSE Rebuilt(r.book.contacts)
             x == [r EXCEPT !.book = b, !.hash = << >>,
                            !.pc = IF index.of = r.hash THEN "ready" ELSE "rehash"]
  <1>1. r.pc = "look" /\ proc' = [proc EXCEPT ![p] = x] /\ UNCHANGED << data, index, lock, overlap >>
    <2>1. CASE index.of = r.hash
      BY <2>1 DEF LookIndex
    <2>2. CASE index.of # r.hash
      BY <2>2 DEF LookIndex
    <2>3. QED
      BY <2>1, <2>2
  <1>2. IsProc(r) /\ r.book.contacts \in Seq(Contact) /\ r.hash \in Seq(Contact)
    BY ProcFacts DEF IsProc, IsBook
  <1>3. IsBook(b) /\ b.contacts = r.book.contacts
    <2>1. IsMap(index.email, Emails) /\ IsMap(index.phone, Phones)
      BY DEF IInv, FilesTyped
    <2>2. QED
      BY <1>2, <2>1, RebuiltType DEF IsBook, Book, Rebuilt
  <1>4. ASSUME ~overlap
        PROVE  ExactBook(b) /\ b.contacts = data
    <2>1. r.book.contacts = data /\ r.hash = data /\ DataDistinct
      BY <1>1, <1>4 DEF IInv, Calm, Knows
    <2>2. CASE index.of = r.hash
      <3>1. index.of # NoFile
        BY <1>2, <2>2, NoFileAssumption
      <3>2. ExactBook(Book(index.of, index.email, index.phone))
        BY <1>4, <3>1 DEF IInv, IndexTruthful
      <3>3. b = Book(index.of, index.email, index.phone)
        BY <2>1, <2>2
      <3>4. QED
        BY <1>3, <2>1, <3>2, <3>3
    <2>3. CASE index.of # r.hash
      <3>1. b = Rebuilt(data)
        BY <2>1, <2>3
      <3>2. ExactBook(Rebuilt(data))
        BY <1>2, <2>1, RebuiltExact DEF DataDistinct
      <3>3. QED
        BY <1>3, <2>1, <3>1, <3>2
    <2>4. QED
      BY <1>3, <2>1, <2>2, <2>3
  <1> HIDE DEF b
  <1>5. << >> \in Seq(Contact)
    BY EmptySeq
  <1>6. /\ IsProc(x) /\ x.pc \in {"ready", "rehash"} /\ x.book = b
        /\ x.kind = r.kind /\ x.then = r.then
    BY <1>2, <1>3, <1>5 DEF IsProc
  <1> HIDE DEF x
  <1>7. ~overlap => Knows(x)
    BY <1>1, <1>4, <1>6, ProcFacts DEF Knows
  <1>8. QED
    BY <1>1, <1>6, <1>7, OneProcess DEF InSection

(* The data file hashed again, to go into the index file.                    *)
LEMMA RehashStep ==
    ASSUME IInv, NEW p \in Procs, Rehash(p)
    PROVE  IInv'
  <1> DEFINE x == [proc[p] EXCEPT !.hash = data, !.pc = "index"]
  <1>1. proc[p].pc = "rehash" /\ proc' = [proc EXCEPT ![p] = x]
    BY DEF Rehash
  <1>2. /\ IsProc(x) /\ x.pc = "index" /\ x.hash = data /\ x.book = proc[p].book
        /\ x.kind = proc[p].kind /\ x.then = proc[p].then
    BY ProcFacts DEF IsProc
  <1>3. ~overlap => Knows(x)
    BY <1>1, <1>2, ProcFacts DEF Knows
  <1>4. QED
    BY <1>1, <1>2, <1>3, OneProcess DEF Rehash, InSection

(* The index file: exact maps under the hash of the data they describe.      *)
LEMMA WriteIndexStep ==
    ASSUME IInv, NEW p \in Procs, WriteIndex(p)
    PROVE  IInv'
  <1> DEFINE r == proc[p]
             x == IF r.then = "end" THEN Ending(r) ELSE [r EXCEPT !.hash = << >>, !.pc = r.then]
  <1>1. /\ r.pc = "index" /\ proc' = [proc EXCEPT ![p] = x] /\ UNCHANGED << data, lock, overlap >>
        /\ index' = [of |-> r.hash, email |-> r.book.email, phone |-> r.book.phone]
    BY DEF WriteIndex
  <1>2. IsProc(r)
    BY ProcFacts
  <1>3. << >> \in Seq(Contact)
    BY EmptySeq
  <1>4. /\ IsProc(x) /\ x.kind = r.kind /\ x.then = r.then /\ x.pc \in {"end", "ready", "change"}
        /\ x.pc # "end" => x.book = r.book /\ x.pc = r.then
    BY <1>2, <1>3, EndingFacts DEF IsProc
  <1> HIDE DEF x
  <1>5. ~overlap => Knows(x)
    BY <1>1, <1>4, ProcFacts DEF Knows, IInv, Calm, DataDistinct
  <1>6. \A q \in Procs : proc'[q] = IF q = p THEN x ELSE proc[q]
    BY <1>1 DEF IInv, ProcsTyped
  <1>7. FilesTyped'
    <2>1. r.hash \in Seq(Contact) /\ IsMap(r.book.email, Emails) /\ IsMap(r.book.phone, Phones)
      BY <1>2 DEF IsProc, IsBook
    <2>2. QED
      BY <1>1, <2>1 DEF IInv, FilesTyped
  <1>8. IndexTruthful'
    <2> SUFFICES ASSUME ~overlap
                 PROVE  ExactBook(Book(r.hash, r.book.email, r.book.phone))
      BY <1>1 DEF IndexTruthful
    <2>1. ExactBook(r.book) /\ r.book.contacts = r.hash
      BY <1>1, ProcFacts DEF Knows
    <2>2. QED
      BY <2>1 DEF ExactBook, Book
  <1>9. ProcsTyped'
    BY <1>1, <1>4, <1>6 DEF IInv, ProcsTyped
  <1>10. LockTold'
    BY <1>1, <1>4, <1>6 DEF IInv, LockTold, InSection
  <1>11. Calm'
    <2> SUFFICES ASSUME ~overlap PROVE DataDistinct' /\ Alone' /\ (\A q \in Procs : Knows(proc[q]))'
      BY <1>1 DEF Calm
    <2>1. DataDistinct' /\ Alone'
      BY <1>1, <1>4, <1>6 DEF IInv, Calm, DataDistinct, Alone
    <2>2. \A q \in Procs : Knows(proc'[q])
      BY <1>5, <1>6 DEF IInv, Calm
    <2>3. QED
      BY <1>1, <2>1, <2>2 DEF Knows
  <1>12. QED
    BY <1>7, <1>8, <1>9, <1>10, <1>11 DEF IInv

(* A command that takes no lock goes on, and one that only reads ends.       *)
LEMMA DispatchStep ==
    ASSUME IInv, NEW p \in Procs, Dispatch(p)
    PROVE  IInv'
  <1> DEFINE r == proc[p]
             x == IF r.kind = "list" THEN Ending(r) ELSE [r EXCEPT !.pc = "change"]
  <1>1. /\ r.pc = "ready" /\ r.kind \notin Locked /\ proc' = [proc EXCEPT ![p] = x]
        /\ UNCHANGED << data, index, lock, overlap >>
    BY DEF Dispatch
  <1>2. IsProc(r) /\ (~overlap => Knows(r))
    BY ProcFacts
  <1>3. /\ IsProc(x) /\ x.kind = r.kind /\ x.then = r.then
        /\ \/ x = Ending(r)
           \/ x.pc = "change" /\ x.book = r.book /\ r.kind # "list"
    BY <1>2, EndingFacts DEF IsProc
  <1>4. r.kind # "list" => r.kind \in Changing
    BY <1>1, <1>2, KindsAssumption DEF IsProc, AllKinds, Changing
  <1> HIDE DEF x
  <1>5. ~overlap => Knows(x)
    BY <1>1, <1>2, <1>3, <1>4, EndingFacts DEF Knows, IInv, Calm, DataDistinct
  <1>6. QED
    BY <1>1, <1>3, <1>5, OneProcess

(* A command that begins keeps its book.                                     *)
LEMMA BegunFacts ==
    ASSUME NEW r, IsProc(r), NEW f \in Files, NEW m \in Merges
    PROVE  LET x == Begun(r, f, m)
           IN  IsProc(x) /\ x.pc = "change" /\ x.kind = r.kind /\ x.then = r.then /\ x.book = r.book
  <1>1. f \in Seq(Contact) /\ m \in Strategies
    BY FilesAssumption
  <1>2. QED
    BY <1>1 DEF Begun, IsProc

(* The lock is taken when nobody has it; otherwise the command gives up.     *)
LEMMA AcquireStep ==
    ASSUME IInv, NEW p \in Procs, Acquire(p)
    PROVE  IInv'
  <1> DEFINE r == proc[p]
  <1>1. IsProc(r) /\ (~overlap => Knows(r))
    BY ProcFacts
  <1>2. r.pc = "ready" /\ r.kind \in Locked /\ UNCHANGED << data, index, overlap >>
    BY DEF Acquire
  <1>3. CASE /\ lock = Nobody /\ lock' = p
             /\ \E f \in Files, m \in Merges : proc' = [proc EXCEPT ![p] = Begun(r, f, m)]
    <2>1. PICK f \in Files, m \in Merges : proc' = [proc EXCEPT ![p] = Begun(r, f, m)]
      BY <1>3
    <2> DEFINE x == Begun(r, f, m)
    <2>2. IsProc(x) /\ x.pc = "change" /\ x.kind = r.kind /\ x.then = r.then /\ x.book = r.book
      BY <1>1, BegunFacts
    <2> HIDE DEF x
    <2>3. ~overlap => Knows(x)
      <3>1. x.kind \in Changing
        BY <1>2, <2>2 DEF Locked, Changing
      <3>2. ~overlap => DataDistinct
        BY DEF IInv, Calm
      <3>3. QED
        BY <1>1, <1>2, <2>2, <3>1, <3>2 DEF Knows, DataDistinct
    <2>4. \A q \in Procs : proc'[q] = IF q = p THEN x ELSE proc[q]
      BY <2>1 DEF IInv, ProcsTyped, x
    <2>5. FilesTyped' /\ IndexTruthful'
      BY <1>2, <1>3 DEF IInv, FilesTyped, IndexTruthful
    <2>6. ProcsTyped'
      BY <2>1, <2>2, <2>4 DEF x, IInv, ProcsTyped
    <2>7. LockTold'
      BY <1>3, <2>4, ProcsAssumption DEF IInv, LockTold, InSection
    <2>8. Calm'
      <3> SUFFICES ASSUME ~overlap
                   PROVE  DataDistinct' /\ Alone' /\ (\A q \in Procs : Knows(proc[q]))'
        BY <1>2 DEF Calm
      <3>1. DataDistinct' /\ Alone'
        BY <1>2, <2>2, <2>4 DEF IInv, Calm, DataDistinct, Alone
      <3>2. \A q \in Procs : Knows(proc'[q])
        BY <2>3, <2>4 DEF IInv, Calm
      <3>3. QED
        BY <1>2, <3>1, <3>2 DEF Knows
    <2>9. QED
      BY <2>5, <2>6, <2>7, <2>8 DEF IInv
  <1>4. CASE UNCHANGED lock /\ proc' = [proc EXCEPT ![p] = Ending(r)]
    <2>1. /\ IsProc(Ending(r)) /\ Ending(r).pc = "end"
          /\ Ending(r).kind = r.kind /\ Ending(r).then = r.then
          /\ Knows(r) => Knows(Ending(r))
      BY <1>1, EndingFacts
    <2>2. QED
      BY <1>1, <1>2, <1>4, <2>1, OneProcess DEF InSection
  <1>5. QED
    BY <1>3, <1>4 DEF Acquire

-----------------------------------------------------------------------------
(* The changes to the book.                                                  *)

\* What a command may make of its book.
Kept(b, bx) ==
    /\ IsBook(bx)
    /\ ExactBook(b) /\ Distinct(IdsOf(b.contacts)) /\ Named(IdsOf(b.contacts))
         => ExactBook(bx) /\ Distinct(IdsOf(bx.contacts)) /\ Named(IdsOf(bx.contacts))

(* A contact with an id that nobody knows, pushed back when its keys are     *)
(* free.                                                                     *)
LEMMA PushBackKept ==
    ASSUME NEW p \in Procs, NEW b, b = proc[p].book, IsBook(b),
           NEW a \in Contact, NEW c \in WithNewId(a), NEW oob,
           ~EmailExists(b, c.email, Blank, oob), ~PhoneExists(b, c.phone, Blank, oob)
    PROVE  Kept(b, PushBack(b, c))
  <1>1. PICK id \in Ids : Unused(id) /\ c = [a EXCEPT !.id = id]
    BY DEF WithNewId
  <1>2. c \in Contact /\ c.id # Blank /\ Positions(b, c.id) = {}
    BY <1>1 DEF Contact, Unused
  <1>3. QED
    BY <1>2, PushBackIds, AddKeepsBook DEF Kept

(* add_contact, from the command line or for a row of a merge.               *)
LEMMA AddedKept ==
    ASSUME NEW p \in Procs, IsBook(proc[p].book), NEW a \in Contact,
           NEW r \in Added(proc[p].book, a)
    PROVE  Kept(proc[p].book, r.book) /\ (~r.ok => r.book = proc[p].book) /\ r.ok \in BOOLEAN
  <1> DEFINE b == proc[p].book
  <1>1. PICK c \in WithNewId([a EXCEPT !.created = Today]), oob \in Garbage(b) :
          r = IF CanAdd(b, c, oob) THEN [ok |-> TRUE, book |-> PushBack(b, c)]
                                   ELSE [ok |-> FALSE, book |-> b]
    BY DEF Added
  <1>2. [a EXCEPT !.created = Today] \in Contact
    BY AdditionsAssumption DEF Contact
  <1>3. CASE CanAdd(b, c, oob)
    <2>1. Kept(b, PushBack(b, c))
      BY <1>2, <1>3, PushBackKept DEF CanAdd
    <2>2. QED
      BY <1>1, <1>3, <2>1
  <1>4. CASE ~CanAdd(b, c, oob)
    BY <1>1, <1>4 DEF Kept
  <1>5. QED
    BY <1>3, <1>4

(* An edit, whether it is saved or refused half-way, and a delete.           *)
LEMMA EditedKept ==
    ASSUME NEW b, IsBook(b), NEW id, NEW o \in EditOptions, NEW oob
    PROVE  Kept(b, Edited(b, id, o, oob).book)
  BY EditedFacts DEF Kept

(* Deleting the contact that has an id.                                      *)
LEMMA DeletedKept ==
    ASSUME NEW b, IsBook(b), NEW id, Positions(b, id) # {}
    PROVE  Kept(b, Deleted(b, FirstPosition(b, id)))
  BY FirstPositionFact, DeletedFacts DEF Kept

(* Every outcome of add, edit and delete.                                    *)
LEMMA OutcomesKept ==
    ASSUME NEW p \in Procs, IsBook(proc[p].book),
           proc[p].kind \in {"add", "edit", "delete"}, NEW r \in Outcomes(p)
    PROVE  Kept(proc[p].book, r.book)
  <1> DEFINE b == proc[p].book
  <1>1. CASE proc[p].kind = "add"
    <2>1. PICK a \in Additions : r \in Added(b, a)
      BY <1>1 DEF Outcomes
    <2>2. QED
      BY <2>1, AddedKept, AdditionsAssumption
  <1>2. CASE proc[p].kind = "edit"
    <2>1. PICK id \in Ids, o \in Edits, oob \in Garbage(b) : r = Edited(b, id, o, oob)
      BY <1>2 DEF Outcomes
    <2>2. QED
      BY <2>1, EditedKept, EditsAssumption
  <1>3. CASE proc[p].kind = "delete"
    <2>1. PICK id \in Ids : r = IF Positions(b, id) = {}
                                THEN [ok |-> FALSE, book |-> b]
                                ELSE [ok |-> TRUE, book |-> Deleted(b, FirstPosition(b, id))]
      BY <1>3 DEF Outcomes
    <2>2. CASE Positions(b, id) = {}
      BY <2>1, <2>2 DEF Kept
    <2>3. CASE Positions(b, id) # {}
      BY <2>1, <2>3, DeletedKept
    <2>4. QED
      BY <2>2, <2>3
  <1>4. QED
    BY <1>1, <1>2, <1>3

(* What a process knows that is in the middle of its command.                *)
LEMMA ChangeFacts ==
    ASSUME IInv, NEW p \in Procs, proc[p].pc = "change", NEW b, Kept(proc[p].book, b),
           NEW x, x.pc \in {"change", "write"}, x.kind = proc[p].kind, x.book = b
    PROVE  ~overlap => Knows(x)
  <1>1. ~overlap => Knows(proc[p])
    BY ProcFacts
  <1>2. QED
    BY <1>1 DEF Knows, Kept

(* add, edit and delete, whether they go on to save or not.                  *)
LEMMA ChangeStep ==
    ASSUME IInv, NEW p \in Procs, Change(p)
    PROVE  IInv'
  <1> DEFINE r == proc[p]
  <1>1. IsProc(r) /\ IsBook(r.book) /\ (~overlap => Knows(r))
    BY ProcFacts DEF IsProc
  <1>2. /\ r.pc = "change" /\ r.kind \in {"add", "edit", "delete"}
        /\ UNCHANGED << data, index, lock, overlap >>
    BY DEF Change
  <1>3. ASSUME proc' = [proc EXCEPT ![p] = Ending(r)]
        PROVE  IInv'
    <2>1. /\ IsProc(Ending(r)) /\ Ending(r).pc = "end"
          /\ Ending(r).kind = r.kind /\ Ending(r).then = r.then
          /\ Knows(r) => Knows(Ending(r))
      BY <1>1, EndingFacts
    <2>2. QED
      BY <1>1, <1>2, <1>3, <2>1, OneProcess DEF InSection
  <1>4. ASSUME NEW o \in Outcomes(p),
               proc' = [proc EXCEPT ![p] = [r EXCEPT !.book = o.book, !.pc = "write", !.then = "end"]]
        PROVE  IInv'
    <2> DEFINE x == [r EXCEPT !.book = o.book, !.pc = "write", !.then = "end"]
    <2>1. Kept(r.book, o.book)
      BY <1>1, <1>2, OutcomesKept
    <2>2. /\ IsProc(x) /\ x.pc = "write" /\ x.kind = r.kind /\ x.book = o.book
      BY <1>1, <2>1 DEF IsProc, Kept
    <2>3. proc' = [proc EXCEPT ![p] = x]
      BY <1>4
    <2> HIDE DEF x
    <2>4. ~overlap => Knows(x)
      BY <1>2, <2>1, <2>2, ChangeFacts
    <2>5. QED
      BY <1>2, <2>2, <2>3, <2>4, OneProcess DEF InSection
  <1>5. QED
    BY <1>2, <1>3, <1>4 DEF Change

(* The rows of a file, one at a time.                                        *)
LEMMA RowFacts ==
    ASSUME NEW p \in Procs, IsProc(proc[p]), proc[p].todo # << >>
    PROVE  Head(proc[p].todo) \in Contact /\ Tail(proc[p].todo) \in Seq(Contact)
  BY HeadTailProperties DEF IsProc

(* A row of an import joins the book only when neither key is in the maps.   *)
LEMMA ImportRowStep ==
    ASSUME IInv, NEW p \in Procs, ImportRow(p)
    PROVE  IInv'
  <1> DEFINE r   == proc[p]
             b   == r.book
             row == Head(r.todo)
  <1>1. IsProc(r) /\ IsBook(b)
    BY ProcFacts DEF IsProc
  <1>2. /\ r.pc = "change" /\ r.kind = "import" /\ r.todo # << >>
        /\ UNCHANGED << data, index, lock, overlap >>
    BY DEF ImportRow
  <1>3. row \in Contact /\ Tail(r.todo) \in Seq(Contact)
    BY <1>1, <1>2, RowFacts
  <1>4. PICK oob \in Garbage(b), bx \in {b} \cup {PushBack(b, c) : c \in WithNewId(row)} :
          /\ bx = b <=> \/ EmailExists(b, row.email, Blank, oob)
                        \/ PhoneExists(b, row.phone, Blank, oob)
          /\ proc' = [proc EXCEPT ![p].todo = Tail(@), ![p].book = bx]
    BY DEF ImportRow
  <1> DEFINE x == [r EXCEPT !.todo = Tail(r.todo), !.book = bx]
  <1>5. Kept(b, bx)
    <2>1. CASE bx = b
      BY <1>1, <2>1 DEF Kept
    <2>2. CASE bx # b
      <3>1. PICK c \in WithNewId(row) : bx = PushBack(b, c)
        BY <1>4, <2>2
      <3>2. c.email = row.email /\ c.phone = row.phone
        BY <1>3 DEF WithNewId, Contact
      <3>3. QED
        BY <1>1, <1>3, <1>4, <2>2, <3>1, <3>2, PushBackKept
    <2>3. QED
      BY <2>1, <2>2
  <1>6. proc' = [proc EXCEPT ![p] = x]
    BY <1>4
  <1>7. IsProc(x) /\ x.pc = r.pc /\ x.kind = r.kind /\ x.then = r.then /\ x.book = bx
    BY <1>1, <1>3, <1>5 DEF IsProc, Kept
  <1> HIDE DEF x
  <1>8. ~overlap => Knows(x)
    BY <1>2, <1>5, <1>7, ChangeFacts
  <1>9. QED
    BY <1>2, <1>6, <1>7, <1>8, OneProcess DEF InSection

(* A row of a merge: a new contact, an edit of the one it matched, or        *)
(* nothing.                                                                  *)
LEMMA MergedKept ==
    ASSUME NEW p \in Procs, IsBook(proc[p].book), NEW row \in Contact, NEW strat,
           NEW r \in Merged(proc[p].book, row, strat)
    PROVE  Kept(proc[p].book, r.book)
  <1> DEFINE b == proc[p].book
             i == Match(b, row)
  <1>1. CASE i = 0
    <2>1. r \in Added(b, row)
      BY <1>1 DEF Merged
    <2>2. QED
      BY <2>1, AddedKept
  <1>2. CASE i # 0 /\ i \in DOMAIN b.contacts /\ MergeEdits(strat, row, b.contacts[i])
    <2>1. PICK oob \in Garbage(b) :
            r = Edited(b, b.contacts[i].id, MergeOptions(strat, row), oob)
      BY <1>2 DEF Merged
    <2>2. MergeOptions(strat, row) \in EditOptions
      BY DEF MergeOptions, EditOptions, Contact
    <2>3. QED
      BY <2>1, <2>2, EditedKept
  <1>3. CASE i # 0 /\ ~(i \in DOMAIN b.contacts /\ MergeEdits(strat, row, b.contacts[i]))
    BY <1>3 DEF Merged, Kept
  <1>4. QED
    BY <1>1, <1>2, <1>3

(* A row of a merge, saved by itself if it was accepted.                     *)
LEMMA MergeRowStep ==
    ASSUME IInv, NEW p \in Procs, MergeRow(p)
    PROVE  IInv'
  <1> DEFINE r   == proc[p]
             row == Head(r.todo)
  <1>1. IsProc(r) /\ IsBook(r.book)
    BY ProcFacts DEF IsProc
  <1>2. /\ r.pc = "change" /\ r.kind = "merge" /\ r.todo # << >>
        /\ UNCHANGED << data, index, lock, overlap >>
    BY DEF MergeRow
  <1>3. row \in Contact /\ Tail(r.todo) \in Seq(Contact)
    BY <1>1, <1>2, RowFacts
  <1>4. PICK o \in Merged(r.book, row, r.strat) :
          LET next == [r EXCEPT !.book = o.book, !.todo = Tail(r.todo)]
          IN  proc' = [proc EXCEPT ![p] =
                IF o.ok THEN [next EXCEPT !.pc = "write", !.then = "change"] ELSE next]
    BY DEF MergeRow
  <1> DEFINE next == [r EXCEPT !.book = o.book, !.todo = Tail(r.todo)]
             x == IF o.ok THEN [next EXCEPT !.pc = "write", !.then = "change"] ELSE next
  <1>5. Kept(r.book, o.book)
    BY <1>1, <1>3, MergedKept
  <1>6. proc' = [proc EXCEPT ![p] = x]
    BY <1>4
  <1>7. IsProc(next) /\ next.pc = r.pc /\ next.kind = r.kind /\ next.book = o.book
    BY <1>1, <1>3, <1>5 DEF IsProc, Kept
  <1> HIDE DEF next
  <1>8. IsProc(x) /\ x.pc \in {"change", "write"} /\ x.kind = r.kind /\ x.book = o.book
    BY <1>2, <1>7 DEF IsProc
  <1> HIDE DEF x
  <1>9. ~overlap => Knows(x)
    BY <1>2, <1>5, <1>8, ChangeFacts
  <1>10. QED
    BY <1>2, <1>6, <1>8, <1>9, OneProcess DEF InSection

(* The last save of an import or a merge.                                    *)
LEMMA EndFileStep ==
    ASSUME IInv, NEW p \in Procs, EndFile(p)
    PROVE  IInv'
  <1> DEFINE r == proc[p]
             x == [r EXCEPT !.pc = "write", !.then = "end"]
  <1>1. IsProc(r) /\ IsBook(r.book)
    BY ProcFacts DEF IsProc
  <1>2. r.pc = "change" /\ proc' = [proc EXCEPT ![p] = x]
    BY DEF EndFile
  <1>3. IsProc(x) /\ x.pc = "write" /\ x.kind = r.kind /\ x.book = r.book
    BY <1>1 DEF IsProc
  <1> HIDE DEF x
  <1>4. Kept(r.book, r.book)
    BY <1>1 DEF Kept
  <1>5. ~overlap => Knows(x)
    BY <1>2, <1>3, <1>4, ChangeFacts
  <1>6. QED
    BY <1>2, <1>3, <1>5, OneProcess DEF EndFile, InSection

-----------------------------------------------------------------------------
(* Saving and ending.                                                        *)

(* The data are replaced by what the one process that may change them made   *)
(* of them.                                                                  *)
LEMMA WriteDataStep ==
    ASSUME IInv, NEW p \in Procs, WriteData(p)
    PROVE  IInv'
  <1> DEFINE r  == proc[p]
             cs == r.book.contacts
             x  == [r EXCEPT !.pc = "rehash", !.read = ReadAfter(r)]
  <1>1. IsProc(r) /\ (~overlap => Knows(r)) /\ cs \in Seq(Contact)
    BY ProcFacts DEF IsProc, IsBook
  <1>2. /\ r.pc = "write" /\ data' = cs /\ proc' = [proc EXCEPT ![p] = x]
        /\ UNCHANGED << index, lock, overlap >>
    BY DEF WriteData
  <1>3. ReadAfter(r) \in Seq(Contact)
    BY <1>1, EmptySeq DEF ReadAfter
  <1>4. IsProc(x) /\ x.pc = "rehash" /\ x.kind = r.kind /\ x.then = r.then /\ x.book = r.book
    BY <1>1, <1>3 DEF IsProc
  <1> HIDE DEF x
  <1>5. \A q \in Procs : proc'[q] = IF q = p THEN x ELSE proc[q]
    BY <1>2 DEF IInv, ProcsTyped
  <1>6. FilesTyped' /\ IndexTruthful'
    BY <1>1, <1>2 DEF IInv, FilesTyped, IndexTruthful
  <1>7. ProcsTyped'
    BY <1>2, <1>4, <1>5 DEF IInv, ProcsTyped
  <1>8. LockTold'
    BY <1>2, <1>4, <1>5 DEF IInv, LockTold, InSection
  <1>9. Calm'
    <2> SUFFICES ASSUME ~overlap
                 PROVE  DataDistinct' /\ Alone' /\ (\A q \in Procs : Knows(proc[q]))'
      BY <1>2 DEF Calm
    <2>1. /\ ExactBook(r.book) /\ Distinct(IdsOf(cs)) /\ Named(IdsOf(cs))
          /\ r.kind \in Changing
      BY <1>1, <1>2 DEF Knows
    <2>2. DataDistinct'
      BY <1>2, <2>1, ExactBookDistinct DEF DataDistinct
    <2>3. Alone'
      BY <1>2, <1>4, <1>5 DEF IInv, Calm, Alone
    <2>4. \A q \in Procs \ {p} : proc[q].pc = "off"
      BY <1>2, <2>1 DEF IInv, Calm, Alone
    <2>5. Knows(proc[p])'
      BY <1>1, <1>2, <1>4, <1>5, <2>1 DEF Knows
    <2>6. \A q \in Procs \ {p} : Knows(proc[q])'
      BY <1>5, <2>4 DEF IInv, Calm, Knows
    <2>7. QED
      BY <2>2, <2>3, <2>5, <2>6
  <1>10. QED
    BY <1>6, <1>7, <1>8, <1>9 DEF IInv

(* A process is gone, and the lock is no longer its own.                     *)
LEMMA GoneStep ==
    ASSUME IInv, NEW p \in Procs, NEW other \in {Nobody, Stale},
           lock' = IF lock = p THEN other ELSE lock,
           proc' = [proc EXCEPT ![p] = Off], UNCHANGED << data, index, overlap >>
    PROVE  IInv'
  <1>1. \A q \in Procs : proc'[q] = IF q = p THEN Off ELSE proc[q]
    BY DEF IInv, ProcsTyped
  <1>2. FilesTyped' /\ IndexTruthful'
    BY DEF IInv, FilesTyped, IndexTruthful
  <1>3. ProcsTyped'
    BY <1>1, OffFacts DEF IInv, ProcsTyped
  <1>4. LockTold'
    BY <1>1, OffFacts DEF IInv, LockTold, InSection
  <1>5. Calm'
    <2> SUFFICES ASSUME ~overlap
                 PROVE  DataDistinct' /\ Alone' /\ (\A q \in Procs : Knows(proc[q]))'
      BY DEF Calm
    <2>1. DataDistinct' /\ Alone'
      BY <1>1, OffFacts DEF IInv, Calm, DataDistinct, Alone
    <2>2. \A q \in Procs : Knows(proc'[q])
      BY <1>1, OffFacts DEF IInv, Calm
    <2>3. QED
      BY <2>1, <2>2 DEF Knows
  <1>6. QED
    BY <1>2, <1>3, <1>4, <1>5 DEF IInv

-----------------------------------------------------------------------------
(* Every step keeps the inductive invariant.                                 *)
LEMMA StepInv == IInv /\ [Next]_vars => IInv'
  <1> SUFFICES ASSUME IInv, [Next]_vars PROVE IInv'
    OBVIOUS
  <1>1. ASSUME NEW p \in Procs, Step(p)
        PROVE  IInv'
    <2>1. CASE HashRows(p) \/ LookIndex(p) \/ Rehash(p) \/ WriteIndex(p)
      BY <2>1, HashRowsStep, LookIndexStep, RehashStep, WriteIndexStep
    <2>2. CASE Dispatch(p) \/ Acquire(p) \/ Change(p)
      BY <2>2, DispatchStep, AcquireStep, ChangeStep
    <2>3. CASE ImportRow(p) \/ MergeRow(p) \/ EndFile(p) \/ WriteData(p)
      BY <2>3, ImportRowStep, MergeRowStep, EndFileStep, WriteDataStep
    <2>4. CASE End(p)
      BY <2>4, GoneStep DEF End
    <2>5. QED
      BY <1>1, <2>1, <2>2, <2>3, <2>4 DEF Step
  <1>2. ASSUME NEW p \in Procs, Kill(p)
        PROVE  IInv'
    BY <1>2, GoneStep DEF Kill
  <1>3. ASSUME NEW p \in Procs, NEW kind \in Kinds, ReadRows(p, kind)
        PROVE  IInv'
    BY <1>3, ReadRowsStep
  <1>4. CASE UNCHANGED vars
    <2>1. UNCHANGED << data, index, lock, proc, overlap >>
      BY <1>4 DEF vars
    <2>2. FilesTyped' /\ ProcsTyped' /\ LockTold' /\ IndexTruthful'
      BY <2>1 DEF IInv, FilesTyped, ProcsTyped, LockTold, InSection, IndexTruthful
    <2>3. Calm'
      BY <2>1 DEF IInv, Calm, DataDistinct, Alone, Knows
    <2>4. QED
      BY <2>2, <2>3 DEF IInv
  <1>5. QED
    BY <1>1, <1>2, <1>3, <1>4 DEF Next

(* The inductive invariant holds in every reachable state, for any number of *)
(* processes.                                                                *)
THEOREM ProcsInvariant == Spec => []IInv
  BY InitInv, StepInv, PTL DEF Spec

(* Files, lock and processes always have the types the code gives them.      *)
THEOREM ProcsTypes == Spec => []TypeOK
  <1>1. IInv => TypeOK
    BY DEF IInv, FilesTyped, ProcsTyped, IsProc, TypeOK
  <1>2. QED
    BY <1>1, ProcsInvariant, PTL

(* Of any number of edits, deletes, imports and merges, at most one is ever  *)
(* between taking the lock and its end, and none while the lock of a killed  *)
(* process is there (Lock of lock.cpp).                                      *)
THEOREM ProcsExclude == Spec => []LockExcludes
  <1>1. IInv => LockExcludes
    BY ProcsAssumption DEF IInv, LockTold, LockExcludes
  <1>2. QED
    BY <1>1, ProcsInvariant, PTL

(* Any number of processes that list beside each other, commands one after   *)
(* the other, and kills between any two reads or writes of a file: no e-mail *)
(* and no phone is stored twice.                                             *)
THEOREM ProcsKeys == Spec => []UniqueKeys
  <1>1. IInv => UniqueKeys
    <2> SUFFICES ASSUME IInv, ~overlap, NEW i \in DOMAIN data, NEW j \in DOMAIN data, i # j
                 PROVE  data[i].email # data[j].email /\ data[i].phone # data[j].phone
      BY DEF UniqueKeys, NoClash
    <2>1. Distinct(EmailsOf(data)) /\ Distinct(PhonesOf(data))
      BY DEF IInv, Calm, DataDistinct
    <2>2. QED
      BY <2>1 DEF Distinct, EmailsOf, PhonesOf
  <1>2. QED
    BY <1>1, ProcsInvariant, PTL

(* Under the same condition the index file is right about the data it names, *)
(* whoever rebuilt it beside whom (PersistentIndex::save).                   *)
THEOREM ProcsIndex == Spec => []IndexTruthful
  <1>1. IInv => IndexTruthful
    BY DEF IInv
  <1>2. QED
    BY <1>1, ProcsInvariant, PTL
=============================================================================
