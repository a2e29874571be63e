---------------------------- MODULE FilesProofs -----------------------------
(***************************************************************************)
(* How files are written, and what is in them.                             *)
(*                                                                         *)
(* FileWrite, for any values, blocks, inodes, readers and faults: the      *)
(* types, for any number of writers; and for one writer at a time, that    *)
(* write_file_atomic implements AtomicFile, that a reader sees one value,  *)
(* and that an answer of true is right.  None of the three is inductive.   *)
(* They rest on what the writer has put into the temporary file so far     *)
(* (Progress), which holds until a full disk goes unnoticed, and on the    *)
(* inodes that readers hold open never being the one behind the temporary  *)
(* name (Untouched), which holds until any fault but a kill strikes.       *)
(*                                                                         *)
(* Interchange, for any characters, columns, histories and books: that     *)
(* what is read is what was written, in JSON lines, CSV, the index file    *)
(* and encrypted files, and that diff is right.  A parser is a walk        *)
(* through its text.  How a walk ends (End, JsonEnd) is found piece by     *)
(* piece: there is one walk through each text, a text of two parts is      *)
(* walked through one part after the other, and what the printer made of a *)
(* character, of a string, of an entry of the history, of the array of     *)
(* them, of a contact and of a book each leads the parser from a state     *)
(* that is known to another.  Of JSON the parts say it for whatever is     *)
(* open around the value (Reads); and a text that may end here (Flat) may  *)
(* end anywhere later, so no line is JSON that lacks its last bracket.     *)
(***************************************************************************)
EXTENDS FileWrite, Interchange, SequenceTheorems, FiniteSetTheorems, WellFoundedInduction, TLAPS

OneWriter == \A a, b \in Writers : a = b

Block == Values \cup {Zero}

Part(v, n) == [k \in 1 .. n |-> v]

WriterType ==
    [pc : {"idle", "open", "write", "rename", "copy", "copying", "remove"},
     val : Values \cup {None}, out : Inodes \cup {None},
     in : Inodes \cup {None}, off : 0 .. Blocks]

ReaderType == [in : Inodes \cup {None}, got : Seq(Block)]

\* What the program counter says of the other fields.
Opened(r) ==
    /\ r.pc = "idle" => r.val = None
    /\ r.pc # "idle" => r.val \in Values
    /\ r.pc = "write" => r.out \in Inodes
    /\ r.pc = "copying" => r.in \in Inodes /\ r.out \in Inodes
    /\ r.pc \in {"open", "rename", "copy"} => r.off = 0

FilesTyped ==
    /\ dir \in [{"file", "tmp"} -> Inodes \cup {None}]
    /\ disk \in [Inodes -> Seq(Block)] /\ \A i \in Inodes : Len(disk[i]) <= Blocks
    /\ dirty \subseteq Inodes

WritersTyped == writer \in [Writers -> WriterType] /\ \A w \in Writers : Opened(writer[w])

ReadersTyped ==
    /\ reader \in [Readers -> ReaderType]
    /\ \A r \in Readers : Len(reader[r].got) <= Blocks

Typed == FilesTyped /\ WritersTyped /\ ReadersTyped /\ hit \subseteq Faults

NamesApart == dir["file"] # None => dir["file"] # dir["tmp"]

\* How far the writer has come.
Progress(w) ==
    LET val == writer[w].val
        off == writer[w].off
    IN /\ writer[w].pc = "write" =>
              writer[w].out = dir["tmp"] /\ disk[dir["tmp"]] = Part(val, off)
       /\ writer[w].pc \in {"rename", "copy"} =>
              dir["tmp"] # None /\ disk[dir["tmp"]] = Whole(val)
       /\ writer[w].pc = "copying" =>
              /\ writer[w].in = dir["tmp"] /\ disk[dir["tmp"]] = Whole(val)
              /\ writer[w].out = dir["file"] /\ disk[dir["file"]] = Part(val, off)
       /\ writer[w].pc = "remove" =>
              dir["file"] # None /\ disk[dir["file"]] = Whole(val)

Underway == "full" \notin hit => \A w \in Writers : Progress(w)

\* A reader holds open an inode with one whole value, and nobody writes to it.
Untouched(r) ==
    /\ reader[r].in = None => reader[r].got = << >>
    /\ reader[r].in # None =>
          /\ reader[r].in # dir["tmp"]
          /\ \E v \in Values : /\ disk[reader[r].in] = Whole(v)
                               /\ \A j \in DOMAIN reader[r].got : reader[r].got[j] = v

Promise == ~Voided =>
    /\ FileIsWhole
    /\ \A w \in Writers : writer[w].pc \notin {"copy", "copying", "remove"}
    /\ \A r \in Readers : Untouched(r)

IInv == Typed /\ NamesApart /\ Underway /\ Promise
-----------------------------------------------------------------------------
(* Blocks                                                                    *)

(* A value cut off after n blocks.                                           *)
LEMMA PartFacts ==
    ASSUME NEW v \in Block, NEW n \in Nat
    PROVE  /\ Part(v, n) \in Seq(Block) /\ Len(Part(v, n)) = n
           /\ DOMAIN Part(v, n) = 1 .. n /\ \A k \in 1 .. n : Part(v, n)[k] = v
           /\ Part(v, Blocks) = Whole(v)
  <1>1. Part(v, n) \in Seq(Block)
    BY SeqDef DEF Part
  <1>2. DOMAIN Part(v, n) = 1 .. n /\ \A k \in 1 .. n : Part(v, n)[k] = v
    BY DEF Part
  <1>3. Len(Part(v, n)) = n
    BY <1>1, <1>2, LenProperties
  <1>4. QED
    BY <1>1, <1>2, <1>3 DEF Part, Whole

(* Nothing was written yet.                                                  *)
LEMMA PartNone == ASSUME NEW v PROVE Part(v, 0) = << >>
  <1>1. << >> \in Seq({v}) /\ Len(<< >>) = 0
    BY EmptySeq
  <1>2. Part(v, 0) \in Seq({v})
    BY SeqDef DEF Part
  <1>3. Len(Part(v, 0)) = 0
    BY <1>2, LenProperties DEF Part
  <1>4. QED
    BY <1>1, <1>2, <1>3, SeqEqual

(* What a write makes of an inode.                                           *)
LEMMA WriteAtFacts ==
    ASSUME NEW s \in Seq(Block), NEW k \in Nat, NEW v \in Block
    PROVE  /\ WriteAt(s, k, v) \in Seq(Block)
           /\ Len(WriteAt(s, k, v)) = IF Len(s) > k THEN Len(s) ELSE k + 1
  <1> DEFINE n == IF Len(s) > k THEN Len(s) ELSE k + 1
  <1>1. Len(s) \in Nat /\ DOMAIN s = 1 .. Len(s) /\ \A j \in 1 .. Len(s) : s[j] \in Block
    BY ElementOfSeq, LenProperties
  <1>2. n \in Nat
    BY <1>1
  <1>3. WriteAt(s, k, v) \in [1 .. n -> Block]
    BY <1>1 DEF WriteAt, Block
  <1>4. WriteAt(s, k, v) \in Seq(Block)
    BY <1>2, <1>3, SeqDef
  <1>5. Len(WriteAt(s, k, v)) = n
    BY <1>2, <1>3, <1>4, LenProperties
  <1>6. QED
    BY <1>4, <1>5

(* The next block of a value is written behind those there are.              *)
LEMMA WriteAtPart ==
    ASSUME NEW v \in Block, NEW n \in Nat
    PROVE  WriteAt(Part(v, n), n, v) = Part(v, n + 1)
  <1>1. Len(Part(v, n)) = n /\ \A k \in 1 .. n : Part(v, n)[k] = v
    BY PartFacts
  <1>2. WriteAt(Part(v, n), n, v) =
            [j \in 1 .. n + 1 |-> IF j = n + 1 THEN v
                                  ELSE IF j <= n THEN Part(v, n)[j] ELSE Zero]
    BY <1>1 DEF WriteAt
  <1>3. \A j \in 1 .. n + 1 : j # n + 1 => j <= n /\ j \in 1 .. n
    OBVIOUS
  <1>4. QED
    BY <1>1, <1>2, <1>3 DEF Part

-----------------------------------------------------------------------------
(* Types, for any number of writers                                          *)

LEMMA InitTyped == Init => Typed
  <1> SUFFICES ASSUME Init PROVE Typed
    OBVIOUS
  <1>1. << >> \in Seq(Block) /\ Len(<< >>) = 0 /\ Blocks \in Nat
    BY EmptySeq, BlocksAssumption
  <1>2. Idle \in WriterType /\ Opened(Idle)
    BY <1>1 DEF Idle, WriterType, Opened
  <1>3. Closed \in ReaderType /\ Len(Closed.got) <= Blocks
    BY <1>1 DEF Closed, ReaderType
  <1>4. FilesTyped
    BY <1>1 DEF Init, FilesTyped
  <1>5. WritersTyped
    BY <1>2 DEF Init, WritersTyped
  <1>6. ReadersTyped
    BY <1>3 DEF Init, ReadersTyped
  <1>7. QED
    BY <1>4, <1>5, <1>6 DEF Init, Typed

(* One process moves on to another record.                                   *)
LEMMA WriterMoves ==
    ASSUME WritersTyped, NEW w \in Writers, NEW r \in WriterType, Opened(r),
           writer' = [writer EXCEPT ![w] = r]
    PROVE  WritersTyped'
BY DEF WritersTyped, Opened

LEMMA Returns ==
    ASSUME WritersTyped, NEW w \in Writers, Return(w)
    PROVE  WritersTyped'
  <1>1. Idle \in WriterType /\ Opened(Idle)
    BY BlocksAssumption DEF Idle, WriterType, Opened
  <1>2. QED
    BY <1>1, WriterMoves DEF Return

(* One inode is written to.                                                  *)
LEMMA BlockWritten ==
    ASSUME FilesTyped, NEW i \in Inodes, NEW k \in Nat, k < Blocks, NEW v \in Block,
           UNCHANGED dir, disk' = [disk EXCEPT ![i] = WriteAt(@, k, v)],
           dirty' = dirty \cup {i}
    PROVE  FilesTyped'
  <1>1. disk[i] \in Seq(Block) /\ Len(disk[i]) <= Blocks
    BY DEF FilesTyped
  <1>2. WriteAt(disk[i], k, v) \in Seq(Block)
    BY <1>1, WriteAtFacts
  <1>3. Len(WriteAt(disk[i], k, v)) <= Blocks
    <2>1. Len(WriteAt(disk[i], k, v)) = IF Len(disk[i]) > k THEN Len(disk[i]) ELSE k + 1
      BY <1>1, WriteAtFacts
    <2>2. QED
      BY <1>1, <2>1, BlocksAssumption
  <1>4. QED
    BY <1>2, <1>3 DEF FilesTyped

(* A file is opened and emptied.                                             *)
LEMMA TruncateTyped ==
    ASSUME FilesTyped, NEW name \in {"file", "tmp"}, NEW i \in Inodes, Truncate(name, i)
    PROVE  FilesTyped'
  <1>1. << >> \in Seq(Block) /\ Len(<< >>) = 0 /\ Blocks \in Nat
    BY EmptySeq, BlocksAssumption
  <1>2. QED
    BY <1>1 DEF FilesTyped, Truncate

LEMMA WriterTyped ==
    ASSUME Typed, NEW w \in Writers, Write(w) \/ Kill(w)
    PROVE  Typed'
  <1> DEFINE r == writer[w]
  <1>1. /\ FilesTyped /\ WritersTyped /\ ReadersTyped /\ hit \subseteq Faults
        /\ r \in WriterType /\ Opened(r) /\ Blocks \in Nat \ {0}
    BY BlocksAssumption DEF Typed, WritersTyped
  <1>2. ReadersTyped'
    BY <1>1 DEF ReadersTyped, Write, Kill, Start, OpenTmp, WriteBlock, WriteFails, CloseTmp, Rename,
                RenameFails, CopyOpen, CopyBlock, CopyEnd, RemoveTmp
  <1>3. CASE \E v \in Values : Start(w, v)
    <2>1. PICK v \in Values : Start(w, v)
      BY <1>3
    <2> DEFINE q == [Idle EXCEPT !.pc = "open", !.val = v]
    <2>2. q \in WriterType /\ Opened(q)
      <3> DEFINE p == [Idle EXCEPT !.pc = "open"]
      <3>1. Idle \in WriterType /\ Idle.off = 0
        BY <1>1 DEF Idle, WriterType
      <3>2. p \in WriterType /\ p.pc = "open" /\ p.off = 0
        BY <3>1 DEF WriterType
      <3>3. q = [p EXCEPT !.val = v]
        BY <3>1 DEF WriterType
      <3>4. q \in WriterType /\ q.pc = "open" /\ q.off = 0 /\ q.val = v
        BY <3>2, <3>3 DEF WriterType
      <3>5. QED
        BY <3>4 DEF Opened
    <2>3. WritersTyped'
      BY <1>1, <2>1, <2>2, WriterMoves DEF Start
    <2>4. QED
      BY <1>1, <1>2, <2>1, <2>3 DEF Start, Typed, FilesTyped
  <1>4. CASE OpenTmp(w)
    <2>1. PICK i \in Inodes : Truncate("tmp", i)
                             /\ writer' = [writer EXCEPT ![w].pc = "write", ![w].out = i]
      BY <1>4 DEF OpenTmp
    <2> DEFINE q == [r EXCEPT !.pc = "write", !.out = i]
    <2>2. q \in WriterType /\ Opened(q)
      BY <1>1, <1>4 DEF OpenTmp, WriterType, Opened
    <2>3. WritersTyped'
      BY <1>1, <2>1, <2>2, WriterMoves DEF WritersTyped
    <2>4. QED
      BY <1>1, <1>2, <1>4, <2>1, <2>3, TruncateTyped DEF OpenTmp, Typed
  <1>5. CASE WriteBlock(w)
    <2> DEFINE q == [r EXCEPT !.off = @ + 1]
    <2>1. r.off \in Nat /\ r.off < Blocks /\ r.val \in Block /\ r.out \in Inodes
      BY <1>1, <1>5 DEF WriteBlock, Opened, WriterType, Block
    <2>2. q \in WriterType /\ Opened(q)
      BY <1>1, <1>5 DEF WriteBlock, WriterType, Opened
    <2>3. WritersTyped'
      BY <1>1, <1>5, <2>2, WriterMoves DEF WritersTyped, WriteBlock
    <2>4. FilesTyped'
      BY <1>1, <1>5, <2>1, BlockWritten DEF WriteBlock
    <2>5. QED
      BY <1>1, <1>2, <1>5, <2>3, <2>4 DEF WriteBlock, Typed
  <1>6. CASE WriteFails(w)
    BY <1>1, <1>2, <1>6, Returns DEF WriteFails, Typed, FilesTyped
  <1>7. CASE CloseTmp(w)
    <2> DEFINE q == [r EXCEPT !.pc = "rename", !.out = None, !.off = 0]
    <2>1. r.off \in Nat /\ r.off <= Blocks /\ r.val \in Block /\ r.out \in Inodes
      BY <1>1, <1>7 DEF CloseTmp, Opened, WriterType, Block
    <2>2. q \in WriterType /\ Opened(q)
      <3> DEFINE p == [r EXCEPT !.pc = "rename", !.out = None]
      <3>1. p \in WriterType /\ p.pc = "rename" /\ p.val = r.val
        BY <1>1 DEF WriterType
      <3>2. q = [p EXCEPT !.off = 0]
        BY <1>1 DEF WriterType
      <3> HIDE DEF p, q
      <3>3. q \in WriterType /\ q.pc = "rename" /\ q.val = r.val /\ q.off = 0
        BY <1>1, <3>1, <3>2 DEF WriterType
      <3>4. r.val \in Values
        BY <1>1, <1>7 DEF CloseTmp, Opened
      <3>5. QED
        BY <3>3, <3>4 DEF Opened
    <2>3. WritersTyped'
      BY <1>1, <1>7, <2>2, WriterMoves DEF WritersTyped, CloseTmp
    <2>4. FilesTyped'
      <3>1. CASE r.off < Blocks /\ disk' = [disk EXCEPT ![r.out] = WriteAt(@, r.off, r.val)]
        BY <1>1, <1>7, <2>1, <3>1, BlockWritten DEF CloseTmp
      <3>2. CASE UNCHANGED disk
        BY <1>1, <1>7, <2>1, <3>2 DEF CloseTmp, FilesTyped
      <3>3. QED
        BY <1>1, <1>7, <3>1, <3>2, <2>1 DEF CloseTmp, FilesTyped
    <2>5. hit' \subseteq Faults
      BY <1>1, <1>7 DEF CloseTmp
    <2>6. QED
      BY <1>2, <2>3, <2>4, <2>5 DEF Typed
  <1>8. CASE Rename(w)
    <2>1. FilesTyped'
      BY <1>1, <1>8 DEF Rename, FilesTyped
    <2>2. QED
      BY <1>1, <1>2, <1>8, <2>1, Returns DEF Rename, Typed
  <1>9. CASE RenameFails(w)
    <2> DEFINE q == [r EXCEPT !.pc = "copy"]
    <2>1. q \in WriterType /\ Opened(q)
      BY <1>1, <1>9 DEF RenameFails, WriterType, Opened
    <2>2. WritersTyped'
      BY <1>1, <1>9, <2>1, WriterMoves DEF WritersTyped, RenameFails
    <2>3. QED
      BY <1>1, <1>2, <1>9, <2>2 DEF RenameFails, Typed, FilesTyped
  <1>10. CASE CopyOpen(w)
    <2>1. PICK i \in Inodes :
             /\ Truncate("file", i)
             /\ writer' = [writer EXCEPT ![w] =
                  IF dir["tmp"] = None THEN Idle
                  ELSE [@ EXCEPT !.pc = "copying", !.in = dir["tmp"], !.out = i]]
      BY <1>10 DEF CopyOpen
    <2> DEFINE q == [r EXCEPT !.pc = "copying", !.in = dir["tmp"], !.out = i]
    <2>2. WritersTyped'
      <3>1. CASE dir["tmp"] = None
        BY <1>1, <2>1, <3>1, Returns DEF Return
      <3>2. CASE dir["tmp"] # None
        <4>1. q \in WriterType /\ Opened(q)
          BY <1>1, <1>10, <3>2 DEF CopyOpen, WriterType, Opened, FilesTyped
        <4>2. QED
          BY <1>1, <2>1, <3>2, <4>1, WriterMoves
      <3>3. QED
        BY <3>1, <3>2
    <2>3. QED
      BY <1>1, <1>2, <1>10, <2>1, <2>2, TruncateTyped DEF CopyOpen, Typed
  <1>11. CASE CopyBlock(w)
    <2> DEFINE q == [r EXCEPT !.off = @ + 1]
               s == disk[r.in]
    <2>1. r.in \in Inodes /\ r.out \in Inodes /\ r.off \in Nat
      BY <1>1, <1>11 DEF CopyBlock, Opened, WriterType
    <2>2. s \in Seq(Block) /\ Len(s) <= Blocks /\ Len(s) \in Nat /\ r.off < Len(s)
      BY <1>1, <1>11, <2>1, LenProperties DEF CopyBlock, FilesTyped
    <2>3. s[r.off + 1] \in Block /\ r.off < Blocks
      BY <1>1, <2>1, <2>2, ElementOfSeq
    <2>4. q \in WriterType /\ Opened(q)
      BY <1>1, <1>11, <2>3 DEF CopyBlock, WriterType, Opened
    <2>5. WritersTyped'
      BY <1>1, <1>11, <2>4, WriterMoves DEF WritersTyped, CopyBlock
    <2>6. FilesTyped'
      BY <1>1, <1>11, <2>1, <2>3, BlockWritten DEF CopyBlock
    <2>7. QED
      BY <1>1, <1>2, <1>11, <2>5, <2>6 DEF CopyBlock, Typed
  <1>12. CASE CopyEnd(w)
    <2> DEFINE q == [r EXCEPT !.pc = "remove", !.in = None, !.out = None]
    <2>1. q \in WriterType /\ Opened(q)
      BY <1>1, <1>12 DEF CopyEnd, WriterType, Opened
    <2>2. WritersTyped'
      BY <1>1, <1>12, <2>1, WriterMoves, Returns DEF WritersTyped, CopyEnd, Return
    <2>3. QED
      BY <1>1, <1>2, <1>12, <2>2 DEF CopyEnd, Typed, FilesTyped
  <1>13. CASE RemoveTmp(w)
    <2>1. FilesTyped'
      BY <1>1, <1>13 DEF RemoveTmp, FilesTyped
    <2>2. QED
      BY <1>1, <1>2, <1>13, <2>1, Returns DEF RemoveTmp, Typed
  <1>14. CASE Kill(w)
    BY <1>1, <1>2, <1>14, Returns DEF Kill, Typed, FilesTyped
  <1>15. QED
    BY <1>3, <1>4, <1>5, <1>6, <1>7, <1>8, <1>9, <1>10, <1>11, <1>12, <1>13, <1>14 DEF Write

LEMMA ReaderTyped ==
    ASSUME Typed, NEW r \in Readers, Read(r)
    PROVE  Typed'
  <1> DEFINE q == reader[r]
  <1>1. /\ FilesTyped /\ WritersTyped /\ ReadersTyped /\ hit \subseteq Faults
        /\ q \in ReaderType /\ Len(q.got) <= Blocks /\ Blocks \in Nat \ {0}
    BY BlocksAssumption DEF Typed, ReadersTyped
  <1>2. FilesTyped' /\ WritersTyped' /\ hit' \subseteq Faults
    BY <1>1 DEF FilesTyped, WritersTyped, Opened, Read, ReadOpen, ReadBlock, ReadEnd
  <1>3. CASE ReadOpen(r)
    BY <1>1, <1>2, <1>3 DEF ReadOpen, Typed, FilesTyped, ReadersTyped, ReaderType
  <1>4. CASE ReadBlock(r)
    <2> DEFINE s == disk[q.in]
               g == Append(q.got, s[Len(q.got) + 1])
    <2>1. q.in \in Inodes /\ q.got \in Seq(Block) /\ Len(q.got) \in Nat
      BY <1>1, <1>4, LenProperties DEF ReadBlock, ReaderType
    <2>2. s \in Seq(Block) /\ Len(s) <= Blocks /\ Len(s) \in Nat /\ Len(q.got) < Len(s)
      BY <1>1, <1>4, <2>1, LenProperties DEF ReadBlock, FilesTyped
    <2>3. s[Len(q.got) + 1] \in Block
      BY <2>1, <2>2, ElementOfSeq
    <2>4. g \in Seq(Block) /\ Len(g) = Len(q.got) + 1
      BY <2>1, <2>3, AppendProperties
    <2>5. Len(g) <= Blocks
      BY <1>1, <2>1, <2>2, <2>4
    <2>6. reader' = [reader EXCEPT ![r].got = g]
      BY <1>4 DEF ReadBlock
    <2> HIDE DEF g
    <2>7. ReadersTyped'
      BY <1>1, <2>4, <2>5, <2>6 DEF ReadersTyped, ReaderType
    <2>8. QED
      BY <1>2, <2>7 DEF Typed
  <1>5. CASE ReadEnd(r)
    <2>1. Closed \in ReaderType /\ Len(Closed.got) <= Blocks
      BY <1>1, EmptySeq DEF Closed, ReaderType
    <2>2. QED
      BY <1>1, <1>2, <1>5, <2>1 DEF ReadEnd, Typed, ReadersTyped
  <1>6. QED
    BY <1>3, <1>4, <1>5 DEF Read

LEMMA EnvironmentTyped ==
    ASSUME Typed, (\E i \in Inodes : Sync(i)) \/ PowerLoss \/ UNCHANGED vars
    PROVE  Typed'
  <1>1. /\ FilesTyped /\ WritersTyped /\ ReadersTyped /\ hit \subseteq Faults
        /\ Blocks \in Nat \ {0}
    BY BlocksAssumption DEF Typed
  <1>2. CASE \E i \in Inodes : Sync(i)
    BY <1>1, <1>2 DEF Sync, Typed, FilesTyped, WritersTyped, ReadersTyped, Opened
  <1>3. CASE PowerLoss
    <2>1. PICK kept \in [Inodes -> 0 .. Blocks] :
             /\ \A i \in Inodes : IF i \in dirty THEN kept[i] <= Len(disk[i])
                                                 ELSE kept[i] = Len(disk[i])
             /\ disk' = [i \in Inodes |-> SubSeq(disk[i], 1, kept[i])]
      BY <1>3 DEF PowerLoss
    <2>2. ASSUME NEW i \in Inodes
          PROVE  disk'[i] \in Seq(Block) /\ Len(disk'[i]) <= Blocks
      <3>1. disk[i] \in Seq(Block) /\ Len(disk[i]) \in Nat /\ kept[i] \in 0 .. Len(disk[i])
        BY <1>1, <2>1, LenProperties DEF FilesTyped
      <3>2. SubSeq(disk[i], 1, kept[i]) \in Seq(Block)
        BY <3>1, SubSeqProperties
      <3>3. Len(SubSeq(disk[i], 1, kept[i])) = kept[i]
        BY <3>1, SubSeqProperties
      <3>4. QED
        BY <1>1, <2>1, <3>1, <3>2, <3>3
    <2>3. FilesTyped'
      BY <1>1, <1>3, <2>1, <2>2 DEF PowerLoss, FilesTyped
    <2>4. Idle \in WriterType /\ Opened(Idle) /\ Closed \in ReaderType /\ Len(Closed.got) <= Blocks
      BY <1>1, EmptySeq DEF Idle, WriterType, Opened, Closed, ReaderType
    <2>5. WritersTyped' /\ ReadersTyped'
      BY <1>3, <2>4 DEF PowerLoss, WritersTyped, ReadersTyped
    <2>6. QED
      BY <1>1, <1>3, <2>3, <2>5 DEF PowerLoss, Typed
  <1>4. CASE UNCHANGED vars
    BY <1>1, <1>4 DEF vars, Typed, FilesTyped, WritersTyped, ReadersTyped, Opened
  <1>5. QED
    BY <1>2, <1>3, <1>4

LEMMA StepTyped == Typed /\ [Next]_vars => Typed'
BY WriterTyped, ReaderTyped, EnvironmentTyped DEF Next

(* Whatever strikes and however many write at once, a stream never runs past *)
(* the end of a value, and no inode grows beyond one: a reader comes to an   *)
(* end (write_file_atomic, copy_file_to, read_file).                         *)
THEOREM FileTypes == Spec => []TypeOK
  <1>1. Typed => TypeOK
    BY DEF Typed, FilesTyped, WritersTyped, ReadersTyped, WriterType, ReaderType, Block, TypeOK
  <1>2. QED
    BY InitTyped, StepTyped, <1>1, PTL DEF Spec

-----------------------------------------------------------------------------
(* One writer at a time                                                      *)

LEMMA WholeFacts ==
    ASSUME NEW v \in Values
    PROVE  Whole(v) \in Seq(Block) /\ Len(Whole(v)) = Blocks /\ Part(v, Blocks) = Whole(v)
           /\ DOMAIN Whole(v) = 1 .. Blocks /\ Whole(v)[1] = v
           /\ \A k \in 1 .. Blocks : Whole(v)[k] = v
  <1>1. v \in Block /\ Blocks \in Nat \ {0}
    BY BlocksAssumption DEF Block
  <1>2. Part(v, Blocks) \in Seq(Block) /\ Len(Part(v, Blocks)) = Blocks
        /\ Part(v, Blocks) = Whole(v)
    BY <1>1, PartFacts
  <1>3. QED
    BY <1>1, <1>2 DEF Whole

LEMMA InitHolds == Init => IInv
  <1> SUFFICES ASSUME Init PROVE IInv
    OBVIOUS
  <1>1. Typed
    BY InitTyped
  <1>2. NamesApart /\ Underway
    BY DEF Init, NamesApart, Underway, Progress, Idle
  <1>3. Promise
    BY DEF Init, Promise, FileIsWhole, Untouched, Idle, Closed
  <1>4. QED
    BY <1>1, <1>2, <1>3 DEF IInv

(* A write to an inode that is neither the file's nor one a reader holds     *)
(* open is seen by no reader.                                                *)
LEMMA WrittenAside ==
    ASSUME Typed, FileIsWhole, \A r \in Readers : Untouched(r), NEW i \in Inodes,
           i # dir["file"], \A r \in Readers : reader[r].in # i,
           NEW x, disk' = [disk EXCEPT ![i] = x], UNCHANGED reader,
           dir'["file"] = dir["file"], dir'["tmp"] \in {dir["tmp"], i, None}
    PROVE  FileIsWhole' /\ \A r \in Readers : Untouched(r)'
  <1>1. dir["file"] \in Inodes \cup {None} /\ disk \in [Inodes -> Seq(Block)]
    BY DEF Typed, FilesTyped
  <1>2. FileIsWhole'
    BY <1>1, NoneAssumption DEF FileIsWhole, Whole
  <1>3. ASSUME NEW r \in Readers PROVE Untouched(r)'
    <2>1. reader[r].in \in Inodes \cup {None} /\ reader[r].in # i
      BY DEF Typed, ReadersTyped, ReaderType
    <2>2. CASE reader[r].in = None
      BY <2>2 DEF Untouched
    <2>3. CASE reader[r].in # None
      <3>1. disk'[reader[r].in] = disk[reader[r].in]
        BY <1>1, <2>1, <2>3
      <3>2. reader[r].in # dir'["tmp"]
        BY <2>1, <2>3 DEF Untouched
      <3>3. QED
        BY <2>3, <3>1, <3>2 DEF Untouched, Whole
    <2>4. QED
      BY <2>2, <2>3
  <1>4. QED
    BY <1>2, <1>3

(* What the invariant says of the writer, in the terms of the steps below.   *)
LEMMA Facts ==
    ASSUME IInv, NEW w \in Writers
    PROVE  /\ dir["file"] \in Inodes \cup {None} /\ dir["tmp"] \in Inodes \cup {None}
           /\ dir \in [{"file", "tmp"} -> Inodes \cup {None}]
           /\ disk \in [Inodes -> Seq(Block)]
           /\ writer \in [Writers -> WriterType] /\ writer[w] \in WriterType /\ Opened(writer[w])
           /\ Blocks \in Nat \ {0} /\ None \notin Inodes /\ None \notin Values
           /\ "full" \notin hit => Progress(w)
           /\ ~Voided => "full" \notin hit
BY BlocksAssumption, NoneAssumption
   DEF IInv, Typed, FilesTyped, WritersTyped, Underway, Voided

(* What readers see stays as it was.                                         *)
LEMMA SeenUnchanged ==
    ASSUME IInv, ~Voided, UNCHANGED << dir, disk, reader >>
    PROVE  FileIsWhole' /\ \A r \in Readers : Untouched(r)'
  <1>1. FileIsWhole /\ \A r \in Readers : Untouched(r)
    BY DEF IInv, Promise
  <1>2. FileIsWhole'
    BY <1>1 DEF FileIsWhole, Whole
  <1>3. \A r \in Readers : Untouched(r)'
    BY <1>1 DEF Untouched, Whole
  <1>4. QED
    BY <1>2, <1>3

LEMMA PromiseKept ==
    ASSUME OneWriter, NEW w \in Writers, writer'[w].pc \notin {"copy", "copying", "remove"},
           ~Voided' => FileIsWhole' /\ \A r \in Readers : Untouched(r)'
    PROVE  Promise'
  <1>1. \A a \in Writers : writer'[a].pc \notin {"copy", "copying", "remove"}
    BY DEF OneWriter
  <1>2. QED
    BY <1>1 DEF Promise

LEMMA StartHolds ==
    ASSUME OneWriter, IInv, NEW w \in Writers, NEW v \in Values, Start(w, v)
    PROVE  NamesApart' /\ Underway' /\ Promise'
  <1>1. \A a \in Writers : a = w
    BY DEF OneWriter
  <1>2. writer'[w].pc = "open"
    BY Facts DEF Start, Idle
  <1>3. NamesApart' /\ Underway'
    BY <1>1, <1>2 DEF IInv, Start, NamesApart, Underway, Progress
  <1>4. Promise'
    <2>1. UNCHANGED << dir, disk, reader, hit >>
      BY DEF Start
    <2>2. Voided' = Voided
      BY <2>1 DEF Voided
    <2>3. QED
      BY <1>2, <2>1, <2>2, SeenUnchanged, PromiseKept
  <1>5. QED
    BY <1>3, <1>4

LEMMA OpenTmpHolds ==
    ASSUME OneWriter, IInv, NEW w \in Writers, OpenTmp(w)
    PROVE  NamesApart' /\ Underway' /\ Promise'
  <1>1. \A a \in Writers : a = w
    BY DEF OneWriter
  <1>2. PICK i \in Inodes : /\ Truncate("tmp", i)
                            /\ writer' = [writer EXCEPT ![w].pc = "write", ![w].out = i]
    BY DEF OpenTmp
  <1>3. /\ writer[w].pc = "open" /\ writer[w].off = 0
        /\ writer'[w].pc = "write" /\ writer'[w].out = i
        /\ writer'[w].off = 0 /\ writer'[w].val = writer[w].val
    BY <1>2, Facts DEF OpenTmp, Opened, WriterType
  <1>4. dir'["tmp"] = i /\ dir'["file"] = dir["file"] /\ disk'[i] = << >>
    BY <1>2, Facts DEF Truncate
  <1>5. i # dir["file"]
    BY <1>2, Facts DEF Truncate, FreeInodes, IInv, NamesApart
  <1>6. NamesApart'
    BY <1>4, <1>5 DEF NamesApart
  <1>7. Underway'
    BY <1>1, <1>3, <1>4, PartNone DEF Underway, Progress
  <1>8. ASSUME ~Voided PROVE FileIsWhole' /\ \A r \in Readers : Untouched(r)'
    <2>1. Typed /\ FileIsWhole /\ \A r \in Readers : Untouched(r)
      BY <1>8 DEF IInv, Promise
    <2>2. \A r \in Readers : reader[r].in # i
      BY <1>2, <2>1, Facts DEF Truncate, FreeInodes, Untouched
    <2>3. disk' = [disk EXCEPT ![i] = << >>] /\ UNCHANGED reader
      BY <1>2 DEF Truncate, OpenTmp
    <2>4. QED
      BY <1>4, <1>5, <2>1, <2>2, <2>3, WrittenAside
  <1>9. Promise'
    <2>1. UNCHANGED hit /\ writer'[w].pc = "write"
      BY <1>3 DEF OpenTmp
    <2>2. QED
      BY <1>1, <1>8, <2>1 DEF Promise, Voided
  <1>10. QED
    BY <1>6, <1>7, <1>9

LEMMA WriteBlockHolds ==
    ASSUME OneWriter, IInv, NEW w \in Writers, WriteBlock(w)
    PROVE  NamesApart' /\ Underway' /\ Promise'
  <1> DEFINE i == writer[w].out
             n == writer[w].off
             v == writer[w].val
  <1>1. \A a \in Writers : a = w
    BY DEF OneWriter
  <1>2. writer[w].pc = "write" /\ i \in Inodes /\ n \in Nat /\ v \in Block
    BY Facts DEF WriteBlock, Opened, WriterType, Block
  <1>3. /\ writer'[w].pc = "write" /\ writer'[w].out = i
        /\ writer'[w].off = n + 1 /\ writer'[w].val = v
    BY <1>2, Facts DEF WriteBlock, WriterType
  <1>4. NamesApart'
    BY DEF IInv, NamesApart, WriteBlock
  <1>5. ASSUME "full" \notin hit
        PROVE  i = dir["tmp"] /\ disk'[i] = Part(v, n + 1)
    <2>1. i = dir["tmp"] /\ disk[i] = Part(v, n)
      BY <1>2, <1>5, Facts DEF Progress
    <2>2. disk'[i] = WriteAt(disk[i], n, v)
      BY <1>2, Facts DEF WriteBlock
    <2>3. QED
      BY <1>2, <2>1, <2>2, WriteAtPart
  <1>6. Underway'
    BY <1>1, <1>3, <1>5 DEF Underway, Progress, WriteBlock
  <1>7. ASSUME ~Voided PROVE FileIsWhole' /\ \A r \in Readers : Untouched(r)'
    <2>1. Typed /\ FileIsWhole /\ \A r \in Readers : Untouched(r)
      BY <1>7 DEF IInv, Promise
    <2>2. i = dir["tmp"]
      BY <1>5, <1>7, Facts
    <2>3. i # dir["file"] /\ \A r \in Readers : reader[r].in # i
      BY <1>2, <2>1, <2>2, Facts DEF Untouched, IInv, NamesApart
    <2>4. disk' = [disk EXCEPT ![i] = WriteAt(disk[i], n, v)] /\ UNCHANGED reader /\ UNCHANGED dir
      BY DEF WriteBlock
    <2>5. QED
      BY <1>2, <2>1, <2>3, <2>4, WrittenAside
  <1>8. QED
    BY <1>1, <1>3, <1>4, <1>6, <1>7 DEF Promise, Voided, WriteBlock

LEMMA CloseTmpHolds ==
    ASSUME OneWriter, IInv, NEW w \in Writers, CloseTmp(w)
    PROVE  NamesApart' /\ Underway' /\ Promise'
  <1> DEFINE i == writer[w].out
             n == writer[w].off
             v == writer[w].val
  <1>1. \A a \in Writers : a = w
    BY DEF OneWriter
  <1>2. writer[w].pc = "write" /\ i \in Inodes /\ n \in Nat /\ v \in Values /\ v \in Block
        /\ n >= Blocks - 1 /\ n <= Blocks
    BY Facts DEF CloseTmp, Opened, WriterType, Block
  <1>3. writer'[w].pc = "rename" /\ writer'[w].val = v
    BY <1>2, Facts DEF CloseTmp, WriterType
  <1>4. NamesApart'
    BY DEF IInv, NamesApart, CloseTmp
  <1>5. CASE "full" \in hit'
    BY <1>4, <1>5 DEF Underway, Promise, Voided
  <1>6. CASE "full" \notin hit'
    <2> DEFINE x == IF n < Blocks THEN WriteAt(disk[i], n, v) ELSE disk[i]
    <2>1. UNCHANGED hit /\ disk' = [disk EXCEPT ![i] = x]
      BY <1>6 DEF CloseTmp
    <2>2. i = dir["tmp"] /\ disk[i] = Part(v, n)
      BY <1>2, <1>6, <2>1, Facts DEF Progress
    <2>3. x = Whole(v)
      <3>1. CASE n < Blocks
        <4>1. n + 1 = Blocks
          BY <1>2, <3>1, BlocksAssumption
        <4>2. QED
          BY <1>2, <2>2, <3>1, <4>1, WriteAtPart, WholeFacts
      <3>2. CASE ~(n < Blocks)
        <4>1. n = Blocks
          BY <1>2, <3>2, BlocksAssumption
        <4>2. QED
          BY <1>2, <2>2, <3>2, <4>1, WholeFacts
      <3>3. QED
        BY <3>1, <3>2
    <2> HIDE DEF x
    <2>4. disk'[i] = Whole(v) /\ dir' = dir
      BY <1>2, <2>1, <2>3, Facts DEF CloseTmp
    <2>5. Underway'
      BY <1>1, <1>2, <1>3, <2>2, <2>4, NoneAssumption DEF Underway, Progress, Whole
    <2>6. ASSUME ~Voided PROVE FileIsWhole' /\ \A r \in Readers : Untouched(r)'
      <3>1. Typed /\ FileIsWhole /\ \A r \in Readers : Untouched(r)
        BY <2>6 DEF IInv, Promise
      <3>2. i # dir["file"] /\ \A r \in Readers : reader[r].in # i
        BY <1>2, <2>2, <3>1, Facts DEF Untouched, IInv, NamesApart
      <3>3. UNCHANGED reader
        BY DEF CloseTmp
      <3>4. QED
        BY <1>2, <2>1, <2>4, <3>1, <3>2, <3>3, WrittenAside
    <2>7. QED
      BY <1>1, <1>3, <1>4, <2>1, <2>5, <2>6 DEF Promise, Voided
  <1>7. QED
    BY <1>5, <1>6

LEMMA GivesUpHolds ==
    ASSUME OneWriter, IInv, NEW w \in Writers, WriteFails(w) \/ Kill(w)
    PROVE  NamesApart' /\ Underway' /\ Promise'
  <1>1. \A a \in Writers : a = w
    BY DEF OneWriter
  <1>2. /\ writer'[w].pc = "idle" /\ UNCHANGED << dir, disk, reader >>
        /\ hit' \ {"kill"} = hit \ {"kill"}
    BY Facts DEF WriteFails, Kill, Return, Idle
  <1>3. NamesApart' /\ Underway'
    BY <1>1, <1>2 DEF IInv, NamesApart, Underway, Progress
  <1>4. Promise'
    <2>1. Voided' = Voided
      BY <1>2 DEF Voided
    <2>2. QED
      BY <1>2, <2>1, SeenUnchanged, PromiseKept
  <1>5. QED
    BY <1>3, <1>4

LEMMA RenameHolds ==
    ASSUME OneWriter, IInv, NEW w \in Writers, Rename(w)
    PROVE  NamesApart' /\ Underway' /\ Promise'
  <1>1. \A a \in Writers : a = w
    BY DEF OneWriter
  <1>2. /\ writer[w].pc = "rename" /\ dir["tmp"] # None /\ writer'[w].pc = "idle"
        /\ dir'["file"] = dir["tmp"] /\ dir'["tmp"] = None
        /\ UNCHANGED << disk, reader, hit >>
    BY Facts DEF Rename, Return, Idle
  <1>3. NamesApart' /\ Underway'
    BY <1>1, <1>2 DEF NamesApart, Underway, Progress
  <1>4. ASSUME ~Voided PROVE FileIsWhole' /\ \A r \in Readers : Untouched(r)'
    <2>1. disk[dir["tmp"]] = Whole(writer[w].val) /\ writer[w].val \in Values
      BY <1>2, <1>4, Facts DEF Progress, Opened
    <2>2. FileIsWhole'
      BY <1>2, <2>1 DEF FileIsWhole, Whole
    <2>3. \A r \in Readers : Untouched(r)
      BY <1>4 DEF IInv, Promise
    <2>4. \A r \in Readers : Untouched(r)'
      BY <1>2, <2>3 DEF Untouched, Whole
    <2>5. QED
      BY <2>2, <2>4
  <1>5. Promise'
    <2>1. Voided' = Voided
      BY <1>2 DEF Voided
    <2>2. QED
      BY <1>2, <1>4, <2>1, PromiseKept
  <1>6. QED
    BY <1>3, <1>5

(* The temporary file can only be missing when a full disk has kept it from  *)
(* being written; so the copy is reached only when the promise is void.      *)
LEMMA RenameFailsHolds ==
    ASSUME OneWriter, IInv, NEW w \in Writers, RenameFails(w)
    PROVE  NamesApart' /\ Underway' /\ Promise'
  <1>1. \A a \in Writers : a = w
    BY DEF OneWriter
  <1>2. /\ writer[w].pc = "rename" /\ writer'[w].pc = "copy" /\ writer'[w].val = writer[w].val
        /\ UNCHANGED << dir, disk, reader >>
    BY Facts DEF RenameFails, WriterType
  <1>3. "full" \notin hit => dir["tmp"] # None /\ disk[dir["tmp"]] = Whole(writer[w].val)
    BY <1>2, Facts DEF Progress
  <1>4. hit \subseteq hit'
    BY DEF RenameFails
  <1>5. NamesApart' /\ Underway'
    BY <1>1, <1>2, <1>3, <1>4 DEF IInv, NamesApart, Underway, Progress, Whole
  <1>6. Voided'
    <2>1. CASE "full" \in hit
      BY <1>4, <2>1 DEF Voided
    <2>2. CASE "full" \notin hit
      BY <1>3, <2>2 DEF RenameFails, Voided
    <2>3. QED
      BY <2>1, <2>2
  <1>7. QED
    BY <1>5, <1>6 DEF Promise

LEMMA CopyOpenHolds ==
    ASSUME OneWriter, IInv, NEW w \in Writers, CopyOpen(w)
    PROVE  NamesApart' /\ Underway' /\ Promise'
  <1>1. \A a \in Writers : a = w
    BY DEF OneWriter
  <1>2. PICK i \in Inodes :
           /\ Truncate("file", i)
           /\ writer' = [writer EXCEPT ![w] =
                IF dir["tmp"] = None THEN Idle
                ELSE [@ EXCEPT !.pc = "copying", !.in = dir["tmp"], !.out = i]]
    BY DEF CopyOpen
  <1>3. writer[w].pc = "copy" /\ writer[w].off = 0 /\ UNCHANGED hit
    BY Facts DEF CopyOpen, Opened
  <1>4. Voided'
    BY <1>3 DEF IInv, Promise, Voided
  <1>5. /\ dir'["tmp"] = dir["tmp"] /\ dir'["file"] = i
        /\ disk' = [disk EXCEPT ![i] = << >>] /\ disk'[i] = << >>
    BY <1>2, Facts DEF Truncate
  <1>6. i # dir["tmp"]
    BY <1>2, Facts DEF Truncate, FreeInodes, IInv, NamesApart
  <1>7. NamesApart'
    BY <1>5, <1>6 DEF NamesApart
  <1>8. Underway'
    <2>1. CASE dir["tmp"] = None
      <3>1. writer'[w].pc = "idle"
        BY <1>2, <2>1, Facts DEF Idle
      <3>2. QED
        BY <1>1, <3>1 DEF Underway, Progress
    <2>2. CASE dir["tmp"] # None
      <3>1. /\ writer'[w].pc = "copying" /\ writer'[w].in = dir["tmp"] /\ writer'[w].out = i
            /\ writer'[w].off = 0 /\ writer'[w].val = writer[w].val
        BY <1>2, <1>3, <2>2, Facts DEF WriterType
      <3>2. "full" \notin hit => disk'[dir["tmp"]] = Whole(writer[w].val)
        BY <1>3, <1>5, <1>6, <2>2, Facts DEF Progress
      <3>3. QED
        BY ZenonT(60), <1>1, <1>3, <1>5, <3>1, <3>2, PartNone DEF Underway, Progress, Whole
    <2>3. QED
      BY <2>1, <2>2
  <1>9. QED
    BY <1>4, <1>7, <1>8 DEF Promise

LEMMA CopyBlockHolds ==
    ASSUME OneWriter, IInv, NEW w \in Writers, CopyBlock(w)
    PROVE  NamesApart' /\ Underway' /\ Promise'
  <1> DEFINE i == writer[w].out
             n == writer[w].off
             v == writer[w].val
             s == disk[writer[w].in]
  <1>1. \A a \in Writers : a = w
    BY DEF OneWriter
  <1>2. /\ writer[w].pc = "copying" /\ i \in Inodes /\ writer[w].in \in Inodes
        /\ n \in Nat /\ v \in Values /\ v \in Block /\ n < Len(s)
    BY Facts DEF CopyBlock, Opened, WriterType, Block
  <1>3. /\ writer'[w].pc = "copying" /\ writer'[w].out = i /\ writer'[w].in = writer[w].in
        /\ writer'[w].off = n + 1 /\ writer'[w].val = v
    BY <1>2, Facts DEF CopyBlock, WriterType
  <1>4. Voided'
    BY <1>2 DEF IInv, Promise, Voided, CopyBlock
  <1>5. UNCHANGED dir /\ NamesApart'
    BY DEF IInv, NamesApart, CopyBlock
  <1>6. ASSUME "full" \notin hit
        PROVE  /\ writer[w].in = dir["tmp"] /\ disk'[dir["tmp"]] = Whole(v)
               /\ i = dir["file"] /\ disk'[dir["file"]] = Part(v, n + 1)
    <2>1. /\ writer[w].in = dir["tmp"] /\ disk[dir["tmp"]] = Whole(v)
          /\ i = dir["file"] /\ disk[i] = Part(v, n)
      BY <1>2, <1>6, Facts DEF Progress
    <2>2. dir["tmp"] # i
      BY <1>2, <2>1, Facts DEF IInv, NamesApart
    <2>3. s[n + 1] = v
      BY <1>2, <2>1, WholeFacts, Facts
    <2>4. disk'[i] = WriteAt(disk[i], n, v) /\ disk'[dir["tmp"]] = disk[dir["tmp"]]
      BY <1>2, <2>1, <2>2, <2>3, Facts DEF CopyBlock
    <2>5. QED
      BY <1>2, <2>1, <2>4, WriteAtPart
  <1>7. Underway'
    BY <1>1, <1>3, <1>5, <1>6 DEF Underway, Progress, CopyBlock, Whole
  <1>8. QED
    BY <1>4, <1>5, <1>7 DEF Promise

LEMMA CopyEndHolds ==
    ASSUME OneWriter, IInv, NEW w \in Writers, CopyEnd(w)
    PROVE  NamesApart' /\ Underway' /\ Promise'
  <1> DEFINE n == writer[w].off
             v == writer[w].val
  <1>1. \A a \in Writers : a = w
    BY DEF OneWriter
  <1>2. /\ writer[w].pc = "copying" /\ writer[w].out \in Inodes /\ v \in Values
        /\ n \in 0 .. Blocks /\ n >= Len(disk[writer[w].in])
    BY Facts DEF CopyEnd, Opened, WriterType
  <1>3. Voided' /\ UNCHANGED << dir, disk, hit >>
    BY <1>2 DEF IInv, Promise, Voided, CopyEnd
  <1>4. NamesApart'
    BY <1>3 DEF IInv, NamesApart
  <1>5. ASSUME "full" \notin hit
        PROVE  dir["file"] # None /\ disk[dir["file"]] = Whole(v)
    <2>1. /\ disk[writer[w].in] = Whole(v)
          /\ writer[w].out = dir["file"] /\ disk[dir["file"]] = Part(v, n)
      BY <1>2, <1>5, Facts DEF Progress
    <2>2. Len(Whole(v)) = Blocks /\ Part(v, Blocks) = Whole(v)
      BY <1>2, WholeFacts
    <2>3. n = Blocks
      BY <1>2, <2>1, <2>2, BlocksAssumption
    <2>4. QED
      BY <1>2, <2>1, <2>2, <2>3, NoneAssumption
  <1>6. Underway'
    <2>1. CASE n = 0
      <3>1. writer'[w].pc = "idle"
        BY <2>1, Facts DEF CopyEnd, Idle
      <3>2. QED
        BY <1>1, <3>1 DEF Underway, Progress
    <2>2. CASE n # 0
      <3>1. writer'[w].pc = "remove" /\ writer'[w].val = v
        BY <2>2, Facts DEF CopyEnd, WriterType
      <3>2. QED
        BY <1>1, <1>3, <1>5, <3>1 DEF Underway, Progress, Whole
    <2>3. QED
      BY <2>1, <2>2
  <1>7. QED
    BY <1>3, <1>4, <1>6 DEF Promise

LEMMA RemoveTmpHolds ==
    ASSUME OneWriter, IInv, NEW w \in Writers, RemoveTmp(w)
    PROVE  NamesApart' /\ Underway' /\ Promise'
  <1>1. \A a \in Writers : a = w
    BY DEF OneWriter
  <1>2. writer[w].pc = "remove" /\ writer'[w].pc = "idle" /\ UNCHANGED hit
    BY Facts DEF RemoveTmp, Return, Idle
  <1>3. Voided'
    BY <1>2 DEF IInv, Promise, Voided
  <1>4. NamesApart'
    BY Facts DEF RemoveTmp, NamesApart
  <1>5. Underway'
    BY <1>1, <1>2 DEF Underway, Progress
  <1>6. QED
    BY <1>3, <1>4, <1>5 DEF Promise

LEMMA ReaderHolds ==
    ASSUME IInv, NEW r \in Readers, Read(r)
    PROVE  NamesApart' /\ Underway' /\ Promise'
  <1>1. UNCHANGED << dir, disk, writer, hit >>
    BY DEF Read, ReadOpen, ReadBlock, ReadEnd
  <1>2. NamesApart' /\ Underway'
    BY <1>1 DEF IInv, NamesApart, Underway, Progress, Whole
  <1>3. ASSUME ~Voided
        PROVE  /\ FileIsWhole'
               /\ \A w \in Writers : writer[w].pc \notin {"copy", "copying", "remove"}
               /\ \A p \in Readers : Untouched(p)'
    <2>1. /\ FileIsWhole /\ \A p \in Readers : Untouched(p)
          /\ \A w \in Writers : writer[w].pc \notin {"copy", "copying", "remove"}
      BY <1>3 DEF IInv, Promise
    <2>2. FileIsWhole'
      BY <1>1, <2>1 DEF FileIsWhole, Whole
    <2>3. /\ reader \in [Readers -> ReaderType] /\ reader[r] \in ReaderType
          /\ dir["file"] # None => dir["file"] # dir["tmp"]
      BY DEF IInv, Typed, ReadersTyped, NamesApart
    <2>4. Untouched(r)'
      <3>1. CASE ReadOpen(r)
        <4>1. reader'[r].in = dir["file"] /\ reader'[r].got = << >> /\ dir["file"] # None
          BY <2>3, <3>1 DEF ReadOpen, Closed, ReaderType
        <4>2. reader'[r].in # dir'["tmp"]
          BY <1>1, <2>3, <4>1
        <4>3. PICK v \in Values : disk[dir["file"]] = Whole(v)
          BY <2>1, <4>1 DEF FileIsWhole
        <4>4. DOMAIN reader'[r].got = {}
          BY <4>1
        <4>5. QED
          BY <1>1, <4>1, <4>2, <4>3, <4>4 DEF Untouched, Whole
      <3>2. CASE ReadBlock(r)
        <4> DEFINE g == reader[r].got
        <4>1. PICK v \in Values : /\ disk[reader[r].in] = Whole(v)
                                  /\ \A j \in DOMAIN g : g[j] = v
          BY <2>1, <3>2 DEF ReadBlock, Untouched
        <4>2. g \in Seq(Block) /\ Len(g) \in Nat /\ DOMAIN g = 1 .. Len(g)
          BY <2>3, LenProperties DEF ReaderType
        <4>3. Len(g) < Blocks
          BY <3>2, <4>1, WholeFacts DEF ReadBlock
        <4>4. Whole(v)[Len(g) + 1] = v
          BY <4>2, <4>3, WholeFacts, BlocksAssumption
        <4>5. reader'[r].got = Append(g, v) /\ reader'[r].in = reader[r].in
          BY <2>3, <3>2, <4>1, <4>4 DEF ReadBlock, ReaderType
        <4>6. \A j \in DOMAIN Append(g, v) : Append(g, v)[j] = v
          <5>1. v \in Block
            BY DEF Block
          <5>2. /\ DOMAIN Append(g, v) = 1 .. Len(g) + 1 /\ Append(g, v)[Len(g) + 1] = v
                /\ \A j \in 1 .. Len(g) : Append(g, v)[j] = g[j]
            BY <4>2, <5>1, AppendProperties, LenProperties
          <5>3. \A j \in 1 .. Len(g) + 1 : j \in 1 .. Len(g) \/ j = Len(g) + 1
            BY <4>2
          <5>4. QED
            BY <4>1, <4>2, <5>2, <5>3
        <4>7. reader[r].in # None /\ reader[r].in # dir["tmp"]
          BY <2>1, <3>2 DEF ReadBlock, Untouched
        <4>8. QED
          BY <1>1, <4>1, <4>5, <4>6, <4>7 DEF Untouched, Whole
      <3>3. CASE ReadEnd(r)
        BY <2>3, <3>3 DEF ReadEnd, Closed, Untouched
      <3>4. QED
        BY <3>1, <3>2, <3>3 DEF Read
    <2>5. ASSUME NEW p \in Readers, p # r PROVE Untouched(p)'
      <3>1. reader'[p] = reader[p]
        BY <2>3, <2>5 DEF Read, ReadOpen, ReadBlock, ReadEnd
      <3>2. QED
        BY <1>1, <2>1, <3>1 DEF Untouched, Whole
    <2>6. QED
      BY <2>1, <2>2, <2>4, <2>5
  <1>4. QED
    BY <1>1, <1>2, <1>3 DEF Promise, Voided

LEMMA EnvironmentHolds ==
    ASSUME IInv, (\E i \in Inodes : Sync(i)) \/ PowerLoss \/ UNCHANGED vars
    PROVE  NamesApart' /\ Underway' /\ Promise'
  <1>1. CASE (\E i \in Inodes : Sync(i)) \/ UNCHANGED vars
    <2>1. UNCHANGED << dir, disk, writer, reader, hit >>
      BY <1>1 DEF Sync, vars
    <2>2. NamesApart' /\ Underway'
      BY <2>1 DEF IInv, NamesApart, Underway, Progress, Whole
    <2>3. Promise'
      <3>1. Voided' = Voided
        BY <2>1 DEF Voided
      <3>2. ~Voided => FileIsWhole' /\ \A r \in Readers : Untouched(r)'
        BY <2>1, SeenUnchanged
      <3>3. QED
        BY <2>1, <3>1, <3>2 DEF IInv, Promise
    <2>4. QED
      BY <2>2, <2>3
  <1>2. CASE PowerLoss
    <2>1. /\ "power" \in hit' /\ UNCHANGED dir /\ \A w \in Writers : writer'[w].pc = "idle"
      BY <1>2 DEF PowerLoss, Idle
    <2>2. QED
      BY <2>1 DEF IInv, NamesApart, Underway, Progress, Promise, Voided
  <1>3. QED
    BY <1>1, <1>2

LEMMA StepHolds ==
    ASSUME OneWriter
    PROVE  IInv /\ [Next]_vars => IInv'
  <1> SUFFICES ASSUME IInv, [Next]_vars PROVE IInv'
    OBVIOUS
  <1>1. Typed'
    BY StepTyped DEF IInv
  <1>2. ASSUME NEW w \in Writers, Write(w) \/ Kill(w)
        PROVE  NamesApart' /\ Underway' /\ Promise'
    BY <1>2, StartHolds, OpenTmpHolds, WriteBlockHolds, GivesUpHolds, CloseTmpHolds, RenameHolds,
       RenameFailsHolds, CopyOpenHolds, CopyBlockHolds, CopyEndHolds, RemoveTmpHolds DEF Write
  <1>3. NamesApart' /\ Underway' /\ Promise'
    BY <1>2, ReaderHolds, EnvironmentHolds DEF Next
  <1>4. QED
    BY <1>1, <1>3 DEF IInv

LEMMA Invariant == ASSUME OneWriter PROVE Spec => []IInv
BY InitHolds, StepHolds, PTL DEF Spec

(* While one process writes, a reader that took no lock puts together blocks *)
(* of one value only, wherever writers are killed (read_file against         *)
(* write_file_atomic).                                                       *)
THEOREM OneValueRead == ASSUME OneWriter PROVE Spec => []ReadsOneValue
  <1>1. IInv => ReadsOneValue
    <2> SUFFICES ASSUME IInv, ~Voided, NEW r \in Readers,
                        NEW j \in DOMAIN reader[r].got, NEW k \in DOMAIN reader[r].got
                 PROVE  reader[r].got[j] = reader[r].got[k]
      BY DEF ReadsOneValue
    <2>1. Untouched(r)
      BY DEF IInv, Promise
    <2>2. QED
      BY <2>1 DEF Untouched
  <1>2. QED
    BY Invariant, <1>1, PTL

(* A write that answers true has put the whole value in place, be it by the  *)
(* rename or by the copy that stands in for it, as long as no full disk went *)
(* unnoticed (write_file_atomic, copy_file_to).                              *)
THEOREM StoredOnSuccess == ASSUME OneWriter PROVE Spec => SuccessMeansStored
  <1>1. ASSUME IInv, NEW w \in Writers, RemoveTmp(w) \/ Rename(w)
        PROVE  "full" \in hit \/ disk'[dir'["file"]] = Whole(writer[w].val)
    <2> SUFFICES ASSUME "full" \notin hit PROVE disk'[dir'["file"]] = Whole(writer[w].val)
      OBVIOUS
    <2>1. Progress(w) /\ dir \in [{"file", "tmp"} -> Inodes \cup {None}]
      BY <1>1, Facts
    <2>2. CASE RemoveTmp(w)
      BY <2>1, <2>2 DEF RemoveTmp, Progress
    <2>3. CASE Rename(w)
      BY <2>1, <2>3 DEF Rename, Progress
    <2>4. QED
      BY <1>1, <2>2, <2>3
  <1>2. IInv /\ [Next]_vars =>
          [\A w \in Writers : RemoveTmp(w) \/ Rename(w) =>
             "full" \in hit \/ disk'[dir'["file"]] = Whole(writer[w].val)]_vars
    BY <1>1
  <1>3. QED
    BY Invariant, <1>2, PTL DEF Spec, SuccessMeansStored

-----------------------------------------------------------------------------
(* The refinement of AtomicFile                                              *)

Pending == [w \in Writers |-> writer[w].val]

LEMMA InitMaps == Init => Atomic!Init
  <1> SUFFICES ASSUME Init PROVE Atomic!Init
    OBVIOUS
  <1>1. dir["file"] = None /\ hit = {}
    BY DEF Init
  <1>2. ContentsNow = None
    BY <1>1 DEF ContentsNow
  <1>3. [w \in Writers |-> writer[w].val] = [w \in Writers |-> None]
    BY DEF Init, Idle
  <1>4. Voided = FALSE
    BY <1>1 DEF Voided
  <1>5. QED
    BY <1>2, <1>3, <1>4 DEF Atomic!Init

(* A step that leaves the files as they are and the promise standing.        *)
LEMMA ContentsUnchanged ==
    ASSUME UNCHANGED << dir, disk >>
    PROVE  UNCHANGED ContentsNow
BY DEF ContentsNow, Whole

(* A step that writes elsewhere leaves the contents alone.                   *)
LEMMA ContentsAside ==
    ASSUME IInv, NEW i \in Inodes, NEW x, disk' = [disk EXCEPT ![i] = x], i # dir["file"],
           dir'["file"] = dir["file"]
    PROVE  UNCHANGED ContentsNow
  <1>1. dir["file"] \in Inodes \cup {None} /\ disk \in [Inodes -> Seq(Block)]
    BY DEF IInv, Typed, FilesTyped
  <1>2. dir["file"] # None => disk'[dir["file"]] = disk[dir["file"]]
    BY <1>1
  <1>3. CASE dir["file"] = None
    BY <1>3 DEF ContentsNow
  <1>4. CASE dir["file"] # None
    <2>1. disk'[dir'["file"]] = disk[dir["file"]] /\ dir'["file"] # None
      BY <1>2, <1>4
    <2>2. /\ ContentsNow = IF \E v \in Values : disk[dir["file"]] = Whole(v)
                             THEN disk[dir["file"]][1] ELSE Zero
          /\ ContentsNow' = IF \E v \in Values : disk'[dir'["file"]] = Whole(v)
                              THEN disk'[dir'["file"]][1] ELSE Zero
      BY <1>4, <2>1 DEF ContentsNow
    <2>3. QED
      BY <2>1, <2>2
  <1>5. QED
    BY <1>3, <1>4

LEMMA WriteMaps ==
    ASSUME OneWriter, IInv, IInv', ~Voided', NEW w \in Writers, Write(w) \/ Kill(w)
    PROVE  Atomic!Next \/ UNCHANGED << ContentsNow, Pending, Voided >>
  <1>1. writer[w] \in WriterType /\ writer \in [Writers -> WriterType] /\ Opened(writer[w])
        /\ None \notin Values /\ None \notin Inodes
    BY Facts
  <1>2. hit \subseteq hit'
    BY DEF Write, Kill, Start, OpenTmp, WriteBlock, WriteFails, CloseTmp, Rename,
           RenameFails, CopyOpen, CopyBlock, CopyEnd, RemoveTmp
  <1>3. ~Voided /\ UNCHANGED Voided /\ "full" \notin hit /\ "full" \notin hit'
    BY <1>2 DEF Voided
  <1>4. Progress(w) /\ Progress(w)'
    BY <1>3 DEF IInv, Underway
  <1>5. writer[w].pc \notin {"copy", "copying", "remove"} /\ writer'[w].pc # "copy"
    BY <1>3 DEF IInv, Promise
  <1>6. ASSUME NEW v \in Values, Start(w, v) PROVE Atomic!Begin(w, v)
    <2>1. writer[w].val = None /\ writer' = [writer EXCEPT ![w] = [Idle EXCEPT !.pc = "open", !.val = v]]
      BY <1>1, <1>6 DEF Start, Opened
    <2>2. [Idle EXCEPT !.pc = "open", !.val = v].val = v
      BY DEF Idle
    <2>3. Pending' = [Pending EXCEPT ![w] = v] /\ Pending[w] = None
      BY <1>1, <2>1, <2>2 DEF Pending
    <2>4. UNCHANGED ContentsNow
      BY <1>6, ContentsUnchanged DEF Start
    <2>5. QED
      BY <1>3, <2>3, <2>4 DEF Atomic!Begin, Pending
  <1>7. ASSUME Return(w), writer[w].pc # "idle"
        PROVE  Pending' = [Pending EXCEPT ![w] = None] /\ Pending[w] \in Values /\ Pending[w] # None
    BY <1>1, <1>7 DEF Pending, Return, Idle, Opened
  <1>8. CASE WriteFails(w) \/ Kill(w)
    <2>1. UNCHANGED ContentsNow /\ Return(w) /\ writer[w].pc # "idle"
      BY <1>8, ContentsUnchanged DEF WriteFails, Kill
    <2>2. Atomic!Abort(w)
      BY <1>3, <1>7, <2>1 DEF Atomic!Abort, Pending
    <2>3. QED
      BY <2>2 DEF Atomic!Next
  <1>9. CASE Rename(w)
    <2>1. /\ dir'["file"] = dir["tmp"] /\ dir["tmp"] # None /\ UNCHANGED disk
          /\ Return(w) /\ writer[w].pc = "rename"
      BY <1>9, Facts DEF Rename
    <2>2. disk'[dir'["file"]] = Whole(writer[w].val) /\ writer[w].val \in Values
      BY <1>1, <1>4, <2>1 DEF Progress, Opened
    <2>3. Whole(writer[w].val)[1] = writer[w].val
      BY <2>2, WholeFacts
    <2>4. ContentsNow' = Pending[w]
      BY <2>1, <2>2, <2>3 DEF ContentsNow, Pending, Whole
    <2>5. Atomic!Commit(w)
      BY <1>3, <1>7, <2>1, <2>4 DEF Atomic!Commit, Pending
    <2>6. QED
      BY <2>5 DEF Atomic!Next
  <1>10. CASE OpenTmp(w)
    <2>1. PICK i \in Inodes : /\ Truncate("tmp", i)
                              /\ writer' = [writer EXCEPT ![w].pc = "write", ![w].out = i]
      BY <1>10 DEF OpenTmp
    <2>2. UNCHANGED Pending
      BY <1>1, <2>1 DEF Pending, WriterType
    <2>3. i # dir["file"] /\ dir'["file"] = dir["file"] /\ disk' = [disk EXCEPT ![i] = << >>]
      BY <1>1, <2>1, Facts DEF Truncate, FreeInodes, IInv, NamesApart
    <2>4. QED
      BY <1>3, <2>2, <2>3, ContentsAside
  <1>11. CASE WriteBlock(w) \/ CloseTmp(w)
    <2> DEFINE i == writer[w].out
    <2>1. writer[w].pc = "write" /\ i \in Inodes /\ i = dir["tmp"]
      BY <1>1, <1>4, <1>11 DEF WriteBlock, CloseTmp, Opened, Progress
    <2>2. UNCHANGED Pending
      BY <1>1, <1>11 DEF Pending, WriterType, WriteBlock, CloseTmp
    <2>3. i # dir["file"]
      BY <1>1, <2>1 DEF IInv, NamesApart
    <2>4. UNCHANGED dir
      BY <1>11 DEF WriteBlock, CloseTmp
    <2>5. UNCHANGED ContentsNow
      <3>1. CASE WriteBlock(w)
        BY <2>1, <2>3, <2>4, <3>1, ContentsAside DEF WriteBlock
      <3>2. CASE CloseTmp(w)
        <4>1. CASE UNCHANGED disk
          BY <2>4, <4>1, ContentsUnchanged
        <4>2. CASE \E x : disk' = [disk EXCEPT ![i] = x]
          BY <2>1, <2>3, <2>4, <4>2, ContentsAside
        <4>3. QED
          BY <3>2, <4>1, <4>2 DEF CloseTmp
      <3>3. QED
        BY <1>11, <3>1, <3>2
    <2>6. QED
      BY <1>3, <2>2, <2>5
  <1>12. CASE RenameFails(w)
    BY <1>1, <1>5, <1>12 DEF RenameFails, WriterType
  <1>13. QED
    <2>1. ASSUME \E v \in Values : Start(w, v) PROVE Atomic!Next
      BY <1>6, <2>1 DEF Atomic!Next
    <2>2. ~(CopyOpen(w) \/ CopyBlock(w) \/ CopyEnd(w) \/ RemoveTmp(w))
      BY <1>5 DEF CopyOpen, CopyBlock, CopyEnd, RemoveTmp
    <2>3. QED
      BY <2>1, <2>2, <1>8, <1>9, <1>10, <1>11, <1>12 DEF Write

LEMMA StepMaps ==
    ASSUME OneWriter, IInv, IInv', [Next]_vars
    PROVE  Atomic!Next \/ UNCHANGED << ContentsNow, Pending, Voided >>
  <1>1. CASE Voided'
    BY <1>1 DEF Atomic!Next, Atomic!Void, Voided
  <1>2. CASE ~Voided'
    <2>1. ASSUME NEW w \in Writers, Write(w) \/ Kill(w)
          PROVE  Atomic!Next \/ UNCHANGED << ContentsNow, Pending, Voided >>
      BY <1>2, <2>1, WriteMaps
    <2>2. CASE (\E r \in Readers : Read(r)) \/ (\E i \in Inodes : Sync(i)) \/ UNCHANGED vars
      <3>1. UNCHANGED << dir, disk, writer, hit >>
        BY <2>2 DEF Read, ReadOpen, ReadBlock, ReadEnd, Sync, vars
      <3>2. UNCHANGED << ContentsNow, Pending, Voided >>
        BY <3>1, ContentsUnchanged DEF Pending, Voided
      <3>3. QED
        BY <3>2
    <2>3. ~PowerLoss
      <3>1. PowerLoss => "power" \in hit'
        BY DEF PowerLoss
      <3>2. QED
        BY <1>2, <3>1 DEF Voided
    <2>4. QED
      BY <2>1, <2>2, <2>3 DEF Next
  <1>3. QED
    BY <1>1, <1>2

(* One writer at a time, killed wherever you like, keeps the promise of      *)
(* README.md:40 and :198: the contents change at once, in the step that      *)
(* renames, and not at all when the writer gives up or is killed             *)
(* (write_file_atomic).                                                      *)
THEOREM ImplementsAtomicFile == ASSUME OneWriter PROVE Spec => RefinesAtomicFile
  <1>1. IInv /\ IInv' /\ [Next]_vars
            => [Atomic!Next]_<< ContentsNow, [w \in Writers |-> writer[w].val], Voided >>
    BY StepMaps DEF Pending
  <1>2. QED
    BY InitMaps, Invariant, <1>1, PTL DEF Spec, RefinesAtomicFile, Atomic!Spec, Atomic!vars

-----------------------------------------------------------------------------
(* Reading a text character by character.  A step is a function here, so     *)
(* that one lemma is about every reader.                                     *)

(* A set of numbers with a member has a least one.                           *)
LEMMA LeastNumber ==
    ASSUME NEW S \in SUBSET Nat, S # {}
    PROVE  \E n \in S : \A k \in S : n <= k
  <1>1. \E n \in S : \A k \in S : << k, n >> \notin OpToRel(<, Nat)
    BY NatLessThanWellFounded, WFMin
  <1>2. PICK n \in S : \A k \in S : ~(k < n)
    BY <1>1 DEF OpToRel
  <1>3. QED
    BY <1>2

(* What holds of 0, and of each number after one it holds of, holds up to N.  *)
LEMMA Upwards ==
    ASSUME NEW N \in Nat, NEW G, 0 \in G, \A n \in 0 .. N - 1 : n \in G => n + 1 \in G
    PROVE  \A n \in 0 .. N : n \in G
  <1> DEFINE Bad == {n \in 0 .. N : n \notin G}
  <1>1. SUFFICES ASSUME Bad # {}
                 PROVE  FALSE
    OBVIOUS
  <1>2. Bad \in SUBSET Nat
    OBVIOUS
  <1>3. PICK m \in Bad : \A j \in Bad : m <= j
    BY <1>1, <1>2, LeastNumber
  <1>4. m \in 0 .. N /\ m # 0 /\ m \notin G
    BY <1>3
  <1>5. m - 1 \in 0 .. N - 1 /\ (m - 1) + 1 = m /\ m - 1 \notin Bad
    BY <1>3, <1>4
  <1>6. QED
    BY <1>4, <1>5

\* f goes through the first m places of a text.
Walks(f, S, step, start, text, m) ==
    /\ f \in [0 .. m -> S] /\ f[0] = start
    /\ \A k \in 0 .. m - 1 : f[k + 1] = step[<< f[k], text[k + 1] >>]

(* A walk reads a text to its end.                                           *)
LEMMA WalkExists ==
    ASSUME NEW S, NEW C, NEW step \in [S \X C -> S], NEW start \in S, NEW text \in Seq(C)
    PROVE  \E f : Walks(f, S, step, start, text, Len(text))
  <1> DEFINE Upto(m) == \E f : Walks(f, S, step, start, text, m)
  <1>1. Len(text) \in Nat /\ \A k \in 1 .. Len(text) : text[k] \in C
    BY ElementOfSeq, LenProperties
  <1>2. Upto(0)
    <2> DEFINE f == [k \in 0 .. 0 |-> start]
    <2>1. Walks(f, S, step, start, text, 0)
      BY DEF Walks
    <2>2. QED
      BY <2>1
  <1>3. ASSUME NEW m \in 0 .. Len(text) - 1, Upto(m)
        PROVE  Upto(m + 1)
    <2>1. PICK f : Walks(f, S, step, start, text, m)
      BY <1>3
    <2> DEFINE g == [k \in 0 .. m + 1 |-> IF k = m + 1 THEN step[<< f[m], text[m + 1] >>] ELSE f[k]]
    <2>2. text[m + 1] \in C /\ m \in Nat
      BY <1>1
    <2>3. f[m] \in S /\ \A k \in 0 .. m : f[k] \in S
      BY <2>1, <2>2 DEF Walks
    <2>4. step[<< f[m], text[m + 1] >>] \in S
      BY <2>2, <2>3
    <2>5. g \in [0 .. m + 1 -> S]
      BY <2>2, <2>3, <2>4
    <2>6. g[m + 1] = step[<< f[m], text[m + 1] >>] /\ \A k \in 0 .. m : g[k] = f[k]
      BY <2>2
    <2> HIDE DEF g
    <2>7. g[0] = start
      BY <2>1, <2>2, <2>6 DEF Walks
    <2>8. ASSUME NEW k \in 0 .. (m + 1) - 1
          PROVE  g[k + 1] = step[<< g[k], text[k + 1] >>]
      <3>1. CASE k = m
        BY <2>2, <2>6, <3>1
      <3>2. CASE k # m
        <4>1. k \in 0 .. m - 1 /\ k \in 0 .. m /\ k + 1 \in 0 .. m
          BY <2>2, <3>2
        <4>2. f[k + 1] = step[<< f[k], text[k + 1] >>]
          BY <2>1, <4>1 DEF Walks
        <4>3. QED
          BY <2>6, <4>1, <4>2
      <3>3. QED
        BY <3>1, <3>2
    <2>9. Walks(g, S, step, start, text, m + 1)
      BY <2>5, <2>7, <2>8 DEF Walks
    <2>10. QED
      BY <2>9
  <1> HIDE DEF Upto
  <1>4. \A n \in 0 .. Len(text) : Upto(n)
    <2> DEFINE G == {n \in 0 .. Len(text) : Upto(n)}
    <2>1. 0 \in G /\ \A n \in 0 .. Len(text) - 1 : n \in G => n + 1 \in G
      BY <1>1, <1>2, <1>3
    <2>2. Len(text) \in Nat
      BY <1>1
    <2> HIDE DEF G
    <2>3. \A n \in 0 .. Len(text) : n \in G
      BY <2>1, <2>2, Upwards
    <2>4. QED
      BY <2>3 DEF G
  <1>5. Upto(Len(text))
    BY <1>1, <1>4
  <1>6. QED
    BY <1>5 DEF Upto

\* g does so as long as it stays in S.
Follows(g, S, step, start, text, m) ==
    /\ g[0] = start
    /\ \A k \in 0 .. m - 1 : g[k] \in S => g[k + 1] = step[<< g[k], text[k + 1] >>]

(* There is one way through a text.                                          *)
LEMMA WalkUnique ==
    ASSUME NEW S, NEW step, NEW start, NEW text, NEW n \in Nat,
           NEW f, Walks(f, S, step, start, text, n),
           NEW g, Follows(g, S, step, start, text, n)
    PROVE  g[n] = f[n]
  <1> DEFINE Bad == {m \in 0 .. n : g[m] # f[m]}
  <1>1. Bad = {}
    <2>1. SUFFICES ASSUME Bad # {}
                   PROVE  FALSE
      OBVIOUS
    <2>2. Bad \in SUBSET Nat
      OBVIOUS
    <2>3. PICK m \in Bad : \A j \in Bad : m <= j
      BY <2>1, <2>2, LeastNumber
    <2>4. m \in 0 .. n /\ g[m] # f[m] /\ m # 0
      BY <2>3 DEF Walks, Follows
    <2>5. m - 1 \in 0 .. n - 1 /\ (m - 1) + 1 = m /\ m - 1 \notin Bad /\ m - 1 \in 0 .. n
      BY <2>3, <2>4
    <2>6. g[m - 1] = f[m - 1]
      BY <2>5
    <2>7. f[m - 1] \in S /\ f[(m - 1) + 1] = step[<< f[m - 1], text[(m - 1) + 1] >>]
      BY <2>5 DEF Walks
    <2>8. g[(m - 1) + 1] = step[<< g[m - 1], text[(m - 1) + 1] >>]
      BY <2>5, <2>6, <2>7 DEF Follows
    <2>9. QED
      BY <2>4, <2>5, <2>6, <2>7, <2>8
  <1>2. QED
    BY <1>1

\* Where the way through a text ends.
End(S, step, start, text) ==
    (CHOOSE f : Walks(f, S, step, start, text, Len(text)))[Len(text)]

\* A step is a function from a state and a character to a state.
Steps(step, S, C) == step \in [S \X C -> S]

(* One text after the other is read from where the one has ended.            *)
LEMMA EndFacts ==
    ASSUME NEW S, NEW C, NEW step, Steps(step, S, C), NEW start \in S
    PROVE  /\ End(S, step, start, << >>) = start
           /\ \A c \in C : End(S, step, start, << c >>) = step[<< start, c >>]
           /\ \A a \in Seq(C) : End(S, step, start, a) \in S
           /\ \A a, b \in Seq(C) :
                 End(S, step, start, a \o b) = End(S, step, End(S, step, start, a), b)
  <1>1. ASSUME NEW st \in S, NEW a \in Seq(C)
        PROVE  \E f : Walks(f, S, step, st, a, Len(a)) /\ End(S, step, st, a) = f[Len(a)]
    <2> DEFINE f == CHOOSE f : Walks(f, S, step, st, a, Len(a))
    <2>1. Walks(f, S, step, st, a, Len(a))
      BY WalkExists DEF Steps
    <2>2. QED
      BY <2>1 DEF End
  <1>2. End(S, step, start, << >>) = start
    <2>1. << >> \in Seq(C) /\ Len(<< >>) = 0
      BY EmptySeq
    <2>2. QED
      BY <1>1, <2>1 DEF Walks
  <1>3. ASSUME NEW c \in C
        PROVE  End(S, step, start, << c >>) = step[<< start, c >>]
    <2>1. << c >> \in Seq(C) /\ Len(<< c >>) = 1 /\ << c >>[1] = c
      OBVIOUS
    <2>2. PICK f : Walks(f, S, step, start, << c >>, 1) /\ End(S, step, start, << c >>) = f[1]
      BY <1>1, <2>1
    <2>3. f[0 + 1] = step[<< f[0], << c >>[0 + 1] >>] /\ f[0] = start
      BY <2>2 DEF Walks
    <2>4. QED
      BY <2>1, <2>2, <2>3
  <1>4. ASSUME NEW a \in Seq(C)
        PROVE  End(S, step, start, a) \in S
    <2>1. PICK f : Walks(f, S, step, start, a, Len(a)) /\ End(S, step, start, a) = f[Len(a)]
      BY <1>1
    <2>2. QED
      BY <2>1, LenProperties DEF Walks
  <1>5. ASSUME NEW a \in Seq(C), NEW b \in Seq(C)
        PROVE  End(S, step, start, a \o b) = End(S, step, End(S, step, start, a), b)
    <2> DEFINE m == Len(a)
               n == Len(b)
               t == a \o b
    <2>1. /\ m \in Nat /\ n \in Nat /\ t \in Seq(C) /\ Len(t) = m + n
          /\ \A k \in 1 .. m + n : t[k] = IF k <= m THEN a[k] ELSE b[k - m]
      BY ConcatProperties, LenProperties
    <2>2. PICK f : Walks(f, S, step, start, a, m) /\ End(S, step, start, a) = f[m]
      BY <1>1
    <2>3. f[m] \in S
      BY <2>1, <2>2 DEF Walks
    <2>4. PICK g : Walks(g, S, step, f[m], b, n) /\ End(S, step, f[m], b) = g[n]
      BY <1>1, <2>3
    <2>5. PICK h : Walks(h, S, step, start, t, Len(t)) /\ End(S, step, start, t) = h[Len(t)]
      BY <1>1, <2>1
    <2> DEFINE w == [k \in 0 .. m + n |-> IF k <= m THEN f[k] ELSE g[k - m]]
    <2> HIDE DEF m, n, t
    <2>6. /\ \A k \in 0 .. m : w[k] = f[k]
          /\ \A k \in 0 .. n : w[m + k] = g[k]
      <3>1. \A k \in 0 .. m : w[k] = f[k]
        BY <2>1
      <3>2. ASSUME NEW k \in 0 .. n
            PROVE  w[m + k] = g[k]
        <4>1. CASE k = 0
          BY <2>1, <2>4, <4>1 DEF Walks
        <4>2. CASE k # 0
          <5>1. m + k \in 0 .. m + n /\ ~(m + k <= m) /\ (m + k) - m = k
            BY <2>1, <4>2
          <5>2. QED
            BY <5>1
        <4>3. QED
          BY <4>1, <4>2
      <3>3. QED
        BY <3>1, <3>2
    <2> HIDE DEF w
    <2>7. w[0] = start
      BY <2>1, <2>2, <2>6 DEF Walks
    <2>8. ASSUME NEW k \in 0 .. (m + n) - 1
          PROVE  w[k + 1] = step[<< w[k], t[k + 1] >>]
      <3>1. CASE k < m
        <4>1. k \in 0 .. m - 1 /\ k \in 0 .. m /\ k + 1 \in 0 .. m /\ k + 1 \in 1 .. m + n /\ k + 1 <= m
          BY <2>1, <3>1
        <4>2. f[k + 1] = step[<< f[k], a[k + 1] >>]
          BY <2>2, <4>1 DEF Walks
        <4>3. QED
          BY <2>1, <2>6, <4>1, <4>2
      <3>2. CASE k >= m
        <4> DEFINE i == k - m
        <4>1. /\ i \in 0 .. n - 1 /\ i \in 0 .. n /\ i + 1 \in 0 .. n /\ k = m + i
              /\ k + 1 = m + (i + 1) /\ k + 1 \in 1 .. m + n /\ ~(k + 1 <= m) /\ (k + 1) - m = i + 1
          <5>1. m \in Nat /\ n \in Nat /\ k \in Nat /\ m <= k /\ k <= (m + n) - 1
            BY <2>1, <3>2
          <5>2. i \in 0 .. n - 1 /\ i \in 0 .. n /\ i + 1 \in 0 .. n
            BY <5>1
          <5>3. k = m + i /\ k + 1 = m + (i + 1) /\ (k + 1) - m = i + 1
            BY <5>1
          <5>4. k + 1 \in 1 .. m + n /\ ~(k + 1 <= m)
            BY <5>1
          <5>5. QED
            BY <5>2, <5>3, <5>4
        <4> HIDE DEF i
        <4>2. g[i + 1] = step[<< g[i], b[i + 1] >>]
          BY <2>4, <4>1 DEF Walks
        <4>3. w[m + i] = g[i] /\ w[m + (i + 1)] = g[i + 1]
          BY <2>6, <4>1
        <4>4. t[k + 1] = b[i + 1]
          BY <2>1, <4>1
        <4>5. QED
          BY <4>1, <4>2, <4>3, <4>4
      <3>3. QED
        BY <2>1, <3>1, <3>2
    <2>9. w[m + n] = h[m + n]
      <3>1. m + n \in Nat /\ Walks(h, S, step, start, t, m + n)
        BY <2>1, <2>5
      <3>2. Follows(w, S, step, start, t, m + n)
        BY <2>7, <2>8 DEF Follows
      <3>3. QED
        BY <3>1, <3>2, WalkUnique
    <2>10. w[m + n] = g[n]
      <3>1. n \in 0 .. n
        BY <2>1
      <3>2. QED
        BY <2>6, <3>1
    <2>11. QED
      BY <2>1, <2>2, <2>4, <2>5, <2>9, <2>10 DEF t
  <1>6. QED
    BY <1>2, <1>3, <1>4, <1>5

(* Nothing is read of an empty text.                                         *)
LEMMA EndEmpty ==
    ASSUME NEW S, NEW C, NEW step, Steps(step, S, C), NEW start \in S
    PROVE  End(S, step, start, << >>) = start
  BY EndFacts

(* A text of one character is read in one step.                              *)
LEMMA EndOne ==
    ASSUME NEW S, NEW C, NEW step, Steps(step, S, C), NEW start \in S, NEW c \in C
    PROVE  End(S, step, start, << c >>) = step[<< start, c >>]
  BY EndFacts

(* Reading stays within the states.                                          *)
LEMMA EndStays ==
    ASSUME NEW S, NEW C, NEW step, Steps(step, S, C), NEW start \in S, NEW a \in Seq(C)
    PROVE  End(S, step, start, a) \in S
  BY EndFacts

(* The second text is read from where the first has ended.                   *)
LEMMA EndJoined ==
    ASSUME NEW S, NEW C, NEW step, Steps(step, S, C), NEW start \in S,
           NEW a \in Seq(C), NEW b \in Seq(C)
    PROVE  End(S, step, start, a \o b) = End(S, step, End(S, step, start, a), b)
  BY EndFacts

-----------------------------------------------------------------------------
(* Pieces put together.                                                      *)

\* What the recursion in FlattenSeq asks for.
Flattens(f, pieces) ==
    f = [i \in 1 .. Len(pieces) |-> IF i = 1 THEN pieces[i] ELSE f[i - 1] \o pieces[i]]

\* Joining two texts, as a step.
Joining(T) == [x \in Seq(T) \X Seq(T) |-> x[1] \o x[2]]

(* Joining is concatenation.                                                 *)
LEMMA JoiningFacts ==
    ASSUME NEW T
    PROVE  /\ Steps(Joining(T), Seq(T), Seq(T))
           /\ \A a, b \in Seq(T) : Joining(T)[<< a, b >>] = a \o b
  BY ConcatProperties DEF Steps, Joining

(* FlattenSeq joins piece after piece.                                       *)
LEMMA FlattenIsEnd ==
    ASSUME NEW T, NEW pieces \in Seq(Seq(T))
    PROVE  FlattenSeq(pieces) = End(Seq(T), Joining(T), << >>, pieces)
  <1> DEFINE step == Joining(T)
             n    == Len(pieces)
  <1>1. Steps(step, Seq(T), Seq(T))
    BY JoiningFacts
  <1>2. /\ n \in Nat /\ \A k \in 1 .. n : pieces[k] \in Seq(T)
        /\ << >> \in Seq(T) /\ \A a, b \in Seq(T) : step[<< a, b >>] = a \o b
    BY ElementOfSeq, LenProperties, EmptySeq, JoiningFacts
  <1> HIDE DEF step
  <1>3. CASE n = 0
    <2>1. pieces = << >>
      BY <1>3, EmptySeq
    <2>2. End(Seq(T), step, << >>, pieces) = << >>
      BY <1>1, <1>2, <2>1, EndEmpty
    <2>3. FlattenSeq(pieces) = pieces
      BY <1>3 DEF FlattenSeq
    <2>4. QED
      BY <1>1, <2>1, <2>2, <2>3 DEF step
  <1>4. CASE n # 0
    <2> DEFINE w == CHOOSE f : Walks(f, Seq(T), step, << >>, pieces, n)
               f == [i \in 1 .. n |-> w[i]]
               g == CHOOSE h : Flattens(h, pieces)
               g0 == [i \in 0 .. n |-> IF i = 0 THEN << >> ELSE g[i]]
    <2>1. Walks(w, Seq(T), step, << >>, pieces, n)
      BY <1>1, <1>2, WalkExists DEF Steps
    <2>2. End(Seq(T), step, << >>, pieces) = w[n]
      BY DEF End
    <2> HIDE DEF w
    <2>3. /\ w[0] = << >> /\ \A k \in 0 .. n : w[k] \in Seq(T)
          /\ \A k \in 0 .. n - 1 : w[k + 1] = w[k] \o pieces[k + 1]
      <3>1. ASSUME NEW k \in 0 .. n - 1
            PROVE  w[k + 1] = w[k] \o pieces[k + 1]
        <4>1. k \in 0 .. n /\ k + 1 \in 1 .. n
          BY <1>2
        <4>2. w[k] \in Seq(T) /\ pieces[k + 1] \in Seq(T)
          BY <1>2, <2>1, <4>1 DEF Walks
        <4>3. w[k + 1] = step[<< w[k], pieces[k + 1] >>]
          BY <2>1 DEF Walks
        <4>4. QED
          BY <1>2, <4>2, <4>3
      <3>2. QED
        BY <2>1, <3>1 DEF Walks
    <2>4. ASSUME NEW i \in 1 .. n
          PROVE  w[i] = IF i = 1 THEN pieces[i] ELSE w[i - 1] \o pieces[i]
      <3>1. i - 1 \in 0 .. n - 1 /\ (i - 1) + 1 = i
        BY <1>2
      <3>2. w[i] = w[i - 1] \o pieces[i]
        BY <2>3, <3>1
      <3>3. CASE i = 1
        <4>1. w[i] = << >> \o pieces[i] /\ pieces[i] \in Seq(T)
          <5>1. i - 1 = 0
            BY <3>3
          <5>2. QED
            BY <1>2, <2>3, <3>2, <5>1
        <4>2. QED
          BY <3>3, <4>1, ConcatEmptySeq
      <3>4. QED
        BY <3>2, <3>3
    <2>5. \A i \in 1 .. n : i # 1 => i - 1 \in 1 .. n
      BY <1>2
    <2>6. Flattens(f, pieces)
      BY <2>4, <2>5 DEF Flattens
    <2>7. Flattens(g, pieces)
      BY <2>6
    <2>8. FlattenSeq(pieces) = g[n]
      BY <1>4 DEF FlattenSeq, Flattens
    <2> HIDE DEF g, f
    <2>9. \A i \in 1 .. n : g[i] = IF i = 1 THEN pieces[i] ELSE g[i - 1] \o pieces[i]
      BY <2>7 DEF Flattens
    <2>10. g0[0] = << >> /\ \A i \in 1 .. n : g0[i] = g[i]
      BY <1>2
    <2> HIDE DEF g0
    <2>11. Follows(g0, Seq(T), step, << >>, pieces, n)
      <3>1. ASSUME NEW k \in 0 .. n - 1, g0[k] \in Seq(T)
            PROVE  g0[k + 1] = step[<< g0[k], pieces[k + 1] >>]
        <4>1. k + 1 \in 1 .. n /\ (k + 1) - 1 = k /\ pieces[k + 1] \in Seq(T)
          BY <1>2
        <4>2. step[<< g0[k], pieces[k + 1] >>] = g0[k] \o pieces[k + 1]
          BY <1>2, <3>1, <4>1
        <4>3. CASE k = 0
          <5>1. g0[k] \o pieces[k + 1] = pieces[k + 1]
            BY <2>10, <4>1, <4>3, ConcatEmptySeq
          <5>2. g0[k + 1] = pieces[k + 1]
            BY <2>9, <2>10, <4>1, <4>3
          <5>3. QED
            BY <4>2, <5>1, <5>2
        <4>4. CASE k # 0
          <5>1. k \in 1 .. n /\ k + 1 # 1
            BY <1>2, <4>4
          <5>2. g0[k + 1] = g[k] \o pieces[k + 1] /\ g0[k] = g[k]
            BY <2>9, <2>10, <4>1, <5>1
          <5>3. QED
            BY <4>2, <5>2
        <4>5. QED
          BY <4>3, <4>4
      <3>2. QED
        BY <2>10, <3>1 DEF Follows
    <2>12. g0[n] = w[n]
      BY <1>2, <2>1, <2>11, WalkUnique
    <2>13. n \in 1 .. n
      BY <1>2, <1>4
    <2>14. QED
      BY <1>1, <2>2, <2>8, <2>10, <2>12, <2>13 DEF step
  <1>5. QED
    BY <1>3, <1>4

(* What FlattenSeq makes of no pieces and of one piece more.                 *)
LEMMA FlattenFacts ==
    ASSUME NEW T
    PROVE  /\ FlattenSeq(<< >>) = << >>
           /\ \A p \in Seq(Seq(T)) : FlattenSeq(p) \in Seq(T)
           /\ \A p \in Seq(Seq(T)) : \A x \in Seq(T) :
                 FlattenSeq(Append(p, x)) = FlattenSeq(p) \o x
  <1> DEFINE step == Joining(T)
             none == << >>
  <1>1. /\ Steps(step, Seq(T), Seq(T))
        /\ \A a, b \in Seq(T) : step[<< a, b >>] = a \o b
    BY JoiningFacts
  <1>2. none \in Seq(T) /\ none \in Seq(Seq(T))
    BY EmptySeq
  <1>3. \A p \in Seq(Seq(T)) : FlattenSeq(p) = End(Seq(T), step, none, p)
    BY FlattenIsEnd
  <1>4. FlattenSeq(<< >>) = << >>
    BY <1>1, <1>2, <1>3, EndEmpty
  <1> HIDE DEF step, none
  <1>5. ASSUME NEW p \in Seq(Seq(T))
        PROVE  FlattenSeq(p) \in Seq(T)
    BY <1>1, <1>2, <1>3, EndStays
  <1>6. ASSUME NEW p \in Seq(Seq(T)), NEW x \in Seq(T)
        PROVE  FlattenSeq(Append(p, x)) = FlattenSeq(p) \o x
    <2> DEFINE z == << x >>
               e == End(Seq(T), step, none, p)
    <2>1. Append(p, x) = p \o z /\ z \in Seq(Seq(T)) /\ Append(p, x) \in Seq(Seq(T))
      BY AppendIsConcat, AppendProperties
    <2>2. e \in Seq(T) /\ e = FlattenSeq(p)
      BY <1>3, <1>5
    <2>3. End(Seq(T), step, e, z) = step[<< e, x >>]
      <3> HIDE DEF e
      <3>1. QED
        BY <1>1, <2>2, EndOne
    <2> HIDE DEF z
    <2>4. End(Seq(T), step, none, p \o z) = End(Seq(T), step, e, z)
      BY <1>1, <1>2, <2>1, EndJoined
    <2> HIDE DEF e
    <2>5. QED
      BY <1>1, <1>3, <2>1, <2>2, <2>3, <2>4
  <1>7. QED
    BY <1>4, <1>5, <1>6

(* The first k members of a sequence, one after the other.                   *)
LEMMA UptoFacts ==
    ASSUME NEW T, NEW s \in Seq(T)
    PROVE  /\ Len(s) \in Nat /\ DOMAIN s = 1 .. Len(s) /\ \A k \in 1 .. Len(s) : s[k] \in T
           /\ SubSeq(s, 1, 0) = << >> /\ SubSeq(s, 1, Len(s)) = s
           /\ \A k \in 0 .. Len(s) : SubSeq(s, 1, k) \in Seq(T) /\ Len(SubSeq(s, 1, k)) = k
           /\ \A k \in 0 .. Len(s) - 1 : SubSeq(s, 1, k + 1) = Append(SubSeq(s, 1, k), s[k + 1])
  <1>1. Len(s) \in Nat /\ DOMAIN s = 1 .. Len(s) /\ \A k \in 1 .. Len(s) : s[k] \in T
    BY ElementOfSeq, LenProperties
  <1>2. SubSeq(s, 1, 0) = << >>
    BY SubSeqEmpty
  <1>3. SubSeq(s, 1, Len(s)) = s
    BY SubSeqFull
  <1>4. ASSUME NEW k \in 0 .. Len(s)
        PROVE  SubSeq(s, 1, k) \in Seq(T) /\ Len(SubSeq(s, 1, k)) = k
    BY <1>1
  <1>5. ASSUME NEW k \in 0 .. Len(s) - 1
        PROVE  SubSeq(s, 1, k + 1) = Append(SubSeq(s, 1, k), s[k + 1])
    BY <1>1
  <1>6. QED
    BY <1>1, <1>2, <1>3, <1>4, <1>5

\* q tells where the reading of each piece ends.
Passing(q, S, step, start, pieces) ==
    /\ q[0] = start
    /\ \A k \in 0 .. Len(pieces) - 1 :
          q[k] \in S => End(S, step, q[k], pieces[k + 1]) = q[k + 1]

(* A text of pieces is read piece by piece.                                  *)
LEMMA EndFlattened ==
    ASSUME NEW S, NEW C, NEW step, Steps(step, S, C), NEW start \in S,
           NEW pieces \in Seq(Seq(C)), NEW q, Passing(q, S, step, start, pieces),
           NEW n \in 0 .. Len(pieces)
    PROVE  End(S, step, start, FlattenSeq(SubSeq(pieces, 1, n))) = q[n]
  <1> DEFINE Text(k) == FlattenSeq(SubSeq(pieces, 1, k))
             Good(k) == Text(k) \in Seq(C) /\ q[k] \in S /\ End(S, step, start, Text(k)) = q[k]
  <1>1. /\ Len(pieces) \in Nat /\ \A k \in 1 .. Len(pieces) : pieces[k] \in Seq(C)
        /\ SubSeq(pieces, 1, 0) = << >>
        /\ \A k \in 0 .. Len(pieces) : SubSeq(pieces, 1, k) \in Seq(Seq(C))
        /\ \A k \in 0 .. Len(pieces) - 1 :
              SubSeq(pieces, 1, k + 1) = Append(SubSeq(pieces, 1, k), pieces[k + 1])
    BY UptoFacts
  <1>2. Good(0)
    <2>1. Text(0) = << >> /\ << >> \in Seq(C)
      BY <1>1, FlattenFacts, EmptySeq
    <2>2. q[0] = start
      BY DEF Passing
    <2>3. End(S, step, start, << >>) = start
      BY EndEmpty
    <2>4. QED
      BY <2>1, <2>2, <2>3
  <1>3. ASSUME NEW k \in 0 .. Len(pieces) - 1, Good(k)
        PROVE  Good(k + 1)
    <2> DEFINE u == SubSeq(pieces, 1, k)
               x == pieces[k + 1]
               t == Text(k)
    <2>1. u \in Seq(Seq(C)) /\ x \in Seq(C) /\ SubSeq(pieces, 1, k + 1) = Append(u, x)
      BY <1>1
    <2> HIDE DEF u, x
    <2>2. FlattenSeq(Append(u, x)) = FlattenSeq(u) \o x
      BY <2>1, FlattenFacts
    <2>3. Text(k + 1) = t \o x
      BY <2>1, <2>2 DEF u
    <2>4. t \in Seq(C) /\ q[k] \in S /\ End(S, step, start, t) = q[k]
      BY <1>3
    <2> HIDE DEF t
    <2>5. End(S, step, start, t \o x) = End(S, step, q[k], x)
      BY <2>1, <2>4, EndJoined
    <2>6. End(S, step, q[k], x) = q[k + 1]
      BY <2>4 DEF Passing, x
    <2>7. End(S, step, q[k], x) \in S
      BY <2>1, <2>4, EndStays
    <2>8. t \o x \in Seq(C)
      BY <2>1, <2>4, ConcatProperties
    <2>9. QED
      BY <2>3, <2>5, <2>6, <2>7, <2>8
  <1> HIDE DEF Good
  <1>4. \A i \in 0 .. Len(pieces) : Good(i)
    <2> DEFINE G == {i \in 0 .. Len(pieces) : Good(i)}
    <2>1. 0 \in G /\ \A i \in 0 .. Len(pieces) - 1 : i \in G => i + 1 \in G
      BY <1>1, <1>2, <1>3
    <2>2. Len(pieces) \in Nat
      BY <1>1
    <2> HIDE DEF G
    <2>3. \A i \in 0 .. Len(pieces) : i \in G
      BY <2>1, <2>2, Upwards
    <2>4. QED
      BY <2>3 DEF G
  <1>5. QED
    BY <1>4 DEF Good

-----------------------------------------------------------------------------
(* Sequences and the printer's tables.                                       *)

(* json_min's parser knows every escape that its printer writes.             *)
LEMMA LongIsInverse ==
    /\ \A c \in DOMAIN Short : Short[c] \in DOMAIN Long /\ Long[Short[c]] = c
    /\ \A e \in DOMAIN Long : Long[e] \in Char
    /\ DOMAIN Short = {Quote, Back, LF, CR, "\t"}
  <1>1. /\ Short[Quote] = Quote /\ Short[Back] = Back /\ Short[LF] = "n" /\ Short[CR] = "r"
        /\ Short["\t"] = "t" /\ DOMAIN Short = {Quote, Back, LF, CR, "\t"}
        /\ DOMAIN Long = {Quote, Back, "n", "r", "t"}
    BY DEF Short, Long, Quote, Back, LF, CR
  <1>2. ASSUME NEW c \in DOMAIN Short
        PROVE  Short[c] \in DOMAIN Long /\ Long[Short[c]] = c
    <2>1. \A d \in DOMAIN Short : Short[d] = Short[c] => d = c
      BY <1>1 DEF Quote, Back, LF, CR
    <2>2. Short[c] \in DOMAIN Long
      BY <1>1
    <2>3. Long[Short[c]] = CHOOSE d \in DOMAIN Short : Short[d] = Short[c]
      BY <1>1, <2>2 DEF Long
    <2>4. QED
      BY <2>1, <2>2, <2>3
  <1>3. ASSUME NEW e \in DOMAIN Long
        PROVE  Long[e] \in Char
    <2>1. \E c \in DOMAIN Short : Short[c] = e
      BY <1>1
    <2>2. PICK c \in DOMAIN Short : e = Short[c]
      BY <2>1
    <2>3. Long[e] = c
      BY <1>2, <2>2
    <2>4. QED
      BY <1>1, <2>2, <2>3, CharAssumption
  <1>4. QED
    BY <1>1, <1>2, <1>3

(* A function that follows a text ends where its reading ends.               *)
LEMMA EndIs ==
    ASSUME NEW S, NEW C, NEW step, Steps(step, S, C), NEW start \in S, NEW text \in Seq(C),
           NEW g, Follows(g, S, step, start, text, Len(text))
    PROVE  End(S, step, start, text) = g[Len(text)]
  <1> DEFINE f == CHOOSE f : Walks(f, S, step, start, text, Len(text))
  <1>1. Walks(f, S, step, start, text, Len(text))
    BY WalkExists DEF Steps
  <1>2. Len(text) \in Nat
    BY LenProperties
  <1>3. g[Len(text)] = f[Len(text)]
    BY <1>1, <1>2, WalkUnique
  <1>4. QED
    BY <1>3 DEF End

(* A function on the first numbers is a sequence.                            *)
LEMMA FunctionIsSeq ==
    ASSUME NEW S, NEW n \in Nat, NEW f \in [1 .. n -> S]
    PROVE  f \in Seq(S) /\ Len(f) = n /\ DOMAIN f = 1 .. n
  OBVIOUS

(* Concatenation is associative.                                             *)
LEMMA Associative ==
    ASSUME NEW S, NEW a \in Seq(S), NEW b \in Seq(S), NEW c \in Seq(S)
    PROVE  (a \o b) \o c = a \o (b \o c)
  OBVIOUS

(* One character is a text.                                                  *)
LEMMA OneCharacter ==
    ASSUME NEW S, NEW c \in S
    PROVE  << c >> \in Seq(S)
  OBVIOUS

(* A text is its first characters and the others.                            *)
LEMMA Parted ==
    ASSUME NEW T, NEW b \in Seq(T), NEW j \in 0 .. Len(b)
    PROVE  /\ SubSeq(b, 1, j) \in Seq(T) /\ SubSeq(b, j + 1, Len(b)) \in Seq(T)
           /\ b = SubSeq(b, 1, j) \o SubSeq(b, j + 1, Len(b))
  <1>1. Len(b) \in Nat /\ j \in Nat
    BY LenProperties
  <1>2. \A i \in 1 .. Len(b) : b[i] \in T
    BY ElementOfSeq
  <1>3. SubSeq(b, 1, j) \in Seq(T)
    BY <1>1, <1>2, SubSeqProperties
  <1>4. SubSeq(b, j + 1, Len(b)) \in Seq(T)
    BY <1>1, <1>2, SubSeqProperties
  <1>5. SubSeq(b, 1, j) \o SubSeq(b, j + 1, Len(b)) = SubSeq(b, 1, Len(b))
    <2>1. 1 \in 1 .. Len(b) + 1 /\ j \in 1 - 1 .. Len(b) /\ Len(b) \in j .. Len(b)
      BY <1>1
    <2>2. QED
      BY <2>1, ConcatAdjacentSubSeq
  <1>6. QED
    BY <1>3, <1>4, <1>5, SubSeqFull

-----------------------------------------------------------------------------
(* JSON.  The states of the parser nest as deep as the text does, so its     *)
(* walks are without a set of states.                                        *)

\* Where the parser is after a text.
JsonEnd(st, text) == Through(Took, st, text)

\* f tells where it is after each character of the text.
Goes(f, st, text) ==
    /\ f[0] = st
    /\ \A k \in 0 .. Len(text) - 1 : f[k + 1] = Took(f[k], text[k + 1])

(* The parser gets through any text.                                         *)
LEMMA GoesThrough ==
    ASSUME NEW C, NEW text \in Seq(C), NEW st
    PROVE  \E f : Goes(f, st, text) /\ JsonEnd(st, text) = f[Len(text)]
  <1> DEFINE n == Len(text)
             Recursion(f, m) ==
                f = [k \in 0 .. m |-> IF k = 0 THEN st ELSE Took(f[k - 1], text[k])]
             f == CHOOSE g : Recursion(g, n)
  <1>1. n \in Nat
    BY LenProperties
  <1>2. \E g : Recursion(g, 0)
    <2> DEFINE g == [k \in 0 .. 0 |-> st]
    <2>1. g = [k \in 0 .. 0 |-> IF k = 0 THEN st ELSE Took(g[k - 1], text[k])]
      <3>1. \A k \in 0 .. 0 : k = 0
        OBVIOUS
      <3>2. QED
        BY <3>1
    <2>2. QED
      BY <2>1
  <1>3. ASSUME NEW m \in 0 .. n - 1, \E g : Recursion(g, m)
        PROVE  \E g : Recursion(g, m + 1)
    <2>1. PICK g : Recursion(g, m)
      BY <1>3
    <2>2. m \in Nat
      BY <1>1
    <2> DEFINE h == [k \in 0 .. m + 1 |-> IF k = m + 1 THEN Took(g[m], text[m + 1]) ELSE g[k]]
    <2>3. h[m + 1] = Took(g[m], text[m + 1]) /\ \A k \in 0 .. m : h[k] = g[k]
      BY <2>2
    <2>4. DOMAIN h = 0 .. m + 1 /\ h = [k \in 0 .. m + 1 |-> h[k]]
      OBVIOUS
    <2> HIDE DEF h
    <2>5. ASSUME NEW k \in 0 .. m + 1
          PROVE  h[k] = IF k = 0 THEN st ELSE Took(h[k - 1], text[k])
      <3>1. CASE k = m + 1
        <4>1. k # 0 /\ k - 1 = m /\ m \in 0 .. m
          BY <2>2, <3>1
        <4>2. QED
          BY <2>3, <3>1, <4>1
      <3>2. CASE k # m + 1
        <4>1. k \in 0 .. m /\ (k # 0 => k - 1 \in 0 .. m)
          BY <2>2, <3>2
        <4>2. g[k] = IF k = 0 THEN st ELSE Took(g[k - 1], text[k])
          BY <2>1, <4>1
        <4>3. QED
          BY <2>3, <4>1, <4>2
      <3>3. QED
        BY <3>1, <3>2
    <2>6. Recursion(h, m + 1)
      BY <2>4, <2>5
    <2>7. QED
      BY <2>6
  <1> DEFINE G == {m \in 0 .. n : \E g : Recursion(g, m)}
  <1>4. 0 \in G /\ \A m \in 0 .. n - 1 : m \in G => m + 1 \in G
    <2> HIDE DEF Recursion
    <2>1. 0 \in 0 .. n /\ \A m \in 0 .. n - 1 : m + 1 \in 0 .. n
      BY <1>1
    <2>2. QED
      BY <1>2, <1>3, <2>1
  <1>5. n \in G
    <2>1. n \in 0 .. n
      BY <1>1
    <2> HIDE DEF G, n
    <2>2. QED
      BY <1>1, <1>4, <2>1, Upwards
  <1>6. Recursion(f, n)
    <2>1. \E g : Recursion(g, n)
      BY <1>5
    <2> HIDE DEF Recursion
    <2>2. QED
      BY <2>1
  <1>7. JsonEnd(st, text) = f[n]
    BY DEF JsonEnd, Through
  <1> HIDE DEF f
  <1>8. Goes(f, st, text)
    <2>1. \A k \in 0 .. n : f[k] = IF k = 0 THEN st ELSE Took(f[k - 1], text[k])
      BY <1>6
    <2>2. 0 \in 0 .. n /\ \A k \in 0 .. n - 1 : k + 1 \in 0 .. n /\ k + 1 # 0 /\ (k + 1) - 1 = k
      BY <1>1
    <2>3. QED
      BY <2>1, <2>2 DEF Goes
  <1>9. QED
    BY <1>7, <1>8

(* It does so in one way.                                                    *)
LEMMA JsonEndIs ==
    ASSUME NEW C, NEW text \in Seq(C), NEW st, NEW g, Goes(g, st, text)
    PROVE  JsonEnd(st, text) = g[Len(text)]
  <1> DEFINE n == Len(text)
  <1>1. n \in Nat
    BY LenProperties
  <1>2. PICK f : Goes(f, st, text) /\ JsonEnd(st, text) = f[n]
    BY GoesThrough
  <1> DEFINE G == {m \in 0 .. n : f[m] = g[m]}
  <1>3. 0 \in G /\ \A m \in 0 .. n - 1 : m \in G => m + 1 \in G
    <2>1. 0 \in 0 .. n /\ \A m \in 0 .. n - 1 : m + 1 \in 0 .. n
      BY <1>1
    <2>2. QED
      BY <1>2, <2>1 DEF Goes
  <1>4. n \in G
    <2>1. n \in 0 .. n
      BY <1>1
    <2> HIDE DEF G, n
    <2>2. QED
      BY <1>1, <1>3, <2>1, Upwards
  <1>5. QED
    BY <1>2, <1>4

(* Nothing is parsed of an empty text, and one character in one step.        *)
LEMMA JsonEndOne ==
    ASSUME NEW st, NEW c
    PROVE  JsonEnd(st, << >>) = st /\ JsonEnd(st, << c >>) = Took(st, c)
  <1>1. JsonEnd(st, << >>) = st
    <2> DEFINE none == << >>
    <2>1. none \in Seq({c}) /\ Len(none) = 0
      BY EmptySeq
    <2> HIDE DEF none
    <2>2. PICK f : Goes(f, st, none) /\ JsonEnd(st, none) = f[Len(none)]
      BY <2>1, GoesThrough
    <2>3. QED
      BY <2>1, <2>2 DEF Goes, none
  <1>2. JsonEnd(st, << c >>) = Took(st, c)
    <2> DEFINE one == << c >>
    <2>1. one \in Seq({c}) /\ Len(one) = 1 /\ one[1] = c
      OBVIOUS
    <2> HIDE DEF one
    <2>2. PICK f : Goes(f, st, one) /\ JsonEnd(st, one) = f[Len(one)]
      BY <2>1, GoesThrough
    <2>3. f[0 + 1] = Took(f[0], one[0 + 1]) /\ f[0] = st
      BY <2>1, <2>2 DEF Goes
    <2>4. QED
      BY <2>1, <2>2, <2>3 DEF one
  <1>3. QED
    BY <1>1, <1>2

(* A text is parsed from where the text before it has ended.                 *)
LEMMA JsonEndJoined ==
    ASSUME NEW C, NEW st, NEW a \in Seq(C), NEW b \in Seq(C)
    PROVE  JsonEnd(st, a \o b) = JsonEnd(JsonEnd(st, a), b)
  <1> DEFINE m == Len(a)
             n == Len(b)
             t == a \o b
  <1>1. /\ m \in Nat /\ n \in Nat /\ t \in Seq(C) /\ Len(t) = m + n
        /\ \A k \in 1 .. m + n : t[k] = IF k <= m THEN a[k] ELSE b[k - m]
    BY ConcatProperties, LenProperties
  <1>2. PICK f : Goes(f, st, a) /\ JsonEnd(st, a) = f[m]
    BY GoesThrough
  <1>3. PICK g : Goes(g, f[m], b) /\ JsonEnd(f[m], b) = g[n]
    BY GoesThrough
  <1> DEFINE w == [k \in 0 .. m + n |-> IF k <= m THEN f[k] ELSE g[k - m]]
  <1> HIDE DEF m, n, t
  <1>4. /\ \A k \in 0 .. m : w[k] = f[k]
        /\ \A k \in 0 .. n : w[m + k] = g[k]
    <2>1. \A k \in 0 .. m : w[k] = f[k]
      BY <1>1
    <2>2. ASSUME NEW k \in 0 .. n
          PROVE  w[m + k] = g[k]
      <3>1. CASE k = 0
        BY <1>1, <1>3, <3>1 DEF Goes
      <3>2. CASE k # 0
        <4>1. m + k \in 0 .. m + n /\ ~(m + k <= m) /\ (m + k) - m = k
          BY <1>1, <3>2
        <4>2. QED
          BY <4>1
      <3>3. QED
        BY <3>1, <3>2
    <2>3. QED
      BY <2>1, <2>2
  <1> HIDE DEF w
  <1>5. ASSUME NEW k \in 0 .. (m + n) - 1
        PROVE  w[k + 1] = Took(w[k], t[k + 1])
    <2>1. CASE k < m
      <3>1. k \in 0 .. m - 1 /\ k \in 0 .. m /\ k + 1 \in 0 .. m /\ k + 1 \in 1 .. m + n /\ k + 1 <= m
        BY <1>1, <2>1
      <3>2. f[k + 1] = Took(f[k], a[k + 1])
        BY <1>2, <3>1 DEF Goes, m
      <3>3. QED
        BY <1>1, <1>4, <3>1, <3>2
    <2>2. CASE k >= m
      <3> DEFINE i == k - m
      <3>1. /\ i \in 0 .. n - 1 /\ i \in 0 .. n /\ i + 1 \in 0 .. n /\ k = m + i
            /\ k + 1 = m + (i + 1) /\ k + 1 \in 1 .. m + n /\ ~(k + 1 <= m) /\ (k + 1) - m = i + 1
        BY <1>1, <2>2
      <3> HIDE DEF i
      <3>2. g[i + 1] = Took(g[i], b[i + 1])
        BY <1>3, <3>1 DEF Goes, n
      <3>3. w[m + i] = g[i] /\ w[m + (i + 1)] = g[i + 1]
        BY <1>4, <3>1
      <3>4. t[k + 1] = b[i + 1]
        BY <1>1, <3>1
      <3>5. QED
        BY <3>1, <3>2, <3>3, <3>4
    <2>3. QED
      BY <1>1, <2>1, <2>2
  <1>6. w[0] = st /\ w[m + n] = g[n]
    <2>1. 0 \in 0 .. m /\ n \in 0 .. n
      BY <1>1
    <2>2. QED
      BY <1>2, <1>4, <2>1 DEF Goes
  <1>7. Goes(w, st, t)
    BY <1>1, <1>5, <1>6 DEF Goes
  <1>8. JsonEnd(st, t) = w[Len(t)]
    BY <1>1, <1>7, JsonEndIs
  <1>9. QED
    BY <1>1, <1>2, <1>3, <1>6, <1>8 DEF t

(* A text of pieces is parsed piece by piece.                                *)
LEMMA JsonEndFlattened ==
    ASSUME NEW C, NEW pieces \in Seq(Seq(C)), NEW q,
           \A k \in 0 .. Len(pieces) - 1 : JsonEnd(q[k], pieces[k + 1]) = q[k + 1]
    PROVE  JsonEnd(q[0], FlattenSeq(pieces)) = q[Len(pieces)]
  <1> DEFINE N == Len(pieces)
             Text(k) == FlattenSeq(SubSeq(pieces, 1, k))
             G == {k \in 0 .. N : Text(k) \in Seq(C) /\ JsonEnd(q[0], Text(k)) = q[k]}
  <1>1. /\ N \in Nat /\ \A k \in 1 .. N : pieces[k] \in Seq(C)
        /\ SubSeq(pieces, 1, 0) = << >> /\ SubSeq(pieces, 1, N) = pieces
        /\ \A k \in 0 .. N : SubSeq(pieces, 1, k) \in Seq(Seq(C))
        /\ \A k \in 0 .. N - 1 :
              SubSeq(pieces, 1, k + 1) = Append(SubSeq(pieces, 1, k), pieces[k + 1])
    BY UptoFacts
  <1>2. 0 \in G
    <2>1. Text(0) = << >> /\ << >> \in Seq(C) /\ 0 \in 0 .. N
      <3>1. FlattenSeq(<< >>) = << >> /\ << >> \in Seq(C)
        BY FlattenFacts, EmptySeq
      <3>2. 0 \in 0 .. N
        BY <1>1
      <3>3. FlattenSeq(SubSeq(pieces, 1, 0)) = FlattenSeq(<< >>)
        BY <1>1
      <3>4. QED
        BY <3>1, <3>2, <3>3
    <2>2. JsonEnd(q[0], << >>) = q[0]
      BY JsonEndOne
    <2>3. QED
      BY <2>1, <2>2
  <1>3. ASSUME NEW k \in 0 .. N - 1, k \in G
        PROVE  k + 1 \in G
    <2> DEFINE u == SubSeq(pieces, 1, k)
               x == pieces[k + 1]
               t == Text(k)
    <2>1. /\ u \in Seq(Seq(C)) /\ x \in Seq(C) /\ SubSeq(pieces, 1, k + 1) = Append(u, x)
          /\ k + 1 \in 0 .. N
      BY <1>1
    <2>2. t \in Seq(C) /\ JsonEnd(q[0], t) = q[k]
      BY <1>3
    <2>3. Text(k + 1) = t \o x
      <3> HIDE DEF u, x
      <3>1. FlattenSeq(Append(u, x)) = FlattenSeq(u) \o x
        BY <2>1, FlattenFacts
      <3>2. QED
        BY <2>1, <3>1 DEF u
    <2> HIDE DEF x, t
    <2>4. JsonEnd(q[0], t \o x) = JsonEnd(q[k], x) /\ t \o x \in Seq(C)
      BY <2>1, <2>2, JsonEndJoined, ConcatProperties
    <2>5. JsonEnd(q[k], x) = q[k + 1]
      BY DEF x
    <2>6. QED
      BY <2>1, <2>3, <2>4, <2>5
  <1>4. N \in G
    <2>1. N \in 0 .. N
      BY <1>1
    <2> HIDE DEF G, N
    <2>2. QED
      BY <1>1, <1>2, <1>3, <2>1, Upwards
  <1>5. QED
    BY <1>1, <1>4

(* Two characters are parsed in two steps.                                   *)
LEMMA JsonEndTwo ==
    ASSUME NEW C, NEW st, NEW c \in C, NEW d \in C
    PROVE  JsonEnd(st, << c, d >>) = Took(Took(st, c), d)
  <1> DEFINE a == << c >>
             b == << d >>
  <1>1. a \in Seq(C) /\ b \in Seq(C) /\ << c, d >> = a \o b
    <2> DEFINE e == << c, d >>
    <2>1. /\ a \in Seq(C) /\ Len(a) = 1 /\ a[1] = c
          /\ b \in Seq(C) /\ Len(b) = 1 /\ b[1] = d
      OBVIOUS
    <2>2. e \in Seq(C) /\ Len(e) = 2 /\ e[1] = c /\ e[2] = d
      OBVIOUS
    <2> HIDE DEF a, b, e
    <2> DEFINE x == a \o b
    <2>3. x \in Seq(C) /\ Len(x) = 2 /\ x[1] = c /\ x[2] = d
      <3>1. /\ x \in Seq(C) /\ Len(x) = Len(a) + Len(b)
            /\ \A i \in 1 .. Len(a) + Len(b) : x[i] = IF i <= Len(a) THEN a[i] ELSE b[i - Len(a)]
        BY <2>1, ConcatProperties
      <3> HIDE DEF x
      <3>2. QED
        BY <2>1, <3>1
    <2> HIDE DEF x
    <2>4. \A i \in 1 .. Len(e) : x[i] = e[i]
      BY <2>2, <2>3
    <2>5. x = e
      BY <2>2, <2>3, <2>4, SeqEqual
    <2>6. QED
      BY <2>1, <2>5 DEF e, x
  <1>2. JsonEnd(st, a) = Took(st, c) /\ JsonEnd(Took(st, c), b) = Took(Took(st, c), d)
    BY JsonEndOne
  <1> HIDE DEF a, b
  <1>3. JsonEnd(st, a \o b) = JsonEnd(JsonEnd(st, a), b)
    BY <1>1, JsonEndJoined
  <1>4. QED
    BY <1>1, <1>2, <1>3

\* The parser within a string, of which t has been read.
Within(o, t) == [mode |-> "string", open |-> o, text |-> t, skip |-> 0]

\* The characters that do not end a line.
Ink == Char \ {LF}

\* What comes back of a character.
Kept(c) == IF c = "ctl" THEN << >> ELSE << c >>

(* What is written for a character is read as that character.                *)
LEMMA ReadsEscaped ==
    ASSUME NEW o, NEW v \in Seq(Char), NEW c \in Char
    PROVE  /\ JsonEnd(Within(o, v), Escaped(c)) = Within(o, v \o Kept(c))
           /\ Escaped(c) \in Seq(Ink) /\ Kept(c) \in Seq(Char)
  <1> DEFINE st == Within(o, v)
             esc == [mode |-> "escape", open |-> o, text |-> v, skip |-> 0]
  <1>1. Kept(c) \in Seq(Char)
    BY EmptySeq DEF Kept
  <1>2. Took(st, Back) = esc /\ Back \in Ink
    BY CharAssumption DEF Took, InString, Within, Back, Quote, Ink, LF
  <1>3. CASE c \in DOMAIN Short
    <2> DEFINE e == Short[c]
    <2>1. Escaped(c) = << Back, e >> /\ e \in DOMAIN Long /\ Long[e] = c
      <3>1. c # "ctl"
        BY <1>3, LongIsInverse DEF Quote, Back, LF, CR
      <3>2. Escaped(c) = << Back, e >>
        BY <1>3, <3>1 DEF Escaped
      <3>3. QED
        BY <1>3, <3>2, LongIsInverse
    <2>2. e \in Ink /\ e # "u"
      BY <2>1, CharAssumption DEF Long, Ink, Quote, Back, LF
    <2> HIDE DEF e
    <2>3. Took(esc, e) = Within(o, Append(v, c))
      BY <2>1, <2>2 DEF Took, InString, Within
    <2>4. JsonEnd(st, << Back, e >>) = Took(Took(st, Back), e)
      BY <1>2, <2>2, JsonEndTwo
    <2>5. Kept(c) = << c >> /\ Append(v, c) = v \o << c >>
      BY <1>3, LongIsInverse, AppendIsConcat DEF Kept, Quote, Back, LF, CR
    <2>6. << Back, e >> \in Seq(Ink)
      BY <1>2, <2>2
    <2>7. QED
      BY <1>1, <1>2, <2>1, <2>3, <2>4, <2>5, <2>6
  <1>4. CASE c = "ctl"
    <2>1. c \notin DOMAIN Short
      BY <1>4, LongIsInverse DEF Quote, Back, LF, CR
    <2> DEFINE x == << Back, "u" >>
               y == << "0", "0" >>
               z == << "1", "f" >>
    <2>2. Escaped(c) = (x \o y) \o z
      BY <1>4, <2>1 DEF Escaped
    <2>3. {"u", "0", "1", "f"} \subseteq Ink
      BY CharAssumption DEF Ink, LF
    <2>4. x \in Seq(Ink) /\ y \in Seq(Ink) /\ z \in Seq(Ink)
      BY <1>2, <2>3
    <2> DEFINE D(n) == [mode |-> "digits", open |-> o, text |-> v, skip |-> n]
    <2>5. Took(esc, "u") = D(4)
      BY DEF Took, InString, Quote, Back
    <2>6. /\ Took(D(4), "0") = D(3) /\ Took(D(3), "0") = D(2) /\ Took(D(2), "1") = D(1)
          /\ Took(D(1), "f") = st
      <3>1. Took(D(4), "0") = D(3) /\ Took(D(3), "0") = D(2) /\ Took(D(2), "1") = D(1)
        BY DEF Took, InString
      <3>2. Took(D(1), "f") = st
        <4>1. Took(D(1), "f") = [D(1) EXCEPT !.mode = "string", !.skip = 0]
          BY DEF Took, InString
        <4>2. QED
          BY <4>1 DEF Within
      <3>3. QED
        BY <3>1, <3>2
    <2> HIDE DEF D, esc, st
    <2>7. JsonEnd(st, x) = D(4) /\ JsonEnd(D(4), y) = D(2) /\ JsonEnd(D(2), z) = st
      BY <1>2, <2>3, <2>5, <2>6, JsonEndTwo
    <2> HIDE DEF x, y, z
    <2> DEFINE w == x \o y
    <2>8. JsonEnd(st, w) = D(2) /\ w \in Seq(Ink)
      BY <2>4, <2>7, JsonEndJoined, ConcatProperties
    <2> HIDE DEF w
    <2>9. JsonEnd(st, w \o z) = st /\ w \o z \in Seq(Ink)
      BY <2>4, <2>7, <2>8, JsonEndJoined, ConcatProperties
    <2>10. v \o Kept(c) = v
      BY <1>4, ConcatEmptySeq DEF Kept
    <2>11. QED
      BY <1>1, <2>2, <2>9, <2>10 DEF w, st
  <1>5. CASE c \notin DOMAIN Short /\ c # "ctl"
    <2>1. Escaped(c) = << c >> /\ Kept(c) = << c >> /\ c # Quote /\ c # Back /\ c # LF
      BY <1>5, LongIsInverse DEF Escaped, Kept
    <2>2. Took(st, c) = Within(o, Append(v, c))
      BY <2>1 DEF Took, InString, Within
    <2>3. Append(v, c) = v \o << c >> /\ << c >> \in Seq(Ink)
      BY <2>1, AppendIsConcat DEF Ink
    <2>4. JsonEnd(st, << c >>) = Took(st, c)
      BY JsonEndOne
    <2>5. QED
      BY <1>1, <2>1, <2>2, <2>3, <2>4
  <1>6. QED
    BY <1>3, <1>4, <1>5

(* A string is read as what is written of it, without control characters.    *)
LEMMA ReadsString ==
    ASSUME NEW o, NEW s \in Seq(Char)
    PROVE  /\ JsonEnd(Within(o, << >>), Escape(s)) = Within(o, Clean(s))
           /\ Escape(s) \in Seq(Ink) /\ Clean(s) \in Seq(Char)
  <1> DEFINE n == Len(s)
             E == [i \in DOMAIN s |-> Escaped(s[i])]
             D == [i \in DOMAIN s |-> Kept(s[i])]
             q == [i \in 0 .. n |-> Within(o, FlattenSeq(SubSeq(D, 1, i)))]
             start == Within(o, << >>)
  <1>1. n \in Nat /\ DOMAIN s = 1 .. n /\ \A i \in 1 .. n : s[i] \in Char
    BY LenProperties, ElementOfSeq
  <1>2. \A i \in 1 .. n : Escaped(s[i]) \in Seq(Ink) /\ Kept(s[i]) \in Seq(Char)
    BY <1>1, ReadsEscaped, EmptySeq
  <1>3. E \in [1 .. n -> Seq(Ink)] /\ D \in [1 .. n -> Seq(Char)]
    BY <1>1, <1>2
  <1>4. Escape(s) = FlattenSeq(E) /\ Clean(s) = FlattenSeq(D)
    BY DEF Escape, Clean, Kept
  <1>5. \A i \in 1 .. n : E[i] = Escaped(s[i]) /\ D[i] = Kept(s[i])
    BY <1>1
  <1> HIDE DEF E, D
  <1>6. E \in Seq(Seq(Ink)) /\ Len(E) = n
    BY <1>1, <1>3, FunctionIsSeq
  <1>7. D \in Seq(Seq(Char)) /\ Len(D) = n
    BY <1>1, <1>3, FunctionIsSeq
  <1>8. FlattenSeq(E) \in Seq(Ink) /\ FlattenSeq(D) \in Seq(Char)
    BY <1>6, <1>7, FlattenFacts
  <1>9. /\ SubSeq(D, 1, 0) = << >> /\ SubSeq(D, 1, n) = D
        /\ \A i \in 0 .. n : SubSeq(D, 1, i) \in Seq(Seq(Char))
        /\ \A i \in 0 .. n - 1 : SubSeq(D, 1, i + 1) = Append(SubSeq(D, 1, i), D[i + 1])
    BY <1>7, UptoFacts
  <1>10. \A i \in 0 .. n : q[i] = Within(o, FlattenSeq(SubSeq(D, 1, i)))
    OBVIOUS
  <1> HIDE DEF q
  <1>11. q[0] = start
    <2>1. FlattenSeq(<< >>) = << >>
      BY FlattenFacts
    <2>2. FlattenSeq(SubSeq(D, 1, 0)) = << >>
      BY <1>9, <2>1
    <2>3. 0 \in 0 .. n
      BY <1>1
    <2>4. QED
      BY <1>10, <2>2, <2>3
  <1>12. ASSUME NEW i \in 0 .. n - 1
         PROVE  JsonEnd(q[i], E[i + 1]) = q[i + 1]
    <2> DEFINE u == SubSeq(D, 1, i)
               v == FlattenSeq(u)
    <2>1. i \in 0 .. n /\ i + 1 \in 0 .. n /\ i + 1 \in 1 .. n /\ s[i + 1] \in Char
      BY <1>1
    <2>2. u \in Seq(Seq(Char)) /\ SubSeq(D, 1, i + 1) = Append(u, D[i + 1]) /\ D[i + 1] \in Seq(Char)
      BY <1>2, <1>5, <1>9, <2>1
    <2> HIDE DEF u
    <2>3. v \in Seq(Char) /\ FlattenSeq(Append(u, D[i + 1])) = v \o D[i + 1]
      BY <2>2, FlattenFacts
    <2>4. q[i] = Within(o, v) /\ q[i + 1] = Within(o, v \o D[i + 1])
      BY <1>10, <2>1, <2>2, <2>3 DEF u
    <2> HIDE DEF v
    <2>5. QED
      BY <1>5, <2>1, <2>3, <2>4, ReadsEscaped
  <1> HIDE DEF start
  <1>13. JsonEnd(q[0], FlattenSeq(E)) = q[n]
    BY <1>6, <1>12, JsonEndFlattened
  <1>14. QED
    <2>1. n \in 0 .. n
      BY <1>1
    <2>2. q[n] = Within(o, FlattenSeq(D))
      BY <1>9, <1>10, <2>1
    <2>3. QED
      BY <1>4, <1>8, <1>11, <1>13, <2>2 DEF start

(* A string in its quotes is read as the string without control characters.  *)
LEMMA ReadsDumpString ==
    ASSUME NEW o, NEW s \in Seq(Char), NEW m, m \in {"value", "value_or_end", "key", "key_or_end"}
    PROVE  /\ JsonEnd(St(m, o), DumpString(s)) = StringEnds(Within(o, Clean(s)))
           /\ DumpString(s) \in Seq(Ink)
  <1> DEFINE q == << Quote >>
             e == Escape(s)
             begin == St(m, o)
             one == Within(o, << >>)
             two == Within(o, Clean(s))
             three == StringEnds(two)
  <1>1. JsonEnd(one, e) = two /\ e \in Seq(Ink)
    BY ReadsString
  <1>2. q \in Seq(Ink)
    <2>1. Quote \in Ink
      BY CharAssumption DEF Ink, Quote, LF
    <2>2. QED
      BY <2>1, OneCharacter
  <1>3. Took(begin, Quote) = one
    BY DEF Took, Structure, St, Within, Quote, Blanks, LF, CR
  <1>4. Took(two, Quote) = three
    <2>1. two.mode = "string"
      BY DEF Within
    <2> HIDE DEF two
    <2>2. QED
      BY <2>1 DEF Took, InString, Quote, Back
  <1>5. JsonEnd(begin, q) = one /\ JsonEnd(two, q) = three
    BY <1>3, <1>4, JsonEndOne
  <1> HIDE DEF q, e, begin, one, two, three
  <1> DEFINE x == q \o e
  <1>6. JsonEnd(begin, x) = two /\ x \in Seq(Ink)
    <2>1. JsonEnd(begin, x) = JsonEnd(JsonEnd(begin, q), e)
      <3>1. \A a, b \in Seq(Ink) : JsonEnd(begin, a \o b) = JsonEnd(JsonEnd(begin, a), b)
        BY JsonEndJoined
      <3>2. QED
        BY <1>1, <1>2, <3>1
    <2>2. x \in Seq(Ink)
      BY <1>1, <1>2, ConcatProperties
    <2>3. QED
      BY <1>1, <1>5, <2>1, <2>2
  <1> HIDE DEF x
  <1>7. JsonEnd(begin, x \o q) = three /\ x \o q \in Seq(Ink)
    <2>1. JsonEnd(begin, x \o q) = JsonEnd(JsonEnd(begin, x), q)
      <3>1. \A a, b \in Seq(Ink) : JsonEnd(begin, a \o b) = JsonEnd(JsonEnd(begin, a), b)
        BY JsonEndJoined
      <3>2. QED
        BY <1>2, <1>6, <3>1
    <2>2. x \o q \in Seq(Ink)
      BY <1>2, <1>6, ConcatProperties
    <2>3. QED
      BY <1>5, <1>6, <2>1, <2>2
  <1>8. QED
    BY <1>7 DEF x, q, e, begin, two, three, DumpString

\* The parser reads a text as one value, wherever a value is due.
Reads(text, v) ==
    /\ text \in Seq(Ink)
    /\ \A o, m : m \in {"value", "value_or_end"} /\ ~KeyDue(o) => JsonEnd(St(m, o), text) = Put(o, v)

(* A string is read as a value.                                              *)
LEMMA ReadsText ==
    ASSUME NEW s \in Seq(Char)
    PROVE  Reads(DumpString(s), [str |-> Clean(s)])
  <1>1. ASSUME NEW o, NEW m, m \in {"value", "value_or_end"}, ~KeyDue(o)
        PROVE  JsonEnd(St(m, o), DumpString(s)) = Put(o, [str |-> Clean(s)])
    <2>1. JsonEnd(St(m, o), DumpString(s)) = StringEnds(Within(o, Clean(s)))
      BY <1>1, ReadsDumpString
    <2>2. Within(o, Clean(s)).open = o /\ Within(o, Clean(s)).text = Clean(s)
      BY DEF Within
    <2>3. QED
      BY <1>1, <2>1, <2>2 DEF StringEnds
  <1>2. DumpString(s) \in Seq(Ink)
    BY ReadsDumpString
  <1>3. QED
    BY <1>1, <1>2 DEF Reads

(* One text after the other.                                                 *)
LEMMA ReadsThen ==
    ASSUME NEW C, NEW st, NEW a \in Seq(C), NEW b \in Seq(C)
    PROVE  JsonEnd(st, a \o b) = JsonEnd(JsonEnd(st, a), b) /\ a \o b \in Seq(C)
  BY JsonEndJoined, ConcatProperties

\* The parser gets from part to part over the commas.
PartByPart(n, parts, before, after) ==
    /\ \A i \in 1 .. n : JsonEnd(before[i], parts[i]) = after[i]
    /\ \A i \in 1 .. n - 1 : Took(after[i], ",") = before[i + 1]

(* The parts of an array or an object, with commas between them.             *)
LEMMA ReadsJoined ==
    ASSUME NEW n \in Nat, NEW parts \in [1 .. n -> Seq(Ink)], NEW before, NEW after,
           PartByPart(n, parts, before, after)
    PROVE  /\ Joined(parts) \in Seq(Ink)
           /\ n = 0 => Joined(parts) = << >>
           /\ n # 0 => JsonEnd(before[1], Joined(parts)) = after[n]
  <1> DEFINE X(i) == IF i = Len(parts) THEN << >> ELSE << "," >>
             P == [i \in DOMAIN parts |-> parts[i] \o X(i)]
             q == [i \in 0 .. n |-> IF i = n THEN after[n] ELSE before[i + 1]]
  <1>1. Len(parts) = n /\ DOMAIN parts = 1 .. n
    BY FunctionIsSeq
  <1>2. "," \in Ink
    BY CharAssumption DEF Ink, LF
  <1>3. \A i \in 1 .. n : X(i) \in Seq(Ink)
    <2>1. << >> \in Seq(Ink) /\ << "," >> \in Seq(Ink)
      BY <1>2, OneCharacter, EmptySeq
    <2>2. QED
      BY <2>1
  <1>4. \A i \in 1 .. n : (i = n => X(i) = << >>) /\ (i # n => X(i) = << "," >>)
    BY <1>1
  <1> HIDE DEF X
  <1>5. P \in [1 .. n -> Seq(Ink)] /\ \A i \in 1 .. n : P[i] = parts[i] \o X(i)
    <2>1. \A i \in 1 .. n : parts[i] \o X(i) \in Seq(Ink)
      BY <1>3, ConcatProperties
    <2>2. QED
      BY <1>1, <2>1
  <1>6. Joined(parts) = FlattenSeq(P)
    BY DEF Joined, X
  <1> HIDE DEF P
  <1>7. P \in Seq(Seq(Ink)) /\ Len(P) = n
    BY <1>5, FunctionIsSeq
  <1>8. FlattenSeq(P) \in Seq(Ink)
    BY <1>7, FlattenFacts
  <1>9. n = 0 => FlattenSeq(P) = << >>
    <2>1. SUFFICES ASSUME n = 0
                   PROVE  FlattenSeq(P) = << >>
      OBVIOUS
    <2>2. P = << >>
      BY <1>7, <2>1, EmptySeq
    <2>3. FlattenSeq(<< >>) = << >>
      BY FlattenFacts
    <2>4. QED
      BY <2>2, <2>3
  <1>10. /\ q[n] = after[n] /\ (n # 0 => q[0] = before[1])
         /\ \A i \in 0 .. n - 1 : q[i] = before[i + 1]
    <2>1. n \in 0 .. n /\ 0 \in 0 .. n /\ \A i \in 0 .. n - 1 : i \in 0 .. n /\ i # n
      OBVIOUS
    <2>2. QED
      BY <2>1
  <1> HIDE DEF q
  <1>11. ASSUME NEW i \in 0 .. n - 1
         PROVE  JsonEnd(q[i], P[i + 1]) = q[i + 1]
    <2> DEFINE a == parts[i + 1]
               x == X(i + 1)
    <2>1. i + 1 \in 1 .. n
      OBVIOUS
    <2>2. a \in Seq(Ink) /\ x \in Seq(Ink) /\ P[i + 1] = a \o x
      BY <1>3, <1>5, <2>1
    <2>3. JsonEnd(q[i], a) = after[i + 1]
      BY <1>10, <2>1 DEF PartByPart
    <2>4. JsonEnd(after[i + 1], x) = q[i + 1]
      <3>1. CASE i + 1 = n
        BY <1>4, <1>10, <2>1, <3>1, JsonEndOne
      <3>2. CASE i + 1 # n
        <4>1. i + 1 \in 1 .. n - 1 /\ i + 1 \in 0 .. n - 1
          BY <3>2
        <4>2. JsonEnd(after[i + 1], << "," >>) = Took(after[i + 1], ",")
          BY JsonEndOne
        <4>3. QED
          BY <1>4, <1>10, <2>1, <3>2, <4>1, <4>2 DEF PartByPart
      <3>3. QED
        BY <3>1, <3>2
    <2> HIDE DEF a, x
    <2>5. QED
      BY <2>2, <2>3, <2>4, ReadsThen
  <1>12. JsonEnd(q[0], FlattenSeq(P)) = q[n]
    BY <1>7, <1>11, JsonEndFlattened
  <1>13. QED
    BY <1>6, <1>8, <1>9, <1>10, <1>12

(* A member of an object is read into it.                                    *)
LEMMA ReadsMember ==
    ASSUME NEW h, NEW o, NEW key \in Seq(Char), Clean(key) = key, NEW text, NEW v, Reads(text, v),
           NEW m \in {"key", "key_or_end"}
    PROVE  /\ JsonEnd(St(m, Inside([obj |-> h], o)), Member(key, text)) =
                 St("after", Inside([obj |-> With(h, key, v)], o))
           /\ Member(key, text) \in Seq(Ink)
  <1> DEFINE within == Inside([obj |-> h], o)
             due == [value |-> [obj |-> h], due |-> << key >>, around |-> o]
             k == DumpString(key)
             colon == << ":" >>
             last == St("after", Inside([obj |-> With(h, key, v)], o))
  <1>1. JsonEnd(St(m, within), k) = St("colon", due) /\ k \in Seq(Ink)
    <2>1. JsonEnd(St(m, within), k) = StringEnds(Within(within, key)) /\ k \in Seq(Ink)
      BY ReadsDumpString
    <2>2. Within(within, key).open = within /\ Within(within, key).text = key
      BY DEF Within
    <2>3. KeyDue(within)
      <3>1. within # Nothing /\ within.due = << >> /\ IsObj(within.value)
        BY DEF Inside, IsObj, Nothing
      <3>2. QED
        BY <3>1 DEF KeyDue
    <2>4. [within EXCEPT !.due = << key >>] = due
      BY DEF Inside
    <2> HIDE DEF within, due
    <2>5. StringEnds(Within(within, key)) = St("colon", due)
      BY <2>2, <2>3, <2>4 DEF StringEnds
    <2>6. QED
      BY <2>1, <2>5
  <1>2. JsonEnd(St("colon", due), colon) = St("value", due)
    <2>1. Took(St("colon", due), ":") = St("value", due)
      BY DEF Took, Structure, St, Blanks, LF, CR, Quote
    <2>2. QED
      BY <2>1, JsonEndOne
  <1>3. colon \in Seq(Ink)
    <2>1. ":" \in Ink
      BY CharAssumption DEF Ink, LF
    <2>2. QED
      BY <2>1, OneCharacter
  <1>4. JsonEnd(St("value", due), text) = last /\ text \in Seq(Ink)
    <2>1. ~KeyDue(due)
      <3>1. due.due # << >>
        OBVIOUS
      <3>2. QED
        BY <3>1 DEF KeyDue
    <2>2. JsonEnd(St("value", due), text) = Put(due, v) /\ text \in Seq(Ink)
      BY <2>1 DEF Reads
    <2>3. /\ due # Nothing /\ due.value = [obj |-> h] /\ due.due[1] = key /\ due.around = o
          /\ ~IsArr(due.value) /\ due.value.obj = h
      BY DEF Nothing, IsArr
    <2> HIDE DEF due
    <2>4. Put(due, v) = last
      BY <2>3 DEF Put
    <2>5. QED
      BY <2>2, <2>4
  <1> HIDE DEF within, due, k, colon, last
  <1> DEFINE x == k \o colon
  <1>5. JsonEnd(St(m, within), x) = St("value", due) /\ x \in Seq(Ink)
    BY <1>1, <1>2, <1>3, ReadsThen
  <1> HIDE DEF x
  <1>6. JsonEnd(St(m, within), x \o text) = last /\ x \o text \in Seq(Ink)
    BY <1>4, <1>5, ReadsThen
  <1>7. QED
    BY <1>6 DEF x, k, colon, within, last, Member

\* The first k members of an object whose keys have the values of full.
Table(keys, full, k) == [key \in {keys[j] : j \in 1 .. k} |-> full[key]]

MembersRead(n, keys, texts, full) ==
    \A i \in 1 .. n : Clean(keys[i]) = keys[i] /\ Reads(texts[i], full[keys[i]])

\* What is written of an object before its last character.
ObjectBegun(n, keys, texts) == << "{" >> \o Joined([i \in 1 .. n |-> Member(keys[i], texts[i])])

(* An object without its closing bracket is read into an open one.           *)
LEMMA ReadsObjectBegun ==
    ASSUME NEW n \in Nat, NEW keys \in [1 .. n -> Seq(Char)], NEW texts, NEW full,
           MembersRead(n, keys, texts, full), NEW o, NEW s \in {"value", "value_or_end"}
    PROVE  /\ JsonEnd(St(s, o), ObjectBegun(n, keys, texts)) =
                 St(IF n = 0 THEN "key_or_end" ELSE "after", Inside([obj |-> Table(keys, full, n)], o))
           /\ ObjectBegun(n, keys, texts) \in Seq(Ink)
  <1> DEFINE parts == [i \in 1 .. n |-> Member(keys[i], texts[i])]
             H(i) == Inside([obj |-> Table(keys, full, i)], o)
             mode(i) == IF i = 1 THEN "key_or_end" ELSE "key"
             before == [i \in 1 .. n |-> St(mode(i), H(i - 1))]
             after == [i \in 1 .. n |-> St("after", H(i))]
             z == << "{" >>
             end == St(IF n = 0 THEN "key_or_end" ELSE "after", H(n))
             start == St(s, o)
  <1>1. /\ \A i \in 1 .. n : parts[i] = Member(keys[i], texts[i])
        /\ \A i \in 1 .. n : before[i] = St(mode(i), H(i - 1)) /\ after[i] = St("after", H(i))
    OBVIOUS
  <1>2. ASSUME NEW i \in 1 .. n
        PROVE  JsonEnd(before[i], parts[i]) = after[i] /\ parts[i] \in Seq(Ink)
    <2> DEFINE h == Table(keys, full, i - 1)
               key == keys[i]
               v == full[key]
    <2>1. key \in Seq(Char) /\ Clean(key) = key /\ Reads(texts[i], v)
      BY DEF MembersRead
    <2>2. mode(i) \in {"key", "key_or_end"}
      OBVIOUS
    <2>3. With(h, key, v) = Table(keys, full, i)
      <3>1. {keys[j] : j \in 1 .. i} = {keys[j] : j \in 1 .. i - 1} \cup {key}
        <4>1. i \in 1 .. i /\ \A j : j \in 1 .. i <=> j \in 1 .. i - 1 \/ j = i
          OBVIOUS
        <4>2. QED
          BY <4>1
      <3>2. DOMAIN h = {keys[j] : j \in 1 .. i - 1} /\ \A k \in DOMAIN h : h[k] = full[k]
        BY DEF Table
      <3> HIDE DEF h, key
      <3>3. With(h, key, v) = [k \in DOMAIN h \cup {key} |-> full[k]]
        BY <3>2 DEF With
      <3>4. QED
        BY <3>1, <3>2, <3>3 DEF Table
    <2> HIDE DEF h, key, v, mode
    <2>4. /\ JsonEnd(St(mode(i), Inside([obj |-> h], o)), Member(key, texts[i])) =
                St("after", Inside([obj |-> With(h, key, v)], o))
          /\ Member(key, texts[i]) \in Seq(Ink)
      BY <2>1, <2>2, ReadsMember
    <2>5. QED
      BY <1>1, <2>3, <2>4 DEF h, key
  <1>3. ASSUME NEW i \in 1 .. n - 1
        PROVE  Took(after[i], ",") = before[i + 1]
    <2>1. i \in 1 .. n /\ i + 1 \in 1 .. n /\ (i + 1) - 1 = i /\ i + 1 # 1
      OBVIOUS
    <2>2. after[i] = St("after", H(i)) /\ before[i + 1] = St("key", H(i))
      BY <1>1, <2>1
    <2>3. ~IsArr(H(i).value)
      BY DEF Inside, IsArr
    <2> DEFINE g == H(i)
    <2> HIDE DEF g
    <2>4. St("after", g).mode = "after" /\ St("after", g).open = g
      BY DEF St
    <2>5. Took(St("after", g), ",") = St(IF IsArr(g.value) THEN "value" ELSE "key", g)
      BY <2>4 DEF Took, Structure, Blanks, CR, LF, Quote
    <2>6. QED
      BY <2>2, <2>3, <2>5 DEF g
  <1>4. parts \in [1 .. n -> Seq(Ink)]
    <2>1. \A i \in 1 .. n : Member(keys[i], texts[i]) \in Seq(Ink)
      BY <1>1, <1>2
    <2>2. QED
      BY <2>1
  <1>5. PartByPart(n, parts, before, after)
    BY <1>2, <1>3 DEF PartByPart
  <1>6. JsonEnd(start, z) = St("key_or_end", H(0)) /\ z \in Seq(Ink)
    <2>1. "{" \in Ink
      BY CharAssumption DEF Ink, LF
    <2>2. Table(keys, full, 0) = << >>
      <3>1. {keys[j] : j \in 1 .. 0} = {}
        OBVIOUS
      <3>2. QED
        BY <3>1 DEF Table
    <2>3. start.mode = s /\ start.open = o
      BY DEF St
    <2> HIDE DEF start
    <2>4. Took(start, "{") = St("key_or_end", Inside([obj |-> << >>], o))
      BY <2>3 DEF Took, Structure, Blanks, CR, LF, Quote
    <2>5. JsonEnd(start, z) = Took(start, "{")
      BY JsonEndOne
    <2>6. QED
      BY <2>1, <2>2, <2>4, <2>5, OneCharacter
  <1>7. n # 0 => before[1] = St("key_or_end", H(0)) /\ after[n] = St("after", H(n))
    <2>1. n # 0 => 1 \in 1 .. n /\ n \in 1 .. n /\ 1 - 1 = 0
      OBVIOUS
    <2>2. QED
      BY <1>1, <2>1
  <1> HIDE DEF parts, before, after
  <1>8. /\ Joined(parts) \in Seq(Ink)
        /\ n = 0 => Joined(parts) = << >>
        /\ n # 0 => JsonEnd(before[1], Joined(parts)) = after[n]
    BY <1>4, <1>5, ReadsJoined
  <1>9. JsonEnd(St("key_or_end", H(0)), Joined(parts)) = end
    <2>1. CASE n = 0
      BY <1>8, <2>1, JsonEndOne
    <2>2. CASE n # 0
      BY <1>7, <1>8, <2>2
    <2>3. QED
      BY <2>1, <2>2
  <1> HIDE DEF z, end, start, H
  <1>10. JsonEnd(start, z \o Joined(parts)) = end /\ z \o Joined(parts) \in Seq(Ink)
    BY <1>6, <1>8, <1>9, ReadsThen
  <1>11. QED
    BY <1>10 DEF z, end, start, H, parts, ObjectBegun

(* An object of members that are read is read as a value.                    *)
LEMMA ReadsObject ==
    ASSUME NEW n \in Nat, NEW keys \in [1 .. n -> Seq(Char)], NEW texts, NEW full,
           MembersRead(n, keys, texts, full)
    PROVE  LET text == DumpObject([i \in 1 .. n |-> Member(keys[i], texts[i])])
           IN  Reads(text, [obj |-> Table(keys, full, n)]) /\ text = ObjectBegun(n, keys, texts) \o << "}" >>
  <1> DEFINE b == ObjectBegun(n, keys, texts)
             z == << "}" >>
             value == [obj |-> Table(keys, full, n)]
             text == DumpObject([i \in 1 .. n |-> Member(keys[i], texts[i])])
  <1>1. text = b \o z
    BY DEF DumpObject, ObjectBegun
  <1>2. z \in Seq(Ink)
    <2>1. "}" \in Ink
      BY CharAssumption DEF Ink, LF
    <2>2. QED
      BY <2>1, OneCharacter
  <1>3. b \in Seq(Ink)
    <2>1. "value" \in {"value", "value_or_end"}
      OBVIOUS
    <2>2. QED
      BY <2>1, ReadsObjectBegun
  <1>4. ASSUME NEW o, NEW m, m \in {"value", "value_or_end"}
        PROVE  JsonEnd(St(m, o), b \o z) = Put(o, value)
    <2> DEFINE c == IF n = 0 THEN "key_or_end" ELSE "after"
               e == Inside(value, o)
    <2>1. JsonEnd(St(m, o), b) = St(c, e)
      BY <1>4, ReadsObjectBegun
    <2>2. e.value = value /\ e.around = o /\ IsObj(value) /\ ~IsArr(value)
      BY DEF Inside, IsObj, IsArr
    <2>3. c \in {"key_or_end", "after"}
      OBVIOUS
    <2> HIDE DEF c, e, value
    <2>4. Took(St(c, e), "}") = Put(o, value)
      <3>1. St(c, e).mode = c /\ St(c, e).open = e
        BY DEF St
      <3>2. QED
        BY <2>2, <2>3, <3>1 DEF Took, Structure, Blanks, CR, LF, Quote
    <2>5. JsonEnd(St(c, e), z) = Put(o, value)
      BY <2>4, JsonEndOne
    <2> HIDE DEF b, z
    <2>6. QED
      BY <1>2, <1>3, <2>1, <2>5, ReadsThen
  <1>5. b \o z \in Seq(Ink)
    BY <1>2, <1>3, ConcatProperties
  <1>6. Reads(text, value)
    BY <1>1, <1>4, <1>5 DEF Reads
  <1>7. QED
    BY <1>1, <1>6

(* An array of values that are read is read as a value.                      *)
LEMMA ReadsArray ==
    ASSUME NEW V, NEW vals \in Seq(V), NEW texts \in [1 .. Len(vals) -> Seq(Ink)],
           \A i \in 1 .. Len(vals) : Reads(texts[i], vals[i])
    PROVE  Reads(DumpArray(texts), [arr |-> vals])
  <1> DEFINE n == Len(vals)
             z == << "[" >>
             y == << "]" >>
             J == Joined(texts)
             value == [arr |-> vals]
  <1>1. /\ n \in Nat /\ SubSeq(vals, 1, 0) = << >> /\ SubSeq(vals, 1, n) = vals
        /\ \A k \in 0 .. n - 1 : SubSeq(vals, 1, k + 1) = Append(SubSeq(vals, 1, k), vals[k + 1])
    BY UptoFacts
  <1>2. z \in Seq(Ink) /\ y \in Seq(Ink)
    <2>1. "[" \in Ink /\ "]" \in Ink
      BY CharAssumption DEF Ink, LF
    <2>2. QED
      BY <2>1, OneCharacter
  <1>3. ASSUME NEW o, NEW m, m \in {"value", "value_or_end"}
        PROVE  JsonEnd(St(m, o), DumpArray(texts)) = Put(o, value) /\ DumpArray(texts) \in Seq(Ink)
    <2> DEFINE H(i) == Inside([arr |-> SubSeq(vals, 1, i)], o)
               mode(i) == IF i = 1 THEN "value_or_end" ELSE "value"
               before == [i \in 1 .. n |-> St(mode(i), H(i - 1))]
               after == [i \in 1 .. n |-> St("after", H(i))]
               start == St(m, o)
               c == IF n = 0 THEN "value_or_end" ELSE "after"
               e == Inside(value, o)
    <2>1. \A i \in 1 .. n : before[i] = St(mode(i), H(i - 1)) /\ after[i] = St("after", H(i))
      OBVIOUS
    <2>2. ASSUME NEW i \in 1 .. n
          PROVE  JsonEnd(before[i], texts[i]) = after[i]
      <3> DEFINE g == H(i - 1)
                 h == SubSeq(vals, 1, i - 1)
                 w == mode(i)
      <3>1. w \in {"value", "value_or_end"}
        OBVIOUS
      <3>2. i - 1 \in 0 .. n - 1 /\ (i - 1) + 1 = i
        BY <1>1
      <3>3. SubSeq(vals, 1, i) = Append(h, vals[i])
        <4>1. SubSeq(vals, 1, (i - 1) + 1) = Append(SubSeq(vals, 1, i - 1), vals[(i - 1) + 1])
          BY <1>1, <3>2
        <4>2. QED
          BY <3>2, <4>1
      <3> HIDE DEF h
      <3>4. g # Nothing /\ g.value = [arr |-> h] /\ g.around = o /\ IsArr(g.value) /\ ~IsObj(g.value)
        BY DEF Inside, Nothing, IsArr, IsObj, h
      <3>5. g.value.arr = h
        BY <3>4
      <3> HIDE DEF g, w
      <3>6. ~KeyDue(g)
        BY <3>4 DEF KeyDue
      <3>7. JsonEnd(St(w, g), texts[i]) = Put(g, vals[i])
        BY <3>1, <3>6 DEF Reads
      <3>8. Put(g, vals[i]) = St("after", Inside([arr |-> Append(h, vals[i])], o))
        BY <3>4, <3>5 DEF Put
      <3>9. QED
        BY <2>1, <3>3, <3>7, <3>8 DEF g, w
    <2>3. ASSUME NEW i \in 1 .. n - 1
          PROVE  Took(after[i], ",") = before[i + 1]
      <3>1. i \in 1 .. n /\ i + 1 \in 1 .. n /\ (i + 1) - 1 = i /\ i + 1 # 1
        BY <1>1
      <3>2. after[i] = St("after", H(i)) /\ before[i + 1] = St("value", H(i))
        BY <2>1, <3>1
      <3>3. IsArr(H(i).value)
        BY DEF Inside, IsArr
      <3> DEFINE g == H(i)
      <3> HIDE DEF g
      <3>4. St("after", g).mode = "after" /\ St("after", g).open = g
        BY DEF St
      <3>5. Took(St("after", g), ",") = St(IF IsArr(g.value) THEN "value" ELSE "key", g)
        BY <3>4 DEF Took, Structure, Blanks, CR, LF, Quote
      <3>6. QED
        BY <3>2, <3>3, <3>5 DEF g
    <2>4. PartByPart(n, texts, before, after)
      BY <2>2, <2>3 DEF PartByPart
    <2>5. JsonEnd(start, z) = St("value_or_end", H(0))
      <3>1. start.mode = m /\ start.open = o
        BY DEF St
      <3> HIDE DEF start
      <3>2. Took(start, "[") = St("value_or_end", Inside([arr |-> << >>], o))
        BY <1>3, <3>1 DEF Took, Structure, Blanks, CR, LF, Quote
      <3>3. JsonEnd(start, z) = Took(start, "[")
        BY JsonEndOne
      <3>4. QED
        BY <1>1, <3>2, <3>3
    <2>6. n # 0 => before[1] = St("value_or_end", H(0)) /\ after[n] = St("after", H(n))
      <3>1. n # 0 => 1 \in 1 .. n /\ n \in 1 .. n /\ 1 - 1 = 0
        BY <1>1
      <3>2. QED
        BY <2>1, <3>1
    <2> HIDE DEF before, after
    <2>7. /\ J \in Seq(Ink)
          /\ n = 0 => J = << >>
          /\ n # 0 => JsonEnd(before[1], J) = after[n]
      BY <1>1, <2>4, ReadsJoined
    <2>8. JsonEnd(St("value_or_end", H(0)), J) = St(c, e)
      <3>1. H(n) = e
        BY <1>1
      <3>2. CASE n = 0
        BY <2>7, <3>1, <3>2, JsonEndOne
      <3>3. CASE n # 0
        BY <2>6, <2>7, <3>1, <3>3
      <3>4. QED
        BY <3>2, <3>3
    <2>9. e.value = value /\ e.around = o /\ IsArr(value) /\ ~IsObj(value)
      BY DEF Inside, IsObj, IsArr
    <2>10. c \in {"value_or_end", "after"}
      OBVIOUS
    <2> HIDE DEF c, e, value, H, start
    <2>11. JsonEnd(St(c, e), y) = Put(o, value)
      <3>1. St(c, e).mode = c /\ St(c, e).open = e
        BY DEF St
      <3>2. Took(St(c, e), "]") = Put(o, value)
        BY <2>9, <2>10, <3>1 DEF Took, Structure, Blanks, CR, LF, Quote
      <3>3. QED
        BY <3>2, JsonEndOne
    <2> HIDE DEF J, z, y
    <2> DEFINE x == z \o J
    <2>12. JsonEnd(start, x) = St(c, e) /\ x \in Seq(Ink)
      BY <1>2, <2>5, <2>7, <2>8, ReadsThen
    <2> HIDE DEF x
    <2>13. JsonEnd(start, x \o y) = Put(o, value) /\ x \o y \in Seq(Ink)
      BY <1>2, <2>11, <2>12, ReadsThen
    <2>14. QED
      BY <2>13 DEF x, z, y, J, start, DumpArray
  <1>4. DumpArray(texts) \in Seq(Ink)
    <2>1. \E m : m \in {"value", "value_or_end"}
      OBVIOUS
    <2>2. QED
      BY <1>3, <2>1
  <1>5. QED
    BY <1>3, <1>4 DEF Reads

\* What is read of an entry of a history, of a column and of a contact.
EntryMembers(entry) ==
    [key \in {EntryKey[i] : i \in DOMAIN EntryKey} |->
        [str |-> Clean(entry[CHOOSE i \in DOMAIN EntryKey : EntryKey[i] = key])]]
EntryValue(entry) == [obj |-> EntryMembers(entry)]
HistoryValues(contact) == [k \in DOMAIN contact.history |-> EntryValue(contact.history[k])]
ColumnValue(contact, i) ==
    IF i = 0 THEN [arr |-> HistoryValues(contact)] ELSE [str |-> Clean(contact.fields[i])]
ContactMembers(contact) ==
    [key \in {KeyOf(i) : i \in 0 .. Columns} |->
        ColumnValue(contact, CHOOSE i \in 0 .. Columns : KeyOf(i) = key)]
ContactValue(contact) == [obj |-> ContactMembers(contact)]

(* The members of an entry and of a contact are found under their keys.      *)
LEMMA MembersFound ==
    /\ \A entry : \A i \in DOMAIN EntryKey :
          /\ EntryKey[i] \in DOMAIN EntryMembers(entry)
          /\ EntryMembers(entry)[EntryKey[i]] = [str |-> Clean(entry[i])]
    /\ \A contact : \A i \in 0 .. Columns :
          /\ KeyOf(i) \in DOMAIN ContactMembers(contact)
          /\ ContactMembers(contact)[KeyOf(i)] = ColumnValue(contact, i)
  <1>1. ASSUME NEW entry, NEW i \in DOMAIN EntryKey
        PROVE  /\ EntryKey[i] \in DOMAIN EntryMembers(entry)
               /\ EntryMembers(entry)[EntryKey[i]] = [str |-> Clean(entry[i])]
    <2> DEFINE j == CHOOSE j \in DOMAIN EntryKey : EntryKey[j] = EntryKey[i]
    <2>1. j \in DOMAIN EntryKey /\ EntryKey[j] = EntryKey[i]
      OBVIOUS
    <2>2. j = i
      <3> HIDE DEF j
      <3>1. QED
        BY <2>1, KeysAssumption
    <2>3. QED
      BY <2>2 DEF EntryMembers
  <1>2. ASSUME NEW contact, NEW i \in 0 .. Columns
        PROVE  /\ KeyOf(i) \in DOMAIN ContactMembers(contact)
               /\ ContactMembers(contact)[KeyOf(i)] = ColumnValue(contact, i)
    <2> DEFINE j == CHOOSE j \in 0 .. Columns : KeyOf(j) = KeyOf(i)
    <2>1. j \in 0 .. Columns /\ KeyOf(j) = KeyOf(i)
      OBVIOUS
    <2>2. j = i
      <3> HIDE DEF j
      <3>1. QED
        BY <2>1, KeysAssumption
    <2>3. QED
      BY <2>2 DEF ContactMembers
  <1>3. QED
    BY <1>1, <1>2

(* An entry of the history is read.                                          *)
LEMMA ReadsEntry ==
    ASSUME NEW entry \in [DOMAIN EntryKey -> Seq(Char)]
    PROVE  Reads(DumpEntry(entry), EntryValue(entry))
  <1> DEFINE n == Len(EntryKey)
             texts == [i \in 1 .. n |-> DumpString(entry[i])]
             full == EntryMembers(entry)
  <1>1. /\ n \in Nat /\ DOMAIN EntryKey = 1 .. n /\ EntryKey \in [1 .. n -> Seq(Char)]
        /\ \A i \in 1 .. n : Clean(EntryKey[i]) = EntryKey[i]
    BY KeysAssumption, UptoFacts
  <1>2. \A i \in 1 .. n : Reads(texts[i], full[EntryKey[i]])
    <2>1. ASSUME NEW i \in 1 .. n
          PROVE  Reads(texts[i], full[EntryKey[i]])
      <3>1. entry[i] \in Seq(Char) /\ texts[i] = DumpString(entry[i])
        BY <1>1
      <3>2. full[EntryKey[i]] = [str |-> Clean(entry[i])]
        BY <1>1, MembersFound
      <3>3. QED
        BY <3>1, <3>2, ReadsText
    <2>2. QED
      BY <2>1
  <1>3. DumpEntry(entry) = DumpObject([i \in 1 .. n |-> Member(EntryKey[i], texts[i])])
    <2>1. \A i \in 1 .. n : texts[i] = DumpString(entry[i])
      OBVIOUS
    <2>2. [i \in 1 .. n |-> Member(EntryKey[i], texts[i])] =
              [i \in DOMAIN EntryKey |-> Member(EntryKey[i], DumpString(entry[i]))]
      BY <1>1, <2>1
    <2>3. QED
      BY <2>2 DEF DumpEntry
  <1> HIDE DEF texts
  <1>4. MembersRead(n, EntryKey, texts, full)
    BY <1>1, <1>2 DEF MembersRead
  <1>5. Table(EntryKey, full, n) = full
    BY <1>1 DEF Table, EntryMembers
  <1> HIDE DEF full, n
  <1>6. Reads(DumpObject([i \in 1 .. n |-> Member(EntryKey[i], texts[i])]), [obj |-> Table(EntryKey, full, n)])
    BY <1>1, <1>4, ReadsObject
  <1>7. QED
    BY <1>3, <1>5, <1>6 DEF full, EntryValue

(* A column of a contact, or its history, is read.                           *)
LEMMA ReadsColumn ==
    ASSUME NEW contact \in Contact, NEW i \in 0 .. Columns
    PROVE  Reads(DumpColumn(contact, i), ColumnValue(contact, i))
  <1>1. CASE i # 0
    <2>1. i \in 1 .. Columns
      BY <1>1, KeysAssumption
    <2>2. contact.fields[i] \in Seq(Char)
      BY <2>1 DEF Contact
    <2>3. QED
      BY <1>1, <2>2, ReadsText DEF DumpColumn, ColumnValue
  <1>2. CASE i = 0
    <2> DEFINE h == contact.history
               n == Len(h)
               texts == [k \in DOMAIN h |-> DumpEntry(h[k])]
               vals == HistoryValues(contact)
               V == {EntryValue(h[k]) : k \in 1 .. n}
    <2>1. n \in Nat /\ DOMAIN h = 1 .. n /\ \A k \in 1 .. n : h[k] \in [DOMAIN EntryKey -> Seq(Char)]
      <3>1. h \in Seq([DOMAIN EntryKey -> Seq(Char)])
        BY DEF Contact
      <3>2. QED
        BY <3>1, UptoFacts
    <2>2. \A k \in 1 .. n : Reads(DumpEntry(h[k]), EntryValue(h[k]))
      BY <2>1, ReadsEntry
    <2>3. vals \in [1 .. n -> V] /\ \A k \in 1 .. n : vals[k] = EntryValue(h[k])
      BY <2>1 DEF HistoryValues
    <2>4. texts \in [1 .. n -> Seq(Ink)] /\ \A k \in 1 .. n : texts[k] = DumpEntry(h[k])
      <3>1. \A k \in 1 .. n : DumpEntry(h[k]) \in Seq(Ink)
        BY <2>2 DEF Reads
      <3>2. QED
        BY <2>1, <3>1
    <2> HIDE DEF vals, V, texts
    <2>5. vals \in Seq(V) /\ Len(vals) = n
      BY <2>1, <2>3, FunctionIsSeq
    <2>6. texts \in [1 .. Len(vals) -> Seq(Ink)] /\ \A k \in 1 .. Len(vals) : Reads(texts[k], vals[k])
      BY <2>2, <2>3, <2>4, <2>5
    <2>7. Reads(DumpArray(texts), [arr |-> vals])
      BY <2>5, <2>6, ReadsArray
    <2>8. QED
      BY <1>2, <2>7 DEF DumpColumn, ColumnValue, texts, vals
  <1>3. QED
    BY <1>1, <1>2

\* The line of a contact without its last character.
DumpBegun(contact) ==
    ObjectBegun(Columns + 1, [k \in 1 .. Columns + 1 |-> KeyOf(Order[k])],
                [k \in 1 .. Columns + 1 |-> DumpColumn(contact, Order[k])])

(* The line of a contact is read as a value, and only its last character     *)
(* ends it.                                                                  *)
LEMMA ReadsContact ==
    ASSUME NEW contact \in Contact
    PROVE  /\ Reads(Dump(contact), ContactValue(contact))
           /\ Dump(contact) = DumpBegun(contact) \o << "}" >> /\ DumpBegun(contact) \in Seq(Ink)
           /\ JsonEnd(Fresh, DumpBegun(contact)) =
                 St("after", Inside(ContactValue(contact), Nothing))
  <1> DEFINE n == Columns + 1
             keys == [k \in 1 .. n |-> KeyOf(Order[k])]
             texts == [k \in 1 .. n |-> DumpColumn(contact, Order[k])]
             full == ContactMembers(contact)
             b == ObjectBegun(n, keys, texts)
  <1>1. /\ n \in Nat /\ n # 0 /\ DOMAIN Order = 1 .. n
        /\ \A k \in 1 .. n : Order[k] \in 0 .. Columns
        /\ \A k \in 1 .. n : keys[k] = KeyOf(Order[k]) /\ texts[k] = DumpColumn(contact, Order[k])
    <2>1. n \in Nat /\ n # 0
      <3>1. Columns \in Nat
        BY KeysAssumption
      <3>2. QED
        BY <3>1
    <2>2. DOMAIN Order = 1 .. n /\ \A k \in 1 .. n : Order[k] \in 0 .. Columns
      BY OrderAssumption
    <2>3. \A k \in 1 .. n : keys[k] = KeyOf(Order[k]) /\ texts[k] = DumpColumn(contact, Order[k])
      OBVIOUS
    <2>4. QED
      BY <2>1, <2>2, <2>3
  <1>2. \A i \in 0 .. Columns : KeyOf(i) \in Seq(Char) /\ Clean(KeyOf(i)) = KeyOf(i)
    <2>1. \A i \in 0 .. Columns : i # 0 => i \in 1 .. Columns
      BY KeysAssumption
    <2>2. QED
      BY <2>1, KeysAssumption DEF KeyOf
  <1>3. keys \in [1 .. n -> Seq(Char)]
    BY <1>1, <1>2
  <1>4. \A k \in 1 .. n : Clean(keys[k]) = keys[k] /\ Reads(texts[k], full[keys[k]])
    <2>1. ASSUME NEW k \in 1 .. n
          PROVE  Clean(keys[k]) = keys[k] /\ Reads(texts[k], full[keys[k]])
      <3> DEFINE i == Order[k]
      <3>1. i \in 0 .. Columns /\ keys[k] = KeyOf(i) /\ texts[k] = DumpColumn(contact, i)
        BY <1>1
      <3> HIDE DEF i, keys, texts
      <3>2. full[keys[k]] = ColumnValue(contact, i)
        BY <3>1, MembersFound
      <3>3. QED
        BY <1>2, <3>1, <3>2, ReadsColumn
    <2>2. QED
      BY <2>1
  <1>5. Table(keys, full, n) = full
    <2>1. {keys[j] : j \in 1 .. n} = {KeyOf(i) : i \in 0 .. Columns}
      <3>1. \A i \in 0 .. Columns : \E j \in 1 .. n : Order[j] = i
        BY OrderAssumption
      <3>2. \A i \in 0 .. Columns : \E j \in 1 .. n : keys[j] = KeyOf(i)
        BY <1>1, <3>1
      <3>3. \A j \in 1 .. n : \E i \in 0 .. Columns : keys[j] = KeyOf(i)
        BY <1>1
      <3> HIDE DEF keys, n
      <3>4. QED
        BY <3>2, <3>3
    <2> HIDE DEF keys, n
    <2>2. full = [key \in {KeyOf(i) : i \in 0 .. Columns} |-> full[key]]
      BY DEF ContactMembers
    <2>3. QED
      BY <2>1, <2>2 DEF Table
  <1>6. Dump(contact) = DumpObject([k \in 1 .. n |-> Member(keys[k], texts[k])])
    <2>1. [k \in 1 .. n |-> Member(keys[k], texts[k])] =
              [k \in DOMAIN Order |-> Member(KeyOf(Order[k]), DumpColumn(contact, Order[k]))]
      BY <1>1
    <2>2. QED
      BY <2>1 DEF Dump
  <1>7. DumpBegun(contact) = b
    BY DEF DumpBegun
  <1> HIDE DEF keys, texts, n
  <1>8. MembersRead(n, keys, texts, full)
    BY <1>4 DEF MembersRead
  <1> HIDE DEF full
  <1>9. /\ Reads(Dump(contact), [obj |-> Table(keys, full, n)])
        /\ Dump(contact) = ObjectBegun(n, keys, texts) \o << "}" >>
    BY <1>1, <1>3, <1>6, <1>8, ReadsObject
  <1>10. /\ JsonEnd(St("value", Nothing), ObjectBegun(n, keys, texts)) =
                 St(IF n = 0 THEN "key_or_end" ELSE "after", Inside([obj |-> Table(keys, full, n)], Nothing))
         /\ ObjectBegun(n, keys, texts) \in Seq(Ink)
    <2>1. "value" \in {"value", "value_or_end"}
      OBVIOUS
    <2>2. QED
      BY <1>1, <1>3, <1>8, <2>1, ReadsObjectBegun
  <1>11. [obj |-> Table(keys, full, n)] = ContactValue(contact)
    BY <1>5 DEF ContactValue, full
  <1> HIDE DEF b
  <1>12. QED
    BY <1>1, <1>7, <1>9, <1>10, <1>11 DEF b, Fresh

\* The value is complete, or the text that ends here has a string that is not.
Flat(st) ==
    \/ st.mode = "done"
    \/ st.open = Nothing /\ st.mode \in {"string", "escape", "digits"}

\* A state of the parser.
Shape(st) == st = [mode |-> st.mode, open |-> st.open, text |-> st.text, skip |-> st.skip]

(* A step leads from a state to a state, and not out of the complete ones.   *)
LEMMA FlatStays ==
    ASSUME NEW st, NEW c, Shape(st)
    PROVE  Shape(Took(st, c)) /\ (Flat(st) => Flat(Took(st, c)))
  <1>1. \A m, o : Shape(St(m, o)) /\ St(m, o).mode = m /\ St(m, o).open = o
    BY DEF Shape, St
  <1>2. \A o, v : Shape(Put(o, v)) /\ (o = Nothing => Flat(Put(o, v)))
    <2>1. ASSUME NEW o, NEW v
          PROVE  Shape(Put(o, v)) /\ (o = Nothing => Flat(Put(o, v)))
      <3>1. CASE o = Nothing
        <4>1. Put(o, v) = St("done", v)
          BY <3>1 DEF Put
        <4>2. QED
          BY <1>1, <4>1 DEF Flat
      <3>2. CASE o # Nothing
        <4>1. \E e : Put(o, v) = St("after", e)
          BY <3>2 DEF Put
        <4>2. QED
          BY <1>1, <3>2, <4>1
      <3>3. QED
        BY <3>1, <3>2
    <2>2. QED
      BY <2>1
  <1>3. Shape(Structure(st, c)) /\ (Flat(st) /\ st.mode \notin {"string", "escape", "digits"} =>
                                        Flat(Structure(st, c)))
    <2>1. Shape(Structure(st, c))
      BY <1>1, <1>2 DEF Structure
    <2>2. st.mode = "done" => Structure(st, c) = st
      BY DEF Structure
    <2>3. QED
      BY <1>1, <1>2, <2>1, <2>2 DEF Flat
  <1>4. st.mode \in {"string", "escape", "digits"} =>
            Shape(InString(st, c)) /\ (Flat(st) => Flat(InString(st, c)))
    <2> SUFFICES ASSUME st.mode \in {"string", "escape", "digits"}
                 PROVE  Shape(InString(st, c)) /\ (Flat(st) => Flat(InString(st, c)))
      OBVIOUS
    <2>1. Shape(StringEnds(st)) /\ (st.open = Nothing => Flat(StringEnds(st)))
      BY <1>1, <1>2 DEF StringEnds, KeyDue
    <2>2. \/ InString(st, c) = StringEnds(st)
          \/ InString(st, c) = [st EXCEPT !.mode = "escape"]
          \/ InString(st, c) = [st EXCEPT !.mode = "digits", !.skip = 4]
          \/ st.mode = "digits" /\ InString(st, c) = [st EXCEPT !.skip = @ - 1]
          \/ InString(st, c) = [st EXCEPT !.mode = "string", !.skip = 0]
          \/ InString(st, c) = [st EXCEPT !.mode = "string",
                !.text = Append(@, IF st.mode = "escape" /\ c \in DOMAIN Long THEN Long[c] ELSE c)]
      BY DEF InString
    <2>3. \A m : m \in {"string", "escape", "digits"} =>
              LET u == [st EXCEPT !.mode = m]
              IN  Shape(u) /\ u.open = st.open /\ u.mode = m
      BY DEF Shape
    <2>4. \A u, k : Shape(u) => Shape([u EXCEPT !.skip = k]) /\ [u EXCEPT !.skip = k].open = u.open
                                  /\ [u EXCEPT !.skip = k].mode = u.mode
      BY DEF Shape
    <2>5. \A u, t : Shape(u) => Shape([u EXCEPT !.text = t]) /\ [u EXCEPT !.text = t].open = u.open
                                  /\ [u EXCEPT !.text = t].mode = u.mode
      BY DEF Shape
    <2>6. \E u : /\ u = InString(st, c)
                 /\ \/ u = StringEnds(st)
                    \/ Shape(u) /\ u.open = st.open /\ u.mode \in {"string", "escape", "digits"}
      <3>1. \A m, k : [st EXCEPT !.mode = m, !.skip = k] = [[st EXCEPT !.mode = m] EXCEPT !.skip = k]
        OBVIOUS
      <3>2. \A m, t : [st EXCEPT !.mode = m, !.text = Append(@, t)] =
                          [[st EXCEPT !.mode = m] EXCEPT !.text = Append(@, t)]
        OBVIOUS
      <3> DEFINE Good(u) == Shape(u) /\ u.open = st.open /\ u.mode \in {"string", "escape", "digits"}
                 esc == [st EXCEPT !.mode = "escape"]
                 dig == [st EXCEPT !.mode = "digits"]
                 str == [st EXCEPT !.mode = "string"]
      <3>3. Good(st) /\ Good(esc) /\ Good(dig) /\ Good(str)
        BY <2>3
      <3>4. \A u, k : Good(u) => Good([u EXCEPT !.skip = k]) /\ Good([u EXCEPT !.text = k])
        BY <2>4, <2>5
      <3>5. \A t : [str EXCEPT !.text = Append(@, t)] = [str EXCEPT !.text = Append(str.text, t)]
        OBVIOUS
      <3>6. st.mode = "digits" /\ InString(st, c) = [st EXCEPT !.skip = @ - 1] =>
                InString(st, c) = [st EXCEPT !.skip = st.skip - 1]
        OBVIOUS
      <3> HIDE DEF Good
      <3>7. InString(st, c) = StringEnds(st) \/ Good(InString(st, c))
        <4>1. [st EXCEPT !.mode = "digits", !.skip = 4] = [dig EXCEPT !.skip = 4]
          BY <3>1
        <4>2. [st EXCEPT !.mode = "string", !.skip = 0] = [str EXCEPT !.skip = 0]
          BY <3>1
        <4> DEFINE d == IF st.mode = "escape" /\ c \in DOMAIN Long THEN Long[c] ELSE c
        <4>3. [st EXCEPT !.mode = "string", !.text = Append(@, d)] = [str EXCEPT !.text = Append(str.text, d)]
          BY <3>2, <3>5
        <4> HIDE DEF esc, dig, str, d
        <4>4. Good([dig EXCEPT !.skip = 4]) /\ Good([str EXCEPT !.skip = 0])
          BY <3>3, <3>4
        <4>5. Good([str EXCEPT !.text = Append(str.text, d)]) /\ Good([st EXCEPT !.skip = st.skip - 1])
          BY <3>3, <3>4
        <4>6. QED
          BY <2>2, <3>3, <3>6, <4>1, <4>2, <4>3, <4>4, <4>5 DEF esc, d
      <3>8. QED
        BY <3>7 DEF Good
    <2>7. QED
      BY <2>1, <2>6 DEF Flat
  <1>5. QED
    BY <1>3, <1>4 DEF Took, Flat

(* So it is all the way through a text.                                      *)
LEMMA FlatThrough ==
    ASSUME NEW C, NEW text \in Seq(C), NEW st, Shape(st)
    PROVE  Shape(JsonEnd(st, text)) /\ (Flat(st) => Flat(JsonEnd(st, text)))
  <1> DEFINE n == Len(text)
  <1>1. n \in Nat
    BY LenProperties
  <1>2. PICK f : Goes(f, st, text) /\ JsonEnd(st, text) = f[n]
    BY GoesThrough
  <1> DEFINE G == {k \in 0 .. n : Shape(f[k]) /\ (Flat(st) => Flat(f[k]))}
  <1>3. 0 \in G /\ \A k \in 0 .. n - 1 : k \in G => k + 1 \in G
    <2>1. 0 \in 0 .. n /\ \A k \in 0 .. n - 1 : k + 1 \in 0 .. n
      BY <1>1
    <2>2. f[0] = st /\ \A k \in 0 .. n - 1 : f[k + 1] = Took(f[k], text[k + 1])
      BY <1>2 DEF Goes
    <2>3. QED
      BY <2>1, <2>2, FlatStays
  <1>4. n \in G
    <2>1. n \in 0 .. n
      BY <1>1
    <2> HIDE DEF G, n
    <2>2. QED
      BY <1>1, <1>3, <2>1, Upwards
  <1>5. QED
    BY <1>2, <1>4

(* What J::dump prints of a contact is one line that J::parse reads, and no  *)
(* less of the line is.                                                      *)
LEMMA ReadsDump ==
    ASSUME NEW contact \in Contact
    PROVE  /\ Dump(contact) \in Seq(Ink) /\ Len(Dump(contact)) \in Nat \ {0}
           /\ IsJson(Dump(contact)) /\ Parse(Dump(contact)) = ContactValue(contact)
           /\ \A j \in 0 .. Len(Dump(contact)) - 1 : ~IsJson(SubSeq(Dump(contact), 1, j))
  <1> DEFINE D == Dump(contact)
             b == DumpBegun(contact)
             z == << "}" >>
             v == ContactValue(contact)
             last == St("after", Inside(v, Nothing))
  <1>1. Reads(D, v) /\ D = b \o z /\ b \in Seq(Ink) /\ JsonEnd(Fresh, b) = last
    BY ReadsContact
  <1>2. ~Flat(last)
    <2>1. last.mode = "after"
      BY DEF St
    <2>2. QED
      BY <2>1 DEF Flat
  <1>3. JsonEnd(Fresh, D) = St("done", v)
    <2>1. ~KeyDue(Nothing)
      BY DEF KeyDue
    <2>2. Put(Nothing, v) = St("done", v)
      BY DEF Put
    <2>3. QED
      BY <1>1, <2>1, <2>2 DEF Reads, Fresh
  <1>4. IsJson(D) /\ Parse(D) = v
    <2>1. St("done", v).mode = "done" /\ St("done", v).open = v
      BY DEF St
    <2>2. Parsed(D) = St("done", v)
      BY <1>3 DEF Parsed, JsonEnd
    <2>3. QED
      BY <2>1, <2>2 DEF IsJson, Parse
  <1> HIDE DEF D, b, v, last
  <1>5. z \in Seq(Ink) /\ Len(z) = 1
    <2>1. "}" \in Ink
      BY CharAssumption DEF Ink, LF
    <2>2. QED
      BY <2>1, OneCharacter
  <1> HIDE DEF z
  <1>6. D \in Seq(Ink) /\ Len(D) = Len(b) + 1 /\ Len(b) \in Nat
    BY <1>1, <1>5, ConcatProperties, LenProperties
  <1>7. ASSUME NEW j \in 0 .. Len(D) - 1
        PROVE  ~IsJson(SubSeq(D, 1, j))
    <2> DEFINE p == SubSeq(D, 1, j)
               r == SubSeq(b, j + 1, Len(b))
               st == JsonEnd(Fresh, p)
    <2>1. j \in 0 .. Len(b)
      BY <1>6
    <2>2. p \in Seq(Ink) /\ r \in Seq(Ink) /\ b = p \o r
      <3>1. p = SubSeq(b, 1, j)
        BY <1>1, <1>5, <2>1
      <3>2. SubSeq(b, 1, j) \in Seq(Ink) /\ r \in Seq(Ink) /\ b = SubSeq(b, 1, j) \o r
        BY <1>1, <2>1, Parted
      <3>3. QED
        BY <3>1, <3>2
    <2> HIDE DEF p, r
    <2>3. JsonEnd(st, r) = last
      BY <1>1, <2>2, ReadsThen
    <2>4. Shape(st)
      <3>1. Shape(Fresh)
        BY DEF Shape, Fresh, St
      <3>2. QED
        BY <2>2, <3>1, FlatThrough
    <2> HIDE DEF st
    <2>5. ~Flat(st)
      BY <1>2, <2>2, <2>3, <2>4, FlatThrough
    <2>6. Parsed(p) = st
      BY DEF Parsed, JsonEnd, st
    <2>7. ~IsJson(p)
      <3>1. IsJson(p) = Flat(Parsed(p))
        BY DEF IsJson, Flat
      <3>2. QED
        BY <2>5, <2>6, <3>1
    <2>8. QED
      BY <2>7 DEF p
  <1>8. QED
    BY <1>1, <1>4, <1>6, <1>7 DEF D, v

(* A string is one.                                                          *)
LEMMA StringValue ==
    ASSUME NEW value, NEW text, value = [str |-> text]
    PROVE  IsStr(value) /\ value.str = text
  BY DEF IsStr

(* What is read of a line is the contact without control characters.         *)
LEMMA ReadsBack ==
    ASSUME NEW contact \in Contact
    PROVE  /\ IsObj(ContactValue(contact)) /\ IsContact(ContactValue(contact))
           /\ FromJson(ContactValue(contact)) = CleanContact(contact)
  <1> DEFINE v == ContactValue(contact)
             full == ContactMembers(contact)
             h == HistoryValues(contact)
  <1>1. IsObj(v) /\ v.obj = full
    BY DEF ContactValue, IsObj
  <1>2. DOMAIN FieldKey = 1 .. Columns /\ Columns \in Nat
    BY KeysAssumption
  <1>3. \A i \in 1 .. Columns : FieldKey[i] \in DOMAIN full /\ full[FieldKey[i]] = [str |-> Clean(contact.fields[i])]
    <2>1. ASSUME NEW i \in 1 .. Columns
          PROVE  FieldKey[i] \in DOMAIN full /\ full[FieldKey[i]] = [str |-> Clean(contact.fields[i])]
      <3>1. i \in 0 .. Columns /\ i # 0
        BY <1>2
      <3>2. KeyOf(i) = FieldKey[i] /\ ColumnValue(contact, i) = [str |-> Clean(contact.fields[i])]
        BY <3>1 DEF KeyOf, ColumnValue
      <3>3. QED
        BY <3>1, <3>2, MembersFound
    <2>2. QED
      BY <2>1
  <1>4. HistoryKey \in DOMAIN full /\ full[HistoryKey] = [arr |-> h]
    <2>1. 0 \in 0 .. Columns
      BY <1>2
    <2>2. KeyOf(0) = HistoryKey /\ ColumnValue(contact, 0) = [arr |-> h]
      BY DEF KeyOf, ColumnValue
    <2>3. QED
      BY <2>1, <2>2, MembersFound
  <1>5. DOMAIN h = DOMAIN contact.history /\ \A k \in DOMAIN h : h[k] = EntryValue(contact.history[k])
    BY DEF HistoryValues
  <1> HIDE DEF v, full, h
  <1>6. Has(v, FieldKey)
    <2>1. \A i \in 1 .. Columns : IsStr(full[FieldKey[i]])
      BY <1>3, StringValue
    <2>2. QED
      BY <1>1, <1>2, <1>3, <2>1 DEF Has
  <1>7. IsArr(v.obj[HistoryKey]) /\ v.obj[HistoryKey].arr = h
    BY <1>1, <1>4 DEF IsArr
  <1>8. \A k \in DOMAIN h : /\ Has(h[k], EntryKey)
                            /\ TextsIn(h[k], EntryKey) = [i \in DOMAIN EntryKey |-> Clean(contact.history[k][i])]
    <2>1. ASSUME NEW k \in DOMAIN h
          PROVE  /\ Has(h[k], EntryKey)
                 /\ TextsIn(h[k], EntryKey) = [i \in DOMAIN EntryKey |-> Clean(contact.history[k][i])]
      <3> DEFINE e == contact.history[k]
                 g == EntryMembers(e)
      <3>1. IsObj(h[k]) /\ h[k].obj = g
        <4>1. IsObj([obj |-> g]) /\ [obj |-> g].obj = g
          BY DEF IsObj
        <4>2. h[k] = [obj |-> g]
          BY <1>5 DEF EntryValue
        <4> HIDE DEF g
        <4>3. QED
          BY <4>1, <4>2
      <3>2. \A i \in DOMAIN EntryKey : EntryKey[i] \in DOMAIN g /\ g[EntryKey[i]] = [str |-> Clean(e[i])]
        BY MembersFound
      <3> HIDE DEF g
      <3>3. \A i \in DOMAIN EntryKey : IsStr(g[EntryKey[i]]) /\ g[EntryKey[i]].str = Clean(e[i])
        BY <3>2, StringValue
      <3>4. QED
        BY <3>1, <3>2, <3>3 DEF Has, TextsIn
    <2>2. QED
      BY <2>1
  <1>9. IsContact(v)
    BY <1>1, <1>4, <1>6, <1>7, <1>8 DEF IsContact
  <1>10. TextsIn(v, FieldKey) = [i \in 1 .. Columns |-> Clean(contact.fields[i])]
    <2>1. \A i \in 1 .. Columns : full[FieldKey[i]].str = Clean(contact.fields[i])
      BY <1>3, StringValue
    <2>2. QED
      BY <1>1, <1>2, <2>1 DEF TextsIn
  <1>11. [k \in DOMAIN h |-> TextsIn(h[k], EntryKey)] =
            [n \in DOMAIN contact.history |-> [i \in DOMAIN EntryKey |-> Clean(contact.history[n][i])]]
    BY <1>5, <1>8
  <1>12. FromJson(v) = CleanContact(contact)
    BY <1>7, <1>10, <1>11 DEF FromJson, CleanContact
  <1>13. QED
    BY <1>1, <1>9, <1>12 DEF v

\* What diff takes of the line of a contact.
Outline(contact) ==
    [fields  |-> [i \in 1 .. Columns |->
                    IF i \in Wanted THEN Clean(contact.fields[i]) ELSE << >>],
     history |-> << >>]

(* diff reads every line of a contact.                                       *)
LEMMA SketchesBack ==
    ASSUME NEW contact \in Contact
    PROVE  /\ \A i \in Wanted : FieldKey[i] \in DOMAIN ContactValue(contact).obj =>
                  IsStr(ContactValue(contact).obj[FieldKey[i]])
           /\ Sketch(ContactValue(contact)) = Outline(contact)
  <1> DEFINE v == ContactValue(contact)
             full == ContactMembers(contact)
  <1>1. v.obj = full
    BY DEF ContactValue
  <1>2. Columns \in Nat \ {0}
    BY KeysAssumption
  <1>3. \A i \in 1 .. Columns : FieldKey[i] \in DOMAIN full /\ full[FieldKey[i]] = [str |-> Clean(contact.fields[i])]
    <2>1. ASSUME NEW i \in 1 .. Columns
          PROVE  FieldKey[i] \in DOMAIN full /\ full[FieldKey[i]] = [str |-> Clean(contact.fields[i])]
      <3>1. i \in 0 .. Columns /\ i # 0
        BY <1>2
      <3>2. KeyOf(i) = FieldKey[i] /\ ColumnValue(contact, i) = [str |-> Clean(contact.fields[i])]
        BY <3>1 DEF KeyOf, ColumnValue
      <3>3. QED
        BY <3>1, <3>2, MembersFound
    <2>2. QED
      BY <2>1
  <1> HIDE DEF full, v
  <1>4. Wanted \subseteq 1 .. Columns
    <2>1. 1 \in 1 .. Columns /\ 2 .. Columns \subseteq 1 .. Columns
      BY <1>2
    <2>2. QED
      BY <2>1, ColumnsAssumption DEF Wanted
  <1>5. \A i \in 1 .. Columns : IsStr(full[FieldKey[i]]) /\ full[FieldKey[i]].str = Clean(contact.fields[i])
    BY <1>3, StringValue
  <1>6. Sketch(v) = Outline(contact)
    BY <1>1, <1>3, <1>5 DEF Sketch, Outline
  <1>7. QED
    BY <1>1, <1>4, <1>5, <1>6 DEF v


-----------------------------------------------------------------------------
(* Lines.                                                                    *)

CutState == [lines : Seq(Seq(Char)), line : Seq(Char)]

\* The step of std::getline.
Cutting == [x \in CutState \X Char |-> Cut(x[1], x[2])]

\* Where the cutting of a text ends that begins in st.
CutEnd(st, text) == End(CutState, Cutting, st, text)

\* The lines so far and the line that is being read.
CS(ls, l) == [lines |-> ls, line |-> l]

(* A step of std::getline, as a function.                                    *)
LEMMA CuttingSteps ==
    /\ Steps(Cutting, CutState, Char)
    /\ \A st \in CutState, c \in Char : Cutting[<< st, c >>] = Cut(st, c)
  <1>1. ASSUME NEW st \in CutState, NEW c \in Char
        PROVE  Cut(st, c) \in CutState
    <2>1. /\ Append(st.line, c) \in Seq(Char) /\ Append(st.lines, st.line) \in Seq(Seq(Char))
          /\ st.lines \in Seq(Seq(Char)) /\ << >> \in Seq(Char)
      BY AppendProperties, EmptySeq DEF CutState
    <2>2. QED
      BY <2>1 DEF Cut, CutState
  <1>2. QED
    BY <1>1 DEF Cutting, Steps

(* One character is cut in one step.                                         *)
LEMMA CutEndOne ==
    ASSUME NEW st \in CutState, NEW c \in Char
    PROVE  CutEnd(st, << c >>) = Cut(st, c) /\ Cut(st, c) \in CutState
  <1>1. CutEnd(st, << c >>) = Cutting[<< st, c >>]
    BY CuttingSteps, EndOne DEF CutEnd
  <1>2. Cutting[<< st, c >>] \in CutState
    BY CuttingSteps DEF Steps
  <1>3. QED
    BY <1>1, <1>2, CuttingSteps

(* A text is cut from where the text before it has ended.                    *)
LEMMA CutEndJoined ==
    ASSUME NEW st \in CutState, NEW a \in Seq(Char), NEW b \in Seq(Char)
    PROVE  /\ CutEnd(st, a \o b) = CutEnd(CutEnd(st, a), b)
           /\ CutEnd(st, a) \in CutState
  BY CuttingSteps, EndJoined, EndStays DEF CutEnd

(* The recursion in Through goes the same way.                               *)
LEMMA ThroughCut ==
    ASSUME NEW st \in CutState, NEW text \in Seq(Char)
    PROVE  Through(Cut, st, text) = CutEnd(st, text)
  <1> DEFINE n == Len(text)
             Recursion(f) == f = [k \in 0 .. n |-> IF k = 0 THEN st ELSE Cut(f[k - 1], text[k])]
             f == CHOOSE g : Recursion(g)
  <1>1. Steps(Cutting, CutState, Char) /\ n \in Nat /\ \A k \in 1 .. n : text[k] \in Char
    BY CuttingSteps, LenProperties, ElementOfSeq
  <1>2. \E g : Recursion(g)
    <2>1. PICK w : Walks(w, CutState, Cutting, st, text, n)
      BY <1>1, WalkExists DEF Steps
    <2> DEFINE g == [k \in 0 .. n |-> w[k]]
    <2>2. ASSUME NEW k \in 0 .. n
          PROVE  g[k] = IF k = 0 THEN st ELSE Cut(g[k - 1], text[k])
      <3>1. CASE k = 0
        BY <2>1, <3>1 DEF Walks
      <3>2. CASE k # 0
        <4>1. k - 1 \in 0 .. n - 1 /\ (k - 1) + 1 = k /\ k - 1 \in 0 .. n /\ text[k] \in Char
          BY <1>1, <3>2
        <4>2. w[(k - 1) + 1] = Cutting[<< w[k - 1], text[(k - 1) + 1] >>] /\ w[k - 1] \in CutState
          BY <2>1, <4>1 DEF Walks
        <4>3. w[k] = Cut(w[k - 1], text[k])
          BY <4>1, <4>2, CuttingSteps
        <4>4. QED
          BY <3>2, <4>1, <4>3
      <3>3. QED
        BY <3>1, <3>2
    <2>3. Recursion(g)
      BY <2>2
    <2>4. QED
      BY <2>3
  <1>3. Recursion(f)
    BY <1>2
  <1>4. Through(Cut, st, text) = f[n]
    BY DEF Through
  <1> HIDE DEF f
  <1>5. Follows(f, CutState, Cutting, st, text, n)
    <2>1. f[0] = st
      BY <1>1, <1>3
    <2>2. ASSUME NEW k \in 0 .. n - 1, f[k] \in CutState
          PROVE  f[k + 1] = Cutting[<< f[k], text[k + 1] >>]
      <3>1. k + 1 \in 0 .. n /\ k + 1 # 0 /\ (k + 1) - 1 = k /\ text[k + 1] \in Char
        BY <1>1
      <3>2. f[k + 1] = Cut(f[k], text[k + 1])
        BY <1>3, <3>1
      <3>3. QED
        BY <2>2, <3>1, <3>2, CuttingSteps
    <2>3. QED
      BY <2>1, <2>2 DEF Follows
  <1>6. QED
    BY <1>1, <1>4, <1>5, EndIs DEF CutEnd

(* What CS makes is a state.                                                 *)
LEMMA CsStates ==
    ASSUME NEW ls \in Seq(Seq(Char)), NEW l \in Seq(Char)
    PROVE  CS(ls, l) \in CutState
  BY DEF CS, CutState

(* Characters other than line breaks go to the end of the line.              *)
LEMMA CutsInk ==
    ASSUME NEW ls \in Seq(Seq(Char)), NEW l \in Seq(Char), NEW a \in Seq(Ink)
    PROVE  CutEnd(CS(ls, l), a) = CS(ls, l \o a)
  <1> DEFINE n == Len(a)
             g == [k \in 0 .. n |-> CS(ls, l \o SubSeq(a, 1, k))]
  <1>1. n \in Nat /\ \A k \in 1 .. n : a[k] \in Ink /\ a[k] \in Char /\ a[k] # LF
    BY LenProperties, ElementOfSeq DEF Ink
  <1>2. a \in Seq(Char)
    BY SeqMonotonic DEF Ink
  <1>3. /\ SubSeq(a, 1, 0) = << >> /\ SubSeq(a, 1, n) = a
        /\ \A k \in 0 .. n : SubSeq(a, 1, k) \in Seq(Char)
        /\ \A k \in 0 .. n - 1 : SubSeq(a, 1, k + 1) = Append(SubSeq(a, 1, k), a[k + 1])
    BY <1>2, UptoFacts
  <1>4. l \o << >> = l
    BY ConcatEmptySeq
  <1>5. \A k \in 0 .. n : g[k] = CS(ls, l \o SubSeq(a, 1, k))
    OBVIOUS
  <1> HIDE DEF g
  <1>6. ASSUME NEW k \in 0 .. n - 1
        PROVE  g[k + 1] = Cutting[<< g[k], a[k + 1] >>]
    <2> DEFINE u == SubSeq(a, 1, k)
               c == a[k + 1]
               v == l \o u
    <2>1. k \in 0 .. n /\ k + 1 \in 0 .. n /\ k + 1 \in 1 .. n
      BY <1>1
    <2>2. u \in Seq(Char) /\ c \in Char /\ c # LF /\ SubSeq(a, 1, k + 1) = Append(u, c)
      BY <1>1, <1>3, <2>1
    <2>3. g[k] = CS(ls, v) /\ g[k + 1] = CS(ls, l \o Append(u, c))
      BY <1>5, <2>1, <2>2
    <2> HIDE DEF u, c
    <2>4. v \in Seq(Char) /\ l \o Append(u, c) = Append(v, c)
      BY <2>2
    <2> HIDE DEF v
    <2>5. CS(ls, v) \in CutState
      BY <2>4, CsStates
    <2>6. Cut(CS(ls, v), c) = CS(ls, Append(v, c))
      BY <2>2 DEF Cut, CS
    <2>7. Cutting[<< CS(ls, v), c >>] = CS(ls, Append(v, c))
      BY <2>2, <2>5, <2>6, CuttingSteps
    <2>8. QED
      BY <2>3, <2>4, <2>7 DEF c
  <1>7. g[0] = CS(ls, l)
    <2>1. 0 \in 0 .. n
      BY <1>1
    <2>2. QED
      BY <1>3, <1>4, <1>5, <2>1
  <1>8. Follows(g, CutState, Cutting, CS(ls, l), a, n)
    BY <1>6, <1>7 DEF Follows
  <1>9. CutEnd(CS(ls, l), a) = g[n]
    <2>1. CS(ls, l) \in CutState
      BY CsStates
    <2>2. QED
      BY <1>2, <1>8, <2>1, CuttingSteps, EndIs DEF CutEnd
  <1>10. n \in 0 .. n
    BY <1>1
  <1>11. QED
    BY <1>3, <1>5, <1>9, <1>10

\* Each line with its break.
Broken(lines) == [k \in DOMAIN lines |-> lines[k] \o << LF >>]

\* No line is empty.
NoneEmpty(lines) == \A k \in DOMAIN lines : lines[k] # << >>

(* Lines with their breaks are texts.                                        *)
LEMMA BrokenPieces ==
    ASSUME NEW lines \in Seq(Seq(Ink))
    PROVE  /\ Broken(lines) \in Seq(Seq(Char)) /\ Len(Broken(lines)) = Len(lines)
           /\ lines \in Seq(Seq(Char)) /\ Len(lines) \in Nat
           /\ \A k \in 1 .. Len(lines) : /\ Broken(lines)[k] = lines[k] \o << LF >>
                                         /\ lines[k] \in Seq(Ink) /\ lines[k] \in Seq(Char)
  <1>1. Len(lines) \in Nat /\ DOMAIN lines = 1 .. Len(lines)
    BY LenProperties
  <1>2. \A a \in Seq(Ink) : a \in Seq(Char)
    BY SeqMonotonic DEF Ink
  <1>3. \A k \in 1 .. Len(lines) : lines[k] \in Seq(Ink) /\ lines[k] \in Seq(Char)
    BY <1>1, <1>2, ElementOfSeq
  <1>4. << LF >> \in Seq(Char)
    BY CharAssumption, OneCharacter
  <1>5. \A k \in 1 .. Len(lines) : lines[k] \o << LF >> \in Seq(Char)
    BY <1>3, <1>4, ConcatProperties
  <1>6. Broken(lines) \in [1 .. Len(lines) -> Seq(Char)]
    BY <1>1, <1>5 DEF Broken
  <1>7. lines \in [1 .. Len(lines) -> Seq(Char)]
    BY <1>1, <1>3, LenProperties
  <1>8. \A k \in 1 .. Len(lines) : Broken(lines)[k] = lines[k] \o << LF >>
    BY <1>1 DEF Broken
  <1>9. Broken(lines) \in Seq(Seq(Char)) /\ Len(Broken(lines)) = Len(lines)
    BY <1>1, <1>6, FunctionIsSeq
  <1>10. lines \in Seq(Seq(Char))
    BY <1>1, <1>7, FunctionIsSeq
  <1>11. QED
    BY <1>1, <1>3, <1>8, <1>9, <1>10

(* The lines of a text are those it was made of, and what follows the last   *)
(* break is a line if there is anything.                                     *)
LEMMA LinesAre ==
    ASSUME NEW lines \in Seq(Seq(Ink)), NoneEmpty(lines),
           NEW n \in 0 .. Len(lines), NEW rest \in Seq(Ink)
    PROVE  LinesOf(FlattenSeq(SubSeq(Broken(lines), 1, n)) \o rest)
             = IF rest = << >> THEN SubSeq(lines, 1, n) ELSE Append(SubSeq(lines, 1, n), rest)
  <1> DEFINE B == Broken(lines)
             none == << >>
             lf == << LF >>
             N == Len(lines)
             q == [k \in 0 .. N |-> CS(SubSeq(lines, 1, k), none)]
             t == FlattenSeq(SubSeq(B, 1, n))
             ls == SubSeq(lines, 1, n)
  <1>1. /\ B \in Seq(Seq(Char)) /\ Len(B) = N /\ lines \in Seq(Seq(Char)) /\ N \in Nat
        /\ \A k \in 1 .. N : B[k] = lines[k] \o lf /\ lines[k] \in Seq(Ink) /\ lines[k] \in Seq(Char)
    BY BrokenPieces
  <1>2. \A k \in 1 .. N : lines[k] # none
    BY LenProperties DEF NoneEmpty
  <1>3. none \in Seq(Char) /\ none \in Seq(Seq(Char)) /\ lf \in Seq(Char) /\ LF \in Char
    BY CharAssumption, OneCharacter, EmptySeq
  <1>4. /\ SubSeq(lines, 1, 0) = none
        /\ \A k \in 0 .. N : SubSeq(lines, 1, k) \in Seq(Seq(Char))
        /\ \A k \in 0 .. N - 1 : SubSeq(lines, 1, k + 1) = Append(SubSeq(lines, 1, k), lines[k + 1])
    BY <1>1, UptoFacts
  <1> HIDE DEF B
  <1>5. \A k \in 0 .. N : q[k] = CS(SubSeq(lines, 1, k), none)
    OBVIOUS
  <1>6. NoLines = CS(none, none) /\ NoLines \in CutState
    BY <1>3, CsStates DEF NoLines, CS
  <1> HIDE DEF q, none, lf
  <1>7. ASSUME NEW k \in 0 .. N - 1
        PROVE  CutEnd(q[k], B[k + 1]) = q[k + 1]
    <2> DEFINE u == SubSeq(lines, 1, k)
               a == lines[k + 1]
    <2>1. k \in 0 .. N /\ k + 1 \in 0 .. N /\ k + 1 \in 1 .. N
      BY <1>1
    <2>2. /\ u \in Seq(Seq(Char)) /\ a \in Seq(Ink) /\ a \in Seq(Char) /\ a # none
          /\ B[k + 1] = a \o lf /\ SubSeq(lines, 1, k + 1) = Append(u, a)
      BY <1>1, <1>2, <1>4, <2>1
    <2>3. q[k] = CS(u, none) /\ q[k + 1] = CS(Append(u, a), none)
      BY <1>5, <2>1, <2>2
    <2> HIDE DEF u, a
    <2>4. none \o a = a
      BY <2>2, ConcatEmptySeq DEF none
    <2>5. CutEnd(CS(u, none), a) = CS(u, a)
      BY <1>3, <2>2, <2>4, CutsInk
    <2>6. CS(u, none) \in CutState /\ CS(u, a) \in CutState
      BY <1>3, <2>2, CsStates
    <2>7. Cut(CS(u, a), LF) = CS(Append(u, a), none)
      BY <2>2 DEF Cut, CS, none
    <2>8. CutEnd(CS(u, a), lf) = CS(Append(u, a), none)
      BY <1>3, <2>6, <2>7, CutEndOne DEF lf
    <2>9. CutEnd(CS(u, none), a \o lf) = CS(Append(u, a), none)
      BY <1>3, <2>2, <2>5, <2>6, <2>8, CutEndJoined
    <2>10. QED
      BY <2>2, <2>3, <2>9
  <1>8. q[0] = NoLines
    <2>1. 0 \in 0 .. N
      BY <1>1
    <2>2. QED
      BY <1>4, <1>5, <1>6, <2>1
  <1>9. Passing(q, CutState, Cutting, NoLines, B)
    BY <1>1, <1>7, <1>8 DEF Passing, CutEnd
  <1>10. CutEnd(NoLines, t) = CS(ls, none)
    <2>1. End(CutState, Cutting, NoLines, t) = q[n]
      BY <1>1, <1>6, <1>9, CuttingSteps, EndFlattened
    <2>2. QED
      BY <1>5, <2>1 DEF CutEnd
  <1>11. t \in Seq(Char) /\ ls \in Seq(Seq(Char)) /\ rest \in Seq(Char)
    <2>1. SubSeq(B, 1, n) \in Seq(Seq(Char))
      BY <1>1, UptoFacts
    <2>2. rest \in Seq(Char)
      BY SeqMonotonic DEF Ink
    <2>3. QED
      BY <1>4, <2>1, <2>2, FlattenFacts
  <1> HIDE DEF t, ls
  <1>12. CutEnd(NoLines, t \o rest) = CS(ls, rest)
    <2>1. none \o rest = rest
      BY <1>11, ConcatEmptySeq DEF none
    <2>2. CutEnd(CS(ls, none), rest) = CS(ls, rest)
      BY <1>3, <1>11, <2>1, CutsInk, ZenonT(30)
    <2>3. QED
      BY <1>6, <1>10, <1>11, <2>2, CutEndJoined
  <1>13. Through(Cut, NoLines, t \o rest) = CS(ls, rest)
    <2>1. t \o rest \in Seq(Char)
      BY <1>11, ConcatProperties
    <2>2. QED
      BY <1>6, <1>12, <2>1, ThroughCut
  <1>14. Cut(CS(ls, rest), LF).lines = IF rest = << >> THEN ls ELSE Append(ls, rest)
    BY DEF Cut, CS
  <1>15. QED
    BY <1>13, <1>14 DEF LinesOf, t, ls, B

(* The first characters of a text of two parts.                              *)
LEMMA FirstOfFirst ==
    ASSUME NEW T, NEW a \in Seq(T), NEW b \in Seq(T), NEW k \in 0 .. Len(a)
    PROVE  SubSeq(a \o b, 1, k) = SubSeq(a, 1, k)
  <1>1. Len(a) \in Nat /\ Len(b) \in Nat
    BY LenProperties
  <1>2. QED
    BY <1>1

(* The first part and the first characters of the second.                    *)
LEMMA FirstOfBoth ==
    ASSUME NEW T, NEW a \in Seq(T), NEW b \in Seq(T), NEW j \in 0 .. Len(b)
    PROVE  SubSeq(a \o b, 1, Len(a) + j) = a \o SubSeq(b, 1, j)
  <1>1. Len(a) \in Nat /\ Len(b) \in Nat
    BY LenProperties
  <1>2. QED
    BY <1>1

\* Nothing, or some of the characters of the piece after the first m.
Partial(pieces, m, rest) ==
    \/ rest = << >>
    \/ m < Len(pieces) /\ \E j \in 0 .. Len(pieces[m + 1]) - 1 : rest = SubSeq(pieces[m + 1], 1, j)

\* f is the first m pieces, and a part of the next.
CutAfter(f, pieces, m) ==
    \E rest : Partial(pieces, m, rest) /\ f = FlattenSeq(SubSeq(pieces, 1, m)) \o rest

(* A text of pieces is cut behind some piece, or within the one after it.    *)
LEMMA CutPieces ==
    ASSUME NEW T, NEW pieces \in Seq(Seq(T)), NEW k \in 0 .. Len(FlattenSeq(pieces))
    PROVE  \E m \in 0 .. Len(pieces) : CutAfter(SubSeq(FlattenSeq(pieces), 1, k), pieces, m)
  <1> DEFINE N == Len(pieces)
             F(n) == FlattenSeq(SubSeq(pieces, 1, n))
             Good(n) == \A i \in 0 .. Len(F(n)) :
                            \E m \in 0 .. n : CutAfter(SubSeq(F(n), 1, i), pieces, m)
  <1>1. /\ N \in Nat /\ \A i \in 1 .. N : pieces[i] \in Seq(T)
        /\ SubSeq(pieces, 1, 0) = << >> /\ SubSeq(pieces, 1, N) = pieces
        /\ \A i \in 0 .. N : SubSeq(pieces, 1, i) \in Seq(Seq(T))
        /\ \A i \in 0 .. N - 1 : SubSeq(pieces, 1, i + 1) = Append(SubSeq(pieces, 1, i), pieces[i + 1])
    BY UptoFacts
  <1>2. \A i \in 0 .. N : F(i) \in Seq(T)
    BY <1>1, FlattenFacts
  <1>3. F(0) = << >>
    BY <1>1, FlattenFacts
  <1>4. \A i \in 0 .. N - 1 : F(i + 1) = F(i) \o pieces[i + 1]
    <2>1. SUFFICES ASSUME NEW i \in 0 .. N - 1
                   PROVE  F(i + 1) = F(i) \o pieces[i + 1]
      OBVIOUS
    <2> DEFINE u == SubSeq(pieces, 1, i)
               x == pieces[i + 1]
    <2>2. u \in Seq(Seq(T)) /\ x \in Seq(T) /\ SubSeq(pieces, 1, i + 1) = Append(u, x)
      BY <1>1
    <2> HIDE DEF u, x
    <2>3. FlattenSeq(Append(u, x)) = FlattenSeq(u) \o x
      BY <2>2, FlattenFacts
    <2>4. QED
      BY <2>2, <2>3 DEF u, x
  <1> HIDE DEF F
  <1>5. Good(0)
    <2>1. SUFFICES ASSUME NEW i \in 0 .. Len(F(0))
                   PROVE  CutAfter(SubSeq(F(0), 1, i), pieces, 0)
      OBVIOUS
    <2>2. Partial(pieces, 0, << >>)
      BY DEF Partial
    <2>3. SubSeq(F(0), 1, i) = F(0) /\ F(0) = F(0) \o << >>
      <3>1. Len(F(0)) = 0
        BY <1>3, EmptySeq
      <3>2. i = 0
        BY <3>1
      <3>3. SubSeq(F(0), 1, i) = << >>
        BY <3>2, SubSeqEmpty
      <3>4. << >> \o << >> = << >>
        BY ConcatEmptySeq, EmptySeq
      <3>5. QED
        BY <1>3, <3>3, <3>4
    <2>4. QED
      BY <2>2, <2>3 DEF CutAfter, F
  <1>6. ASSUME NEW n \in 0 .. N - 1, Good(n)
        PROVE  Good(n + 1)
    <2> DEFINE a == F(n)
               x == pieces[n + 1]
    <2>1. n \in 0 .. N /\ n + 1 \in 0 .. N /\ n + 1 \in 1 .. N /\ n \in 0 .. n + 1
          /\ n + 1 \in 0 .. n + 1 /\ n < N
      BY <1>1
    <2>2. a \in Seq(T) /\ x \in Seq(T) /\ F(n + 1) = a \o x
      BY <1>1, <1>2, <1>4, <2>1
    <2>3. SUFFICES ASSUME NEW i \in 0 .. Len(F(n + 1))
                   PROVE  \E m \in 0 .. n + 1 : CutAfter(SubSeq(F(n + 1), 1, i), pieces, m)
      OBVIOUS
    <2> HIDE DEF x
    <2>4. /\ Len(a) \in Nat /\ Len(x) \in Nat /\ Len(F(n + 1)) = Len(a) + Len(x)
          /\ \A j \in 0 .. Len(a) : SubSeq(F(n + 1), 1, j) = SubSeq(a, 1, j)
          /\ \A j \in 0 .. Len(x) : SubSeq(F(n + 1), 1, Len(a) + j) = a \o SubSeq(x, 1, j)
      <3> DEFINE y == F(n + 1)
      <3> HIDE DEF a, y
      <3>1. a \in Seq(T) /\ x \in Seq(T) /\ y = a \o x
        BY <2>2 DEF y, a
      <3>2. /\ Len(a) \in Nat /\ Len(x) \in Nat /\ Len(y) = Len(a) + Len(x)
            /\ \A j \in 0 .. Len(a) : SubSeq(y, 1, j) = SubSeq(a, 1, j)
            /\ \A j \in 0 .. Len(x) : SubSeq(y, 1, Len(a) + j) = a \o SubSeq(x, 1, j)
        <4>1. Len(a) \in Nat /\ Len(x) \in Nat /\ Len(y) = Len(a) + Len(x)
          BY <3>1, ConcatProperties, LenProperties
        <4>2. \A j \in 0 .. Len(a) : SubSeq(y, 1, j) = SubSeq(a, 1, j)
          BY <3>1, FirstOfFirst
        <4>3. \A j \in 0 .. Len(x) : SubSeq(y, 1, Len(a) + j) = a \o SubSeq(x, 1, j)
          BY <3>1, FirstOfBoth
        <4>4. QED
          BY <4>1, <4>2, <4>3
      <3>3. QED
        BY <3>2 DEF y
    <2>5. CASE i <= Len(a)
      <3>1. i \in 0 .. Len(a) /\ SubSeq(F(n + 1), 1, i) = SubSeq(a, 1, i)
        BY <2>4, <2>5
      <3>2. PICK m \in 0 .. n : CutAfter(SubSeq(a, 1, i), pieces, m)
        BY <1>6, <3>1
      <3>3. m \in 0 .. n + 1
        OBVIOUS
      <3>4. QED
        BY <3>1, <3>2, <3>3
    <2>6. CASE i > Len(a)
      <3> DEFINE j == i - Len(a)
      <3>1. j \in 0 .. Len(x) /\ i = Len(a) + j
        BY <2>4, <2>6
      <3> HIDE DEF j
      <3>2. SubSeq(F(n + 1), 1, i) = a \o SubSeq(x, 1, j)
        BY <2>4, <3>1
      <3>3. CASE j = Len(x)
        <4>1. SubSeq(x, 1, j) = x
          BY <2>2, <3>3, SubSeqFull
        <4>2. SubSeq(F(n + 1), 1, i) = F(n + 1) \o << >>
          <5>1. F(n + 1) \in Seq(T)
            BY <1>2, <2>1
          <5>2. QED
            BY <2>2, <3>2, <4>1, <5>1, ConcatEmptySeq
        <4>3. Partial(pieces, n + 1, << >>)
          BY DEF Partial
        <4>4. CutAfter(SubSeq(F(n + 1), 1, i), pieces, n + 1)
          BY <4>2, <4>3 DEF CutAfter, F
        <4>5. QED
          BY <2>1, <4>4
      <3>4. CASE j # Len(x)
        <4>1. j \in 0 .. Len(x) - 1
          BY <2>4, <3>1, <3>4
        <4>2. Partial(pieces, n, SubSeq(x, 1, j))
          BY <2>1, <4>1 DEF Partial, x
        <4>3. CutAfter(SubSeq(F(n + 1), 1, i), pieces, n)
          BY <3>2, <4>2 DEF CutAfter, F
        <4>4. QED
          BY <2>1, <4>3
      <3>5. QED
        BY <3>3, <3>4
    <2>7. i \in Nat
      BY <2>4
    <2>8. QED
      BY <2>4, <2>5, <2>6, <2>7
  <1> HIDE DEF Good
  <1>7. \A n \in 0 .. N : Good(n)
    <2> DEFINE G == {n \in 0 .. N : Good(n)}
    <2>1. 0 \in G /\ \A n \in 0 .. N - 1 : n \in G => n + 1 \in G
      BY <1>1, <1>5, <1>6
    <2>2. N \in Nat
      BY <1>1
    <2> HIDE DEF G, N
    <2>3. \A n \in 0 .. N : n \in G
      BY <2>1, <2>2, Upwards
    <2>4. QED
      BY <2>3 DEF G
  <1>8. Good(N) /\ F(N) = FlattenSeq(pieces)
    <2>1. N \in 0 .. N
      BY <1>1
    <2>2. QED
      BY <1>1, <1>7, <2>1 DEF F
  <1>9. QED
    BY <1>8 DEF Good

\* Each member in a sequence of its own.
Singles(s) == [k \in DOMAIN s |-> << s[k] >>]

(* A text put together of its characters is the text.                        *)
LEMMA FlattenSingles ==
    ASSUME NEW T, NEW s \in Seq(T)
    PROVE  /\ Singles(s) \in Seq(Seq(T)) /\ Len(Singles(s)) = Len(s)
           /\ FlattenSeq(Singles(s)) = s
  <1> DEFINE N == Len(s)
             p == Singles(s)
             Good(n) == FlattenSeq(SubSeq(p, 1, n)) = SubSeq(s, 1, n)
  <1>1. /\ N \in Nat /\ DOMAIN s = 1 .. N /\ \A i \in 1 .. N : s[i] \in T
        /\ SubSeq(s, 1, 0) = << >> /\ SubSeq(s, 1, N) = s
        /\ \A i \in 0 .. N : SubSeq(s, 1, i) \in Seq(T)
        /\ \A i \in 0 .. N - 1 : SubSeq(s, 1, i + 1) = Append(SubSeq(s, 1, i), s[i + 1])
    BY UptoFacts
  <1>2. \A i \in 1 .. N : << s[i] >> \in Seq(T)
    BY <1>1, OneCharacter
  <1>3. p \in [1 .. N -> Seq(T)] /\ \A i \in 1 .. N : p[i] = << s[i] >>
    BY <1>1, <1>2 DEF Singles
  <1> HIDE DEF p
  <1>4. p \in Seq(Seq(T)) /\ Len(p) = N
    BY <1>1, <1>3, FunctionIsSeq
  <1>5. /\ SubSeq(p, 1, 0) = << >> /\ SubSeq(p, 1, N) = p
        /\ \A i \in 0 .. N : SubSeq(p, 1, i) \in Seq(Seq(T))
        /\ \A i \in 0 .. N - 1 : SubSeq(p, 1, i + 1) = Append(SubSeq(p, 1, i), p[i + 1])
    BY <1>4, UptoFacts
  <1>6. Good(0)
    BY <1>1, <1>5, FlattenFacts
  <1>7. ASSUME NEW n \in 0 .. N - 1, Good(n)
        PROVE  Good(n + 1)
    <2> DEFINE u == SubSeq(p, 1, n)
               x == p[n + 1]
               v == SubSeq(s, 1, n)
    <2>1. n \in 0 .. N /\ n + 1 \in 1 .. N
      BY <1>1
    <2>2. /\ u \in Seq(Seq(T)) /\ x \in Seq(T) /\ x = << s[n + 1] >> /\ v \in Seq(T)
          /\ SubSeq(p, 1, n + 1) = Append(u, x) /\ FlattenSeq(u) = v
          /\ SubSeq(s, 1, n + 1) = Append(v, s[n + 1]) /\ s[n + 1] \in T
      BY <1>1, <1>2, <1>3, <1>5, <1>7, <2>1
    <2> HIDE DEF u, x, v
    <2>3. FlattenSeq(Append(u, x)) = FlattenSeq(u) \o x
      BY <2>2, FlattenFacts
    <2>4. Append(v, s[n + 1]) = v \o x
      BY <2>2, AppendIsConcat
    <2>5. QED
      BY <2>2, <2>3, <2>4
  <1> HIDE DEF Good
  <1>8. \A n \in 0 .. N : Good(n)
    <2> DEFINE G == {n \in 0 .. N : Good(n)}
    <2>1. 0 \in G /\ \A n \in 0 .. N - 1 : n \in G => n + 1 \in G
      BY <1>1, <1>6, <1>7
    <2>2. N \in Nat
      BY <1>1
    <2> HIDE DEF G, N
    <2>3. \A n \in 0 .. N : n \in G
      BY <2>1, <2>2, Upwards
    <2>4. QED
      BY <2>3 DEF G
  <1>9. Good(N)
    BY <1>1, <1>8
  <1>10. QED
    BY <1>1, <1>4, <1>5, <1>9 DEF Good, p

-----------------------------------------------------------------------------
(* Contacts, line by line.                                                   *)

\* What diff takes of a book.
Outlines(contacts) == [k \in DOMAIN contacts |-> Outline(contacts[k])]

(* What comes back of a contact is one.                                      *)
LEMMA ContactFacts ==
    ASSUME NEW contact \in Contact
    PROVE  CleanContact(contact) \in Contact /\ Outline(contact) \in Contact
  <1> DEFINE F == [1 .. Columns -> Seq(Char)]
             H == Seq([DOMAIN EntryKey -> Seq(Char)])
             fields == [i \in 1 .. Columns |-> Clean(contact.fields[i])]
             history == [n \in DOMAIN contact.history |->
                            [i \in DOMAIN EntryKey |-> Clean(contact.history[n][i])]]
             sketch == [i \in 1 .. Columns |-> IF i \in Wanted THEN Clean(contact.fields[i]) ELSE << >>]
             none == << >>
  <1>1. contact.fields \in F /\ contact.history \in H
    BY DEF Contact
  <1>2. \A i \in 1 .. Columns : Clean(contact.fields[i]) \in Seq(Char)
    BY <1>1, ReadsString
  <1>3. fields \in F /\ sketch \in F
    BY <1>2, EmptySeq
  <1>4. history \in H
    <2> DEFINE n == Len(contact.history)
               E == [DOMAIN EntryKey -> Seq(Char)]
    <2>1. n \in Nat /\ DOMAIN contact.history = 1 .. n /\ \A k \in 1 .. n : contact.history[k] \in E
      BY <1>1, UptoFacts
    <2>2. \A k \in 1 .. n : \A i \in DOMAIN EntryKey : Clean(contact.history[k][i]) \in Seq(Char)
      BY <2>1, ReadsString
    <2>3. \A k \in 1 .. n : [i \in DOMAIN EntryKey |-> Clean(contact.history[k][i])] \in E
      BY <2>2
    <2>4. history \in [1 .. n -> E]
      BY <2>1, <2>3
    <2> HIDE DEF history, n, E
    <2>5. history \in Seq(E)
      BY <2>1, <2>4, FunctionIsSeq
    <2>6. QED
      BY <2>5 DEF E
  <1>5. none \in H
    BY EmptySeq
  <1> HIDE DEF F, H, fields, history, sketch, none
  <1>6. /\ [fields |-> fields, history |-> history] \in [fields : F, history : H]
        /\ [fields |-> sketch, history |-> none] \in [fields : F, history : H]
    BY <1>3, <1>4, <1>5
  <1>7. QED
    BY <1>6 DEF F, H, fields, history, sketch, none, Contact, CleanContact, Outline

(* A printed contact is read back by merge and by diff.                      *)
LEMMA LineFacts ==
    ASSUME NEW contact \in Contact
    PROVE  LET line == Dump(contact)
           IN  /\ line \in Seq(Ink) /\ Len(line) \in Nat \ {0}
               /\ Readable(line) /\ FromJson(Parse(line)) = CleanContact(contact)
               /\ ReadsLine(line) /\ IsObj(Parse(line)) /\ Sketch(Parse(line)) = Outline(contact)
  <1> DEFINE line == Dump(contact)
             v == ContactValue(contact)
  <1>1. /\ line \in Seq(Ink) /\ Len(line) \in Nat \ {0} /\ IsJson(line) /\ Parse(line) = v
        /\ IsObj(v) /\ IsContact(v) /\ FromJson(v) = CleanContact(contact)
        /\ Sketch(v) = Outline(contact)
        /\ \A i \in Wanted : FieldKey[i] \in DOMAIN v.obj => IsStr(v.obj[FieldKey[i]])
    BY ReadsDump, ReadsBack, SketchesBack
  <1> HIDE DEF line, v
  <1>2. QED
    BY <1>1 DEF line, Readable, ReadsLine

\* Each contact as J::dump prints it.
DumpLines(rows) == [k \in DOMAIN rows |-> Dump(rows[k])]

(* JSON lines are the printed contacts, each with a break behind it.         *)
LEMMA DumpLinesFacts ==
    ASSUME NEW rows \in Seq(Contact)
    PROVE  /\ DumpLines(rows) \in Seq(Seq(Ink)) /\ NoneEmpty(DumpLines(rows))
           /\ Len(rows) \in Nat /\ DOMAIN rows = 1 .. Len(rows) /\ Len(DumpLines(rows)) = Len(rows)
           /\ \A k \in 1 .. Len(rows) : rows[k] \in Contact /\ DumpLines(rows)[k] = Dump(rows[k])
           /\ Cleaned(rows) \in Seq(Contact) /\ Len(Cleaned(rows)) = Len(rows)
           /\ \A k \in 1 .. Len(rows) : Cleaned(rows)[k] = CleanContact(rows[k])
           /\ Outlines(rows) \in Seq(Contact) /\ Len(Outlines(rows)) = Len(rows)
           /\ \A k \in 1 .. Len(rows) : Outlines(rows)[k] = Outline(rows[k])
           /\ JsonlText(rows) = FlattenSeq(Broken(DumpLines(rows)))
  <1> DEFINE n == Len(rows)
             L == DumpLines(rows)
             C == Cleaned(rows)
             O == Outlines(rows)
  <1>1. n \in Nat /\ DOMAIN rows = 1 .. n /\ \A k \in 1 .. n : rows[k] \in Contact
    BY LenProperties, ElementOfSeq
  <1>2. \A k \in 1 .. n : L[k] = Dump(rows[k]) /\ C[k] = CleanContact(rows[k]) /\ O[k] = Outline(rows[k])
    BY <1>1 DEF DumpLines, Cleaned, Outlines
  <1>3. \A k \in 1 .. n : Dump(rows[k]) \in Seq(Ink) /\ Len(Dump(rows[k])) # 0
    BY <1>1, LineFacts
  <1>4. \A k \in 1 .. n : CleanContact(rows[k]) \in Contact /\ Outline(rows[k]) \in Contact
    BY <1>1, ContactFacts
  <1>5. L \in [1 .. n -> Seq(Ink)] /\ C \in [1 .. n -> Contact] /\ O \in [1 .. n -> Contact]
    BY <1>1, <1>3, <1>4 DEF DumpLines, Cleaned, Outlines
  <1>6. L \in Seq(Seq(Ink)) /\ Len(L) = n /\ DOMAIN L = 1 .. n
    BY <1>1, <1>5, FunctionIsSeq
  <1>7. C \in Seq(Contact) /\ Len(C) = n /\ O \in Seq(Contact) /\ Len(O) = n
    BY <1>1, <1>5, FunctionIsSeq
  <1>8. NoneEmpty(L)
    <2>1. \A k \in 1 .. n : L[k] # << >>
      BY <1>2, <1>3, EmptySeq
    <2>2. QED
      BY <1>6, <2>1 DEF NoneEmpty
  <1>9. JsonlText(rows) = FlattenSeq(Broken(L))
    <2>1. Broken(L) = [k \in DOMAIN rows |-> Dump(rows[k]) \o << LF >>]
      BY <1>1, <1>2, <1>6 DEF Broken
    <2>2. QED
      BY <2>1 DEF JsonlText
  <1>10. QED
    BY <1>1, <1>2, <1>6, <1>7, <1>8, <1>9

\* The first n lines of a data file, as they are read.
FirstLines(ls, rows, n) ==
    /\ DOMAIN ls = 1 .. n
    /\ \A k \in 1 .. n : /\ Readable(ls[k]) /\ FromJson(Parse(ls[k])) = Cleaned(rows)[k]
                         /\ ReadsLine(ls[k]) /\ IsObj(Parse(ls[k])) /\ Sketch(Parse(ls[k])) = Outlines(rows)[k]

(* Each of the first lines is read as its contact.                           *)
LEMMA FirstLinesRead ==
    ASSUME NEW rows \in Seq(Contact), NEW n \in 0 .. Len(rows)
    PROVE  FirstLines(SubSeq(DumpLines(rows), 1, n), rows, n)
  <1> DEFINE ls == SubSeq(DumpLines(rows), 1, n)
  <1>1. /\ Len(rows) \in Nat /\ DumpLines(rows) \in Seq(Seq(Ink)) /\ Len(DumpLines(rows)) = Len(rows)
        /\ \A k \in 1 .. Len(rows) : /\ rows[k] \in Contact /\ DumpLines(rows)[k] = Dump(rows[k])
                                     /\ Cleaned(rows)[k] = CleanContact(rows[k])
                                     /\ Outlines(rows)[k] = Outline(rows[k])
    BY DumpLinesFacts
  <1>2. n \in Nat /\ \A k \in 1 .. n : k \in 1 .. Len(rows)
    BY <1>1
  <1>3. ls \in Seq(Seq(Ink)) /\ Len(ls) = n
    BY <1>1, UptoFacts
  <1>4. \A k \in 1 .. n : ls[k] = DumpLines(rows)[k]
    BY <1>1, <1>2
  <1>5. DOMAIN ls = 1 .. n
    BY <1>3, LenProperties
  <1> HIDE DEF ls
  <1>6. ASSUME NEW k \in 1 .. n
        PROVE  /\ Readable(ls[k]) /\ FromJson(Parse(ls[k])) = Cleaned(rows)[k]
               /\ ReadsLine(ls[k]) /\ IsObj(Parse(ls[k])) /\ Sketch(Parse(ls[k])) = Outlines(rows)[k]
    <2>1. rows[k] \in Contact /\ ls[k] = Dump(rows[k])
      BY <1>1, <1>2, <1>4
    <2>2. Cleaned(rows)[k] = CleanContact(rows[k]) /\ Outlines(rows)[k] = Outline(rows[k])
      BY <1>1, <1>2
    <2>3. QED
      BY <2>1, <2>2, LineFacts
  <1>7. QED
    BY <1>5, <1>6 DEF FirstLines, ls

(* A text whose lines are the first n of a data file.                        *)
LEMMA ReadsLines ==
    ASSUME NEW rows \in Seq(Contact), NEW n \in 0 .. Len(rows), NEW text,
           LinesOf(text) = SubSeq(DumpLines(rows), 1, n)
    PROVE  /\ ReadableContacts(text) = SubSeq(Cleaned(rows), 1, n)
           /\ DiffReads(text) /\ DiffContacts(text) = SubSeq(Outlines(rows), 1, n)
  <1> DEFINE ls == SubSeq(DumpLines(rows), 1, n)
             s == SubSeq(Cleaned(rows), 1, n)
             t == SubSeq(Outlines(rows), 1, n)
  <1>1. FirstLines(ls, rows, n) /\ n \in Nat
    BY FirstLinesRead, LenProperties
  <1>2. /\ s \in Seq(Contact) /\ DOMAIN s = 1 .. n /\ \A k \in 1 .. n : s[k] = Cleaned(rows)[k]
        /\ t \in Seq(Contact) /\ DOMAIN t = 1 .. n /\ \A k \in 1 .. n : t[k] = Outlines(rows)[k]
    <2>1. /\ Cleaned(rows) \in Seq(Contact) /\ Len(Cleaned(rows)) = Len(rows) /\ Len(rows) \in Nat
          /\ Outlines(rows) \in Seq(Contact) /\ Len(Outlines(rows)) = Len(rows)
      BY DumpLinesFacts
    <2>2. s \in Seq(Contact) /\ Len(s) = n /\ t \in Seq(Contact) /\ Len(t) = n
      BY <2>1, UptoFacts
    <2>3. \A k \in 1 .. n : s[k] = Cleaned(rows)[k] /\ t[k] = Outlines(rows)[k]
      BY <2>1
    <2>4. QED
      BY <2>2, <2>3, LenProperties
  <1>3. LinesOf(text) = ls
    OBVIOUS
  <1> HIDE DEF ls, s, t
  <1>4. ReadableContacts(text) = s
    <2>1. ReadableContacts(text) = FlattenSeq([k \in 1 .. n |->
              IF Readable(ls[k]) THEN << FromJson(Parse(ls[k])) >> ELSE << >>])
      BY <1>1, <1>3 DEF ReadableContacts, FirstLines
    <2>2. Singles(s) = [k \in 1 .. n |->
              IF Readable(ls[k]) THEN << FromJson(Parse(ls[k])) >> ELSE << >>]
      BY <1>1, <1>2 DEF Singles, FirstLines
    <2>3. QED
      BY <1>2, <2>1, <2>2, FlattenSingles
  <1>5. DiffContacts(text) = t
    <2>1. DiffContacts(text) = FlattenSeq([k \in 1 .. n |->
              IF IsObj(Parse(ls[k])) THEN << Sketch(Parse(ls[k])) >> ELSE << >>])
      BY <1>1, <1>3 DEF DiffContacts, FirstLines
    <2>2. Singles(t) = [k \in 1 .. n |->
              IF IsObj(Parse(ls[k])) THEN << Sketch(Parse(ls[k])) >> ELSE << >>]
      BY <1>1, <1>2 DEF Singles, FirstLines
    <2>3. QED
      BY <1>2, <2>1, <2>2, FlattenSingles
  <1>6. DiffReads(text)
    BY <1>1, <1>3 DEF DiffReads, FirstLines
  <1>7. QED
    BY <1>4, <1>5, <1>6 DEF s, t

(* A line that is not JSON is skipped by merge, and ends a diff.             *)
LEMMA ReadsLinesAndABadOne ==
    ASSUME NEW rows \in Seq(Contact), NEW n \in 0 .. Len(rows), NEW text,
           NEW bad \in Seq(Ink), ~IsJson(bad),
           LinesOf(text) = Append(SubSeq(DumpLines(rows), 1, n), bad)
    PROVE  ReadableContacts(text) = SubSeq(Cleaned(rows), 1, n) /\ ~DiffReads(text)
  <1> DEFINE L == SubSeq(DumpLines(rows), 1, n)
             ls == Append(L, bad)
             s == SubSeq(Cleaned(rows), 1, n)
  <1>1. FirstLines(L, rows, n) /\ n \in Nat
    BY FirstLinesRead, LenProperties
  <1>2. /\ s \in Seq(Contact) /\ Len(s) = n /\ DOMAIN s = 1 .. n /\ \A k \in 1 .. n : s[k] = Cleaned(rows)[k]
        /\ L \in Seq(Seq(Ink)) /\ Len(L) = n
    <2>1. /\ Cleaned(rows) \in Seq(Contact) /\ Len(Cleaned(rows)) = Len(rows) /\ Len(rows) \in Nat
          /\ DumpLines(rows) \in Seq(Seq(Ink)) /\ Len(DumpLines(rows)) = Len(rows)
      BY DumpLinesFacts
    <2>2. s \in Seq(Contact) /\ Len(s) = n /\ L \in Seq(Seq(Ink)) /\ Len(L) = n
      BY <2>1, UptoFacts
    <2>3. \A k \in 1 .. n : s[k] = Cleaned(rows)[k]
      BY <2>1
    <2>4. QED
      BY <2>2, <2>3, LenProperties
  <1>3. LinesOf(text) = ls
    OBVIOUS
  <1> HIDE DEF L, s
  <1>4. DOMAIN ls = 1 .. n + 1 /\ ls[n + 1] = bad /\ \A k \in 1 .. n : ls[k] = L[k]
    BY <1>1, <1>2
  <1> HIDE DEF ls
  <1>5. ~DiffReads(text)
    <2>1. n + 1 \in DOMAIN ls
      BY <1>1, <1>4
    <2>2. ~ReadsLine(bad)
      BY DEF ReadsLine
    <2>3. QED
      BY <1>3, <1>4, <2>1, <2>2 DEF DiffReads
  <1>6. ReadableContacts(text) = s
    <2> DEFINE P == [k \in 1 .. n + 1 |->
                        IF Readable(ls[k]) THEN << FromJson(Parse(ls[k])) >> ELSE << >>]
               p == Singles(s)
               none == << >>
    <2>1. ReadableContacts(text) = FlattenSeq(P)
      BY <1>3, <1>4 DEF ReadableContacts
    <2>2. p \in Seq(Seq(Contact)) /\ Len(p) = n /\ FlattenSeq(p) = s /\ none \in Seq(Contact)
      BY <1>2, FlattenSingles, EmptySeq
    <2>3. \A k \in 1 .. n : p[k] = << s[k] >>
      BY <1>2 DEF Singles
    <2> HIDE DEF p
    <2>4. \A k \in 1 .. n : k \in 1 .. n + 1 /\ P[k] = << s[k] >>
      <3>1. \A k \in 1 .. n : k \in 1 .. n + 1
        BY <1>1
      <3>2. \A k \in 1 .. n : Readable(ls[k]) /\ FromJson(Parse(ls[k])) = s[k]
        BY <1>1, <1>2, <1>4 DEF FirstLines
      <3>3. QED
        BY <3>1, <3>2
    <2>5. P[n + 1] = none
      <3>1. n + 1 \in 1 .. n + 1
        BY <1>1
      <3>2. ~Readable(bad)
        BY DEF Readable
      <3>3. QED
        BY <1>4, <3>1, <3>2
    <2>6. P = Append(p, none)
      <3>1. P \in Seq(Seq(Contact)) /\ Len(P) = n + 1
        <4>1. \A k \in 1 .. n + 1 : P[k] \in Seq(Contact)
          <5>1. \A k \in 1 .. n : << s[k] >> \in Seq(Contact)
            BY <1>2, ElementOfSeq, OneCharacter
          <5>2. \A k \in 1 .. n + 1 : k = n + 1 \/ k \in 1 .. n
            BY <1>1
          <5> HIDE DEF P, none
          <5>3. QED
            BY <2>2, <2>4, <2>5, <5>1, <5>2
        <4>2. P \in [1 .. n + 1 -> Seq(Contact)]
          BY <4>1
        <4>3. n + 1 \in Nat
          BY <1>1
        <4> HIDE DEF P
        <4>4. QED
          BY <4>2, <4>3, FunctionIsSeq
      <3> HIDE DEF P, none
      <3>2. /\ Append(p, none) \in Seq(Seq(Contact)) /\ Len(Append(p, none)) = n + 1
            /\ Append(p, none)[n + 1] = none /\ \A k \in 1 .. n : Append(p, none)[k] = p[k]
        BY <2>2, AppendProperties
      <3>3. \A k \in 1 .. Len(P) : P[k] = Append(p, none)[k]
        <4>1. \A k \in 1 .. n + 1 : k = n + 1 \/ k \in 1 .. n
          BY <1>1
        <4>2. QED
          BY <2>3, <2>4, <2>5, <3>1, <3>2, <4>1
      <3>4. QED
        BY <3>1, <3>2, <3>3, SeqEqual
    <2> HIDE DEF P, none
    <2>7. FlattenSeq(Append(p, none)) = s \o none
      BY <2>2, FlattenFacts
    <2>8. s \o none = s
      BY <1>2, ConcatEmptySeq DEF none
    <2>9. QED
      BY <2>1, <2>6, <2>7, <2>8
  <1>7. QED
    BY <1>5, <1>6 DEF s

(* A data file is read back.                                                 *)
LEMMA ReadsWhole ==
    ASSUME NEW rows \in Seq(Contact)
    PROVE  /\ JsonlText(rows) \in Seq(Char)
           /\ ReadableContacts(JsonlText(rows)) = Cleaned(rows)
           /\ DiffReads(JsonlText(rows)) /\ DiffContacts(JsonlText(rows)) = Outlines(rows)
  <1> DEFINE N == Len(rows)
             L == DumpLines(rows)
             B == Broken(L)
             none == << >>
  <1>1. /\ L \in Seq(Seq(Ink)) /\ NoneEmpty(L) /\ N \in Nat /\ Len(L) = N
        /\ Cleaned(rows) \in Seq(Contact) /\ Len(Cleaned(rows)) = N
        /\ Outlines(rows) \in Seq(Contact) /\ Len(Outlines(rows)) = N
        /\ JsonlText(rows) = FlattenSeq(B)
    BY DumpLinesFacts
  <1> HIDE DEF L
  <1>2. B \in Seq(Seq(Char)) /\ Len(B) = N
    BY <1>1, BrokenPieces
  <1> HIDE DEF B
  <1>3. JsonlText(rows) \in Seq(Char)
    BY <1>1, <1>2, FlattenFacts
  <1>4. none \in Seq(Ink) /\ N \in 0 .. N /\ N \in 0 .. Len(L)
    BY <1>1, EmptySeq
  <1>5. FlattenSeq(SubSeq(B, 1, N)) \o none = JsonlText(rows)
    <2>1. SubSeq(B, 1, N) = B
      BY <1>2, SubSeqFull
    <2>2. JsonlText(rows) \o none = JsonlText(rows)
      BY <1>3, ConcatEmptySeq
    <2>3. QED
      BY <1>1, <2>1, <2>2
  <1>6. LinesOf(JsonlText(rows)) = SubSeq(L, 1, N)
    <2>1. LinesOf(FlattenSeq(SubSeq(Broken(L), 1, N)) \o none)
            = IF none = << >> THEN SubSeq(L, 1, N) ELSE Append(SubSeq(L, 1, N), none)
      <3> HIDE DEF none
      <3>1. QED
        BY <1>1, <1>4, LinesAre
    <2>2. QED
      BY <1>5, <2>1 DEF B
  <1>7. SubSeq(Cleaned(rows), 1, N) = Cleaned(rows) /\ SubSeq(Outlines(rows), 1, N) = Outlines(rows)
    BY <1>1, SubSeqFull
  <1>8. /\ ReadableContacts(JsonlText(rows)) = SubSeq(Cleaned(rows), 1, N)
        /\ DiffReads(JsonlText(rows)) /\ DiffContacts(JsonlText(rows)) = SubSeq(Outlines(rows), 1, N)
    BY <1>4, <1>6, ReadsLines DEF L
  <1>9. QED
    BY <1>3, <1>7, <1>8

(* Of a data file that is cut short, the first contacts are read.            *)
LEMMA ReadsShort ==
    ASSUME NEW rows \in Seq(Contact), NEW k \in 0 .. Len(JsonlText(rows))
    PROVE  LET text == SubSeq(JsonlText(rows), 1, k)
           IN  \E n \in 0 .. Len(rows) :
                  /\ ReadableContacts(text) = SubSeq(Cleaned(rows), 1, n)
                  /\ DiffReads(text) => DiffContacts(text) = SubSeq(Outlines(rows), 1, n)
  <1> DEFINE N == Len(rows)
             L == DumpLines(rows)
             B == Broken(L)
             f == SubSeq(JsonlText(rows), 1, k)
             none == << >>
             T(m) == FlattenSeq(SubSeq(B, 1, m))
  <1>1. /\ L \in Seq(Seq(Ink)) /\ NoneEmpty(L) /\ N \in Nat /\ Len(L) = N
        /\ \A i \in 1 .. N : rows[i] \in Contact /\ L[i] = Dump(rows[i])
        /\ JsonlText(rows) = FlattenSeq(B)
    BY DumpLinesFacts
  <1>2. none \in Seq(Ink)
    BY EmptySeq
  <1> HIDE DEF L
  <1>3. /\ B \in Seq(Seq(Char)) /\ Len(B) = N
        /\ \A i \in 1 .. N : B[i] = L[i] \o << LF >> /\ L[i] \in Seq(Ink) /\ L[i] \in Seq(Char)
    BY <1>1, BrokenPieces
  <1>4. ASSUME NEW m \in 0 .. N, NEW rest \in Seq(Ink)
        PROVE  LinesOf(T(m) \o rest)
                  = IF rest = << >> THEN SubSeq(L, 1, m) ELSE Append(SubSeq(L, 1, m), rest)
    BY <1>1, LinesAre
  <1> HIDE DEF B
  <1>5. PICK m \in 0 .. N : CutAfter(f, B, m)
    BY <1>1, <1>3, CutPieces
  <1>6. PICK rest : Partial(B, m, rest) /\ f = T(m) \o rest
    BY <1>5 DEF CutAfter
  <1> HIDE DEF f, T
  <1>7. CASE rest = none
    <2>1. LinesOf(f) = SubSeq(L, 1, m)
      BY <1>2, <1>4, <1>6, <1>7
    <2>2. QED
      BY <2>1, ReadsLines DEF L, f
  <1>8. CASE rest # none
    <2> DEFINE D == L[m + 1]
               lf == << LF >>
    <2>1. m < Len(B) /\ \E j \in 0 .. Len(B[m + 1]) - 1 : rest = SubSeq(B[m + 1], 1, j)
      BY <1>6, <1>8 DEF Partial
    <2>2. m + 1 \in 1 .. N /\ m + 1 \in 0 .. N /\ m \in 0 .. N - 1
      BY <1>1, <1>3, <2>1
    <2>3. /\ D \in Seq(Ink) /\ D \in Seq(Char) /\ B[m + 1] = D \o lf
          /\ rows[m + 1] \in Contact /\ D = Dump(rows[m + 1])
      BY <1>1, <1>3, <2>2
    <2>4. PICK j \in 0 .. Len(D \o lf) - 1 : rest = SubSeq(D \o lf, 1, j)
      BY <2>1, <2>3
    <2> HIDE DEF D
    <2>5. lf \in Seq(Char) /\ Len(lf) = 1
      BY CharAssumption, OneCharacter
    <2>6. Len(D \o lf) = Len(D) + 1 /\ Len(D) \in Nat
      BY <2>3, <2>5, ConcatProperties, LenProperties
    <2> HIDE DEF lf
    <2>7. j \in 0 .. Len(D)
      BY <2>6
    <2>8. rest = SubSeq(D, 1, j)
      BY <2>3, <2>4, <2>5, <2>7, FirstOfFirst
    <2>9. rest \in Seq(Ink)
      BY <2>3, <2>7, <2>8, UptoFacts
    <2>10. LinesOf(f) = Append(SubSeq(L, 1, m), rest)
      BY <1>4, <1>6, <1>8, <2>9
    <2>11. CASE j = Len(D)
      <3>1. rest = D
        BY <2>3, <2>8, <2>11, SubSeqFull
      <3>2. SubSeq(L, 1, m + 1) = Append(SubSeq(L, 1, m), L[m + 1])
        BY <1>1, <2>2, UptoFacts
      <3>3. LinesOf(f) = SubSeq(L, 1, m + 1)
        BY <2>10, <3>1, <3>2 DEF D
      <3>4. QED
        BY <2>2, <3>3, ReadsLines DEF L, f
    <2>12. CASE j # Len(D)
      <3>1. j \in 0 .. Len(D) - 1
        BY <2>6, <2>7, <2>12
      <3>2. ~IsJson(rest)
        BY <2>3, <2>8, <3>1, ReadsDump
      <3>3. QED
        BY <2>9, <2>10, <3>2, ReadsLinesAndABadOne DEF L, f
    <2>13. QED
      BY <2>11, <2>12
  <1>9. QED
    BY <1>7, <1>8

(* Without control characters, what is read is what was written.             *)
LEMMA CleanIsWhole ==
    ASSUME NEW s \in Seq(Char), \A j \in DOMAIN s : s[j] # "ctl"
    PROVE  Clean(s) = s
  <1>1. Singles(s) = [j \in DOMAIN s |-> IF s[j] = "ctl" THEN << >> ELSE << s[j] >>]
    BY DEF Singles
  <1>2. QED
    BY <1>1, FlattenSingles DEF Clean

-----------------------------------------------------------------------------
(* CSV                                                                       *)

\* What CSV and the index file hold of a contact.
Row == [1 .. Columns -> Seq(Char)]

(* A row is a sequence of strings.                                           *)
LEMMA RowFacts ==
    /\ Columns \in Nat \ {0} /\ EmailColumn \in 1 .. Columns /\ PhoneColumn \in 1 .. Columns
    /\ \A row \in Row : /\ row \in Seq(Seq(Char)) /\ row # << >> /\ Len(row) = Columns
                        /\ DOMAIN row = 1 .. Columns
  <1>1. Columns \in Nat \ {0}
    BY KeysAssumption
  <1>2. ASSUME NEW row \in Row
        PROVE  /\ row \in Seq(Seq(Char)) /\ row # << >> /\ Len(row) = Columns
               /\ DOMAIN row = 1 .. Columns
    <2>1. row \in [1 .. Columns -> Seq(Char)] /\ Columns \in Nat
      BY <1>1 DEF Row
    <2>2. row \in Seq(Seq(Char)) /\ Len(row) = Columns /\ DOMAIN row = 1 .. Columns
      BY <2>1, FunctionIsSeq
    <2>3. QED
      BY <1>1, <2>2, EmptySeq
  <1>3. QED
    BY <1>1, <1>2, ColumnsAssumption

\* The rows of a book: their ids differ in rank.
Ranked(rows) ==
    /\ rows \in Seq(Row)
    /\ \A k \in DOMAIN rows : Rank[rows[k][1]] \in Int
    /\ \A k, l \in DOMAIN rows : Rank[rows[k][1]] = Rank[rows[l][1]] => k = l

(* The ids of a book are different and have an order.                        *)
LEMMA BooksAreRanked ==
    ASSUME NEW b \in Books \cup OtherBooks
    PROVE  /\ b \in Seq(Contact) /\ Len(b) \in Nat /\ DOMAIN b = 1 .. Len(b)
           /\ Ranked(Rows(b)) /\ Len(Rows(b)) = Len(b) /\ DOMAIN Rows(b) = DOMAIN b
           /\ Len(Rows(b)) <= Len(Numbers)
           /\ \A k \in 1 .. Len(b) : b[k] \in Contact /\ Rows(b)[k] = b[k].fields /\ b[k].fields \in Row
  <1> DEFINE n == Len(b)
             R == Rows(b)
  <1>1. b \in Seq(Contact) /\ n <= Len(Numbers)
    BY BooksAssumption
  <1>2. n \in Nat /\ DOMAIN b = 1 .. n /\ \A k \in 1 .. n : b[k] \in Contact
    BY <1>1, LenProperties, ElementOfSeq
  <1>3. \A k \in 1 .. n : b[k].fields \in Row
    BY <1>2 DEF Contact, Row
  <1>4. R = [k \in 1 .. n |-> b[k].fields] /\ R \in [1 .. n -> Row]
    BY <1>2, <1>3 DEF Rows
  <1>5. R \in Seq(Row) /\ Len(R) = n /\ DOMAIN R = 1 .. n
    BY <1>2, <1>4, FunctionIsSeq
  <1>6. \A k \in 1 .. n : R[k] = b[k].fields
    BY <1>4
  <1> HIDE DEF R, n
  <1>7. /\ \A k \in DOMAIN R : Rank[R[k][1]] \in Int
        /\ \A k, l \in DOMAIN R : Rank[R[k][1]] = Rank[R[l][1]] => k = l
    <2>1. /\ \A k \in DOMAIN b : Rank[b[k].fields[1]] \in Int
          /\ \A k, l \in DOMAIN b : Rank[b[k].fields[1]] = Rank[b[l].fields[1]] => k = l
      BY BooksAssumption
    <2>2. QED
      BY <1>2, <1>5, <1>6, <2>1
  <1>8. QED
    BY <1>1, <1>2, <1>3, <1>5, <1>6, <1>7 DEF Ranked, R, n

(* There is a row for every place.                                           *)
LEMMA PlacesAreTaken ==
    ASSUME NEW rows, Ranked(rows), NEW p \in 1 .. Len(rows)
    PROVE  \E k \in DOMAIN rows : Cardinality(Before(rows, k)) = p - 1
  <1> DEFINE n == Len(rows)
             S == 1 .. n
             T == 0 .. n - 1
             R(k) == Rank[rows[k][1]]
             f == [k \in S |-> Cardinality(Before(rows, k))]
  <1>1. n \in Nat /\ DOMAIN rows = S /\ \A k \in S : R(k) \in Int
    BY LenProperties DEF Ranked
  <1>2. \A k, l \in S : R(k) = R(l) => k = l
    BY <1>1 DEF Ranked
  <1>3. /\ IsFiniteSet(S) /\ Cardinality(S) = n /\ IsFiniteSet(T) /\ Cardinality(T) = n
    <2>1. IsFiniteSet(1 .. n) /\ Cardinality(1 .. n) = IF 1 > n THEN 0 ELSE n - 1 + 1
      BY <1>1, FS_Interval
    <2>2. /\ IsFiniteSet(0 .. n - 1)
          /\ Cardinality(0 .. n - 1) = IF 0 > n - 1 THEN 0 ELSE n - 1 - 0 + 1
      <3> DEFINE m == n - 1
      <3>1. 0 \in Int /\ m \in Int
        BY <1>1
      <3> HIDE DEF m
      <3>2. IsFiniteSet(0 .. m) /\ Cardinality(0 .. m) = IF 0 > m THEN 0 ELSE m - 0 + 1
        BY <3>1, FS_Interval
      <3>3. QED
        BY <3>2 DEF m
    <2>3. QED
      BY <1>1, <2>1, <2>2
  <1>4. \A k \in S : Before(rows, k) = {j \in S : R(j) < R(k)}
    BY <1>1 DEF Before
  <1> HIDE DEF R
  <1>5. ASSUME NEW k \in S
        PROVE  IsFiniteSet(Before(rows, k)) /\ Cardinality(Before(rows, k)) \in T
    <2>1. Before(rows, k) \in SUBSET (S \ {k})
      BY <1>1, <1>4
    <2>2. IsFiniteSet(S \ {k}) /\ Cardinality(S \ {k}) = n - 1
      BY <1>3, FS_RemoveElement
    <2>3. IsFiniteSet(Before(rows, k)) /\ Cardinality(Before(rows, k)) <= n - 1
      BY <2>1, <2>2, FS_Subset
    <2>4. Cardinality(Before(rows, k)) \in Nat
      BY <2>3, FS_CardinalityType
    <2>5. QED
      BY <1>1, <2>3, <2>4
  <1>6. ASSUME NEW k \in S, NEW l \in S, R(k) < R(l)
        PROVE  Cardinality(Before(rows, k)) # Cardinality(Before(rows, l))
    <2>1. Before(rows, k) \in SUBSET Before(rows, l)
      BY <1>1, <1>4, <1>6
    <2>2. k \in Before(rows, l) /\ k \notin Before(rows, k)
      BY <1>1, <1>4, <1>6
    <2>3. QED
      BY <1>5, <2>1, <2>2, FS_Subset
  <1>7. f \in Injection(S, T)
    <2>1. f \in [S -> T]
      BY <1>5
    <2>2. ASSUME NEW k \in S, NEW l \in S, f[k] = f[l]
          PROVE  k = l
      <3>1. ~(R(k) < R(l)) /\ ~(R(l) < R(k))
        BY <1>6, <2>2
      <3>2. QED
        BY <1>1, <1>2, <3>1
    <2>3. QED
      BY <2>1, <2>2 DEF Injection, IsInjective
  <1>8. f \in Surjection(S, T)
    BY <1>3, <1>7, FS_Injection
  <1>9. p - 1 \in T
    BY <1>1
  <1>10. \E k \in S : f[k] = p - 1
    BY <1>8, <1>9 DEF Surjection
  <1>11. QED
    BY <1>1, <1>10

(* What is sorted are the contacts of the book.                              *)
LEMMA SortedFacts ==
    ASSUME NEW rows, Ranked(rows)
    PROVE  /\ Sorted(rows) \in Seq(Row) /\ Len(Sorted(rows)) = Len(rows)
           /\ \A p \in 1 .. Len(rows) : \E k \in 1 .. Len(rows) : Sorted(rows)[p] = rows[k]
  <1> DEFINE n == Len(rows)
  <1>1. n \in Nat /\ DOMAIN rows = 1 .. n /\ \A k \in 1 .. n : rows[k] \in Row
    BY LenProperties, ElementOfSeq DEF Ranked
  <1>2. ASSUME NEW p \in 1 .. n
        PROVE  \E k \in 1 .. n : Sorted(rows)[p] = rows[k]
    <2> DEFINE k == CHOOSE i \in DOMAIN rows : Cardinality(Before(rows, i)) = p - 1
    <2>1. k \in DOMAIN rows
      BY PlacesAreTaken
    <2>2. Sorted(rows)[p] = rows[k]
      BY <1>1 DEF Sorted
    <2>3. QED
      BY <1>1, <2>1, <2>2
  <1>3. Sorted(rows) \in [1 .. n -> Row]
    <2>1. Sorted(rows) = [p \in 1 .. n |-> Sorted(rows)[p]]
      BY <1>1 DEF Sorted
    <2>2. QED
      BY <1>1, <1>2, <2>1
  <1>4. QED
    BY <1>1, <1>2, <1>3, FunctionIsSeq

(* csv_escape gives a text.                                                  *)
LEMMA EscapesTyped ==
    ASSUME NEW s \in Seq(Char)
    PROVE  CsvEscape(s) \in Seq(Char)
  <1> DEFINE P == [i \in DOMAIN s |-> Doubled(s[i])]
             q == << Quote >>
  <1>1. Len(s) \in Nat /\ DOMAIN s = 1 .. Len(s) /\ \A i \in 1 .. Len(s) : s[i] \in Char
    BY LenProperties, ElementOfSeq
  <1>2. Quote \in Char /\ q \in Seq(Char)
    BY CharAssumption, OneCharacter
  <1>3. \A c \in Char : Doubled(c) \in Seq(Char)
    BY <1>2 DEF Doubled
  <1>4. P \in [1 .. Len(s) -> Seq(Char)]
    BY <1>1, <1>3
  <1>5. FlattenSeq(P) \in Seq(Char)
    BY <1>1, <1>4, FunctionIsSeq, FlattenFacts
  <1> HIDE DEF P, q
  <1>6. (q \o FlattenSeq(P)) \o q \in Seq(Char)
    BY <1>2, <1>5, ConcatProperties
  <1>7. QED
    BY <1>6 DEF CsvEscape, P, q

\* The piece of a line for each field.
FieldPieces(row) ==
    [i \in DOMAIN row |-> CsvEscape(row[i]) \o IF i = Len(row) THEN << LF >> ELSE << "," >>]

(* A line of CSV is its escaped fields, each with a comma or a break behind  *)
(* it.                                                                       *)
LEMMA PiecesTyped ==
    ASSUME NEW row \in Row
    PROVE  /\ FieldPieces(row) \in Seq(Seq(Char)) /\ Len(FieldPieces(row)) = Columns
           /\ CsvLine(row) = FlattenSeq(FieldPieces(row)) /\ CsvLine(row) \in Seq(Char)
           /\ Columns \in Nat \ {0} /\ \A i \in 1 .. Columns : row[i] \in Seq(Char)
           /\ \A i \in 1 .. Columns - 1 : FieldPieces(row)[i] = CsvEscape(row[i]) \o << "," >>
           /\ FieldPieces(row)[Columns] = CsvEscape(row[Columns]) \o << LF >>
  <1> DEFINE X(i) == IF i = Len(row) THEN << LF >> ELSE << "," >>
             P == FieldPieces(row)
  <1>1. /\ Columns \in Nat \ {0} /\ row \in [1 .. Columns -> Seq(Char)] /\ Len(row) = Columns
        /\ DOMAIN row = 1 .. Columns /\ \A i \in 1 .. Columns : row[i] \in Seq(Char)
    BY RowFacts DEF Row
  <1>2. << LF >> \in Seq(Char) /\ << "," >> \in Seq(Char)
    BY CharAssumption, OneCharacter
  <1>3. \A i \in 1 .. Columns : X(i) \in Seq(Char)
    BY <1>2
  <1>4. /\ \A i \in 1 .. Columns - 1 : X(i) = << "," >> /\ i \in 1 .. Columns
        /\ X(Columns) = << LF >> /\ Columns \in 1 .. Columns
    <2>1. \A i \in 1 .. Columns - 1 : i \in 1 .. Columns /\ i # Columns
      BY <1>1
    <2>2. \A i \in 1 .. Columns : X(i) = IF i = Columns THEN << LF >> ELSE << "," >>
      BY <1>1
    <2>3. Columns \in 1 .. Columns
      BY <1>1
    <2> HIDE DEF X
    <2>4. QED
      BY <2>1, <2>2, <2>3
  <1>5. \A i \in 1 .. Columns : P[i] = CsvEscape(row[i]) \o X(i)
    BY <1>1 DEF FieldPieces
  <1> HIDE DEF X
  <1>6. \A i \in 1 .. Columns : CsvEscape(row[i]) \o X(i) \in Seq(Char)
    BY <1>1, <1>3, EscapesTyped, ConcatProperties
  <1>7. P \in [1 .. Columns -> Seq(Char)]
    BY <1>1, <1>6 DEF FieldPieces, X
  <1>8. P \in Seq(Seq(Char)) /\ Len(P) = Columns
    BY <1>1, <1>7, FunctionIsSeq
  <1>9. CsvLine(row) = FlattenSeq(P)
    BY DEF CsvLine, FieldPieces
  <1>10. FlattenSeq(P) \in Seq(Char)
    BY <1>8, FlattenFacts
  <1>11. QED
    BY <1>1, <1>4, <1>5, <1>8, <1>9, <1>10

(* A CSV export is a text, and its header is as wide as a contact.           *)
LEMMA CsvTyped ==
    ASSUME NEW rows, Ranked(rows)
    PROVE  CsvText(rows) \in Seq(Char) /\ Header \in Row
  <1> DEFINE S == Sorted(rows)
             P == [k \in DOMAIN rows |-> CsvLine(S[k])]
  <1>1. /\ Len(rows) \in Nat /\ DOMAIN rows = 1 .. Len(rows)
        /\ S \in Seq(Row) /\ Len(S) = Len(rows)
    BY SortedFacts, LenProperties DEF Ranked
  <1>2. Header \in Row
    <2>1. \A s \in Seq(Char \ {CR}) : s \in Seq(Char)
      BY SeqMonotonic
    <2>2. QED
      BY <2>1, ColumnsAssumption DEF Row
  <1> HIDE DEF S
  <1>3. \A k \in 1 .. Len(rows) : CsvLine(S[k]) \in Seq(Char)
    BY <1>1, ElementOfSeq, PiecesTyped
  <1>4. P \in [1 .. Len(rows) -> Seq(Char)]
    BY <1>1, <1>3
  <1>5. FlattenSeq(P) \in Seq(Char)
    BY <1>1, <1>4, FunctionIsSeq, FlattenFacts
  <1>6. CsvLine(Header) \in Seq(Char)
    BY <1>2, PiecesTyped
  <1>7. CsvText(rows) = CsvLine(Header) \o FlattenSeq(P)
    BY DEF CsvText, S
  <1>8. QED
    BY <1>2, <1>5, <1>6, <1>7, ConcatProperties

-----------------------------------------------------------------------------
(* The way of a book out of the program and back.                            *)

Exported(contacts, f) == IF f = "data" THEN JsonlText(contacts) ELSE CsvText(Rows(contacts))

\* What diff prints of a text and the data file of another book.
DiffReport(text, other) ==
    IF ~(DiffReads(text) /\ DiffReads(JsonlText(other))) THEN Malformed
    ELSE [with |-> other,
          diff |-> DiffBooks(ById(DiffContacts(text)), ById(DiffContacts(JsonlText(other))))]

\* There is no file, or it is what was written of the book or what is left of it.
FileIs ==
    \/ file = Unset /\ format = Unset /\ cut = "whole"
    \/ /\ file \in Seq(Char) /\ format \in {"csv", "jsonl", "data"}
       /\ \/ cut = "whole" /\ file = Exported(book, format)
          \/ cut = "no break" /\ format = "csv" /\ file = Front(CsvText(Rows(book)))
          \/ /\ cut = "short" /\ format = "data"
             /\ \E k \in 0 .. Len(JsonlText(book)) : file = SubSeq(JsonlText(book), 1, k)

\* What was read comes from the file.
GotIs ==
    got # Unset =>
        /\ file # Unset
        /\ got = IF format # "csv" THEN ReadableContacts(file)
                 ELSE IF CsvContacts(file) = Failed THEN Failed ELSE Bare(CsvContacts(file))

\* The data file that was compared may have lost its end since.
ReportIs ==
    report # Unset =>
        /\ format \in {"jsonl", "data"}
        /\ format = "data" =>
              \E k \in 0 .. Len(JsonlText(book)), other \in OtherBooks :
                  /\ cut = "whole" => k = Len(JsonlText(book))
                  /\ report = DiffReport(SubSeq(JsonlText(book), 1, k), other)

\* The encrypted file was made of the whole file.
SafeIs ==
    safe # Refused =>
        /\ file # Unset /\ cut = "whole"
        /\ \E by \in Callers, env \in Env, aad \in Aads \cup {Unset} :
              /\ sealer = [by |-> by, env |-> env]
              /\ safe = Encrypt(IF by.cli THEN env.key ELSE by.key, env, aad, file)

\* The decrypted file comes from the encrypted one.
OpenedIs ==
    opened # Unset => safe # Refused /\ safe.aad = Unset /\ opened = safe.text

\* The index file has the maps of the book.
IndexIs ==
    /\ index # Unset => index = IndexText("h", KeyMaps(Rows(book)))
    /\ maps # Unset => maps = MapsFrom(IndexText("h", KeyMaps(Rows(book))), "h", Rows(book))

\* All that is known of the files together.
InterInv ==
    /\ book \in Books
    /\ FileIs /\ GotIs /\ ReportIs /\ SafeIs /\ OpenedIs /\ IndexIs

(* What the invariant says of the book.                                      *)
LEMMA BookFacts ==
    ASSUME book \in Books
    PROVE  /\ Ranked(Rows(book)) /\ book \in Seq(Contact)
           /\ CsvText(Rows(book)) \in Seq(Char) /\ JsonlText(book) \in Seq(Char)
  <1>1. Ranked(Rows(book)) /\ book \in Seq(Contact)
    BY BooksAreRanked
  <1>2. QED
    BY <1>1, CsvTyped, ReadsWhole

(* At first there are no files.                                              *)
LEMMA InterInvInit ==
    InterInit => InterInv
  BY DEF InterInit, InterInv, FileIs, GotIs, ReportIs, SafeIs, OpenedIs, IndexIs

(* Every command leaves its files as the invariant has them.                 *)
LEMMA InterInvNext ==
    InterInv /\ [InterNext]_interVars => InterInv'
  <1> SUFFICES ASSUME InterInv, [InterNext]_interVars
               PROVE  InterInv'
    OBVIOUS
  <1> DEFINE text == JsonlText(book)
             table == CsvText(Rows(book))
  <1>1. /\ table \in Seq(Char) /\ text \in Seq(Char) /\ Len(text) \in Nat
        /\ \A s \in Seq(Char) : s # Unset
    BY BookFacts, LenProperties, UnsetAssumption DEF InterInv
  <1>2. file # Unset => format \in {"csv", "jsonl", "data"} /\ file \in Seq(Char)
    BY <1>1 DEF InterInv, FileIs
  <1>3. ASSUME NEW f \in {"csv", "jsonl", "data"},
               file = Unset /\ index = Unset /\ format' = f /\ file' = Exported(book, f),
               UNCHANGED << book, cut, safe, sealer, opened, got, report, index, maps >>
        PROVE  InterInv'
    <2>1. file' \in Seq(Char)
      BY <1>1, <1>3 DEF Exported
    <2>2. cut = "whole" /\ format = Unset
      BY <1>1, <1>3 DEF InterInv, FileIs
    <2>3. FileIs'
      BY <1>3, <2>1, <2>2 DEF FileIs, Exported
    <2>4. GotIs' /\ SafeIs'
      BY <1>3 DEF InterInv, GotIs, SafeIs
    <2>5. ReportIs'
      <3>1. report = Unset
        BY <2>2, UnsetAssumption DEF InterInv, ReportIs
      <3>2. QED
        BY <1>3, <3>1 DEF ReportIs
    <2>6. QED
      BY <1>3, <2>3, <2>4, <2>5 DEF InterInv, OpenedIs, IndexIs
  <1>4. ASSUME NEW f \in {"csv", "jsonl"}, Export(f)
        PROVE  InterInv'
    BY <1>3, <1>4 DEF Export, Exported
  <1>5. CASE SaveData
    BY <1>3, <1>5 DEF SaveData, Exported
  <1>6. CASE EndWithoutBreak
    <2>1. FileIs'
      <3>1. file = table
        BY <1>2, <1>6 DEF EndWithoutBreak, InterInv, FileIs, Exported
      <3>2. Front(table) \in Seq(Char)
        BY <1>1 DEF Front
      <3>3. QED
        BY <1>6, <3>1, <3>2 DEF EndWithoutBreak, FileIs
    <2>2. ReportIs'
      <3>1. report = Unset
        BY <1>6 DEF EndWithoutBreak, InterInv, ReportIs
      <3>2. QED
        BY <1>6, <3>1 DEF EndWithoutBreak, ReportIs
    <2>3. QED
      BY <1>6, <2>1, <2>2 DEF EndWithoutBreak, InterInv, GotIs, SafeIs, OpenedIs, IndexIs
  <1>7. CASE LoseTail
    <2>1. file = text /\ format = "data"
      BY <1>2, <1>7 DEF LoseTail, InterInv, FileIs, Exported
    <2>2. PICK k \in 0 .. Len(file) - 1 : file' = SubSeq(file, 1, k)
      BY <1>7 DEF LoseTail
    <2>3. k \in 0 .. Len(text) /\ file' = SubSeq(text, 1, k)
      BY <1>1, <2>1, <2>2
    <2>4. file' \in Seq(Char)
      BY <1>1, <2>3, UptoFacts
    <2>5. FileIs'
      BY <1>7, <2>1, <2>3, <2>4 DEF LoseTail, FileIs
    <2>6. ReportIs'
      BY <1>7 DEF LoseTail, InterInv, ReportIs
    <2>7. QED
      BY <1>7, <2>5, <2>6 DEF LoseTail, InterInv, GotIs, SafeIs, OpenedIs, IndexIs
  <1>8. ASSUME NEW by \in Callers, NEW env \in Env, NEW aad \in Aads \cup {Unset}, Seal(by, env, aad)
        PROVE  InterInv'
    <2>1. SafeIs'
      BY <1>8 DEF Seal, SafeIs
    <2>2. OpenedIs'
      BY <1>8 DEF Seal, InterInv, OpenedIs
    <2>3. QED
      BY <1>8, <2>1, <2>2 DEF Seal, InterInv, FileIs, GotIs, ReportIs, IndexIs
  <1>9. ASSUME NEW by \in Callers, NEW env \in Env, Unseal(by, env)
        PROVE  InterInv'
    <2>1. OpenedIs'
      BY <1>9 DEF Unseal, OpenedIs, Opens
    <2>2. QED
      BY <1>9, <2>1 DEF Unseal, InterInv, FileIs, GotIs, ReportIs, SafeIs, IndexIs
  <1>10. CASE ReadFile
    BY <1>10 DEF ReadFile, InterInv, FileIs, GotIs, ReportIs, SafeIs, OpenedIs, IndexIs
  <1>11. CASE SaveIndex
    <2>1. maps = Unset \/ index' = IndexText("h", KeyMaps(Rows(book)))
      BY <1>11 DEF SaveIndex
    <2>2. QED
      BY <1>11 DEF SaveIndex, InterInv, FileIs, GotIs, ReportIs, SafeIs, OpenedIs, IndexIs
  <1>12. CASE LoadIndex
    BY <1>12 DEF LoadIndex, InterInv, FileIs, GotIs, ReportIs, SafeIs, OpenedIs, IndexIs
  <1>13. ASSUME NEW other \in OtherBooks, Diff(other)
         PROVE  InterInv'
    <2>1. report' = DiffReport(file, other) /\ format \in {"jsonl", "data"}
      BY <1>13 DEF Diff, DiffReport
    <2>2. ASSUME format = "data"
          PROVE  \E k \in 0 .. Len(text) :
                    (cut = "whole" => k = Len(text)) /\ file = SubSeq(text, 1, k)
      <3>1. file # Unset
        BY <2>2, UnsetAssumption DEF InterInv, FileIs
      <3>2. CASE cut = "whole"
        <4>1. file = text
          BY <2>2, <3>1, <3>2 DEF InterInv, FileIs, Exported
        <4>2. Len(text) \in 0 .. Len(text) /\ SubSeq(text, 1, Len(text)) = text
          BY <1>1, SubSeqFull
        <4>3. QED
          BY <4>1, <4>2
      <3>3. CASE cut # "whole"
        BY <2>2, <3>1, <3>3 DEF InterInv, FileIs
      <3>4. QED
        BY <3>2, <3>3
    <2>3. ReportIs'
      BY <1>13, <2>1, <2>2 DEF Diff, ReportIs
    <2>4. QED
      BY <1>13, <2>3 DEF Diff, InterInv, FileIs, GotIs, SafeIs, OpenedIs, IndexIs
  <1>14. CASE UNCHANGED interVars
    BY <1>14 DEF interVars, InterInv, FileIs, GotIs, ReportIs, SafeIs, OpenedIs, IndexIs
  <1>15. QED
    BY <1>4, <1>5, <1>6, <1>7, <1>8, <1>9, <1>10, <1>11, <1>12, <1>13, <1>14 DEF InterNext

(* InterInv: each file on the way is what the command that wrote it made of  *)
(* the book, or what is left of that, and what a reader got is what it makes *)
(* of the file.  It is inductive; the properties follow from it.             *)
THEOREM InterInvariance == InterSpec => []InterInv
  BY InterInvInit, InterInvNext, PTL DEF InterSpec

(* OpensForWhoSealed: decrypt_file writes what encrypt_file was given, only  *)
(* without associated data, and who sealed a file can open it.               *)
THEOREM DecryptionNeedsTheSeal == InterSpec => []OpensForWhoSealed
  <1>1. InterInv => OpensForWhoSealed
    <2> SUFFICES ASSUME InterInv
                 PROVE  OpensForWhoSealed
      OBVIOUS
    <2>1. CASE safe = Refused
      BY <2>1 DEF InterInv, OpenedIs, OpensForWhoSealed
    <2>2. CASE safe # Refused
      <3>1. PICK by \in Callers, env \in Env, aad \in Aads \cup {Unset} :
              /\ sealer = [by |-> by, env |-> env]
              /\ safe = Encrypt(IF by.cli THEN env.key ELSE by.key, env, aad, file)
        BY <2>2 DEF InterInv, SafeIs
      <3> DEFINE arg == IF by.cli THEN env.key ELSE by.key
                 key == Or(arg, env.key)
      <3>2. \/ key \in GoodKeys /\ safe = Sealed("ACXEG1", key, aad, file)
            \/ key = Unset /\ env.pass # Unset /\ safe = Sealed("ACXEG2", env.pass, aad, file)
        <4> HIDE DEF arg
        <4>1. safe = Encrypt(arg, env, aad, file)
          BY <3>1 DEF arg
        <4>2. ~(key \in GoodKeys /\ key = Unset)
          BY CryptoAssumption
        <4>3. QED
          BY <2>2, <4>1, <4>2 DEF Encrypt
      <3>3. safe.text = file
        BY <3>2 DEF Sealed
      <3>4. safe.aad = Unset => Opens(safe, arg, env)
        <4> HIDE DEF arg
        <4>1. env.pass \in Passes \cup {Unset}
          BY DEF Env
        <4>2. QED
          BY <3>2, <4>1 DEF Sealed, Opens, SecretFor
      <3>5. sealer.by = by /\ sealer.env = env
        BY <3>1
      <3>6. QED
        BY <3>3, <3>4, <3>5 DEF InterInv, OpenedIs, OpensForWhoSealed
    <2>3. QED
      BY <2>1, <2>2
  <1>2. QED
    BY <1>1, InterInvariance, PTL

(* JsonlReadsBack: a data file is read as the contacts that were saved, in   *)
(* order and with their history, each string without the control characters  *)
(* that J::escape writes as digits.                                          *)
THEOREM JsonLinesReadBack == InterSpec => []JsonlReadsBack
  <1>1. InterInv => JsonlReadsBack
    <2> SUFFICES ASSUME InterInv, format = "data", cut = "whole", got # Unset
                 PROVE  got = Cleaned(book)
      BY DEF JsonlReadsBack
    <2>1. book \in Seq(Contact)
      BY BookFacts DEF InterInv
    <2>2. file = JsonlText(book) /\ got = ReadableContacts(file)
      BY DEF InterInv, FileIs, GotIs, Exported
    <2>3. QED
      BY <2>1, <2>2, ReadsWhole
  <1>2. QED
    BY <1>1, InterInvariance, PTL

(* ShortFileHasPrefix: of a data file cut short at any character, within a   *)
(* history too, the first contacts of the book are read, and never one that  *)
(* was not there.                                                            *)
THEOREM ShortFilesGivePrefixes == InterSpec => []ShortFileHasPrefix
  <1>1. InterInv => ShortFileHasPrefix
    <2> SUFFICES ASSUME InterInv, cut = "short", got # Unset
                 PROVE  \E k \in 0 .. Len(book) : got = SubSeq(Cleaned(book), 1, k)
      BY DEF ShortFileHasPrefix
    <2>1. book \in Seq(Contact)
      BY BookFacts DEF InterInv
    <2>2. PICK k \in 0 .. Len(JsonlText(book)) : file = SubSeq(JsonlText(book), 1, k)
      BY DEF InterInv, FileIs
    <2>3. got = ReadableContacts(file)
      BY DEF InterInv, FileIs, GotIs
    <2>4. QED
      BY <2>1, <2>2, <2>3, ReadsShort
  <1>2. QED
    BY <1>1, InterInvariance, PTL

(* The contacts of a sequence by their ids, if each has one of its own.      *)
LEMMA ByIdFacts ==
    ASSUME NEW contacts, NEW n \in Nat, DOMAIN contacts = 1 .. n,
           \A k, l \in 1 .. n : contacts[k].fields[1] = contacts[l].fields[1] => k = l
    PROVE  /\ DOMAIN ById(contacts) = Ids(contacts)
           /\ \A k \in 1 .. n : ById(contacts)[contacts[k].fields[1]] = contacts[k]
  <1>1. DOMAIN ById(contacts) = Ids(contacts)
    BY DEF ById, Ids
  <1>2. ASSUME NEW k \in 1 .. n
        PROVE  ById(contacts)[contacts[k].fields[1]] = contacts[k]
    <2> DEFINE id == contacts[k].fields[1]
               P(i) == /\ contacts[i].fields[1] = id
                       /\ \A l \in DOMAIN contacts : contacts[l].fields[1] = id => l <= i
    <2>1. \A l \in DOMAIN contacts : contacts[l].fields[1] = id => l = k
      OBVIOUS
    <2>2. ById(contacts)[id] = contacts[CHOOSE i \in DOMAIN contacts : P(i)]
      BY DEF ById
    <2>3. P(k)
      BY <2>1
    <2>4. \A i \in DOMAIN contacts : P(i) => i = k
      BY <2>1
    <2> HIDE DEF P
    <2>5. (CHOOSE i \in DOMAIN contacts : P(i)) = k
      BY <2>3, <2>4
    <2>6. QED
      BY <2>2, <2>5
  <1>3. QED
    BY <1>1, <1>2

(* diff knows a contact by the id that merge reads of it.                    *)
LEMMA FirstColumn ==
    /\ Columns \in Nat \ {0} /\ 1 \in Wanted /\ Wanted \subseteq 1 .. Columns
    /\ \A contact : Outline(contact).fields[1] = CleanContact(contact).fields[1]
  <1>1. Columns \in Nat \ {0} /\ 1 \in 1 .. Columns
    BY KeysAssumption
  <1>2. 1 \in Wanted
    BY DEF Wanted
  <1>3. Wanted \subseteq 1 .. Columns
    BY <1>1, ColumnsAssumption DEF Wanted
  <1>4. ASSUME NEW contact
        PROVE  Outline(contact).fields[1] = CleanContact(contact).fields[1]
    BY <1>1, <1>2 DEF Outline, CleanContact
  <1>5. QED
    BY <1>1, <1>2, <1>3, <1>4

\* A contact as diff sees it, and the contacts of a book by their ids.
SeenOf(contact) == [i \in Wanted |-> contact.fields[i]]
SeenById(b) ==
    LET a == ById(Outlines(b)) IN [id \in DOMAIN a |-> SeenOf(a[id])]

(* A book without control characters is seen by diff as it is.               *)
LEMMA SeenFacts ==
    ASSUME NEW b \in Books \cup OtherBooks, Lacks(Rows(b), "ctl")
    PROVE  LET A == {SeenOf(b[k]) : k \in DOMAIN b}
               a == SeenById(b)
           IN  /\ DOMAIN a = DOMAIN ById(Outlines(b))
               /\ \A r \in A : r[1] \in DOMAIN a /\ a[r[1]] = r
               /\ \A id \in DOMAIN a : a[id] \in A /\ a[id][1] = id
  <1> DEFINE n == Len(b)
             O == Outlines(b)
             A == {SeenOf(b[k]) : k \in DOMAIN b}
             a == SeenById(b)
  <1>1. /\ n \in Nat /\ DOMAIN b = 1 .. n /\ b \in Seq(Contact)
        /\ \A k \in 1 .. n : Rows(b)[k] = b[k].fields /\ b[k].fields \in Row
        /\ DOMAIN Rows(b) = 1 .. n
    BY BooksAreRanked
  <1>2. O \in Seq(Contact) /\ Len(O) = n /\ \A k \in 1 .. n : O[k] = Outline(b[k])
    BY <1>1, DumpLinesFacts
  <1>3. DOMAIN O = 1 .. n
    BY <1>2, LenProperties
  <1>4. ASSUME NEW k \in 1 .. n, NEW i \in Wanted
        PROVE  O[k].fields[i] = b[k].fields[i]
    <2> DEFINE row == b[k].fields
    <2>1. row \in Row /\ Rows(b)[k] = row /\ i \in 1 .. Columns /\ k \in DOMAIN Rows(b)
      BY <1>1, FirstColumn
    <2>2. DOMAIN row = 1 .. Columns /\ row[i] \in Seq(Char)
      BY <2>1 DEF Row
    <2>3. \A j \in DOMAIN row[i] : row[i][j] # "ctl"
      BY <2>1, <2>2 DEF Lacks
    <2>4. Clean(row[i]) = row[i]
      BY <2>2, <2>3, CleanIsWhole
    <2>5. O[k].fields[i] = Clean(row[i])
      <3> DEFINE c == b[k]
      <3>1. O[k] = Outline(c) /\ row = c.fields
        BY <1>2
      <3> HIDE DEF O, c, row
      <3>2. Outline(c).fields[i] = Clean(c.fields[i])
        BY <2>1 DEF Outline
      <3>3. QED
        BY <3>1, <3>2
    <2>6. QED
      BY <2>4, <2>5
  <1>5. \A k \in 1 .. n : SeenOf(O[k]) = SeenOf(b[k])
    BY <1>4 DEF SeenOf
  <1>6. \A k \in 1 .. n : O[k].fields[1] = b[k].fields[1]
    BY <1>4, FirstColumn
  <1>7. \A k, l \in 1 .. n : b[k].fields[1] = b[l].fields[1] => k = l
    BY <1>1, BooksAreRanked DEF Ranked
  <1> HIDE DEF O, n
  <1>8. /\ DOMAIN ById(O) = Ids(O)
        /\ \A k \in 1 .. n : ById(O)[O[k].fields[1]] = O[k]
    <2>1. \A k, l \in 1 .. n : O[k].fields[1] = O[l].fields[1] => k = l
      BY <1>6, <1>7
    <2>2. QED
      BY <1>1, <1>3, <2>1, ByIdFacts
  <1>9. DOMAIN a = Ids(O) /\ \A id \in Ids(O) : a[id] = SeenOf(ById(O)[id])
    BY <1>8 DEF SeenById, O
  <1> HIDE DEF a
  <1>10. ASSUME NEW k \in 1 .. n
         PROVE  LET r == SeenOf(b[k])
                IN  r[1] = O[k].fields[1] /\ r[1] \in Ids(O) /\ a[r[1]] = r
    <2> DEFINE r == SeenOf(b[k])
    <2>1. r[1] = O[k].fields[1]
      BY <1>6, FirstColumn DEF SeenOf
    <2> HIDE DEF r
    <2>2. r[1] \in Ids(O)
      BY <1>3, <2>1 DEF Ids
    <2>3. a[r[1]] = SeenOf(O[k])
      BY <1>8, <1>9, <2>1, <2>2
    <2>4. QED
      BY <1>5, <2>1, <2>2, <2>3 DEF r
  <1>11. \A r \in A : r[1] \in DOMAIN a /\ a[r[1]] = r
    BY <1>1, <1>9, <1>10
  <1>12. ASSUME NEW id \in DOMAIN a
         PROVE  a[id] \in A /\ a[id][1] = id
    <2>1. PICK k \in 1 .. n : id = O[k].fields[1]
      BY <1>3, <1>9 DEF Ids
    <2>2. a[id] = SeenOf(b[k]) /\ a[id][1] = id
      BY <1>10, <2>1
    <2>3. QED
      BY <1>1, <2>2
  <1>13. DOMAIN a = DOMAIN ById(O)
    BY <1>8, <1>9
  <1>14. QED
    BY <1>11, <1>12, <1>13 DEF a, O

(* DiffRight: diff of two data files names, by their ids, the contacts that  *)
(* are in one book only or differ in a column that diff compares.            *)
THEOREM DiffTellsBooksApart == InterSpec => []DiffRight
  <1>1. InterInv => DiffRight
    <2> SUFFICES ASSUME InterInv, format = "data", cut = "whole", report \notin {Unset, Malformed},
                        Lacks(Rows(book), "ctl"), Lacks(Rows(report.with), "ctl")
                 PROVE  LET A == {SeenOf(book[k]) : k \in DOMAIN book}
                            B == {SeenOf(report.with[k]) : k \in DOMAIN report.with}
                            d == report.diff
                            ids(S) == {r[1] : r \in S}
                        IN  /\ ids(B \ A) = d.added \cup d.changed
                            /\ ids(A \ B) = d.removed \cup d.changed
                            /\ d.added \cap ids(A) = {} /\ d.removed \cap ids(B) = {}
      BY DEF DiffRight, SeenOf
    <2> DEFINE text == JsonlText(book)
    <2>1. PICK other \in OtherBooks : report = DiffReport(SubSeq(text, 1, Len(text)), other)
      BY DEF InterInv, ReportIs
    <2>2. book \in Seq(Contact) /\ text \in Seq(Char) /\ other \in Seq(Contact)
      BY BookFacts, BooksAreRanked DEF InterInv
    <2>3. SubSeq(text, 1, Len(text)) = text
      BY <2>2, SubSeqFull
    <2>4. /\ DiffReads(text) /\ DiffContacts(text) = Outlines(book)
          /\ DiffReads(JsonlText(other)) /\ DiffContacts(JsonlText(other)) = Outlines(other)
      BY <2>2, ReadsWhole
    <2>5. report = [with |-> other,
                    diff |-> DiffBooks(ById(Outlines(book)), ById(Outlines(other)))]
      BY <2>1, <2>3, <2>4 DEF DiffReport
    <2> DEFINE x == ById(Outlines(book))
               y == ById(Outlines(other))
    <2>6. report.with = other /\ report.diff = DiffBooks(x, y)
      BY <2>5
    <2> HIDE DEF x, y
    <2> DEFINE A == {SeenOf(book[k]) : k \in DOMAIN book}
               B == {SeenOf(other[k]) : k \in DOMAIN other}
               a == SeenById(book)
               b == SeenById(other)
               d == report.diff
    <2>7. /\ DOMAIN a = DOMAIN x
          /\ \A r \in A : r[1] \in DOMAIN a /\ a[r[1]] = r
          /\ \A id \in DOMAIN a : a[id] \in A /\ a[id][1] = id
      BY SeenFacts DEF InterInv, x
    <2>8. /\ DOMAIN b = DOMAIN y
          /\ \A r \in B : r[1] \in DOMAIN b /\ b[r[1]] = r
          /\ \A id \in DOMAIN b : b[id] \in B /\ b[id][1] = id
      BY <2>6, SeenFacts DEF y
    <2>9. ASSUME NEW id \in DOMAIN x \cap DOMAIN y
          PROVE  Differ(x[id], y[id]) <=> a[id] # b[id]
      <3>1. a[id] = SeenOf(x[id]) /\ b[id] = SeenOf(y[id])
        BY <2>9 DEF SeenById, x, y
      <3>2. a[id][1] = id /\ b[id][1] = id
        BY <2>7, <2>8
      <3> HIDE DEF a, b
      <3>3. x[id].fields[1] = y[id].fields[1]
        BY <3>1, <3>2, FirstColumn DEF SeenOf
      <3>4. a[id] = b[id] <=> \A i \in Wanted : x[id].fields[i] = y[id].fields[i]
        <4>1. ASSUME a[id] = b[id], NEW i \in Wanted
              PROVE  x[id].fields[i] = y[id].fields[i]
          <5>1. a[id][i] = x[id].fields[i] /\ b[id][i] = y[id].fields[i]
            BY <3>1 DEF SeenOf
          <5>2. QED
            BY <4>1, <5>1
        <4>2. ASSUME \A i \in Wanted : x[id].fields[i] = y[id].fields[i]
              PROVE  a[id] = b[id]
          BY <3>1, <4>2 DEF SeenOf
        <4>3. QED
          BY <4>1, <4>2
      <3>5. QED
        BY <3>3, <3>4 DEF Wanted, Differ
    <2>10. /\ d.added = DOMAIN b \ DOMAIN a /\ d.removed = DOMAIN a \ DOMAIN b
           /\ d.changed = {id \in DOMAIN a \cap DOMAIN b : a[id] # b[id]}
      <3> HIDE DEF a, b
      <3>1. d.changed = {id \in DOMAIN x \cap DOMAIN y : Differ(x[id], y[id])}
        BY <2>6 DEF DiffBooks
      <3>2. QED
        BY <2>6, <2>7, <2>8, <2>9, <3>1 DEF DiffBooks
    <2> HIDE DEF A, B, a, b, d
    <2>11. {r[1] : r \in B \ A} = d.added \cup d.changed
      <3>1. ASSUME NEW r \in B \ A
            PROVE  r[1] \in d.added \cup d.changed
        <4>1. r[1] \in DOMAIN b /\ b[r[1]] = r
          BY <2>8
        <4>2. CASE r[1] \in DOMAIN a
          BY <2>7, <2>10, <4>1, <4>2
        <4>3. CASE r[1] \notin DOMAIN a
          BY <2>10, <4>1, <4>3
        <4>4. QED
          BY <4>2, <4>3
      <3>2. ASSUME NEW id \in d.added \cup d.changed
            PROVE  b[id] \in B \ A /\ b[id][1] = id
        BY <2>7, <2>8, <2>10
      <3>3. QED
        BY <3>1, <3>2
    <2>12. {r[1] : r \in A \ B} = d.removed \cup d.changed
      <3>1. ASSUME NEW r \in A \ B
            PROVE  r[1] \in d.removed \cup d.changed
        <4>1. r[1] \in DOMAIN a /\ a[r[1]] = r
          BY <2>7
        <4>2. CASE r[1] \in DOMAIN b
          BY <2>8, <2>10, <4>1, <4>2
        <4>3. CASE r[1] \notin DOMAIN b
          BY <2>10, <4>1, <4>3
        <4>4. QED
          BY <4>2, <4>3
      <3>2. ASSUME NEW id \in d.removed \cup d.changed
            PROVE  a[id] \in A \ B /\ a[id][1] = id
        BY <2>7, <2>8, <2>10
      <3>3. QED
        BY <3>1, <3>2
    <2>13. d.added \cap {r[1] : r \in A} = {} /\ d.removed \cap {r[1] : r \in B} = {}
      BY <2>7, <2>8, <2>10
    <2>14. QED
      BY <2>6, <2>11, <2>12, <2>13 DEF A, B, d
  <1>2. QED
    BY <1>1, InterInvariance, PTL

-----------------------------------------------------------------------------
(* Reading CSV.                                                              *)

CsvModes == {"plain", "quoted", "quote", "cr"}

\* The states of the CSV parser.
FedState ==
    [rows : Seq(Seq(Seq(Char))), row : Seq(Seq(Char)), field : Seq(Char), mode : CsvModes]

\* The step of the CSV parser.
Feeding == [x \in FedState \X Char |-> Fed(x[1], x[2])]

\* Where the parsing of a text ends that begins in st.
FedEnd(st, text) == End(FedState, Feeding, st, text)

\* A state of the CSV parser by its parts.
FE(rs, r, f, m) == [rows |-> rs, row |-> r, field |-> f, mode |-> m]

(* What FE makes is a state of the parser.                                   *)
LEMMA FeStates ==
    ASSUME NEW rs \in Seq(Seq(Seq(Char))), NEW r \in Seq(Seq(Char)), NEW f \in Seq(Char),
           NEW m \in CsvModes
    PROVE  FE(rs, r, f, m) \in FedState
  BY DEF FE, FedState

(* A state of the parser is what FE makes of its parts.                      *)
LEMMA FedStates ==
    ASSUME NEW st \in FedState
    PROVE  /\ st.rows \in Seq(Seq(Seq(Char))) /\ st.row \in Seq(Seq(Char))
           /\ st.field \in Seq(Char) /\ st.mode \in CsvModes
           /\ st = FE(st.rows, st.row, st.field, st.mode)
  BY DEF FE, FedState

(* A quote outside of quotes opens them.                                     *)
LEMMA QuoteOpens ==
    ASSUME NEW rs, NEW r, NEW f
    PROVE  Fed(FE(rs, r, f, "plain"), Quote) = FE(rs, r, f, "quoted")
  BY DEF Fed, Unquoted, FE, Quote, CR, LF

(* A quote within quotes may close them.                                     *)
LEMMA QuotedQuote ==
    ASSUME NEW rs, NEW r, NEW f
    PROVE  Fed(FE(rs, r, f, "quoted"), Quote) = FE(rs, r, f, "quote")
  BY DEF Fed, FE, Quote

(* Anything else within quotes belongs to the field.                         *)
LEMMA QuotedOther ==
    ASSUME NEW rs, NEW r, NEW f, NEW c, c # Quote
    PROVE  Fed(FE(rs, r, f, "quoted"), c) = FE(rs, r, Append(f, c), "quoted")
  BY DEF Fed, FE, Pushed

(* A second quote makes a quote of the first, and the field goes on.         *)
LEMMA QuoteDoubled ==
    ASSUME NEW rs, NEW r, NEW f
    PROVE  Fed(FE(rs, r, f, "quote"), Quote) = FE(rs, r, Append(f, Quote), "quoted")
  BY DEF Fed, FE, Pushed, Quote

(* A comma outside of quotes ends the field.                                 *)
LEMMA FieldEnds ==
    ASSUME NEW rs, NEW r, NEW f, NEW m \in {"plain", "quote"}
    PROVE  Fed(FE(rs, r, f, m), ",") = FE(rs, Append(r, f), << >>, "plain")
  BY DEF Fed, Unquoted, FE, FieldEnded, Quote, CR, LF

(* A line break outside of quotes ends the row.                              *)
LEMMA LineEnds ==
    ASSUME NEW rs, NEW r, NEW f, NEW m \in {"plain", "quote"}
    PROVE  Fed(FE(rs, r, f, m), LF) = FE(Append(rs, Append(r, f)), << >>, << >>, "plain")
  BY DEF Fed, Unquoted, FE, FieldEnded, RowEnded, Quote, CR, LF

(* So does a CR, and what follows it is looked at for an LF.                 *)
LEMMA CrEndsLine ==
    ASSUME NEW rs, NEW r, NEW f, NEW m \in {"plain", "quote", "cr"}
    PROVE  Fed(FE(rs, r, f, m), CR) = FE(Append(rs, Append(r, f)), << >>, << >>, "cr")
  BY DEF Fed, Unquoted, FE, FieldEnded, RowEnded, Quote, CR, LF

(* At the end of the text the last row is complete.                          *)
LEMMA RowsAtEnd ==
    ASSUME NEW rs, NEW r, NEW f, NEW m
    PROVE  RowEnded(FE(rs, r, f, m)).rows = Append(rs, Append(r, f))
  BY DEF FE, FieldEnded, RowEnded

(* What a character makes of the state.                                      *)
LEMMA FedBecomes ==
    ASSUME NEW rs, NEW r, NEW f, NEW m \in CsvModes, NEW c
    PROVE  \E n \in CsvModes :
              \/ Fed(FE(rs, r, f, m), c) = FE(rs, r, f, n)
              \/ Fed(FE(rs, r, f, m), c) = FE(rs, r, Append(f, c), n)
              \/ Fed(FE(rs, r, f, m), c) = FE(rs, Append(r, f), << >>, n)
              \/ Fed(FE(rs, r, f, m), c) = FE(Append(rs, Append(r, f)), << >>, << >>, n)
  <1>1. "plain" \in CsvModes /\ "quoted" \in CsvModes /\ "quote" \in CsvModes /\ "cr" \in CsvModes
    BY DEF CsvModes
  <1>2. CASE m = "quoted"
    BY <1>1, <1>2, QuotedQuote, QuotedOther
  <1>3. CASE m # "quoted" /\ c \in {",", LF, CR}
    <2>1. CASE c = ","
      BY <1>1, <1>3, <2>1 DEF Fed, Unquoted, FE, FieldEnded, Quote, CR, LF
    <2>2. CASE c = LF /\ m = "cr"
      BY <1>1, <2>2 DEF Fed, FE
    <2>3. CASE c = LF /\ m # "cr"
      <3>1. m \in {"plain", "quote"}
        BY <1>3, <2>3 DEF CsvModes
      <3>2. QED
        BY <1>1, <2>3, <3>1, LineEnds
    <2>4. CASE c = CR
      <3>1. m \in {"plain", "quote", "cr"}
        BY <1>3 DEF CsvModes
      <3>2. QED
        BY <1>1, <2>4, <3>1, CrEndsLine
    <2>5. QED
      BY <1>3, <2>1, <2>2, <2>3, <2>4
  <1>4. CASE m # "quoted" /\ c = Quote
    <2>1. CASE m = "quote"
      BY <1>1, <1>4, <2>1, QuoteDoubled
    <2>2. CASE m # "quote"
      BY <1>1, <1>4, <2>2 DEF Fed, Unquoted, FE, Quote, CR, LF
    <2>3. QED
      BY <2>1, <2>2
  <1>5. CASE m # "quoted" /\ c \notin {Quote, ",", CR, LF}
    BY <1>1, <1>5 DEF Fed, Unquoted, FE, Pushed
  <1>6. QED
    BY <1>2, <1>3, <1>4, <1>5

(* A step of the parser, as a function.                                      *)
LEMMA FeedingSteps ==
    /\ Steps(Feeding, FedState, Char)
    /\ \A st \in FedState, c \in Char : Feeding[<< st, c >>] = Fed(st, c)
  <1>1. ASSUME NEW st \in FedState, NEW c \in Char
        PROVE  Fed(st, c) \in FedState
    <2> DEFINE rs == st.rows
               r == st.row
               f == st.field
               m == st.mode
               x == Append(r, f)
               y == Append(rs, x)
               g == Append(f, c)
               none == << >>
    <2>1. /\ rs \in Seq(Seq(Seq(Char))) /\ r \in Seq(Seq(Char)) /\ f \in Seq(Char) /\ m \in CsvModes
          /\ st = FE(rs, r, f, m)
      BY FedStates
    <2> HIDE DEF rs, r, f, m
    <2>2. /\ x \in Seq(Seq(Char)) /\ y \in Seq(Seq(Seq(Char))) /\ g \in Seq(Char)
          /\ none \in Seq(Char) /\ none \in Seq(Seq(Char))
      BY <2>1, AppendProperties, EmptySeq
    <2>3. PICK n \in CsvModes :
              \/ Fed(FE(rs, r, f, m), c) = FE(rs, r, f, n)
              \/ Fed(FE(rs, r, f, m), c) = FE(rs, r, g, n)
              \/ Fed(FE(rs, r, f, m), c) = FE(rs, x, none, n)
              \/ Fed(FE(rs, r, f, m), c) = FE(y, none, none, n)
      BY <2>1, FedBecomes
    <2> HIDE DEF x, y, g, none
    <2>4. /\ FE(rs, r, f, n) \in FedState /\ FE(rs, r, g, n) \in FedState
          /\ FE(rs, x, none, n) \in FedState /\ FE(y, none, none, n) \in FedState
      BY <2>1, <2>2, FeStates
    <2>5. QED
      BY <2>1, <2>3, <2>4
  <1>2. QED
    BY <1>1 DEF Feeding, Steps

(* One character is parsed in one step.                                      *)
LEMMA FedEndOne ==
    ASSUME NEW st \in FedState, NEW c \in Char
    PROVE  FedEnd(st, << c >>) = Fed(st, c) /\ Fed(st, c) \in FedState
  <1>1. FedEnd(st, << c >>) = Feeding[<< st, c >>]
    BY FeedingSteps, EndOne DEF FedEnd
  <1>2. Feeding[<< st, c >>] \in FedState
    BY FeedingSteps DEF Steps
  <1>3. QED
    BY <1>1, <1>2, FeedingSteps

(* A text is parsed from where the text before it has ended.                 *)
LEMMA FedEndJoined ==
    ASSUME NEW st \in FedState, NEW a \in Seq(Char), NEW b \in Seq(Char)
    PROVE  /\ FedEnd(st, a \o b) = FedEnd(FedEnd(st, a), b)
           /\ FedEnd(st, a) \in FedState
  BY FeedingSteps, EndJoined, EndStays DEF FedEnd

(* A text of pieces is parsed piece by piece.                                *)
LEMMA FedEndFlattened ==
    ASSUME NEW st \in FedState, NEW pieces \in Seq(Seq(Char)),
           NEW q, Passing(q, FedState, Feeding, st, pieces), NEW n \in 0 .. Len(pieces)
    PROVE  FedEnd(st, FlattenSeq(SubSeq(pieces, 1, n))) = q[n]
  <1>1. Steps(Feeding, FedState, Char)
    BY FeedingSteps
  <1>2. QED
    BY <1>1, EndFlattened DEF FedEnd

(* The recursion in Through goes the same way.                               *)
LEMMA ThroughFed ==
    ASSUME NEW st \in FedState, NEW text \in Seq(Char)
    PROVE  Through(Fed, st, text) = FedEnd(st, text)
  <1> DEFINE n == Len(text)
             Recursion(f) == f = [k \in 0 .. n |-> IF k = 0 THEN st ELSE Fed(f[k - 1], text[k])]
             f == CHOOSE g : Recursion(g)
  <1>1. Steps(Feeding, FedState, Char) /\ n \in Nat /\ \A k \in 1 .. n : text[k] \in Char
    BY FeedingSteps, LenProperties, ElementOfSeq
  <1>2. \E g : Recursion(g)
    <2>1. PICK w : Walks(w, FedState, Feeding, st, text, n)
      BY <1>1, WalkExists DEF Steps
    <2> DEFINE g == [k \in 0 .. n |-> w[k]]
    <2>2. ASSUME NEW k \in 0 .. n
          PROVE  g[k] = IF k = 0 THEN st ELSE Fed(g[k - 1], text[k])
      <3>1. CASE k = 0
        BY <2>1, <3>1 DEF Walks
      <3>2. CASE k # 0
        <4>1. k - 1 \in 0 .. n - 1 /\ (k - 1) + 1 = k /\ k - 1 \in 0 .. n /\ text[k] \in Char
          BY <1>1, <3>2
        <4>2. w[(k - 1) + 1] = Feeding[<< w[k - 1], text[(k - 1) + 1] >>] /\ w[k - 1] \in FedState
          BY <2>1, <4>1 DEF Walks
        <4>3. w[k] = Fed(w[k - 1], text[k])
          BY <4>1, <4>2, FeedingSteps
        <4>4. QED
          BY <3>2, <4>1, <4>3
      <3>3. QED
        BY <3>1, <3>2
    <2>3. Recursion(g)
      BY <2>2
    <2>4. QED
      BY <2>3
  <1>3. Recursion(f)
    BY <1>2
  <1>4. Through(Fed, st, text) = f[n]
    BY DEF Through
  <1> HIDE DEF f
  <1>5. Follows(f, FedState, Feeding, st, text, n)
    <2>1. f[0] = st
      BY <1>1, <1>3
    <2>2. ASSUME NEW k \in 0 .. n - 1, f[k] \in FedState
          PROVE  f[k + 1] = Feeding[<< f[k], text[k + 1] >>]
      <3>1. k + 1 \in 0 .. n /\ k + 1 # 0 /\ (k + 1) - 1 = k /\ text[k + 1] \in Char
        BY <1>1
      <3>2. f[k + 1] = Fed(f[k], text[k + 1])
        BY <1>3, <3>1
      <3>3. QED
        BY <2>2, <3>1, <3>2, FeedingSteps
    <2>3. QED
      BY <2>1, <2>2 DEF Follows
  <1>6. QED
    BY <1>1, <1>4, <1>5, EndIs DEF FedEnd

\* The characters for which csv_escape adds quotes.
Special == {",", Quote, LF}

(* A field without special characters is read as it is.                      *)
LEMMA ReadsPlain ==
    ASSUME NEW rs \in Seq(Seq(Seq(Char))), NEW r \in Seq(Seq(Char)), NEW s \in Seq(Char \ {CR}),
           \A i \in DOMAIN s : s[i] \notin Special
    PROVE  FedEnd(FE(rs, r, << >>, "plain"), s) = FE(rs, r, s, "plain")
  <1> DEFINE n == Len(s)
             none == << >>
             m == "plain"
             g == [k \in 0 .. n |-> FE(rs, r, SubSeq(s, 1, k), m)]
  <1>0. n \in Nat
    BY LenProperties
  <1>1. /\ n \in Nat /\ s \in Seq(Char) /\ m \in CsvModes
        /\ \A k \in 1 .. n : s[k] \in Char /\ s[k] \notin {Quote, ",", CR, LF}
    <2>1. n \in Nat /\ DOMAIN s = 1 .. n /\ \A k \in 1 .. n : s[k] \in Char \ {CR}
      BY LenProperties, ElementOfSeq
    <2>2. s \in Seq(Char)
      BY SeqMonotonic
    <2>3. QED
      BY <2>1, <2>2 DEF Special, CsvModes
  <1>2. /\ SubSeq(s, 1, 0) = none /\ SubSeq(s, 1, n) = s
        /\ \A k \in 0 .. n : SubSeq(s, 1, k) \in Seq(Char)
        /\ \A k \in 0 .. n - 1 : SubSeq(s, 1, k + 1) = Append(SubSeq(s, 1, k), s[k + 1])
    BY <1>1, UptoFacts
  <1>3. \A k \in 0 .. n : g[k] = FE(rs, r, SubSeq(s, 1, k), m)
    OBVIOUS
  <1> HIDE DEF g, none
  <1>4. ASSUME NEW k \in 0 .. n - 1
        PROVE  g[k + 1] = Feeding[<< g[k], s[k + 1] >>]
    <2> DEFINE u == SubSeq(s, 1, k)
               c == s[k + 1]
    <2>1. k \in 0 .. n /\ k + 1 \in 0 .. n /\ k + 1 \in 1 .. n
      BY <1>0
    <2>2. /\ u \in Seq(Char) /\ c \in Char /\ c \notin {Quote, ",", CR, LF}
          /\ g[k] = FE(rs, r, u, m) /\ g[k + 1] = FE(rs, r, Append(u, c), m)
      BY <1>1, <1>2, <1>3, <2>1
    <2> HIDE DEF u, c
    <2>3. FE(rs, r, u, m) \in FedState
      BY <1>1, <2>2, FeStates
    <2>4. Fed(FE(rs, r, u, m), c) = FE(rs, r, Append(u, c), m)
      <3>1. m = "plain" /\ c # Quote /\ c # "," /\ c # CR /\ c # LF
        BY <2>2
      <3> HIDE DEF m
      <3>2. QED
        BY <3>1 DEF Fed, Unquoted, FE, Pushed
    <2> HIDE DEF m
    <2>5. QED
      BY <2>2, <2>3, <2>4, FeedingSteps DEF c
  <1>5. g[0] = FE(rs, r, none, m)
    <2>1. 0 \in 0 .. n
      BY <1>0
    <2>2. QED
      BY <1>2, <1>3, <2>1
  <1> DEFINE st == FE(rs, r, none, m)
  <1>6. st \in FedState
    <2>1. none \in Seq(Char)
      BY EmptySeq DEF none
    <2>2. QED
      BY <1>1, <2>1, FeStates
  <1> HIDE DEF st, m
  <1>7. Follows(g, FedState, Feeding, st, s, n)
    BY <1>4, <1>5 DEF Follows, st
  <1>8. FedEnd(st, s) = g[n]
    <2>1. Steps(Feeding, FedState, Char) /\ s \in Seq(Char)
      BY <1>1, FeedingSteps
    <2>2. QED
      BY <1>6, <1>7, <2>1, EndIs DEF FedEnd
  <1>9. n \in 0 .. n
    BY <1>0
  <1>10. QED
    BY <1>2, <1>3, <1>8, <1>9 DEF st, none, m

(* Two characters, one after the other.                                      *)
LEMMA TwoCharacters ==
    ASSUME NEW S, NEW c \in S, NEW d \in S
    PROVE  << c, d >> = << c >> \o << d >>
  <1> DEFINE a == << c >>
             b == << d >>
             e == << c, d >>
  <1>1. /\ a \in Seq(S) /\ Len(a) = 1 /\ a[1] = c
        /\ b \in Seq(S) /\ Len(b) = 1 /\ b[1] = d
    OBVIOUS
  <1>2. e \in Seq(S) /\ Len(e) = 2 /\ e[1] = c /\ e[2] = d
    OBVIOUS
  <1> HIDE DEF a, b, e
  <1>3. a \o b \in Seq(S) /\ Len(a \o b) = 2 /\ (a \o b)[1] = c /\ (a \o b)[2] = d
    <2>1. /\ a \o b \in Seq(S) /\ Len(a \o b) = Len(a) + Len(b)
          /\ \A i \in 1 .. Len(a) + Len(b) :
                (a \o b)[i] = IF i <= Len(a) THEN a[i] ELSE b[i - Len(a)]
      <3>1. a \in Seq(S) /\ b \in Seq(S)
        BY <1>1
      <3>2. QED
        BY <3>1, ConcatProperties
    <2>2. QED
      BY <1>1, <2>1
  <1> DEFINE x == a \o b
  <1> HIDE DEF x
  <1>4. \A i \in 1 .. Len(e) : x[i] = e[i]
    BY <1>2, <1>3 DEF x
  <1>5. x = e
    BY <1>2, <1>3, <1>4, SeqEqual DEF x
  <1>6. QED
    BY <1>5 DEF x, e, a, b

(* Two characters are parsed in two steps.                                   *)
LEMMA FedEndTwo ==
    ASSUME NEW st \in FedState, NEW c \in Char, NEW d \in Char
    PROVE  FedEnd(st, << c, d >>) = Fed(Fed(st, c), d)
  <1> DEFINE a == << c >>
             b == << d >>
  <1>1. a \in Seq(Char) /\ b \in Seq(Char) /\ << c, d >> = a \o b
    BY TwoCharacters, OneCharacter
  <1>2. /\ FedEnd(st, a) = Fed(st, c) /\ Fed(st, c) \in FedState
        /\ FedEnd(Fed(st, c), b) = Fed(Fed(st, c), d)
    BY FedEndOne
  <1> HIDE DEF a, b
  <1>3. FedEnd(st, a \o b) = FedEnd(FedEnd(st, a), b)
    BY <1>1, FedEndJoined
  <1>4. QED
    BY <1>1, <1>2, <1>3

\* The text between the quotes.
DoubledText(s) == FlattenSeq([i \in DOMAIN s |-> Doubled(s[i])])

(* Between quotes every character is read as it is.                          *)
LEMMA ReadsDoubled ==
    ASSUME NEW rs \in Seq(Seq(Seq(Char))), NEW r \in Seq(Seq(Char)), NEW s \in Seq(Char)
    PROVE  /\ FedEnd(FE(rs, r, << >>, "quoted"), DoubledText(s)) = FE(rs, r, s, "quoted")
           /\ DoubledText(s) \in Seq(Char)
  <1> DEFINE n == Len(s)
             none == << >>
             m == "quoted"
             P == [i \in DOMAIN s |-> Doubled(s[i])]
             q == [k \in 0 .. n |-> FE(rs, r, SubSeq(s, 1, k), m)]
  <1>1. n \in Nat
    BY LenProperties
  <1>2. /\ DOMAIN s = 1 .. n /\ \A k \in 1 .. n : s[k] \in Char
        /\ m \in CsvModes /\ Quote \in Char /\ none \in Seq(Char)
    BY LenProperties, ElementOfSeq, CharAssumption, EmptySeq DEF CsvModes
  <1>3. /\ SubSeq(s, 1, 0) = none /\ SubSeq(s, 1, n) = s
        /\ \A k \in 0 .. n : SubSeq(s, 1, k) \in Seq(Char)
        /\ \A k \in 0 .. n - 1 : SubSeq(s, 1, k + 1) = Append(SubSeq(s, 1, k), s[k + 1])
    BY UptoFacts
  <1>4. \A c \in Char : Doubled(c) \in Seq(Char)
    BY <1>2 DEF Doubled
  <1>5. P \in [1 .. n -> Seq(Char)] /\ \A k \in 1 .. n : P[k] = Doubled(s[k])
    BY <1>2, <1>4
  <1>6. DoubledText(s) = FlattenSeq(P)
    BY DEF DoubledText
  <1>7. \A k \in 0 .. n : q[k] = FE(rs, r, SubSeq(s, 1, k), m)
    OBVIOUS
  <1> HIDE DEF P, q, none
  <1>8. P \in Seq(Seq(Char)) /\ Len(P) = n
    BY <1>1, <1>5, FunctionIsSeq
  <1>9. ASSUME NEW u \in Seq(Char), NEW c \in Char
        PROVE  FedEnd(FE(rs, r, u, m), Doubled(c)) = FE(rs, r, Append(u, c), m)
    <2>1. FE(rs, r, u, m) \in FedState
      BY <1>2, FeStates
    <2>2. CASE c = Quote
      <3>1. Fed(FE(rs, r, u, m), Quote) = FE(rs, r, u, "quote")
        BY QuotedQuote
      <3>2. Fed(FE(rs, r, u, "quote"), Quote) = FE(rs, r, Append(u, Quote), "quoted")
        BY QuoteDoubled
      <3>3. Doubled(c) = << Quote, Quote >>
        BY <2>2 DEF Doubled
      <3> DEFINE st == FE(rs, r, u, m)
      <3> HIDE DEF st
      <3>4. FedEnd(st, << Quote, Quote >>) = Fed(Fed(st, Quote), Quote)
        BY <1>2, <2>1, FedEndTwo DEF st
      <3>5. QED
        BY <2>2, <3>1, <3>2, <3>3, <3>4 DEF st
    <2>3. CASE c # Quote
      <3>1. Fed(FE(rs, r, u, m), c) = FE(rs, r, Append(u, c), m)
        BY <2>3, QuotedOther
      <3>2. Doubled(c) = << c >>
        BY <2>3 DEF Doubled
      <3> DEFINE st == FE(rs, r, u, m)
      <3> HIDE DEF st
      <3>3. FedEnd(st, << c >>) = Fed(st, c)
        BY <2>1, FedEndOne DEF st
      <3>4. QED
        BY <3>1, <3>2, <3>3 DEF st
    <2>4. QED
      BY <2>2, <2>3
  <1> HIDE DEF m
  <1>10. ASSUME NEW k \in 0 .. n - 1
         PROVE  FedEnd(q[k], P[k + 1]) = q[k + 1]
    <2> DEFINE u == SubSeq(s, 1, k)
               c == s[k + 1]
    <2>1. k \in 0 .. n /\ k + 1 \in 0 .. n /\ k + 1 \in 1 .. n
      BY <1>1
    <2>2. /\ u \in Seq(Char) /\ c \in Char /\ P[k + 1] = Doubled(c)
          /\ q[k] = FE(rs, r, u, m) /\ q[k + 1] = FE(rs, r, Append(u, c), m)
      BY <1>2, <1>3, <1>5, <1>7, <2>1
    <2> HIDE DEF u, c
    <2>3. QED
      BY <1>9, <2>2
  <1> DEFINE st == FE(rs, r, none, m)
  <1>11. st \in FedState
    BY <1>2, FeStates
  <1>12. q[0] = st
    <2>1. 0 \in 0 .. n
      BY <1>1
    <2>2. QED
      BY <1>3, <1>7, <2>1
  <1> HIDE DEF st
  <1>13. Passing(q, FedState, Feeding, st, P)
    BY <1>8, <1>10, <1>12 DEF Passing, FedEnd
  <1>14. FedEnd(st, FlattenSeq(SubSeq(P, 1, n))) = q[n]
    <2>1. n \in 0 .. Len(P)
      BY <1>1, <1>8
    <2>2. QED
      BY <1>8, <1>11, <1>13, <2>1, FedEndFlattened, ZenonT(30)
  <1>15. SubSeq(P, 1, n) = P /\ FlattenSeq(P) \in Seq(Char)
    BY <1>8, UptoFacts, FlattenFacts
  <1>16. n \in 0 .. n
    BY <1>1
  <1>17. QED
    BY <1>3, <1>6, <1>7, <1>14, <1>15, <1>16 DEF st, none, m

(* A field is read as it was, within quotes or not.                          *)
LEMMA ReadsField ==
    ASSUME NEW rs \in Seq(Seq(Seq(Char))), NEW r \in Seq(Seq(Char)), NEW s \in Seq(Char \ {CR})
    PROVE  \E m \in {"plain", "quote"} :
              FedEnd(FE(rs, r, << >>, "plain"), CsvEscape(s)) = FE(rs, r, s, m)
  <1>1. CASE \A i \in DOMAIN s : s[i] \notin Special
    <2>1. CsvEscape(s) = s
      BY <1>1 DEF CsvEscape, Special
    <2>2. FedEnd(FE(rs, r, << >>, "plain"), s) = FE(rs, r, s, "plain")
      BY <1>1, ReadsPlain
    <2>3. QED
      BY <2>1, <2>2
  <1>2. CASE \E i \in DOMAIN s : s[i] \in Special
    <2> DEFINE none == << >>
               q == << Quote >>
               d == DoubledText(s)
               s0 == FE(rs, r, none, "plain")
               s1 == FE(rs, r, none, "quoted")
               s2 == FE(rs, r, s, "quoted")
               s3 == FE(rs, r, s, "quote")
    <2>1. CsvEscape(s) = q \o d \o q
      BY <1>2 DEF CsvEscape, Special, DoubledText
    <2>2. s \in Seq(Char) /\ none \in Seq(Char) /\ q \in Seq(Char) /\ Quote \in Char
      BY SeqMonotonic, EmptySeq, CharAssumption, OneCharacter
    <2>3. s0 \in FedState /\ s1 \in FedState /\ s2 \in FedState
      <3>1. "plain" \in CsvModes /\ "quoted" \in CsvModes
        BY DEF CsvModes
      <3> HIDE DEF none
      <3>2. QED
        BY <2>2, <3>1, FeStates
    <2>4. Fed(s0, Quote) = s1 /\ Fed(s2, Quote) = s3
      BY QuoteOpens, QuotedQuote
    <2>5. FedEnd(s1, d) = s2 /\ d \in Seq(Char)
      BY <2>2, ReadsDoubled
    <2> HIDE DEF s0, s1, s2, s3, d, none
    <2>6. FedEnd(s0, q) = s1 /\ FedEnd(s2, q) = s3
      BY <2>2, <2>3, <2>4, FedEndOne
    <2> HIDE DEF q
    <2>7. FedEnd(s0, q \o d) = s2 /\ q \o d \in Seq(Char)
      BY <2>2, <2>3, <2>5, <2>6, FedEndJoined, ConcatProperties
    <2> DEFINE x == q \o d
    <2>8. FedEnd(s0, x \o q) = s3
      <3> HIDE DEF x
      <3>1. FedEnd(s0, x) = s2 /\ x \in Seq(Char)
        BY <2>7 DEF x
      <3>2. QED
        BY <2>2, <2>3, <2>6, <3>1, FedEndJoined
    <2>9. QED
      BY <2>1, <2>8 DEF s0, s3, none
  <1>3. QED
    BY <1>1, <1>2

\* A contact no field of which holds a CR.
Plain == [1 .. Columns -> Seq(Char \ {CR})]

(* The contacts of a book without CR are plain, and so is the header.        *)
LEMMA PlainFacts ==
    /\ Plain \subseteq Row /\ Header \in Plain
    /\ \A b \in Seq(Row) : Lacks(b, CR) => \A k \in 1 .. Len(b) : b[k] \in Plain
  <1>1. Plain \subseteq Row
    <2>1. \A s \in Seq(Char \ {CR}) : s \in Seq(Char)
      BY SeqMonotonic
    <2>2. QED
      BY <2>1 DEF Plain, Row
  <1>2. Header \in Plain
    BY ColumnsAssumption DEF Plain
  <1>3. ASSUME NEW b \in Seq(Row), Lacks(b, CR), NEW k \in 1 .. Len(b)
        PROVE  b[k] \in Plain
    <2>1. k \in DOMAIN b /\ b[k] \in Row
      BY LenProperties, ElementOfSeq
    <2> DEFINE row == b[k]
    <2>2. \A i \in DOMAIN row : \A j \in DOMAIN row[i] : row[i][j] # CR
      BY <1>3, <2>1 DEF Lacks
    <2>3. row \in [1 .. Columns -> Seq(Char)]
      BY <2>1 DEF Row
    <2> HIDE DEF row
    <2>4. ASSUME NEW i \in 1 .. Columns
          PROVE  row[i] \in Seq(Char \ {CR})
      <3> DEFINE s == row[i]
      <3>1. s \in Seq(Char) /\ \A j \in DOMAIN s : s[j] # CR
        BY <2>2, <2>3
      <3> HIDE DEF s
      <3>2. Len(s) \in Nat /\ DOMAIN s = 1 .. Len(s) /\ \A j \in 1 .. Len(s) : s[j] \in Char
        BY <3>1, LenProperties, ElementOfSeq
      <3>3. s \in [1 .. Len(s) -> Char \ {CR}]
        BY <3>1, <3>2, LenProperties
      <3>4. s \in Seq(Char \ {CR})
        BY <3>2, <3>3, FunctionIsSeq
      <3>5. QED
        BY <3>4 DEF s
    <2>5. QED
      BY <2>3, <2>4 DEF Plain, row
  <1>4. QED
    BY <1>1, <1>2, <1>3

\* A line without its break.
Body(row) ==
    FlattenSeq(SubSeq(FieldPieces(row), 1, Columns - 1)) \o CsvEscape(row[Columns])

(* A line is read as its row.                                                *)
LEMMA ReadsCsvLine ==
    ASSUME NEW rs \in Seq(Seq(Seq(Char))), NEW row \in Plain
    PROVE  /\ Body(row) \in Seq(Char) /\ CsvLine(row) = Body(row) \o << LF >>
           /\ RowEnded(FedEnd(FE(rs, << >>, << >>, "plain"), Body(row))).rows = Append(rs, row)
           /\ FedEnd(FE(rs, << >>, << >>, "plain"), CsvLine(row))
                = FE(Append(rs, row), << >>, << >>, "plain")
  <1> DEFINE n == Columns
             none == << >>
             m == "plain"
             P == FieldPieces(row)
             next == FE(Append(rs, row), none, none, m)
             q == [k \in 0 .. n |-> IF k = n THEN next ELSE FE(rs, SubSeq(row, 1, k), none, m)]
             st == FE(rs, none, none, m)
             lf == << LF >>
             x == row[n]
             front == FlattenSeq(SubSeq(P, 1, n - 1))
  <1>1. n \in Nat /\ n # 0
    BY RowFacts
  <1>2. row \in Row /\ \A i \in 1 .. n : row[i] \in Seq(Char \ {CR})
    BY PlainFacts DEF Plain
  <1>3. /\ P \in Seq(Seq(Char)) /\ Len(P) = n /\ CsvLine(row) = FlattenSeq(P)
        /\ \A i \in 1 .. n - 1 : P[i] = CsvEscape(row[i]) \o << "," >>
        /\ P[n] = CsvEscape(x) \o lf
    BY <1>2, PiecesTyped
  <1>4. row \in Seq(Seq(Char)) /\ Len(row) = n
    BY <1>2, RowFacts
  <1>5. /\ SubSeq(row, 1, 0) = none /\ SubSeq(row, 1, n) = row
        /\ \A k \in 0 .. n : SubSeq(row, 1, k) \in Seq(Seq(Char))
        /\ \A k \in 0 .. n - 1 : SubSeq(row, 1, k + 1) = Append(SubSeq(row, 1, k), row[k + 1])
    BY <1>4, UptoFacts
  <1>6. none \in Seq(Char) /\ none \in Seq(Seq(Char)) /\ m \in CsvModes
        /\ "," \in Char /\ LF \in Char /\ << "," >> \in Seq(Char) /\ lf \in Seq(Char)
    BY EmptySeq, CharAssumption, OneCharacter DEF CsvModes
  <1>7. \A i \in 1 .. n : CsvEscape(row[i]) \in Seq(Char)
    <2>1. \A i \in 1 .. n : row[i] \in Seq(Char)
      BY <1>2 DEF Row
    <2>2. QED
      BY <2>1, EscapesTyped
  <1>8. /\ \A k \in 0 .. n - 1 : q[k] = FE(rs, SubSeq(row, 1, k), none, m)
        /\ q[n] = next
    BY <1>1
  <1> HIDE DEF P, q, none, lf
  <1>9. ASSUME NEW k \in 0 .. n - 1
        PROVE  \E w \in {"plain", "quote"} :
                  FedEnd(FE(rs, SubSeq(row, 1, k), none, m), CsvEscape(row[k + 1]))
                    = FE(rs, SubSeq(row, 1, k), row[k + 1], w)
    <2>1. k \in 0 .. n /\ k + 1 \in 1 .. n
      BY <1>1
    <2>2. SubSeq(row, 1, k) \in Seq(Seq(Char)) /\ row[k + 1] \in Seq(Char \ {CR})
      BY <1>2, <1>5, <2>1
    <2> DEFINE u == SubSeq(row, 1, k)
    <2> HIDE DEF u
    <2>3. QED
      BY <2>2, ReadsField DEF u, none
  <1>10. ASSUME NEW k \in 0 .. n - 1, k + 1 # n
         PROVE  FedEnd(q[k], P[k + 1]) = q[k + 1]
    <2> DEFINE u == SubSeq(row, 1, k)
               s == row[k + 1]
               e == CsvEscape(s)
               s0 == FE(rs, u, none, m)
               c == << "," >>
    <2>1. k \in 0 .. n /\ k + 1 \in 1 .. n - 1 /\ k + 1 \in 0 .. n - 1 /\ k + 1 \in 1 .. n
      BY <1>1, <1>10
    <2>2. /\ u \in Seq(Seq(Char)) /\ s \in Seq(Char) /\ e \in Seq(Char)
          /\ P[k + 1] = e \o c
          /\ q[k] = s0 /\ q[k + 1] = FE(rs, Append(u, s), none, m)
      <3>1. s \in Seq(Char)
        BY <1>2, <2>1 DEF Row
      <3>2. QED
        BY <1>3, <1>5, <1>7, <1>8, <2>1, <3>1
    <2>3. PICK w \in {"plain", "quote"} : FedEnd(s0, e) = FE(rs, u, s, w)
      BY <1>9
    <2> HIDE DEF u, s, e
    <2>4. s0 \in FedState
      BY <1>6, <2>2, FeStates
    <2>5. Fed(FE(rs, u, s, w), ",") = FE(rs, Append(u, s), none, m)
      BY FieldEnds DEF none
    <2> DEFINE s1 == FE(rs, u, s, w)
    <2>6. s1 \in FedState
      BY <2>3, <2>2, FeStates DEF CsvModes
    <2> HIDE DEF s0, s1
    <2>7. FedEnd(s1, c) = FE(rs, Append(u, s), none, m)
      BY <1>6, <2>5, <2>6, FedEndOne DEF s1
    <2> HIDE DEF c
    <2>8. FedEnd(s0, e \o c) = FedEnd(FedEnd(s0, e), c)
      BY <1>6, <2>2, <2>4, FedEndJoined DEF c
    <2>9. QED
      BY <2>2, <2>3, <2>7, <2>8 DEF s1
  <1> DEFINE u == SubSeq(row, 1, n - 1)
             last == FE(rs, u, none, m)
             e == CsvEscape(x)
  <1>11. n - 1 \in 0 .. n - 1 /\ n - 1 \in 0 .. n /\ (n - 1) + 1 = n /\ n \in 1 .. n /\ n \in 0 .. n
    BY <1>1
  <1>12. /\ u \in Seq(Seq(Char)) /\ x \in Seq(Char) /\ e \in Seq(Char) /\ Append(u, x) = row
         /\ q[n - 1] = last
    <2>1. x \in Seq(Char)
      BY <1>2, <1>11 DEF Row
    <2>2. Append(u, x) = row
      BY <1>5, <1>11
    <2>3. QED
      BY <1>5, <1>7, <1>8, <1>11, <2>1, <2>2
  <1>13. PICK w \in {"plain", "quote"} : FedEnd(last, e) = FE(rs, u, x, w)
    BY <1>9, <1>11
  <1> HIDE DEF u, x
  <1>14. last \in FedState /\ FE(rs, u, x, w) \in FedState
    <2>1. w \in CsvModes
      BY DEF CsvModes
    <2>2. QED
      BY <1>6, <1>12, <2>1, FeStates
  <1>15. Fed(FE(rs, u, x, w), LF) = next
    BY <1>12, LineEnds, ZenonT(30) DEF none
  <1>16. RowEnded(FE(rs, u, x, w)).rows = Append(rs, row)
    <2>1. RowEnded(FE(rs, u, x, w)).rows = Append(rs, Append(u, x))
      BY DEF FE, FieldEnded, RowEnded
    <2>2. QED
      BY <1>12, <2>1
  <1> DEFINE s1 == FE(rs, u, x, w)
  <1> HIDE DEF last, e, next, s1
  <1>17. FedEnd(s1, lf) = next
    BY <1>6, <1>14, <1>15, FedEndOne DEF s1, lf
  <1>18. FedEnd(last, e \o lf) = next
    <2>1. FedEnd(last, e \o lf) = FedEnd(FedEnd(last, e), lf)
      BY <1>6, <1>12, <1>14, FedEndJoined
    <2>2. QED
      BY <1>13, <1>17, <2>1 DEF s1
  <1>19. ASSUME NEW k \in 0 .. n - 1
         PROVE  FedEnd(q[k], P[k + 1]) = q[k + 1]
    <2>1. CASE k + 1 # n
      BY <1>10, <2>1
    <2>2. CASE k + 1 = n
      <3>1. k = n - 1
        BY <1>1, <2>2
      <3>2. P[k + 1] = e \o lf /\ q[k] = last /\ q[k + 1] = next
        BY <1>3, <1>8, <1>12, <2>2, <3>1 DEF e, x
      <3>3. QED
        BY <1>18, <3>2
    <2>3. QED
      BY <2>1, <2>2
  <1>20. st \in FedState
    BY <1>6, FeStates
  <1>21. q[0] = st
    <2>1. 0 \in 0 .. n - 1
      BY <1>1
    <2>2. QED
      BY <1>5, <1>8, <2>1
  <1> HIDE DEF st
  <1>22. Passing(q, FedState, Feeding, st, P)
    BY <1>3, <1>19, <1>21 DEF Passing, FedEnd
  <1>23. \A k \in 0 .. n : FedEnd(st, FlattenSeq(SubSeq(P, 1, k))) = q[k]
    <2>1. SUFFICES ASSUME NEW k \in 0 .. Len(P)
                   PROVE  FedEnd(st, FlattenSeq(SubSeq(P, 1, k))) = q[k]
      BY <1>3
    <2>2. QED
      BY <1>3, <1>20, <1>22, FedEndFlattened
  <1>24. FedEnd(st, FlattenSeq(P)) = next
    <2>1. SubSeq(P, 1, n) = P
      BY <1>3, UptoFacts
    <2>2. QED
      BY <1>8, <1>11, <1>23, <2>1
  <1>25. FedEnd(st, front) = last /\ front \in Seq(Char)
    <2>1. SubSeq(P, 1, n - 1) \in Seq(Seq(Char))
      BY <1>3, <1>11, UptoFacts
    <2>2. QED
      BY <1>11, <1>12, <1>23, <2>1, FlattenFacts
  <1>26. FlattenSeq(P) = front \o (e \o lf)
    <2> DEFINE v == SubSeq(P, 1, n - 1)
               z == e \o lf
    <2>1. v \in Seq(Seq(Char)) /\ z \in Seq(Char)
      BY <1>3, <1>6, <1>11, <1>12, UptoFacts, ConcatProperties
    <2>2. P = Append(v, z)
      <3>1. SubSeq(P, 1, n) = P /\ SubSeq(P, 1, (n - 1) + 1) = Append(v, P[(n - 1) + 1])
        BY <1>3, <1>11, UptoFacts
      <3>2. QED
        BY <1>3, <1>11, <3>1 DEF e, x
    <2> HIDE DEF v, z
    <2>3. FlattenSeq(Append(v, z)) = FlattenSeq(v) \o z
      BY <2>1, FlattenFacts
    <2>4. QED
      BY <2>2, <2>3 DEF v, z
  <1> HIDE DEF front
  <1>27. front \o (e \o lf) = (front \o e) \o lf /\ front \o e \in Seq(Char)
    <2>1. front \in Seq(Char) /\ e \in Seq(Char) /\ lf \in Seq(Char)
      BY <1>6, <1>12, <1>25
    <2>2. QED
      BY <2>1, Associative, ConcatProperties
  <1>28. FedEnd(st, front \o e) = s1
    <2>1. FedEnd(st, front \o e) = FedEnd(FedEnd(st, front), e)
      BY <1>12, <1>20, <1>25, FedEndJoined
    <2>2. QED
      BY <1>13, <1>25, <2>1 DEF s1
  <1>29. Body(row) = front \o e
    BY DEF Body, front, e, x, P
  <1>30. QED
    BY <1>3, <1>16, <1>24, <1>26, <1>27, <1>28, <1>29 DEF st, next, none, lf, m, s1

\* Each row's line.
CsvLines(rows) == [k \in DOMAIN rows |-> CsvLine(rows[k])]

(* The lines of some rows are texts.                                         *)
LEMMA CsvLinesFacts ==
    ASSUME NEW rows \in Seq(Row)
    PROVE  /\ CsvLines(rows) \in Seq(Seq(Char)) /\ Len(CsvLines(rows)) = Len(rows)
           /\ \A k \in 1 .. Len(rows) : CsvLines(rows)[k] = CsvLine(rows[k])
  <1>1. Len(rows) \in Nat /\ DOMAIN rows = 1 .. Len(rows) /\ \A k \in 1 .. Len(rows) : rows[k] \in Row
    BY LenProperties, ElementOfSeq
  <1>2. \A k \in 1 .. Len(rows) : CsvLine(rows[k]) \in Seq(Char)
    BY <1>1, PiecesTyped
  <1>3. /\ CsvLines(rows) \in [1 .. Len(rows) -> Seq(Char)]
        /\ \A k \in 1 .. Len(rows) : CsvLines(rows)[k] = CsvLine(rows[k])
    BY <1>1, <1>2 DEF CsvLines
  <1>4. QED
    BY <1>1, <1>3, FunctionIsSeq

\* Between two lines: these rows have been read.
Between(rs) == FE(rs, << >>, << >>, "plain")

(* Between two lines the parser is in one of its states.                     *)
LEMMA BetweenStates ==
    ASSUME NEW rs \in Seq(Seq(Seq(Char)))
    PROVE  Between(rs) \in FedState
  <1> DEFINE none == << >>
  <1>1. none \in Seq(Char) /\ none \in Seq(Seq(Char)) /\ "plain" \in CsvModes
    BY EmptySeq DEF CsvModes
  <1> HIDE DEF none
  <1>2. FE(rs, none, none, "plain") \in FedState
    BY <1>1, FeStates
  <1>3. QED
    BY <1>2 DEF Between, none

(* Plain contacts are rows.                                                  *)
LEMMA PlainRows ==
    ASSUME NEW rows \in Seq(Plain)
    PROVE  rows \in Seq(Row) /\ rows \in Seq(Seq(Seq(Char)))
  <1>1. Plain \subseteq Row
    BY PlainFacts
  <1>2. Row \subseteq Seq(Seq(Char))
    BY RowFacts
  <1>3. QED
    BY <1>1, <1>2, SeqMonotonic

(* The lines of some rows are read as those rows.                            *)
LEMMA ReadsCsvLines ==
    ASSUME NEW rs \in Seq(Seq(Seq(Char))), NEW rows \in Seq(Plain), NEW n \in 0 .. Len(rows)
    PROVE  /\ FedEnd(Between(rs), FlattenSeq(SubSeq(CsvLines(rows), 1, n)))
                = Between(rs \o SubSeq(rows, 1, n))
           /\ rs \o SubSeq(rows, 1, n) \in Seq(Seq(Seq(Char)))
  <1> DEFINE N == Len(rows)
             L == CsvLines(rows)
             q == [k \in 0 .. N |-> Between(rs \o SubSeq(rows, 1, k))]
             none == << >>
  <1>1. N \in Nat
    BY LenProperties
  <1>2. /\ L \in Seq(Seq(Char)) /\ Len(L) = N /\ \A k \in 1 .. N : L[k] = CsvLine(rows[k])
        /\ \A k \in 1 .. N : rows[k] \in Plain
    BY PlainRows, CsvLinesFacts, ElementOfSeq, LenProperties
  <1>3. /\ SubSeq(rows, 1, 0) = none
        /\ \A k \in 0 .. N : SubSeq(rows, 1, k) \in Seq(Plain)
        /\ \A k \in 0 .. N - 1 : SubSeq(rows, 1, k + 1) = Append(SubSeq(rows, 1, k), rows[k + 1])
    BY UptoFacts
  <1>4. \A k \in 0 .. N : SubSeq(rows, 1, k) \in Seq(Seq(Seq(Char)))
    BY <1>3, PlainRows
  <1>5. \A k \in 0 .. N : rs \o SubSeq(rows, 1, k) \in Seq(Seq(Seq(Char)))
    BY <1>4, ConcatProperties
  <1>6. \A k \in 0 .. N : q[k] = Between(rs \o SubSeq(rows, 1, k))
    OBVIOUS
  <1> HIDE DEF q, L, none
  <1>7. q[0] = Between(rs)
    <2>1. 0 \in 0 .. N /\ rs \o none = rs
      BY <1>1, ConcatEmptySeq DEF none
    <2>2. QED
      BY <1>3, <1>6, <2>1
  <1>8. ASSUME NEW k \in 0 .. N - 1
        PROVE  FedEnd(q[k], L[k + 1]) = q[k + 1]
    <2> DEFINE u == SubSeq(rows, 1, k)
               row == rows[k + 1]
               v == rs \o u
    <2>1. k \in 0 .. N /\ k + 1 \in 0 .. N /\ k + 1 \in 1 .. N
      BY <1>1
    <2>2. /\ u \in Seq(Seq(Seq(Char))) /\ row \in Plain /\ v \in Seq(Seq(Seq(Char)))
          /\ L[k + 1] = CsvLine(row) /\ q[k] = Between(v) /\ q[k + 1] = Between(rs \o Append(u, row))
      BY <1>2, <1>3, <1>4, <1>5, <1>6, <2>1
    <2>3. row \in Seq(Seq(Char))
      BY <2>2, PlainFacts, RowFacts
    <2> HIDE DEF u, row
    <2>4. rs \o Append(u, row) = Append(v, row)
      BY <2>2, <2>3, SMTT(30)
    <2> HIDE DEF v
    <2>5. FedEnd(Between(v), CsvLine(row)) = Between(Append(v, row))
      BY <2>2, ReadsCsvLine DEF Between
    <2>6. QED
      BY <2>2, <2>4, <2>5
  <1>9. Passing(q, FedState, Feeding, Between(rs), L)
    BY <1>2, <1>7, <1>8 DEF Passing, FedEnd
  <1>10. Between(rs) \in FedState
    BY BetweenStates
  <1>11. n \in 0 .. Len(L)
    BY <1>2
  <1>12. FedEnd(Between(rs), FlattenSeq(SubSeq(L, 1, n))) = q[n]
    BY <1>2, <1>9, <1>10, <1>11, FedEndFlattened
  <1>13. QED
    BY <1>5, <1>6, <1>12 DEF L

(* The parser starts between two lines.                                      *)
LEMMA StartIsBetween ==
    CsvStart = Between(<< >>) /\ << >> \in Seq(Seq(Seq(Char)))
  BY EmptySeq DEF CsvStart, Between, FE

(* The last line is read without its break.                                  *)
LEMMA ReadsWithoutBreak ==
    ASSUME NEW t \in Seq(Char), NEW rs \in Seq(Seq(Seq(Char))), NEW row \in Plain,
           FedEnd(CsvStart, t) = Between(rs)
    PROVE  CsvRows(Front(t \o CsvLine(row))) = Append(rs, row)
  <1> DEFINE b == Body(row)
             lf == << LF >>
             x == t \o b
  <1>1. /\ b \in Seq(Char) /\ CsvLine(row) = b \o lf
        /\ RowEnded(FedEnd(Between(rs), b)).rows = Append(rs, row)
    BY ReadsCsvLine DEF Between
  <1>2. lf \in Seq(Char) /\ Len(lf) = 1
    BY CharAssumption, OneCharacter
  <1>3. CsvStart \in FedState
    BY StartIsBetween, BetweenStates
  <1> HIDE DEF b, lf
  <1>4. x \in Seq(Char) /\ t \o CsvLine(row) = x \o lf
    <2>1. b \in Seq(Char) /\ lf \in Seq(Char)
      BY <1>1, <1>2
    <2>2. (t \o b) \o lf = t \o (b \o lf) /\ t \o b \in Seq(Char)
      BY <2>1, Associative, ConcatProperties
    <2>3. QED
      BY <1>1, <2>2
  <1>5. FedEnd(CsvStart, x) = FedEnd(Between(rs), b)
    BY <1>1, <1>3, FedEndJoined
  <1> HIDE DEF x
  <1>6. Front(x \o lf) = x
    <2>1. Len(x) \in Nat /\ x \o lf \in Seq(Char) /\ Len(x \o lf) = Len(x) + 1
      <3>1. x \in Seq(Char) /\ lf \in Seq(Char)
        BY <1>2, <1>4
      <3>2. Len(x) \in Nat
        BY <3>1, LenProperties
      <3>3. x \o lf \in Seq(Char) /\ Len(x \o lf) = Len(x) + Len(lf)
        BY <3>1, ConcatProperties
      <3>4. QED
        BY <1>2, <3>2, <3>3
    <2>2. Front(x \o lf) = SubSeq(x \o lf, 1, Len(x))
      BY <2>1 DEF Front
    <2>3. Len(x) \in 0 .. Len(x)
      BY <2>1
    <2>4. SubSeq(x \o lf, 1, Len(x)) = SubSeq(x, 1, Len(x))
      BY <1>2, <1>4, <2>3, FirstOfFirst
    <2>5. QED
      BY <1>4, <2>2, <2>4, SubSeqFull
  <1>7. Through(Fed, CsvStart, x) = FedEnd(CsvStart, x)
    BY <1>3, <1>4, ThroughFed
  <1>8. QED
    BY <1>1, <1>4, <1>5, <1>6, <1>7 DEF CsvRows

(* A sorted book without CR is plain.                                        *)
LEMMA SortedPlain ==
    ASSUME NEW rows, Ranked(rows), Lacks(rows, CR)
    PROVE  Sorted(rows) \in Seq(Plain) /\ Len(Sorted(rows)) = Len(rows)
  <1> DEFINE S == Sorted(rows)
             n == Len(rows)
  <1>1. S \in Seq(Row) /\ Len(S) = n /\ \A p \in 1 .. n : \E k \in 1 .. n : S[p] = rows[k]
    BY SortedFacts
  <1>2. \A k \in 1 .. n : rows[k] \in Plain
    BY PlainFacts DEF Ranked
  <1> HIDE DEF S
  <1>3. n \in Nat /\ DOMAIN S = 1 .. n /\ S = [p \in 1 .. n |-> S[p]]
    <2>1. Len(S) \in Nat /\ DOMAIN S = 1 .. Len(S) /\ S \in [1 .. Len(S) -> Row]
      BY <1>1, LenProperties
    <2>2. QED
      BY <1>1, <2>1
  <1>4. S \in [1 .. n -> Plain]
    BY <1>1, <1>2, <1>3
  <1>5. S \in Seq(Plain)
    BY <1>3, <1>4, FunctionIsSeq
  <1>6. QED
    BY <1>1, <1>5 DEF S

(* A CSV export is the line of its header and those of the sorted contacts.  *)
LEMMA TextOfLines ==
    ASSUME NEW rows, Ranked(rows)
    PROVE  /\ CsvText(rows) = CsvLine(Header) \o FlattenSeq(CsvLines(Sorted(rows)))
           /\ CsvLine(Header) \in Seq(Char)
           /\ FlattenSeq(CsvLines(Sorted(rows))) \in Seq(Char)
  <1> DEFINE S == Sorted(rows)
  <1>1. S \in Seq(Row) /\ Len(S) = Len(rows)
    BY SortedFacts
  <1>2. DOMAIN S = DOMAIN rows
    <2>1. rows \in Seq(Row)
      BY DEF Ranked
    <2>2. DOMAIN rows = 1 .. Len(rows)
      BY <2>1, LenProperties
    <2>3. DOMAIN S = 1 .. Len(S)
      BY <1>1, LenProperties
    <2>4. QED
      BY <1>1, <2>2, <2>3
  <1>3. CsvText(rows) = CsvLine(Header) \o FlattenSeq(CsvLines(S))
    BY <1>2 DEF CsvText, CsvLines
  <1>4. CsvLines(S) \in Seq(Seq(Char))
    BY <1>1, CsvLinesFacts
  <1>5. FlattenSeq(CsvLines(S)) \in Seq(Char)
    BY <1>4, FlattenFacts
  <1>6. CsvLine(Header) \in Seq(Char)
    BY CsvTyped, PiecesTyped
  <1>7. QED
    BY <1>3, <1>5, <1>6

(* The header is read first.                                                 *)
LEMMA HeaderRead ==
    /\ FedEnd(CsvStart, CsvLine(Header)) = Between(<< Header >>)
    /\ << Header >> \in Seq(Seq(Seq(Char)))
  <1> DEFINE none == << >>
  <1>1. CsvStart = Between(none) /\ none \in Seq(Seq(Seq(Char))) /\ Header \in Plain
    BY StartIsBetween, PlainFacts
  <1>2. Append(none, Header) = << Header >>
    OBVIOUS
  <1>3. Header \in Seq(Seq(Char))
    BY <1>1, PlainFacts, RowFacts
  <1>4. << Header >> \in Seq(Seq(Seq(Char)))
    BY <1>3
  <1> HIDE DEF none
  <1>5. FedEnd(Between(none), CsvLine(Header)) = Between(Append(none, Header))
    BY <1>1, ReadsCsvLine DEF Between
  <1>6. QED
    BY <1>1, <1>2, <1>4, <1>5

(* The rows of an export that lost the break at its end.                     *)
LEMMA ReadsCsvText ==
    ASSUME NEW rows, Ranked(rows), Lacks(rows, CR)
    PROVE  CsvRows(Front(CsvText(rows))) = << Header >> \o Sorted(rows)
  <1> DEFINE S == Sorted(rows)
             n == Len(rows)
             L == CsvLines(S)
             H == CsvLine(Header)
             top == << Header >>
             none == << >>
  <1>1. n \in Nat /\ S \in Seq(Plain) /\ Len(S) = n
    BY SortedPlain, LenProperties DEF Ranked
  <1>2. CsvText(rows) = H \o FlattenSeq(L) /\ H \in Seq(Char) /\ FlattenSeq(L) \in Seq(Char)
    BY TextOfLines
  <1>3. FedEnd(CsvStart, H) = Between(top) /\ top \in Seq(Seq(Seq(Char))) /\ Header \in Plain
    BY HeaderRead, PlainFacts
  <1>4. L \in Seq(Seq(Char)) /\ Len(L) = n /\ \A k \in 1 .. n : L[k] = CsvLine(S[k])
    BY <1>1, PlainRows, CsvLinesFacts
  <1>5. CsvStart = Between(none) /\ none \in Seq(Seq(Seq(Char))) /\ CsvStart \in FedState
    BY StartIsBetween, BetweenStates
  <1> HIDE DEF S, L, H
  <1>6. CASE n = 0
    <2>1. S = none /\ L = none
      BY <1>1, <1>4, <1>6, EmptySeq
    <2>2. FlattenSeq(L) = none
      BY <2>1, FlattenFacts
    <2>3. none \in Seq(Char)
      BY EmptySeq
    <2>4. CsvText(rows) = none \o H
      <3>1. H \o none = H /\ none \o H = H
        BY <1>2, ConcatEmptySeq
      <3>2. QED
        BY <1>2, <2>2, <3>1
    <2>5. top \o S = top /\ Append(none, Header) = top
      BY <1>3, <2>1, ConcatEmptySeq
    <2> HIDE DEF none, top
    <2>6. FedEnd(CsvStart, none) = Between(none)
      <3>1. Steps(Feeding, FedState, Char)
        BY FeedingSteps
      <3>2. End(FedState, Feeding, CsvStart, << >>) = CsvStart
        BY <1>5, <3>1, EndEmpty
      <3>3. QED
        BY <1>5, <3>2 DEF FedEnd, none
    <2>7. CsvRows(Front(none \o H)) = Append(none, Header)
      BY <1>3, <1>5, <2>3, <2>6, ReadsWithoutBreak DEF H
    <2>8. QED
      BY <2>4, <2>5, <2>7 DEF S, top
  <1>7. CASE n # 0
    <2> DEFINE u == SubSeq(S, 1, n - 1)
               v == FlattenSeq(SubSeq(L, 1, n - 1))
               row == S[n]
               t == H \o v
               rs == top \o u
    <2>1. n - 1 \in 0 .. n - 1 /\ n - 1 \in 0 .. n /\ (n - 1) + 1 = n /\ n \in 1 .. n
      BY <1>1, <1>7
    <2>2. row \in Plain /\ u \in Seq(Plain) /\ Append(u, row) = S /\ u \in Seq(Seq(Seq(Char)))
      <3>1. row \in Plain
        BY <1>1, <2>1, ElementOfSeq
      <3>2. SubSeq(S, 1, n) = S /\ SubSeq(S, 1, (n - 1) + 1) = Append(u, S[(n - 1) + 1])
        BY <1>1, <2>1, UptoFacts
      <3>3. u \in Seq(Plain)
        BY <1>1, <2>1, UptoFacts
      <3>4. Append(u, row) = S
        BY <2>1, <3>2
      <3> HIDE DEF u
      <3>5. QED
        BY <3>1, <3>3, <3>4, PlainRows
    <2>3. v \in Seq(Char) /\ FlattenSeq(L) = v \o CsvLine(row)
      <3> DEFINE w == SubSeq(L, 1, n - 1)
                 x == CsvLine(row)
      <3>1. w \in Seq(Seq(Char)) /\ L = Append(w, x)
        <4>1. SubSeq(L, 1, n) = L /\ SubSeq(L, 1, (n - 1) + 1) = Append(w, L[(n - 1) + 1])
          BY <1>4, <2>1, UptoFacts
        <4>2. w \in Seq(Seq(Char))
          BY <1>4, <2>1, UptoFacts
        <4>3. QED
          BY <1>4, <2>1, <4>1, <4>2
      <3>2. x \in Seq(Char)
        BY <2>2, PlainFacts, PiecesTyped
      <3> HIDE DEF w, x
      <3>3. FlattenSeq(w) \in Seq(Char) /\ FlattenSeq(Append(w, x)) = FlattenSeq(w) \o x
        BY <3>1, <3>2, FlattenFacts
      <3>4. QED
        BY <3>1, <3>3 DEF w, x
    <2>4. FedEnd(Between(top), v) = Between(rs) /\ rs \in Seq(Seq(Seq(Char)))
      <3> HIDE DEF top
      <3>1. n - 1 \in 0 .. Len(S)
        BY <1>1, <2>1
      <3>2. QED
        BY <1>1, <1>3, <3>1, ReadsCsvLines DEF L
    <2>5. CsvLine(row) \in Seq(Char)
      BY <2>2, PlainFacts, PiecesTyped
    <2> HIDE DEF v, row, u, top
    <2>6. t \in Seq(Char) /\ CsvText(rows) = t \o CsvLine(row)
      <3>1. (H \o v) \o CsvLine(row) = H \o (v \o CsvLine(row)) /\ H \o v \in Seq(Char)
        BY <1>2, <2>3, <2>5, Associative, ConcatProperties
      <3>2. QED
        BY <1>2, <2>3, <3>1
    <2>7. FedEnd(CsvStart, t) = Between(rs)
      <3>1. FedEnd(CsvStart, H \o v) = FedEnd(FedEnd(CsvStart, H), v)
        BY <1>2, <1>5, <2>3, FedEndJoined
      <3>2. QED
        BY <1>3, <2>4, <3>1
    <2>8. Append(rs, row) = top \o S
      <3>1. row \in Seq(Seq(Char))
        BY <2>2, PlainFacts, RowFacts
      <3>2. Append(top \o u, row) = top \o Append(u, row)
        <4> DEFINE C == Seq(Seq(Char))
        <4>1. top \in Seq(C) /\ u \in Seq(C) /\ row \in C
          BY <1>3, <2>2, <3>1
        <4> HIDE DEF C
        <4>2. QED
          BY <4>1
      <3>3. QED
        BY <2>2, <3>2
    <2> HIDE DEF t, rs
    <2>9. CsvRows(Front(t \o CsvLine(row))) = Append(rs, row)
      BY <2>2, <2>4, <2>6, <2>7, ReadsWithoutBreak
    <2>10. QED
      BY <2>6, <2>8, <2>9 DEF top, S
  <1>8. QED
    BY <1>6, <1>7

(* The contacts of an export that lost the break at its end.                 *)
LEMMA ReadsCsv ==
    ASSUME NEW rows, Ranked(rows), Lacks(rows, CR)
    PROVE  CsvContacts(Front(CsvText(rows))) = Sorted(rows)
  <1> DEFINE S == Sorted(rows)
             n == Len(rows)
             text == Front(CsvText(rows))
             R == << Header >> \o S
  <1>1. n \in Nat /\ S \in Seq(Plain) /\ Len(S) = n
    BY SortedPlain, LenProperties DEF Ranked
  <1>2. CsvRows(text) = R
    BY ReadsCsvText
  <1>3. S \in Seq(Row) /\ S \in Seq(Seq(Seq(Char))) /\ Header \in Row
    BY <1>1, PlainRows, PlainFacts
  <1>4. Header \in Seq(Seq(Char)) /\ Len(Header) = Columns /\ Columns \in Nat
    BY <1>3, RowFacts
  <1> HIDE DEF S
  <1>5. /\ R \in Seq(Seq(Seq(Char))) /\ DOMAIN R = 1 .. n + 1 /\ R[1] = Header
        /\ \A k \in 1 .. n : R[k + 1] = S[k]
        /\ Tail(R) = S
    BY <1>1, <1>3, <1>4
  <1> HIDE DEF R, text
  <1>6. \A k \in 1 .. n : S[k] \in Row
    BY <1>1, <1>3, ElementOfSeq
  <1>7. \A k \in 1 .. n : Len(S[k]) = Columns
    BY <1>6, RowFacts
  <1>8. \A k \in DOMAIN R : Len(R[k]) = Len(R[1])
    <2>1. SUFFICES ASSUME NEW k \in 1 .. n + 1
                   PROVE  Len(R[k]) = Columns
      BY <1>4, <1>5
    <2>2. CASE k = 1
      BY <1>4, <1>5, <2>2
    <2>3. CASE k # 1
      <3>1. k - 1 \in 1 .. n /\ (k - 1) + 1 = k
        BY <1>1, <2>3
      <3>2. QED
        BY <1>5, <1>7, <3>1
    <2>4. QED
      BY <2>2, <2>3
  <1>9. CsvParse(text) = R
    BY <1>2, <1>8 DEF CsvParse
  <1>10. R # Failed
    BY <1>5, CharAssumption
  <1>11. CsvContacts(text) =
            FlattenSeq([k \in DOMAIN S |-> IF Len(S[k]) >= Len(Header) THEN << S[k] >> ELSE << >>])
    BY <1>5, <1>9, <1>10 DEF CsvContacts
  <1>12. DOMAIN S = 1 .. n
    BY <1>1, LenProperties
  <1>13. Singles(S) = [k \in DOMAIN S |-> IF Len(S[k]) >= Len(Header) THEN << S[k] >> ELSE << >>]
    <2>1. \A k \in DOMAIN S : Len(S[k]) >= Len(Header)
      BY <1>4, <1>7, <1>12
    <2>2. QED
      BY <2>1 DEF Singles
  <1>14. QED
    BY <1>3, <1>11, <1>13, FlattenSingles DEF S, text

(* CsvReadsBack: a CSV export without the break at its end is read as the    *)
(* contacts that were exported, sorted by id, if no field holds a CR.        *)
THEOREM CsvFilesReadBack == InterSpec => []CsvReadsBack
  <1>1. InterInv => CsvReadsBack
    <2> SUFFICES ASSUME InterInv, format = "csv", cut = "no break", got # Unset, Lacks(Rows(book), CR)
                 PROVE  got = Bare(Sorted(Rows(book)))
      BY DEF CsvReadsBack
    <2> DEFINE R == Rows(book)
    <2>1. Ranked(R)
      BY BookFacts DEF InterInv
    <2>2. file = Front(CsvText(R))
      BY DEF InterInv, FileIs
    <2>3. got = IF CsvContacts(file) = Failed THEN Failed ELSE Bare(CsvContacts(file))
      BY DEF InterInv, GotIs
    <2> HIDE DEF R
    <2>4. CsvContacts(file) = Sorted(R)
      <3>1. Lacks(R, CR)
        BY DEF R
      <3>2. QED
        BY <2>1, <2>2, <3>1, ReadsCsv
    <2>5. Sorted(R) # Failed
      <3>1. Sorted(R) \in Seq(Row)
        BY <2>1, SortedFacts
      <3>2. Seq(Row) \subseteq Seq(Seq(Seq(Char)))
        <4>1. Row \subseteq Seq(Seq(Char))
          BY RowFacts
        <4>2. QED
          BY <4>1, SeqMonotonic
      <3>3. QED
        BY <3>1, <3>2, CharAssumption
    <2>6. QED
      BY <2>3, <2>4, <2>5 DEF R
  <1>2. QED
    BY <1>1, InterInvariance, PTL

(* A set of states that no step leaves is not left.                          *)
LEMMA EndWithin ==
    ASSUME NEW S, NEW C, NEW step, Steps(step, S, C), NEW G \in SUBSET S,
           \A st \in G, c \in C : step[<< st, c >>] \in G,
           NEW start \in G, NEW text \in Seq(C)
    PROVE  End(S, step, start, text) \in G
  <1> DEFINE n == Len(text)
             f == CHOOSE f : Walks(f, S, step, start, text, n)
             H == {k \in 0 .. n : f[k] \in G}
  <1>1. n \in Nat
    BY LenProperties
  <1>2. \A k \in 1 .. n : text[k] \in C
    BY ElementOfSeq
  <1>3. Walks(f, S, step, start, text, n)
    <2>1. start \in S
      OBVIOUS
    <2>2. QED
      BY <2>1, WalkExists DEF Steps
  <1> HIDE DEF f
  <1>4. f[0] = start /\ \A k \in 0 .. n - 1 : f[k + 1] = step[<< f[k], text[k + 1] >>]
    BY <1>3 DEF Walks
  <1> HIDE DEF n
  <1>5. 0 \in H
    BY <1>1, <1>4
  <1>6. \A k \in 0 .. n - 1 : k \in H => k + 1 \in H
    <2>1. SUFFICES ASSUME NEW k \in 0 .. n - 1, f[k] \in G
                   PROVE  k + 1 \in H
      OBVIOUS
    <2>2. k + 1 \in 1 .. n /\ k + 1 \in 0 .. n
      BY <1>1
    <2>3. f[k + 1] \in G
      BY <1>2, <1>4, <2>1, <2>2
    <2>4. QED
      BY <2>2, <2>3
  <1> HIDE DEF H
  <1>7. \A k \in 0 .. n : k \in H
    BY <1>1, <1>5, <1>6, Upwards
  <1>8. f[n] \in G
    <2>1. n \in 0 .. n
      BY <1>1
    <2>2. QED
      BY <1>7, <2>1 DEF H
  <1>9. QED
    BY <1>8 DEF End, f, n

\* The header is the first of the rows read so far.
HeaderFirst(rs) == rs # << >> /\ rs[1] = Header

\* The states after the header has been read.
Headed == {st \in FedState : HeaderFirst(st.rows)}

(* More rows leave the header first.                                         *)
LEMMA StaysFirst ==
    ASSUME NEW rs \in Seq(Seq(Seq(Char))), HeaderFirst(rs), NEW row
    PROVE  HeaderFirst(Append(rs, row))
  <1>1. Len(rs) \in Nat /\ Len(rs) # 0
    BY LenProperties, EmptySeq DEF HeaderFirst
  <1>2. Append(rs, row)[1] = rs[1] /\ Len(Append(rs, row)) = Len(rs) + 1
    BY <1>1
  <1>3. Append(rs, row) # << >>
    BY <1>1, <1>2
  <1>4. QED
    BY <1>2, <1>3 DEF HeaderFirst

(* No character changes that the header comes first, once it has been read.  *)
LEMMA HeadedStays ==
    ASSUME NEW st \in Headed, NEW c \in Char
    PROVE  Feeding[<< st, c >>] \in Headed
  <1> DEFINE rs == st.rows
             r == st.row
             f == st.field
             m == st.mode
             x == Append(r, f)
             y == Append(rs, x)
             g == Append(f, c)
             none == << >>
             next == Fed(st, c)
  <1>1. /\ rs \in Seq(Seq(Seq(Char))) /\ m \in CsvModes /\ st = FE(rs, r, f, m)
        /\ HeaderFirst(rs) /\ st \in FedState
    BY FedStates DEF Headed
  <1>2. Feeding[<< st, c >>] = next /\ next \in FedState
    BY <1>1, FeedingSteps, FedEndOne
  <1> HIDE DEF rs, r, f, m
  <1>3. HeaderFirst(y)
    BY <1>1, StaysFirst
  <1>4. \E n \in CsvModes :
          \/ Fed(FE(rs, r, f, m), c) = FE(rs, r, f, n)
          \/ Fed(FE(rs, r, f, m), c) = FE(rs, r, g, n)
          \/ Fed(FE(rs, r, f, m), c) = FE(rs, x, none, n)
          \/ Fed(FE(rs, r, f, m), c) = FE(y, none, none, n)
    BY <1>1, FedBecomes
  <1> HIDE DEF x, y, g, none
  <1>5. next.rows = rs \/ next.rows = y
    BY <1>1, <1>4 DEF FE
  <1>6. QED
    BY <1>1, <1>2, <1>3, <1>5 DEF Headed

\* What is taken from the rows below the header is as wide as it.
WideRows(rows) ==
    rows = Failed \/ \A k \in DOMAIN rows : DOMAIN rows[k] = 1 .. Columns

(* Rows below a header are read as contacts, or not at all.                  *)
LEMMA WideContacts ==
    ASSUME NEW text, CsvRows(text) \in Seq(Seq(Seq(Char))), HeaderFirst(CsvRows(text))
    PROVE  WideRows(CsvContacts(text))
  <1> DEFINE R == CsvRows(text)
             rows == Tail(R)
             W == {row \in Seq(Seq(Char)) : Len(row) = Columns}
             P == [k \in DOMAIN rows |-> IF Len(rows[k]) >= Len(Header) THEN << rows[k] >> ELSE << >>]
  <1>1. CASE CsvParse(text) = Failed
    BY <1>1 DEF CsvContacts, WideRows
  <1>2. CASE CsvParse(text) # Failed
    <2>1. CsvParse(text) = R /\ \A k \in DOMAIN R : Len(R[k]) = Len(R[1])
      BY <1>2 DEF CsvParse
    <2>2. CsvContacts(text) = FlattenSeq(P)
      BY <1>2, <2>1 DEF CsvContacts
    <2>3. R \in Seq(Seq(Seq(Char))) /\ R # << >> /\ R[1] = Header
      BY DEF HeaderFirst
    <2>4. Len(Header) = Columns /\ Columns \in Nat
      BY PlainFacts, RowFacts
    <2> HIDE DEF R
    <2>5. Len(R) \in Nat /\ Len(R) # 0 /\ DOMAIN R = 1 .. Len(R)
      BY <2>3, LenProperties, EmptySeq
    <2>6. rows \in Seq(Seq(Seq(Char))) /\ Len(rows) = Len(R) - 1 /\ DOMAIN rows = 1 .. Len(rows)
          /\ \A k \in 1 .. Len(rows) : rows[k] = R[k + 1]
      <3>1. rows \in Seq(Seq(Seq(Char))) /\ Len(rows) = Len(R) - 1
            /\ \A k \in 1 .. Len(R) - 1 : rows[k] = R[k + 1]
        BY <2>3, HeadTailProperties
      <3> HIDE DEF rows
      <3>2. DOMAIN rows = 1 .. Len(rows)
        BY <3>1, LenProperties
      <3>3. QED
        BY <3>1, <3>2
    <2> HIDE DEF rows
    <2>7. \A k \in 1 .. Len(rows) : rows[k] \in W
      <3>1. SUFFICES ASSUME NEW k \in 1 .. Len(rows)
                     PROVE  rows[k] \in W
        OBVIOUS
      <3>2. k + 1 \in DOMAIN R /\ rows[k] = R[k + 1]
        BY <2>5, <2>6
      <3>3. rows[k] \in Seq(Seq(Char))
        BY <2>6, ElementOfSeq
      <3>4. QED
        BY <2>1, <2>3, <2>4, <3>2, <3>3
    <2>8. \A k \in 1 .. Len(rows) : P[k] \in Seq(W)
      <3>1. SUFFICES ASSUME NEW k \in 1 .. Len(rows)
                     PROVE  P[k] \in Seq(W)
        OBVIOUS
      <3> DEFINE row == rows[k]
      <3>2. row \in W /\ P[k] = IF Len(row) >= Len(Header) THEN << row >> ELSE << >>
        BY <2>6, <2>7
      <3> HIDE DEF W, row, P
      <3>3. << row >> \in Seq(W) /\ << >> \in Seq(W)
        BY <3>2, OneCharacter, EmptySeq
      <3>4. QED
        BY <3>2, <3>3
    <2>9. P \in [1 .. Len(rows) -> Seq(W)]
      BY <2>6, <2>8
    <2> DEFINE F == FlattenSeq(P)
    <2> HIDE DEF W, P
    <2>10. F \in Seq(W)
      <3>1. Len(rows) \in Nat
        BY <2>5, <2>6
      <3>2. P \in Seq(Seq(W))
        BY <2>9, <3>1, FunctionIsSeq
      <3>3. QED
        BY <3>2, FlattenFacts
    <2> HIDE DEF F
    <2>11. \A k \in DOMAIN F : F[k] \in W
      BY <2>10, LenProperties, ElementOfSeq
    <2>12. QED
      BY <2>2, <2>11, LenProperties DEF W, WideRows, F
  <1>3. QED
    BY <1>1, <1>2

(* Whatever follows the header, the header stays the first row.              *)
LEMMA HeaderStaysFirst ==
    ASSUME NEW rest \in Seq(Char)
    PROVE  /\ CsvRows(CsvLine(Header) \o rest) \in Seq(Seq(Seq(Char)))
           /\ HeaderFirst(CsvRows(CsvLine(Header) \o rest))
  <1> DEFINE H == CsvLine(Header)
             top == << Header >>
             st == FedEnd(Between(top), rest)
             text == H \o rest
  <1>1. /\ FedEnd(CsvStart, H) = Between(top) /\ top \in Seq(Seq(Seq(Char)))
        /\ H \in Seq(Char) /\ CsvStart \in FedState
    <2>1. H \in Seq(Char)
      BY PlainFacts, PiecesTyped
    <2>2. CsvStart \in FedState
      BY StartIsBetween, BetweenStates
    <2>3. QED
      BY <2>1, <2>2, HeaderRead
  <1>2. HeaderFirst(top)
    BY DEF HeaderFirst
  <1> HIDE DEF H, top
  <1>3. Between(top) \in FedState /\ Between(top).rows = top
    <2>1. Between(top).rows = top
      BY DEF Between, FE
    <2>2. QED
      BY <1>1, <2>1, BetweenStates
  <1>4. Between(top) \in Headed
    BY <1>2, <1>3 DEF Headed
  <1>5. st \in Headed
    <2>1. Headed \in SUBSET FedState
      BY DEF Headed
    <2>2. Steps(Feeding, FedState, Char)
      BY FeedingSteps
    <2>3. \A s \in Headed, c \in Char : Feeding[<< s, c >>] \in Headed
      BY HeadedStays
    <2> DEFINE s0 == Between(top)
    <2>4. s0 \in Headed
      BY <1>4
    <2> HIDE DEF s0
    <2>5. End(FedState, Feeding, s0, rest) \in Headed
      BY <2>1, <2>2, <2>3, <2>4, EndWithin
    <2>6. QED
      BY <2>5 DEF FedEnd, s0
  <1>6. FedEnd(CsvStart, text) = st /\ text \in Seq(Char)
    <2>1. FedEnd(CsvStart, H \o rest) = FedEnd(FedEnd(CsvStart, H), rest)
      BY <1>1, FedEndJoined
    <2>2. H \o rest \in Seq(Char)
      BY <1>1, ConcatProperties
    <2>3. QED
      BY <1>1, <2>1, <2>2
  <1> HIDE DEF st, text
  <1>7. CsvRows(text) = RowEnded(st).rows
    <2>1. Through(Fed, CsvStart, text) = FedEnd(CsvStart, text)
      BY <1>1, <1>6, ThroughFed
    <2>2. QED
      BY <1>6, <2>1 DEF CsvRows
  <1> DEFINE rs == st.rows
             r == st.row
             f == st.field
             m == st.mode
             x == Append(r, f)
  <1>8. /\ rs \in Seq(Seq(Seq(Char))) /\ r \in Seq(Seq(Char)) /\ f \in Seq(Char)
        /\ st = FE(rs, r, f, m) /\ HeaderFirst(rs)
    BY <1>5, FedStates DEF Headed
  <1> HIDE DEF rs, r, f, m
  <1>9. x \in Seq(Seq(Char))
    BY <1>8, AppendProperties
  <1>10. RowEnded(FE(rs, r, f, m)).rows = Append(rs, x)
    BY RowsAtEnd
  <1> HIDE DEF x
  <1>11. Append(rs, x) \in Seq(Seq(Seq(Char)))
    BY <1>8, <1>9, AppendProperties
  <1>12. HeaderFirst(Append(rs, x))
    BY <1>8, StaysFirst
  <1>13. QED
    BY <1>7, <1>8, <1>10, <1>11, <1>12 DEF text, H

(* What is read of a CSV file is as wide as a contact.                       *)
LEMMA CsvIsWide ==
    ASSUME NEW rows, Ranked(rows), NEW text \in {CsvText(rows), Front(CsvText(rows))}
    PROVE  WideRows(CsvContacts(text))
  <1> DEFINE H == CsvLine(Header)
             F == FlattenSeq(CsvLines(Sorted(rows)))
             none == << >>
  <1>1. CsvText(rows) = H \o F /\ H \in Seq(Char) /\ F \in Seq(Char)
    BY TextOfLines
  <1> HIDE DEF F
  <1>2. CASE text = H \o F
    BY <1>1, <1>2, HeaderStaysFirst, WideContacts
  <1>3. CASE text = Front(H \o F) /\ F # none
    <2> DEFINE G == Front(F)
    <2>1. Len(F) \in Nat /\ Len(F) # 0 /\ Len(H) \in Nat
      BY <1>1, <1>3, LenProperties, EmptySeq
    <2>2. G \in Seq(Char) /\ G = SubSeq(F, 1, Len(F) - 1)
      BY <1>1, <2>1 DEF Front
    <2> HIDE DEF H
    <2>3. Front(H \o F) = SubSeq(H \o F, 1, Len(H) + (Len(F) - 1))
      <3>1. Len(H \o F) = Len(H) + Len(F)
        BY <1>1, ConcatProperties
      <3>2. Len(H \o F) - 1 = Len(H) + (Len(F) - 1)
        BY <2>1, <3>1
      <3>3. QED
        BY <3>2 DEF Front
    <2>4. Front(H \o F) = H \o G
      <3>1. Len(F) - 1 \in 0 .. Len(F)
        BY <2>1
      <3>2. SubSeq(H \o F, 1, Len(H) + (Len(F) - 1)) = H \o SubSeq(F, 1, Len(F) - 1)
        BY <1>1, <3>1, FirstOfBoth
      <3>3. QED
        BY <2>2, <2>3, <3>2
    <2> HIDE DEF G
    <2>5. text = H \o G
      BY <1>3, <2>4
    <2>6. QED
      BY <2>2, <2>5, HeaderStaysFirst, WideContacts DEF H
  <1>4. CASE text = Front(H \o F) /\ F = none
    <2>1. none \in Seq(Char) /\ none \in Seq(Seq(Seq(Char))) /\ Header \in Plain
          /\ CsvStart = Between(none) /\ CsvStart \in FedState
      BY EmptySeq, PlainFacts, StartIsBetween, BetweenStates
    <2>2. H \o F = none \o H
      BY <1>1, <1>4, ConcatEmptySeq
    <2>3. Append(none, Header) = << Header >> /\ << Header >> \in Seq(Seq(Seq(Char)))
      BY HeaderRead
    <2> HIDE DEF none
    <2>4. FedEnd(CsvStart, none) = Between(none)
      <3>1. Steps(Feeding, FedState, Char)
        BY FeedingSteps
      <3>2. End(FedState, Feeding, CsvStart, << >>) = CsvStart
        BY <2>1, <3>1, EndEmpty
      <3>3. QED
        BY <2>1, <3>2 DEF FedEnd, none
    <2>5. CsvRows(Front(none \o H)) = Append(none, Header)
      BY <2>1, <2>4, ReadsWithoutBreak DEF H
    <2>6. CsvRows(text) = << Header >>
      BY <1>4, <2>2, <2>3, <2>5
    <2>7. HeaderFirst(<< Header >>)
      BY DEF HeaderFirst
    <2>8. QED
      BY <2>3, <2>6, <2>7, WideContacts
  <1>5. QED
    BY <1>1, <1>2, <1>3, <1>4

(* The lines of a text are texts.                                            *)
LEMMA LinesAreTexts ==
    ASSUME NEW text \in Seq(Char)
    PROVE  LinesOf(text) \in Seq(Seq(Char))
  <1> DEFINE st == Through(Cut, NoLines, text)
             none == << >>
  <1>1. NoLines \in CutState
    BY EmptySeq DEF NoLines, CutState
  <1>2. none \in Seq(Char) /\ LF \in Char
    BY EmptySeq, CharAssumption
  <1>3. st \in CutState
    BY <1>1, <1>2, ThroughCut, CutEndJoined
  <1> HIDE DEF st
  <1>4. Cut(st, LF) \in CutState
    BY <1>2, <1>3, CutEndOne
  <1>5. QED
    BY <1>4 DEF CutState, LinesOf, st

(* A contact that is read from JSON has every column, whatever the text.     *)
LEMMA JsonlIsWide ==
    ASSUME NEW text \in Seq(Char)
    PROVE  \A k \in DOMAIN ReadableContacts(text) :
              DOMAIN ReadableContacts(text)[k].fields = 1 .. Columns
  <1> DEFINE lines == LinesOf(text)
             n == Len(lines)
             W == {FromJson(Parse(lines[k])) : k \in DOMAIN lines}
             P == [k \in DOMAIN lines |->
                     IF Readable(lines[k]) THEN << FromJson(Parse(lines[k])) >> ELSE << >>]
             F == FlattenSeq(P)
  <1>1. lines \in Seq(Seq(Char)) /\ n \in Nat /\ DOMAIN lines = 1 .. n
    BY LinesAreTexts, LenProperties
  <1>2. \A v : DOMAIN FromJson(v).fields = 1 .. Columns
    BY KeysAssumption DEF FromJson, TextsIn
  <1>3. ReadableContacts(text) = F
    BY DEF ReadableContacts
  <1>4. \A w \in W : DOMAIN w.fields = 1 .. Columns
    BY <1>2
  <1> HIDE DEF lines, n
  <1>5. \A k \in 1 .. n : FromJson(Parse(lines[k])) \in W
    BY <1>1
  <1>6. \A k \in 1 .. n : P[k] \in Seq(W)
    <2>1. ASSUME NEW k \in 1 .. n
          PROVE  P[k] \in Seq(W)
      <3> DEFINE w == FromJson(Parse(lines[k]))
      <3>1. w \in W /\ P[k] = IF Readable(lines[k]) THEN << w >> ELSE << >>
        BY <1>1, <1>5
      <3> HIDE DEF W, P, w
      <3>2. << w >> \in Seq(W) /\ << >> \in Seq(W)
        BY <3>1, OneCharacter, EmptySeq
      <3>3. QED
        BY <3>1, <3>2
    <2>2. QED
      BY <2>1
  <1>7. P \in [1 .. n -> Seq(W)]
    BY <1>1, <1>6
  <1> HIDE DEF P, W
  <1>8. P \in Seq(Seq(W))
    BY <1>1, <1>7, FunctionIsSeq DEF n
  <1>9. F \in Seq(W)
    BY <1>8, FlattenFacts
  <1> HIDE DEF F
  <1>10. \A k \in DOMAIN F : F[k] \in W
    BY <1>9, LenProperties, ElementOfSeq
  <1>11. QED
    BY <1>3, <1>4, <1>10

(* InterTypeOK: what any reader makes of a file, whole or not, has the width *)
(* of a contact, and diff takes only ids out of a data file that the book    *)
(* has, even if the file is cut short.                                       *)
THEOREM InterTypes == InterSpec => []InterTypeOK
  <1>1. InterInv => InterTypeOK
    <2> SUFFICES ASSUME InterInv
                 PROVE  InterTypeOK
      OBVIOUS
    <2> DEFINE text == JsonlText(book)
    <2>1. /\ book \in Books /\ Ranked(Rows(book)) /\ book \in Seq(Contact)
          /\ Len(book) \in Nat /\ DOMAIN book = 1 .. Len(book)
          /\ \A k \in 1 .. Len(book) : book[k] \in Contact
      BY BookFacts, BooksAreRanked DEF InterInv
    <2>2. format \in {"csv", "jsonl", "data", Unset} /\ cut \in {"whole", "no break", "short"}
      BY DEF InterInv, FileIs
    <2>3. ASSUME got \notin {Unset, Failed}
          PROVE  \A k \in DOMAIN got : DOMAIN got[k].fields = 1 .. Columns
      <3>1. /\ file # Unset
            /\ got = IF format # "csv" THEN ReadableContacts(file)
                     ELSE IF CsvContacts(file) = Failed THEN Failed ELSE Bare(CsvContacts(file))
        BY <2>3 DEF InterInv, GotIs
      <3>2. CASE format = "csv"
        <4> DEFINE rows == CsvContacts(file)
        <4>1. file \in {CsvText(Rows(book)), Front(CsvText(Rows(book)))}
          BY <3>1, <3>2, UnsetAssumption DEF InterInv, FileIs, Exported
        <4>2. WideRows(rows)
          BY <2>1, <4>1, CsvIsWide
        <4>3. rows # Failed /\ got = Bare(rows)
          BY <2>3, <3>1, <3>2
        <4> HIDE DEF rows
        <4>4. QED
          BY <4>2, <4>3 DEF WideRows, Bare
      <3>3. CASE format # "csv"
        <4>1. file \in Seq(Char)
          BY <3>1 DEF InterInv, FileIs
        <4>2. QED
          BY <3>1, <3>3, <4>1, JsonlIsWide
      <3>4. QED
        BY <3>2, <3>3
    <2>4. ASSUME format = "data", report \notin {Unset, Malformed}
          PROVE  report.diff.removed \subseteq Ids(Cleaned(book))
      <3>1. PICK k \in 0 .. Len(text), other \in OtherBooks :
               report = DiffReport(SubSeq(text, 1, k), other)
        BY <2>4 DEF InterInv, ReportIs
      <3> DEFINE t == SubSeq(text, 1, k)
                 a == ById(DiffContacts(t))
                 b == ById(DiffContacts(JsonlText(other)))
      <3>2. DiffReads(t) /\ report.diff = DiffBooks(a, b)
        BY <2>4, <3>1 DEF DiffReport
      <3>3. report.diff.removed \subseteq Ids(DiffContacts(t))
        BY <3>2 DEF DiffBooks, ById, Ids
      <3>4. PICK n \in 0 .. Len(book) : DiffContacts(t) = SubSeq(Outlines(book), 1, n)
        BY <2>1, <3>2, ReadsShort
      <3> HIDE DEF t, text
      <3> DEFINE O == Outlines(book)
                 s == SubSeq(O, 1, n)
      <3>5. /\ O \in Seq(Contact) /\ Len(O) = Len(book)
            /\ \A i \in 1 .. Len(book) : O[i] = Outline(book[i]) /\ Cleaned(book)[i] = CleanContact(book[i])
            /\ DOMAIN Cleaned(book) = 1 .. Len(book)
        BY <2>1, DumpLinesFacts DEF Cleaned
      <3>6. \A i \in 1 .. Len(book) : O[i].fields[1] = Cleaned(book)[i].fields[1]
        BY <3>5, FirstColumn
      <3> HIDE DEF O
      <3>7. n \in Nat /\ \A i \in 1 .. n : i \in 1 .. Len(book)
        BY <2>1
      <3>8. s \in Seq(Contact) /\ Len(s) = n /\ \A i \in 1 .. n : s[i] = O[i]
        BY <2>1, <3>5, <3>7, UptoFacts
      <3>9. DOMAIN s = 1 .. n
        BY <3>8, LenProperties
      <3> HIDE DEF s
      <3>10. Ids(s) \subseteq Ids(Cleaned(book))
        BY <3>5, <3>6, <3>7, <3>8, <3>9 DEF Ids
      <3>11. QED
        BY <3>3, <3>4, <3>10 DEF s, O
    <2>5. QED
      BY <2>1, <2>2, <2>3, <2>4 DEF InterTypeOK
  <1>2. QED
    BY <1>1, InterInvariance, PTL

-----------------------------------------------------------------------------
(* The index file.                                                           *)

(* Pieces and more pieces.                                                   *)
LEMMA FlattenBoth ==
    ASSUME NEW T, NEW a \in Seq(Seq(T)), NEW b \in Seq(Seq(T))
    PROVE  FlattenSeq(a \o b) = FlattenSeq(a) \o FlattenSeq(b)
  <1> DEFINE N == Len(b)
             F(k) == FlattenSeq(SubSeq(b, 1, k))
             fa == FlattenSeq(a)
             g == [k \in 0 .. N |-> fa \o F(k)]
             step == Joining(T)
             none == << >>
  <1>1. N \in Nat
    BY LenProperties
  <1>2. /\ \A k \in 1 .. N : b[k] \in Seq(T)
        /\ SubSeq(b, 1, 0) = none /\ SubSeq(b, 1, N) = b
        /\ \A k \in 0 .. N : SubSeq(b, 1, k) \in Seq(Seq(T))
        /\ \A k \in 0 .. N - 1 : SubSeq(b, 1, k + 1) = Append(SubSeq(b, 1, k), b[k + 1])
    BY UptoFacts
  <1>3. fa \in Seq(T) /\ \A k \in 0 .. N : F(k) \in Seq(T)
    BY <1>2, FlattenFacts
  <1>4. F(0) = none /\ F(N) = FlattenSeq(b)
    BY <1>2, FlattenFacts
  <1>5. \A k \in 0 .. N - 1 : F(k + 1) = F(k) \o b[k + 1]
    <2>1. SUFFICES ASSUME NEW k \in 0 .. N - 1
                   PROVE  F(k + 1) = F(k) \o b[k + 1]
      OBVIOUS
    <2> DEFINE u == SubSeq(b, 1, k)
               x == b[k + 1]
    <2>2. k \in 0 .. N /\ k + 1 \in 1 .. N
      BY <1>1
    <2>3. u \in Seq(Seq(T)) /\ x \in Seq(T) /\ SubSeq(b, 1, k + 1) = Append(u, x)
      BY <1>2, <2>2
    <2> HIDE DEF u, x
    <2>4. FlattenSeq(Append(u, x)) = FlattenSeq(u) \o x
      BY <2>3, FlattenFacts
    <2>5. QED
      BY <2>3, <2>4 DEF u, x
  <1>6. \A k \in 0 .. N : g[k] = fa \o F(k)
    OBVIOUS
  <1>7. Steps(step, Seq(T), Seq(T)) /\ \A x, y \in Seq(T) : step[<< x, y >>] = x \o y
    BY JoiningFacts
  <1> HIDE DEF F, g, step, fa, none, N
  <1>8. g[0] = fa
    <2>1. 0 \in 0 .. N /\ fa \o none = fa
      BY <1>1, <1>3, ConcatEmptySeq DEF none
    <2>2. QED
      BY <1>4, <1>6, <2>1
  <1>9. ASSUME NEW k \in 0 .. N - 1
        PROVE  g[k + 1] = step[<< g[k], b[k + 1] >>]
    <2> DEFINE u == F(k)
               x == b[k + 1]
               v == fa \o u
    <2>1. k \in 0 .. N /\ k + 1 \in 0 .. N /\ k + 1 \in 1 .. N
      BY <1>1
    <2>2. u \in Seq(T) /\ x \in Seq(T) /\ g[k] = v /\ g[k + 1] = fa \o (u \o x)
      BY <1>2, <1>3, <1>5, <1>6, <2>1
    <2> HIDE DEF u, x
    <2>3. fa \in Seq(T) /\ u \in Seq(T) /\ x \in Seq(T)
      BY <1>3, <2>2
    <2>4. v \o x = fa \o (u \o x) /\ v \in Seq(T)
      BY <2>3, Associative, ConcatProperties, SMTT(30)
    <2> HIDE DEF v
    <2>5. step[<< v, x >>] = v \o x
      BY <1>7, <2>3, <2>4
    <2>6. QED
      BY <2>2, <2>4, <2>5 DEF x
  <1>10. Follows(g, Seq(T), step, fa, b, Len(b))
    BY <1>8, <1>9 DEF Follows, N
  <1>11. End(Seq(T), step, fa, b) = g[N]
    BY <1>3, <1>7, <1>10, EndIs DEF N
  <1>12. FlattenSeq(a) = End(Seq(T), step, none, a)
    BY FlattenIsEnd DEF step, none
  <1>13. FlattenSeq(a \o b) = End(Seq(T), step, none, a \o b)
    <2>1. a \o b \in Seq(Seq(T))
      BY ConcatProperties
    <2>2. QED
      BY <2>1, FlattenIsEnd DEF step, none
  <1>14. End(Seq(T), step, none, a \o b) = End(Seq(T), step, fa, b)
    <2>1. none \in Seq(T)
      BY EmptySeq DEF none
    <2>2. End(Seq(T), step, none, a \o b) = End(Seq(T), step, End(Seq(T), step, none, a), b)
      BY <1>7, <2>1, EndJoined
    <2>3. QED
      BY <1>12, <2>2 DEF fa
  <1>15. N \in 0 .. N
    BY <1>1
  <1>16. QED
    BY <1>4, <1>6, <1>11, <1>13, <1>14, <1>15 DEF fa

(* A finite set has a sequence of its members.                               *)
LEMMA SetToSeqFacts ==
    ASSUME NEW S, IsFiniteSet(S)
    PROVE  /\ Cardinality(S) \in Nat /\ SetToSeq(S) \in [1 .. Cardinality(S) -> S]
           /\ S = {SetToSeq(S)[k] : k \in 1 .. Cardinality(S)}
  <1> DEFINE n == Cardinality(S)
             f == SetToSeq(S)
  <1>1. n \in Nat
    BY FS_CardinalityType
  <1>2. \E g \in [1 .. n -> S] : IsInjective(g)
    <2>1. PICK g \in Bijection(1 .. n, S) : TRUE
      <3>1. ExistsBijection(1 .. n, S)
        BY FS_CardinalityType
      <3>2. QED
        BY <3>1 DEF ExistsBijection
    <2>2. g \in [1 .. n -> S] /\ IsInjective(g)
      BY <2>1 DEF Bijection, Injection, Surjection
    <2>3. QED
      BY <2>2
  <1>3. f \in [1 .. n -> S] /\ IsInjective(f)
    BY <1>2 DEF SetToSeq
  <1> HIDE DEF f
  <1>4. f \in Injection(1 .. n, S)
    BY <1>3 DEF Injection
  <1>5. IsFiniteSet(1 .. n) /\ Cardinality(1 .. n) = n
    BY <1>1, FS_Interval
  <1>6. f \in Surjection(1 .. n, S)
    BY <1>4, <1>5, FS_Injection
  <1>7. \A x \in S : \E k \in 1 .. n : f[k] = x
    BY <1>6 DEF Surjection
  <1>8. QED
    BY <1>1, <1>3, <1>7 DEF f

\* A key that holds no '=' and no line break.
CleanKey == Seq(Ink \ {"="})

\* The line of an entry.
EntryLine(p, key, i) == (<< p >> \o key) \o << "=", Numbers[i] >>

(* The line of an entry has its prefix, key and number where load_or_build   *)
(* looks for them.                                                           *)
LEMMA EntryLineFacts ==
    ASSUME NEW p \in {"email:", "phone:"}, NEW key \in CleanKey, NEW i \in DOMAIN Numbers
    PROVE  LET line == EntryLine(p, key, i)
           IN  /\ line \in Seq(Ink) /\ line # << >>
               /\ HasEntry(line) /\ Head(line) = p /\ KeyIn(line) = key /\ NumberIn(line) = i
               /\ i \in Nat \ {0}
  <1> DEFINE line == EntryLine(p, key, i)
             m == Len(key)
             d == Numbers[i]
             a == << p >>
             b == << "=", d >>
  <1>1. m \in Nat
    BY LenProperties DEF CleanKey
  <1>2. \A j \in 1 .. m : key[j] \in Ink /\ key[j] # "="
    BY ElementOfSeq DEF CleanKey
  <1>3. Numbers \in Seq(Char \ {LF}) /\ \A j, k \in DOMAIN Numbers : Numbers[j] = Numbers[k] => j = k
    BY NumbersAssumption
  <1>4. d \in Ink /\ p \in Ink /\ "=" \in Ink /\ p # "="
    <2>1. d \in Char \ {LF}
      <3>1. \A j \in 1 .. Len(Numbers) : Numbers[j] \in Char \ {LF}
        BY <1>3, ElementOfSeq
      <3>2. DOMAIN Numbers = 1 .. Len(Numbers)
        BY <1>3, LenProperties
      <3>3. QED
        BY <3>1, <3>2
    <2>2. QED
      BY <2>1, CharAssumption DEF Ink, LF
  <1>5. key \in Seq(Ink)
    BY SeqMonotonic DEF CleanKey
  <1>6. DOMAIN Numbers = 1 .. Len(Numbers) /\ Len(Numbers) \in Nat
    BY <1>3, LenProperties
  <1>7. /\ a \in Seq(Ink) /\ Len(a) = 1 /\ a[1] = p
        /\ b \in Seq(Ink) /\ Len(b) = 2 /\ b[1] = "=" /\ b[2] = d
    BY <1>4
  <1> HIDE DEF a, b, d, m
  <1> DEFINE ak == a \o key
  <1>8. /\ ak \in Seq(Ink) /\ Len(ak) = m + 1
        /\ \A j \in 1 .. m + 1 : ak[j] = IF j <= 1 THEN a[j] ELSE key[j - 1]
    <2>1. /\ ak \in Seq(Ink) /\ Len(ak) = Len(a) + Len(key)
          /\ \A j \in 1 .. Len(a) + Len(key) : ak[j] = IF j <= Len(a) THEN a[j] ELSE key[j - Len(a)]
      <3>1. a \in Seq(Ink)
        BY <1>7
      <3>2. QED
        BY <1>5, <3>1, ConcatProperties
    <2> HIDE DEF ak
    <2>2. QED
      BY <1>1, <1>7, <2>1 DEF m
  <1> HIDE DEF ak
  <1>9. /\ line \in Seq(Ink) /\ Len(line) = m + 3
        /\ \A j \in 1 .. m + 3 : line[j] = IF j <= m + 1 THEN ak[j] ELSE b[j - (m + 1)]
    <2>1. line = ak \o b
      BY DEF EntryLine, ak, a, b, d
    <2>2. /\ ak \o b \in Seq(Ink) /\ Len(ak \o b) = Len(ak) + Len(b)
          /\ \A j \in 1 .. Len(ak) + Len(b) : (ak \o b)[j] = IF j <= Len(ak) THEN ak[j] ELSE b[j - Len(ak)]
      <3>1. ak \in Seq(Ink) /\ b \in Seq(Ink)
        BY <1>7, <1>8
      <3>2. QED
        BY <3>1, ConcatProperties
    <2> HIDE DEF line
    <2>3. QED
      BY <1>1, <1>7, <1>8, <2>1, <2>2
  <1> HIDE DEF line
  <1>10. /\ line[1] = p /\ line[m + 2] = "=" /\ line[m + 3] = d
         /\ \A j \in 1 .. m : line[j + 1] = key[j]
    <2>1. line[1] = p
      BY <1>1, <1>7, <1>8, <1>9
    <2>2. line[m + 2] = "=" /\ line[m + 3] = d
      <3>1. m + 2 \in 1 .. m + 3 /\ m + 3 \in 1 .. m + 3 /\ ~(m + 2 <= m + 1) /\ ~(m + 3 <= m + 1)
            /\ (m + 2) - (m + 1) = 1 /\ (m + 3) - (m + 1) = 2
        BY <1>1
      <3>2. QED
        BY <1>7, <1>9, <3>1
    <2>3. ASSUME NEW j \in 1 .. m
          PROVE  line[j + 1] = key[j]
      <3>1. j + 1 \in 1 .. m + 3 /\ j + 1 <= m + 1 /\ j + 1 \in 1 .. m + 1 /\ ~(j + 1 <= 1) /\ (j + 1) - 1 = j
        BY <1>1
      <3>2. QED
        BY <1>8, <1>9, <3>1
    <2>4. QED
      BY <2>1, <2>2, <2>3
  <1>11. DOMAIN line = 1 .. m + 3
    BY <1>9, LenProperties
  <1>12. \A j \in 1 .. m + 1 : line[j] # "="
    <2>1. SUFFICES ASSUME NEW j \in 1 .. m + 1
                   PROVE  line[j] # "="
      OBVIOUS
    <2>2. CASE j = 1
      BY <1>4, <1>10, <2>2
    <2>3. CASE j # 1
      <3>1. j - 1 \in 1 .. m /\ (j - 1) + 1 = j
        BY <1>1, <2>3
      <3>2. line[j] = key[j - 1]
        BY <1>10, <3>1
      <3>3. QED
        BY <1>2, <3>1, <3>2
    <2>4. QED
      BY <2>2, <2>3
  <1>13. FirstEquals(line) = m + 2
    <2> DEFINE P(j) == line[j] = "=" /\ \A k \in 1 .. j - 1 : line[k] # "="
    <2>1. m + 2 \in DOMAIN line /\ P(m + 2)
      <3>1. (m + 2) - 1 = m + 1 /\ m + 2 \in 1 .. m + 3
        BY <1>1
      <3>2. QED
        BY <1>10, <1>11, <1>12, <3>1
    <2>2. ASSUME NEW j \in DOMAIN line, P(j)
          PROVE  j = m + 2
      <3>1. j \in 1 .. m + 3 /\ line[j] = "="
        BY <1>11, <2>2
      <3>2. ~(j \in 1 .. m + 1)
        BY <1>12, <3>1
      <3>3. CASE j = m + 3
        <4>1. m + 2 \in 1 .. j - 1
          BY <1>1, <3>3
        <4>2. QED
          BY <1>10, <2>2, <4>1
      <3>4. QED
        BY <1>1, <3>1, <3>2, <3>3
    <2>3. FirstEquals(line) = CHOOSE j \in DOMAIN line : P(j)
      BY DEF FirstEquals
    <2> HIDE DEF P
    <2>4. QED
      BY <2>1, <2>2, <2>3
  <1>14. line # << >> /\ Head(line) = p
    BY <1>1, <1>9, <1>10, EmptySeq
  <1>15. HasEntry(line)
    <2>1. m + 2 \in 1 .. Len(line)
      BY <1>1, <1>9
    <2>2. Contains(line, "=")
      BY <1>10, <2>1 DEF Contains
    <2>3. QED
      BY <1>14, <2>2 DEF HasEntry
  <1>16. KeyIn(line) = key
    <2> DEFINE s == SubSeq(line, 2, m + 1)
    <2>1. KeyIn(line) = s
      <3>1. FirstEquals(line) - 1 = m + 1
        BY <1>1, <1>13
      <3>2. QED
        BY <3>1 DEF KeyIn
    <2>2. s \in Seq(Ink) /\ Len(s) = m
      BY <1>1, <1>9
    <2>3. \A j \in 1 .. m : s[j] = line[j + 1]
      BY <1>1, <1>9
    <2> HIDE DEF s
    <2>4. \A j \in 1 .. Len(s) : s[j] = key[j]
      BY <1>10, <2>2, <2>3
    <2>5. Len(key) = m
      BY DEF m
    <2>6. QED
      BY <1>5, <2>1, <2>2, <2>4, <2>5, SeqEqual
  <1>17. NumberIn(line) = i
    <2> DEFINE rest == SubSeq(line, FirstEquals(line) + 1, Len(line))
               I == {j \in 1 .. Len(Numbers) : rest # << >> /\ Numbers[j] = Head(rest)}
    <2>1. rest = SubSeq(line, m + 3, m + 3)
      <3>1. FirstEquals(line) + 1 = m + 3 /\ Len(line) = m + 3
        BY <1>1, <1>9, <1>13
      <3>2. QED
        BY <3>1
    <2>2. rest # << >> /\ Head(rest) = d
      <3> DEFINE s == SubSeq(line, m + 3, m + 3)
      <3>1. s \in Seq(Ink) /\ Len(s) = 1 /\ s[1] = line[m + 3]
        BY <1>1, <1>9
      <3> HIDE DEF s, rest
      <3>2. s # << >>
        BY <3>1, EmptySeq
      <3>3. Head(s) = s[1]
        BY <3>1, <3>2
      <3>4. s[1] = d
        BY <1>10, <3>1
      <3>5. QED
        BY <2>1, <3>2, <3>3, <3>4 DEF s
    <2> HIDE DEF rest
    <2>3. I = {i}
      BY <1>3, <1>6, <2>2 DEF d
    <2>4. NumberIn(line) = IF I # {} THEN Min(I) ELSE 0
      BY DEF NumberIn, SelectInSeq, rest
    <2> HIDE DEF I
    <2>5. Min({i}) = i
      BY <1>6 DEF Min
    <2>6. QED
      BY <2>3, <2>4, <2>5
  <1>18. i \in Nat \ {0}
    BY <1>6
  <1>19. QED
    BY <1>9, <1>14, <1>15, <1>16, <1>17, <1>18 DEF line

\* The maps while the index file is read.
IM(f, g) == [email |-> f, phone |-> g]

(* An entry goes into the map that its prefix names.                         *)
LEMMA EntersEntry ==
    ASSUME NEW f, NEW g, NEW key \in CleanKey, NEW i \in DOMAIN Numbers
    PROVE  /\ IndexEntry(IM(f, g), EntryLine("email:", key, i)) = IM(With(f, key, i), g)
           /\ IndexEntry(IM(f, g), EntryLine("phone:", key, i)) = IM(f, With(g, key, i))
  <1>1. ASSUME NEW p \in {"email:", "phone:"}
        PROVE  LET line == EntryLine(p, key, i)
               IN  /\ HasEntry(line) /\ Head(line) = p /\ KeyIn(line) = key /\ NumberIn(line) = i
    BY EntryLineFacts
  <1> DEFINE e == EntryLine("email:", key, i)
             t == EntryLine("phone:", key, i)
  <1>2. HasEntry(e) /\ Head(e) = "email:" /\ KeyIn(e) = key /\ NumberIn(e) = i
    BY <1>1
  <1>3. HasEntry(t) /\ Head(t) = "phone:" /\ KeyIn(t) = key /\ NumberIn(t) = i
    BY <1>1
  <1> HIDE DEF e, t
  <1>4. IndexEntry(IM(f, g), e) = IM(With(f, key, i), g)
    BY <1>2 DEF IndexEntry, IM
  <1>5. IndexEntry(IM(f, g), t) = IM(f, With(g, key, i))
    BY <1>3 DEF IndexEntry, IM
  <1>6. QED
    BY <1>4, <1>5 DEF e, t

\* The first m entries of a map, in the order of s.
Entered(map, s, m) == [key \in {s[j] : j \in 1 .. m} |-> map[key]]

(* One entry more.                                                           *)
LEMMA EnteredFacts ==
    ASSUME NEW map, NEW s, NEW n \in Nat
    PROVE  /\ Entered(map, s, 0) = << >>
           /\ \A m \in 1 .. n : With(Entered(map, s, m - 1), s[m], map[s[m]]) = Entered(map, s, m)
  <1>1. Entered(map, s, 0) = << >>
    <2>1. 1 .. 0 = {}
      OBVIOUS
    <2>2. {s[j] : j \in 1 .. 0} = {}
      BY <2>1
    <2>3. << >> = [x \in {} |-> map[x]]
      OBVIOUS
    <2>4. QED
      BY <2>2, <2>3 DEF Entered
  <1>2. ASSUME NEW m \in 1 .. n
        PROVE  With(Entered(map, s, m - 1), s[m], map[s[m]]) = Entered(map, s, m)
    <2> DEFINE old == {s[j] : j \in 1 .. m - 1}
               new == {s[j] : j \in 1 .. m}
               k == s[m]
    <2>1. new = {k} \cup old
      <3>1. 1 .. m = (1 .. m - 1) \cup {m}
        OBVIOUS
      <3>2. QED
        BY <3>1
    <2>2. Entered(map, s, m - 1) = [x \in old |-> map[x]] /\ Entered(map, s, m) = [x \in new |-> map[x]]
      BY DEF Entered
    <2> HIDE DEF old, new, k
    <2>3. With([x \in old |-> map[x]], k, map[k]) = [x \in {k} \cup old |-> map[x]]
      BY DEF With
    <2>4. QED
      BY <2>1, <2>2, <2>3 DEF k
  <1>3. QED
    BY <1>1, <1>2

(* What is read step by step is what the steps make it.                      *)
LEMMA ThroughEntries ==
    ASSUME NEW st, NEW lines, Len(lines) \in Nat, NEW g, g[0] = st,
           \A k \in 0 .. Len(lines) - 1 : g[k + 1] = IndexEntry(g[k], lines[k + 1])
    PROVE  Through(IndexEntry, st, lines) = g[Len(lines)]
  <1> DEFINE n == Len(lines)
             Recursion(f) == f = [k \in 0 .. n |-> IF k = 0 THEN st ELSE IndexEntry(f[k - 1], lines[k])]
             f == CHOOSE h : Recursion(h)
             w == [k \in 0 .. n |-> g[k]]
  <1>1. n \in Nat
    OBVIOUS
  <1>2. Through(IndexEntry, st, lines) = f[n]
    BY DEF Through
  <1>3. \A k \in 0 .. n - 1 : g[k + 1] = IndexEntry(g[k], lines[k + 1])
    OBVIOUS
  <1> HIDE DEF n
  <1>4. Recursion(f)
    <2>1. ASSUME NEW k \in 0 .. n
          PROVE  w[k] = IF k = 0 THEN st ELSE IndexEntry(w[k - 1], lines[k])
      <3>1. CASE k = 0
        BY <3>1
      <3>2. CASE k # 0
        <4>1. k - 1 \in 0 .. n - 1 /\ (k - 1) + 1 = k /\ k - 1 \in 0 .. n
          BY <1>1, <3>2
        <4>2. g[(k - 1) + 1] = IndexEntry(g[k - 1], lines[(k - 1) + 1])
          BY <1>3, <4>1
        <4>3. QED
          BY <3>2, <4>1, <4>2
      <3>3. QED
        BY <3>1, <3>2
    <2>2. Recursion(w)
      BY <2>1
    <2>3. QED
      BY <2>2
  <1> HIDE DEF f, w
  <1>5. \A k \in 0 .. n : f[k] = IF k = 0 THEN st ELSE IndexEntry(f[k - 1], lines[k])
    BY <1>4
  <1> DEFINE G == {k \in 0 .. n : f[k] = g[k]}
  <1>6. 0 \in G
    BY <1>1, <1>5
  <1>7. ASSUME NEW k \in 0 .. n - 1, k \in G
        PROVE  k + 1 \in G
    <2>1. k + 1 \in 0 .. n /\ k + 1 # 0 /\ (k + 1) - 1 = k
      BY <1>1
    <2>2. f[k + 1] = IndexEntry(f[k], lines[k + 1])
      BY <1>5, <2>1
    <2>3. QED
      BY <1>3, <1>7, <2>1, <2>2
  <1> HIDE DEF G
  <1>8. n \in G
    <2>1. \A k \in 0 .. n : k \in G
      BY <1>1, <1>6, <1>7, Upwards
    <2>2. QED
      BY <1>1, <2>1
  <1>9. QED
    BY <1>2, <1>8 DEF G, n

\* A map from keys that a line can hold to positions.
Storable(map) ==
    /\ IsFiniteSet(DOMAIN map) /\ DOMAIN map \subseteq CleanKey
    /\ \A key \in DOMAIN map : map[key] \in DOMAIN Numbers
    /\ map = [key \in DOMAIN map |-> map[key]]

(* The maps of a book whose fields hold no '=' and no line break.            *)
LEMMA KeyMapsStorable ==
    ASSUME NEW b \in Seq(Row), Len(b) <= Len(Numbers), Lacks(b, "="), Lacks(b, LF),
           NEW column \in 1 .. Columns
    PROVE  Storable(KeyMap(b, column))
  <1> DEFINE K == {b[i][column] : i \in DOMAIN b}
             P(key, i) == b[i][column] = key /\ \A j \in DOMAIN b : b[j][column] = key => j <= i
             map == KeyMap(b, column)
             n == Len(b)
  <1>1. b \in Seq(Row) /\ n <= Len(Numbers) /\ n \in Nat /\ DOMAIN b = 1 .. n
    BY LenProperties
  <1>2. map = [key \in K |-> CHOOSE i \in DOMAIN b : P(key, i)] /\ DOMAIN map = K
    BY DEF KeyMap
  <1> HIDE DEF map, n
  <1>3. IsFiniteSet(K)
    <2>1. IsFiniteSet(1 .. n)
      BY <1>1, FS_Interval
    <2> DEFINE f == [i \in 1 .. n |-> b[i][column]]
    <2>2. f \in Surjection(1 .. n, K)
      BY <1>1 DEF Surjection
    <2> HIDE DEF K, f
    <2>3. QED
      BY <2>1, <2>2, FS_Surjection
  <1>4. K \subseteq CleanKey
    <2>1. SUFFICES ASSUME NEW i \in 1 .. n
                   PROVE  b[i][column] \in CleanKey
      BY <1>1
    <2> DEFINE s == b[i][column]
    <2>2. b[i] \in Row
      BY <1>1, ElementOfSeq DEF n
    <2>3. s \in Seq(Char) /\ DOMAIN b[i] = 1 .. Columns
      BY <2>2 DEF Row
    <2>4. \A j \in DOMAIN s : s[j] # "=" /\ s[j] # LF
      BY <1>1, <2>3 DEF Lacks
    <2> HIDE DEF s
    <2>5. s \in [1 .. Len(s) -> Char] /\ Len(s) \in Nat /\ DOMAIN s = 1 .. Len(s)
      BY <2>3
    <2>6. s \in [1 .. Len(s) -> Ink \ {"="}]
      BY <2>4, <2>5 DEF Ink
    <2>7. QED
      BY <2>5, <2>6, FunctionIsSeq DEF CleanKey, s
  <1>5. ASSUME NEW key \in K
        PROVE  map[key] \in DOMAIN Numbers
    <2> DEFINE R == {d \in 0 .. n : n - d \in DOMAIN b /\ b[n - d][column] = key}
    <2>1. PICK i \in 1 .. n : b[i][column] = key
      BY <1>1
    <2>2. n - i \in R
      BY <1>1, <2>1
    <2>3. PICK d \in R : \A e \in R : d <= e
      <3>1. R \subseteq Nat
        BY <1>1
      <3>2. R # {}
        BY <2>2
      <3> HIDE DEF R
      <3>3. QED
        BY <3>1, <3>2, LeastNumber
    <2>4. P(key, n - d)
      <3>1. ASSUME NEW j \in DOMAIN b, b[j][column] = key
            PROVE  j <= n - d
        <4>1. n - j \in 0 .. n /\ n - (n - j) = j
          BY <1>1
        <4>2. n - j \in R
          BY <3>1, <4>1
        <4>3. d <= n - j /\ d \in 0 .. n
          BY <2>3, <4>2
        <4>4. QED
          BY <1>1, <4>3
      <3>2. QED
        BY <3>1
    <2>5. n - d \in DOMAIN b
      OBVIOUS
    <2>6. map[key] \in DOMAIN b
      <3>1. map[key] = CHOOSE j \in DOMAIN b : P(key, j)
        BY <1>2
      <3> HIDE DEF P
      <3>2. QED
        BY <2>4, <2>5, <3>1
    <2>7. 1 .. n \subseteq DOMAIN Numbers
      <3>1. DOMAIN Numbers = 1 .. Len(Numbers) /\ Len(Numbers) \in Nat
        BY NumbersAssumption, LenProperties
      <3>2. QED
        BY <1>1, <3>1
    <2>8. QED
      BY <1>1, <2>6, <2>7
  <1>6. map = [key \in DOMAIN map |-> map[key]]
    BY <1>2
  <1>7. QED
    BY <1>2, <1>3, <1>4, <1>5, <1>6 DEF Storable, map

\* The lines of a map.
MapLines(map, p) ==
    [n \in 1 .. Cardinality(DOMAIN map) |->
        EntryLine(p, SetToSeq(DOMAIN map)[n], map[SetToSeq(DOMAIN map)[n]])]

(* Two characters and a third.                                               *)
LEMMA TwoAndOne ==
    ASSUME NEW S, NEW a \in S, NEW b \in S, NEW c \in S
    PROVE  << a, b >> \o << c >> = << a, b, c >> /\ << a, b, c >> \in Seq(S)
  <1> DEFINE x == << a, b >>
             y == << c >>
             t == << a, b, c >>
             u == x \o y
  <1>1. t \in Seq(S) /\ Len(t) = 3 /\ t[1] = a /\ t[2] = b /\ t[3] = c
    OBVIOUS
  <1>2. x \in Seq(S) /\ Len(x) = 2 /\ x[1] = a /\ x[2] = b
    OBVIOUS
  <1>3. y \in Seq(S) /\ Len(y) = 1 /\ y[1] = c
    OBVIOUS
  <1> HIDE DEF x, y, t
  <1>4. /\ x \o y \in Seq(S) /\ Len(x \o y) = Len(x) + Len(y)
        /\ \A k \in 1 .. Len(x) + Len(y) : (x \o y)[k] = IF k <= Len(x) THEN x[k] ELSE y[k - Len(x)]
    BY <1>2, <1>3, ConcatProperties
  <1>5. u \in Seq(S) /\ Len(u) = 3 /\ \A k \in 1 .. 3 : u[k] = IF k <= 2 THEN x[k] ELSE y[k - 2]
    BY <1>2, <1>3, <1>4
  <1> HIDE DEF u
  <1>6. u[1] = a /\ u[2] = b /\ u[3] = c
    BY <1>2, <1>3, <1>5
  <1>7. \A k \in 1 .. Len(u) : u[k] = t[k]
    BY <1>1, <1>5, <1>6
  <1>8. u = t
    BY <1>1, <1>5, <1>7, SeqEqual
  <1>9. QED
    BY <1>1, <1>8 DEF u, x, y, t

(* A line and its break.                                                     *)
LEMMA EntryLineBroken ==
    ASSUME NEW p \in {"email:", "phone:"}, NEW key \in CleanKey, NEW i \in DOMAIN Numbers
    PROVE  << p >> \o key \o << "=", Numbers[i], LF >> = EntryLine(p, key, i) \o << LF >>
  <1> DEFINE d == Numbers[i]
             a == << p >> \o key
             b == << "=", d >>
             c == << LF >>
  <1>1. d \in Char
    <2>1. Numbers \in Seq(Char)
      BY NumbersAssumption, SeqMonotonic
    <2>2. QED
      BY <2>1
  <1>2. p \in Char /\ "=" \in Char /\ LF \in Char
    BY CharAssumption DEF LF
  <1>3. key \in Seq(Char)
    BY SeqMonotonic DEF CleanKey, Ink
  <1> HIDE DEF d
  <1>4. b \in Seq(Char) /\ c \in Seq(Char) /\ b \o c = << "=", d, LF >>
    <2>1. b \in Seq(Char) /\ c \in Seq(Char)
      BY <1>1, <1>2
    <2>2. b \o c = << "=", d, LF >>
      <3> DEFINE q == "="
      <3>1. q \in Char
        BY <1>2
      <3> HIDE DEF q
      <3>2. << q, d >> \o << LF >> = << q, d, LF >>
        BY <1>1, <1>2, <3>1, TwoAndOne
      <3>3. QED
        BY <3>2 DEF q
    <2>3. QED
      BY <2>1, <2>2
  <1>5. a \in Seq(Char)
    <2>1. << p >> \in Seq(Char)
      BY <1>2
    <2>2. QED
      BY <1>3, <2>1, ConcatProperties
  <1> HIDE DEF a, b, c
  <1>6. (a \o b) \o c = a \o (b \o c)
    <2>1. a \in Seq(Char) /\ b \in Seq(Char) /\ c \in Seq(Char)
      BY <1>4, <1>5
    <2>2. QED
      BY <2>1, Associative
  <1>7. QED
    BY <1>4, <1>6 DEF EntryLine, a, b, c, d

(* What PersistentIndex::save writes of a map, line by line.                 *)
LEMMA MapLinesFacts ==
    ASSUME NEW map, Storable(map), NEW p \in {"email:", "phone:"}
    PROVE  LET lines == MapLines(map, p)
               n == Cardinality(DOMAIN map)
               s == SetToSeq(DOMAIN map)
           IN  /\ lines \in Seq(Seq(Ink)) /\ NoneEmpty(lines) /\ Len(lines) = n /\ n \in Nat
               /\ MapText(map, p) = FlattenSeq(Broken(lines))
               /\ \A k \in 1 .. n : /\ s[k] \in CleanKey /\ map[s[k]] \in DOMAIN Numbers
                                    /\ lines[k] = EntryLine(p, s[k], map[s[k]])
               /\ Entered(map, s, n) = map
  <1> DEFINE lines == MapLines(map, p)
             n == Cardinality(DOMAIN map)
             s == SetToSeq(DOMAIN map)
  <1>1. n \in Nat /\ s \in [1 .. n -> DOMAIN map] /\ DOMAIN map = {s[k] : k \in 1 .. n}
    <2> DEFINE D == DOMAIN map
    <2>1. IsFiniteSet(D)
      BY DEF Storable
    <2>2. Cardinality(D) \in Nat /\ SetToSeq(D) \in [1 .. Cardinality(D) -> D]
          /\ D = {SetToSeq(D)[k] : k \in 1 .. Cardinality(D)}
      <3> HIDE DEF D
      <3>1. QED
        BY <2>1, SetToSeqFacts
    <2>3. QED
      BY <2>2
  <1>2. lines = [k \in 1 .. n |-> EntryLine(p, s[k], map[s[k]])]
    BY DEF MapLines
  <1>3. MapText(map, p) = FlattenSeq([k \in 1 .. n |->
                              << p >> \o s[k] \o << "=", Numbers[map[s[k]]], LF >>])
    BY DEF MapText
  <1>4. \A key \in DOMAIN map : key \in CleanKey /\ map[key] \in DOMAIN Numbers
    BY DEF Storable
  <1> HIDE DEF n, s, lines
  <1>5. \A k \in 1 .. n : s[k] \in CleanKey /\ map[s[k]] \in DOMAIN Numbers
    BY <1>1, <1>4
  <1>6. \A k \in 1 .. n : lines[k] = EntryLine(p, s[k], map[s[k]])
    BY <1>2
  <1>7. \A k \in 1 .. n : lines[k] \in Seq(Ink) /\ lines[k] # << >>
    BY <1>5, <1>6, EntryLineFacts
  <1>8. lines \in Seq(Seq(Ink)) /\ Len(lines) = n /\ DOMAIN lines = 1 .. n
    <2>1. lines \in [1 .. n -> Seq(Ink)]
      BY <1>2, <1>7
    <2>2. QED
      BY <1>1, <2>1, FunctionIsSeq
  <1>9. NoneEmpty(lines)
    BY <1>7, <1>8 DEF NoneEmpty
  <1>10. MapText(map, p) = FlattenSeq(Broken(lines))
    <2>1. \A k \in 1 .. n :
             << p >> \o s[k] \o << "=", Numbers[map[s[k]]], LF >> = lines[k] \o << LF >>
      BY <1>5, <1>6, EntryLineBroken
    <2>2. Broken(lines) = [k \in 1 .. n |-> lines[k] \o << LF >>]
      BY <1>8 DEF Broken
    <2>3. QED
      BY <1>3, <2>1, <2>2
  <1>11. Entered(map, s, n) = map
    <2>1. Entered(map, s, n) = [key \in DOMAIN map |-> map[key]]
      BY <1>1 DEF Entered
    <2>2. QED
      BY <2>1 DEF Storable
  <1>12. QED
    BY <1>1, <1>5, <1>6, <1>8, <1>9, <1>10, <1>11 DEF n, s, lines

(* The entries of two maps, one map after the other, give the two maps.      *)
LEMMA ReadsEntries ==
    ASSUME NEW e, Storable(e), NEW p, Storable(p)
    PROVE  LET body == MapLines(e, "email:") \o MapLines(p, "phone:")
           IN  /\ Through(IndexEntry, [email |-> << >>, phone |-> << >>], body) = IM(e, p)
               /\ body \in Seq(Seq(Ink)) /\ NoneEmpty(body)
               /\ \A k \in DOMAIN body : HasEntry(body[k]) => NumberIn(body[k]) # 0
  <1> DEFINE el == MapLines(e, "email:")
             pl == MapLines(p, "phone:")
             a == Cardinality(DOMAIN e)
             b == Cardinality(DOMAIN p)
             s == SetToSeq(DOMAIN e)
             t == SetToSeq(DOMAIN p)
             body == el \o pl
             none == << >>
             g == [k \in 0 .. a + b |->
                      IF k <= a THEN IM(Entered(e, s, k), none) ELSE IM(e, Entered(p, t, k - a))]
  <1>1. /\ el \in Seq(Seq(Ink)) /\ NoneEmpty(el) /\ Len(el) = a /\ a \in Nat
        /\ \A k \in 1 .. a : /\ s[k] \in CleanKey /\ e[s[k]] \in DOMAIN Numbers
                             /\ el[k] = EntryLine("email:", s[k], e[s[k]])
        /\ Entered(e, s, a) = e
    BY MapLinesFacts
  <1>2. /\ pl \in Seq(Seq(Ink)) /\ NoneEmpty(pl) /\ Len(pl) = b /\ b \in Nat
        /\ \A k \in 1 .. b : /\ t[k] \in CleanKey /\ p[t[k]] \in DOMAIN Numbers
                             /\ pl[k] = EntryLine("phone:", t[k], p[t[k]])
        /\ Entered(p, t, b) = p
    BY MapLinesFacts
  <1>3. /\ Entered(e, s, 0) = none
        /\ \A m \in 1 .. a : With(Entered(e, s, m - 1), s[m], e[s[m]]) = Entered(e, s, m)
    BY <1>1, EnteredFacts
  <1>4. /\ Entered(p, t, 0) = none
        /\ \A m \in 1 .. b : With(Entered(p, t, m - 1), t[m], p[t[m]]) = Entered(p, t, m)
    BY <1>2, EnteredFacts
  <1> HIDE DEF el, pl, a, b, s, t, none
  <1>5. /\ body \in Seq(Seq(Ink)) /\ Len(body) = a + b /\ a + b \in Nat
        /\ \A k \in 1 .. a + b : body[k] = IF k <= a THEN el[k] ELSE pl[k - a]
    <2>1. /\ el \o pl \in Seq(Seq(Ink)) /\ Len(el \o pl) = Len(el) + Len(pl)
          /\ \A k \in 1 .. Len(el) + Len(pl) :
                (el \o pl)[k] = IF k <= Len(el) THEN el[k] ELSE pl[k - Len(el)]
      <3>1. el \in Seq(Seq(Ink)) /\ pl \in Seq(Seq(Ink))
        BY <1>1, <1>2
      <3>2. QED
        BY <3>1, ConcatProperties
    <2>2. QED
      BY <1>1, <1>2, <2>1
  <1>6. \A k \in 0 .. a + b :
           g[k] = IF k <= a THEN IM(Entered(e, s, k), none) ELSE IM(e, Entered(p, t, k - a))
    OBVIOUS
  <1> HIDE DEF body, g
  <1>7. \A k \in 0 .. b : g[a + k] = IM(e, Entered(p, t, k))
    <2>1. SUFFICES ASSUME NEW k \in 0 .. b
                   PROVE  g[a + k] = IM(e, Entered(p, t, k))
      OBVIOUS
    <2>2. a + k \in 0 .. a + b /\ (a + k) - a = k /\ (a + k <= a <=> k = 0)
      BY <1>1, <1>2
    <2>3. CASE k = 0
      <3>1. a + k = a
        BY <1>1, <2>3
      <3>2. g[a] = IM(Entered(e, s, a), none)
        BY <1>6, <2>2, <2>3, <3>1
      <3>3. QED
        BY <1>1, <1>4, <2>3, <3>1, <3>2
    <2>4. CASE k # 0
      BY <1>6, <2>2, <2>4
    <2>5. QED
      BY <2>3, <2>4
  <1>8. ASSUME NEW k \in 0 .. (a + b) - 1
        PROVE  g[k + 1] = IndexEntry(g[k], body[k + 1])
    <2>1. CASE k < a
      <3> DEFINE m == k + 1
      <3>1. /\ m \in 1 .. a /\ m - 1 = k /\ m \in 1 .. a + b /\ m \in 0 .. a + b /\ k \in 0 .. a + b
            /\ k <= a /\ m <= a
        BY <1>1, <1>2, <2>1
      <3>2. g[k] = IM(Entered(e, s, k), none) /\ g[m] = IM(Entered(e, s, m), none)
        BY <1>6, <3>1
      <3>3. body[m] = EntryLine("email:", s[m], e[s[m]])
        BY <1>1, <1>5, <3>1
      <3>4. With(Entered(e, s, k), s[m], e[s[m]]) = Entered(e, s, m)
        BY <1>3, <3>1
      <3>5. s[m] \in CleanKey /\ e[s[m]] \in DOMAIN Numbers
        BY <1>1, <3>1
      <3> HIDE DEF m
      <3>6. IndexEntry(IM(Entered(e, s, k), none), EntryLine("email:", s[m], e[s[m]]))
              = IM(With(Entered(e, s, k), s[m], e[s[m]]), none)
        BY <3>5, EntersEntry
      <3>7. QED
        BY <3>2, <3>3, <3>4, <3>6 DEF m
    <2>2. CASE ~(k < a)
      <3> DEFINE m == (k - a) + 1
      <3>1. /\ m \in 1 .. b /\ m \in 0 .. b /\ m - 1 \in 0 .. b /\ a + (m - 1) = k /\ a + m = k + 1
            /\ k + 1 \in 1 .. a + b /\ ~(k + 1 <= a) /\ (k + 1) - a = m
        BY <1>1, <1>2, <2>2
      <3> HIDE DEF m
      <3>2. g[k] = IM(e, Entered(p, t, m - 1)) /\ g[k + 1] = IM(e, Entered(p, t, m))
        BY <1>7, <3>1
      <3>3. body[k + 1] = EntryLine("phone:", t[m], p[t[m]])
        BY <1>2, <1>5, <3>1
      <3>4. With(Entered(p, t, m - 1), t[m], p[t[m]]) = Entered(p, t, m)
        BY <1>4, <3>1
      <3>5. t[m] \in CleanKey /\ p[t[m]] \in DOMAIN Numbers
        BY <1>2, <3>1
      <3>6. IndexEntry(IM(e, Entered(p, t, m - 1)), EntryLine("phone:", t[m], p[t[m]]))
              = IM(e, With(Entered(p, t, m - 1), t[m], p[t[m]]))
        BY <3>5, EntersEntry
      <3>7. QED
        BY <3>2, <3>3, <3>4, <3>6
    <2>3. QED
      BY <2>1, <2>2
  <1>9. g[0] = IM(none, none)
    <2>1. 0 \in 0 .. a + b /\ 0 <= a
      BY <1>1, <1>5
    <2>2. QED
      BY <1>3, <1>6, <2>1
  <1>10. g[a + b] = IM(e, p)
    <2>1. b \in 0 .. b
      BY <1>2
    <2>2. QED
      BY <1>2, <1>7, <2>1
  <1>11. Through(IndexEntry, IM(none, none), body) = IM(e, p)
    <2> DEFINE st == IM(none, none)
    <2>1. g[0] = st /\ Len(body) \in Nat
      BY <1>5, <1>9
    <2>2. \A k \in 0 .. Len(body) - 1 : g[k + 1] = IndexEntry(g[k], body[k + 1])
      BY <1>5, <1>8
    <2> HIDE DEF st
    <2>3. Through(IndexEntry, st, body) = g[Len(body)]
      BY <2>1, <2>2, ThroughEntries
    <2>4. QED
      BY <1>5, <1>10, <2>3 DEF st
  <1>12. \A k \in 1 .. a + b : body[k] # none /\ NumberIn(body[k]) # 0
    <2>1. SUFFICES ASSUME NEW k \in 1 .. a + b
                   PROVE  body[k] # none /\ NumberIn(body[k]) # 0
      OBVIOUS
    <2>2. PICK q \in {"email:", "phone:"}, key \in CleanKey, i \in DOMAIN Numbers :
             body[k] = EntryLine(q, key, i)
      <3>1. CASE k <= a
        <4>1. k \in 1 .. a
          BY <3>1
        <4>2. QED
          BY <1>1, <1>5, <3>1, <4>1, ZenonT(30)
      <3>2. CASE ~(k <= a)
        <4>1. k - a \in 1 .. b
          BY <1>1, <1>2, <3>2
        <4>2. QED
          BY <1>2, <1>5, <3>2, <4>1
      <3>3. QED
        BY <3>1, <3>2
    <2>3. EntryLine(q, key, i) # none /\ NumberIn(EntryLine(q, key, i)) = i /\ i \in Nat \ {0}
      BY EntryLineFacts DEF none
    <2>4. QED
      BY <2>2, <2>3
  <1>13. DOMAIN body = 1 .. a + b
    BY <1>5, LenProperties
  <1>14. NoneEmpty(body)
    BY <1>12, <1>13 DEF NoneEmpty, none
  <1>15. QED
    BY <1>5, <1>11, <1>12, <1>13, <1>14 DEF body, el, pl, IM, none

(* Lines and more lines, each with its break.                                *)
LEMMA BrokenBoth ==
    ASSUME NEW a \in Seq(Seq(Ink)), NEW b \in Seq(Seq(Ink))
    PROVE  /\ Broken(a \o b) = Broken(a) \o Broken(b)
           /\ FlattenSeq(Broken(a \o b)) = FlattenSeq(Broken(a)) \o FlattenSeq(Broken(b))
           /\ FlattenSeq(Broken(a)) \in Seq(Char)
  <1> DEFINE c == a \o b
             A == Broken(a)
             B == Broken(b)
             C == Broken(c)
  <1>1. /\ c \in Seq(Seq(Ink)) /\ Len(c) = Len(a) + Len(b)
        /\ \A k \in 1 .. Len(a) + Len(b) : c[k] = IF k <= Len(a) THEN a[k] ELSE b[k - Len(a)]
    BY ConcatProperties
  <1> HIDE DEF c
  <1>2. /\ A \in Seq(Seq(Char)) /\ Len(A) = Len(a) /\ Len(a) \in Nat
        /\ \A k \in 1 .. Len(a) : A[k] = a[k] \o << LF >>
    BY BrokenPieces
  <1>3. /\ B \in Seq(Seq(Char)) /\ Len(B) = Len(b) /\ Len(b) \in Nat
        /\ \A k \in 1 .. Len(b) : B[k] = b[k] \o << LF >>
    BY BrokenPieces
  <1>4. /\ C \in Seq(Seq(Char)) /\ Len(C) = Len(c)
        /\ \A k \in 1 .. Len(c) : C[k] = c[k] \o << LF >>
    BY <1>1, BrokenPieces
  <1> HIDE DEF A, B, C
  <1> DEFINE D == A \o B
  <1>5. /\ D \in Seq(Seq(Char)) /\ Len(D) = Len(A) + Len(B)
        /\ \A k \in 1 .. Len(A) + Len(B) : D[k] = IF k <= Len(A) THEN A[k] ELSE B[k - Len(A)]
    <2>1. A \in Seq(Seq(Char)) /\ B \in Seq(Seq(Char))
      BY <1>2, <1>3
    <2>2. QED
      BY <2>1, ConcatProperties
  <1> HIDE DEF D
  <1>6. ASSUME NEW k \in 1 .. Len(C)
        PROVE  C[k] = D[k]
    <2>1. k \in 1 .. Len(a) + Len(b) /\ k \in 1 .. Len(A) + Len(B) /\ k \in 1 .. Len(c)
      BY <1>1, <1>2, <1>3, <1>4
    <2>2. CASE k <= Len(a)
      <3>1. k \in 1 .. Len(a)
        BY <2>1, <2>2
      <3>2. C[k] = a[k] \o << LF >>
        BY <1>1, <1>4, <2>1, <2>2
      <3>3. D[k] = A[k]
        BY <1>2, <1>5, <2>1, <2>2
      <3>4. QED
        BY <1>2, <3>1, <3>2, <3>3
    <2>3. CASE ~(k <= Len(a))
      <3>1. k - Len(a) \in 1 .. Len(b)
        BY <1>2, <1>3, <2>1, <2>3
      <3>2. C[k] = b[k - Len(a)] \o << LF >>
        BY <1>1, <1>4, <2>1, <2>3
      <3>3. D[k] = B[k - Len(a)]
        BY <1>2, <1>5, <2>1, <2>3
      <3>4. QED
        BY <1>3, <3>1, <3>2, <3>3
    <2>4. QED
      BY <2>2, <2>3
  <1>7. Len(C) = Len(D)
    BY <1>1, <1>2, <1>3, <1>4, <1>5
  <1>8. C = D
    BY <1>4, <1>5, <1>6, <1>7, SeqEqual
  <1>9. FlattenSeq(A \o B) = FlattenSeq(A) \o FlattenSeq(B)
    BY <1>2, <1>3, FlattenBoth
  <1>10. FlattenSeq(A) \in Seq(Char)
    BY <1>2, FlattenFacts
  <1>11. QED
    BY <1>8, <1>9, <1>10 DEF D, C, A, B, c

\* The line that names the data.
HashLine == << "hash=", "h" >>

(* The first line of an index file is not taken for an entry.                *)
LEMMA HashLineFacts ==
    /\ HashLine \in Seq(Ink) /\ HashLine # << >> /\ ~HasEntry(HashLine)
    /\ << HashLine >> \in Seq(Seq(Ink)) /\ Len(<< HashLine >>) = 1 /\ << HashLine >>[1] = HashLine
    /\ FlattenSeq(Broken(<< HashLine >>)) = << "hash=", "h", LF >>
    /\ << "hash=", "h", LF >> \in Seq(Char)
  <1>1. "hash=" \in Ink /\ "h" \in Ink /\ LF \in Char
    BY CharAssumption DEF Ink, LF
  <1>2. HashLine \in Seq(Ink) /\ HashLine # << >> /\ Head(HashLine) = "hash="
    BY <1>1 DEF HashLine
  <1>3. ~HasEntry(HashLine)
    BY <1>2 DEF HasEntry
  <1> DEFINE one == << HashLine >>
             none == << >>
             x == HashLine \o << LF >>
  <1>4. one \in Seq(Seq(Ink)) /\ Len(one) = 1 /\ one[1] = HashLine /\ DOMAIN one = 1 .. 1
    BY <1>2
  <1>5. x = << "hash=", "h", LF >> /\ x \in Seq(Char)
    <2> DEFINE a == "hash="
               b == "h"
    <2>1. a \in Char /\ b \in Char /\ LF \in Char /\ HashLine = << a, b >>
      BY <1>1 DEF HashLine, Ink
    <2> HIDE DEF a, b, x
    <2>2. << a, b >> \o << LF >> = << a, b, LF >> /\ << a, b, LF >> \in Seq(Char)
      BY <2>1, TwoAndOne
    <2>3. QED
      BY <2>1, <2>2 DEF a, b, x
  <1>6. Broken(one) = << x >>
    BY <1>4 DEF Broken
  <1> HIDE DEF one, x, none
  <1>7. FlattenSeq(<< x >>) = x
    <2>1. none \in Seq(Seq(Char)) /\ Append(none, x) = << x >> /\ FlattenSeq(none) = none /\ none \o x = x
      <3>1. FlattenSeq(none) = none
        BY FlattenFacts DEF none
      <3>2. none \in Seq(Seq(Char)) /\ Append(none, x) = << x >>
        BY DEF none
      <3>3. none \o x = x
        BY <1>5, ConcatEmptySeq DEF none
      <3>4. QED
        BY <3>1, <3>2, <3>3
    <2>2. FlattenSeq(Append(none, x)) = FlattenSeq(none) \o x
      BY <1>5, <2>1, FlattenFacts
    <2>3. QED
      BY <2>1, <2>2
  <1>8. FlattenSeq(Broken(one)) = << "hash=", "h", LF >>
    BY <1>5, <1>6, <1>7
  <1>9. QED
    BY <1>2, <1>3, <1>4, <1>5, <1>8 DEF one

(* A first line and the others.                                              *)
LEMMA FirstAndOthers ==
    ASSUME NEW T, NEW a \in T, NEW b \in Seq(T)
    PROVE  LET all == << a >> \o b
           IN  /\ all \in Seq(T) /\ all # << >> /\ Head(all) = a /\ Tail(all) = b
               /\ \A k \in DOMAIN all : all[k] = a \/ \E j \in DOMAIN b : all[k] = b[j]
  <1> DEFINE one == << a >>
             all == one \o b
  <1>1. one \in Seq(T) /\ Len(one) = 1 /\ one[1] = a
    OBVIOUS
  <1> HIDE DEF one
  <1>2. /\ all \in Seq(T) /\ Len(all) = 1 + Len(b) /\ Len(b) \in Nat
        /\ \A k \in 1 .. 1 + Len(b) : all[k] = IF k <= 1 THEN one[k] ELSE b[k - 1]
    <2>1. /\ all \in Seq(T) /\ Len(all) = Len(one) + Len(b)
          /\ \A k \in 1 .. Len(one) + Len(b) : all[k] = IF k <= Len(one) THEN one[k] ELSE b[k - Len(one)]
      BY <1>1, ConcatProperties
    <2>2. QED
      BY <1>1, <2>1, LenProperties
  <1> HIDE DEF all
  <1>3. all # << >> /\ all[1] = a
    BY <1>1, <1>2, EmptySeq
  <1>4. Head(all) = a
    BY <1>2, <1>3
  <1>5. Tail(all) = b
    <2> DEFINE t == Tail(all)
    <2>1. t \in Seq(T) /\ Len(t) = Len(b) /\ \A k \in 1 .. Len(b) : t[k] = all[k + 1]
      BY <1>2, <1>3
    <2> HIDE DEF t
    <2>2. \A k \in 1 .. Len(t) : t[k] = b[k]
      <3>1. SUFFICES ASSUME NEW k \in 1 .. Len(t)
                     PROVE  t[k] = b[k]
        OBVIOUS
      <3>2. k \in 1 .. Len(b) /\ k + 1 \in 1 .. 1 + Len(b) /\ ~(k + 1 <= 1) /\ (k + 1) - 1 = k
        BY <1>2, <2>1
      <3>3. QED
        BY <1>2, <2>1, <3>2
    <2>3. t = b
      BY <2>1, <2>2, SeqEqual
    <2>4. QED
      BY <2>3 DEF t
  <1>6. ASSUME NEW k \in DOMAIN all
        PROVE  all[k] = a \/ \E j \in DOMAIN b : all[k] = b[j]
    <2>1. k \in 1 .. 1 + Len(b)
      BY <1>2, LenProperties
    <2>2. CASE k = 1
      BY <1>3, <2>2
    <2>3. CASE k # 1
      <3>1. k - 1 \in 1 .. Len(b) /\ ~(k <= 1)
        BY <1>2, <2>1, <2>3
      <3>2. k - 1 \in DOMAIN b
        BY <3>1, LenProperties
      <3>3. QED
        BY <1>2, <2>1, <3>1, <3>2
    <2>4. QED
      BY <2>2, <2>3
  <1>7. QED
    BY <1>2, <1>3, <1>4, <1>5, <1>6 DEF all, one

(* What is saved is loaded.                                                  *)
LEMMA IndexFileGivesMaps ==
    ASSUME NEW b \in Seq(Row), Len(b) <= Len(Numbers), Lacks(b, "="), Lacks(b, LF)
    PROVE  MapsFrom(IndexText("h", KeyMaps(b)), "h", b) = KeyMaps(b)
  <1> DEFINE e == KeyMap(b, EmailColumn)
             p == KeyMap(b, PhoneColumn)
             el == MapLines(e, "email:")
             pl == MapLines(p, "phone:")
             body == el \o pl
             all == << HashLine >> \o body
             one == << HashLine >>
             text == IndexText("h", KeyMaps(b))
             none == << >>
             FH == FlattenSeq(Broken(one))
             FE1 == FlattenSeq(Broken(el))
             FP == FlattenSeq(Broken(pl))
  <1>1. Storable(e) /\ Storable(p)
    BY KeyMapsStorable, RowFacts
  <1>2. KeyMaps(b) = IM(e, p)
    BY DEF KeyMaps, IM
  <1>3. text = << "hash=", "h", LF >> \o MapText(e, "email:") \o MapText(p, "phone:")
    BY DEF IndexText, KeyMaps
  <1> HIDE DEF e, p
  <1>4. /\ el \in Seq(Seq(Ink)) /\ pl \in Seq(Seq(Ink))
        /\ MapText(e, "email:") = FE1 /\ MapText(p, "phone:") = FP
    BY <1>1, MapLinesFacts
  <1>5. /\ Through(IndexEntry, [email |-> << >>, phone |-> << >>], body) = IM(e, p)
        /\ body \in Seq(Seq(Ink)) /\ NoneEmpty(body)
        /\ \A k \in DOMAIN body : HasEntry(body[k]) => NumberIn(body[k]) # 0
    BY <1>1, ReadsEntries
  <1>6. HashLine \in Seq(Ink) /\ HashLine # none /\ ~HasEntry(HashLine) /\ one \in Seq(Seq(Ink))
        /\ FH = << "hash=", "h", LF >>
    BY HashLineFacts
  <1>7. all \in Seq(Seq(Ink)) /\ all # none /\ Head(all) = HashLine /\ Tail(all) = body
        /\ \A k \in DOMAIN all : all[k] = HashLine \/ \E j \in DOMAIN body : all[k] = body[j]
    BY <1>5, <1>6, FirstAndOthers, SMTT(30)
  <1> HIDE DEF text, el, pl
  <1>8. FlattenSeq(Broken(body)) = FE1 \o FP /\ FE1 \in Seq(Char) /\ FP \in Seq(Char)
    BY <1>4, BrokenBoth
  <1>9. FlattenSeq(Broken(all)) = FH \o FlattenSeq(Broken(body)) /\ FH \in Seq(Char)
    <2> HIDE DEF body, one
    <2>1. FlattenSeq(Broken(one \o body)) = FlattenSeq(Broken(one)) \o FlattenSeq(Broken(body))
          /\ FlattenSeq(Broken(one)) \in Seq(Char)
      BY <1>5, <1>6, BrokenBoth
    <2>2. QED
      BY <2>1 DEF one
  <1> HIDE DEF FH, FE1, FP, all, body, none, one
  <1>10. text = FlattenSeq(Broken(all))
    <2>1. (FH \o FE1) \o FP = FH \o (FE1 \o FP)
      <3>1. FH \in Seq(Char) /\ FE1 \in Seq(Char) /\ FP \in Seq(Char)
        BY <1>8, <1>9
      <3>2. QED
        BY ONLY <3>1, Associative, SMTT(30)
    <2>2. QED
      BY <1>3, <1>4, <1>6, <1>8, <1>9, <2>1
  <1>11. NoneEmpty(all)
    <2>1. \A j \in DOMAIN body : body[j] # none
      BY <1>5 DEF NoneEmpty, none
    <2>2. QED
      BY <1>6, <1>7, <2>1 DEF NoneEmpty, none
  <1>12. LinesOf(text) = all
    <2> DEFINE n == Len(all)
               T == Broken(all)
    <2>1. T \in Seq(Seq(Char)) /\ Len(T) = n /\ n \in Nat
      BY <1>7, BrokenPieces
    <2>2. SubSeq(T, 1, n) = T /\ SubSeq(all, 1, n) = all
      <3>1. SubSeq(T, 1, Len(T)) = T
        <4> HIDE DEF T
        <4>1. QED
          BY <2>1, UptoFacts
      <3>2. SubSeq(all, 1, Len(all)) = all
        BY <1>7, UptoFacts
      <3>3. QED
        BY <2>1, <3>1, <3>2
    <2>3. none \in Seq(Ink) /\ n \in 0 .. n
      BY <2>1, EmptySeq DEF none
    <2> HIDE DEF n
    <2>4. LinesOf(FlattenSeq(SubSeq(Broken(all), 1, n)) \o none)
            = IF none = << >> THEN SubSeq(all, 1, n) ELSE Append(SubSeq(all, 1, n), none)
      BY <1>7, <1>11, <2>3, LinesAre DEF n
    <2>5. FlattenSeq(T) \o none = FlattenSeq(T)
      <3>1. FlattenSeq(T) \in Seq(Char)
        <4> HIDE DEF T
        <4>1. QED
          BY <2>1, FlattenFacts
      <3> HIDE DEF T
      <3>2. QED
        BY <3>1, ConcatEmptySeq DEF none
    <2>6. QED
      BY <1>10, <2>2, <2>4, <2>5 DEF none
  <1>13. \A k \in DOMAIN all : ~(HasEntry(all[k]) /\ NumberIn(all[k]) = 0)
    BY <1>5, <1>6, <1>7
  <1>14. MapsFrom(text, "h", b) = Through(IndexEntry, [email |-> << >>, phone |-> << >>], Tail(all))
    <2>1. Head(all) = << "hash=", "h" >> /\ all # << >>
      BY <1>7 DEF HashLine, none
    <2>2. QED
      BY <1>12, <1>13, <2>1 DEF MapsFrom
  <1>15. QED
    BY <1>2, <1>5, <1>7, <1>14 DEF text

(* IndexReadsBack: PersistentIndex::load_or_build takes from the index file  *)
(* the maps that save wrote, if no key holds '=' or a line break.            *)
THEOREM IndexFilesReadBack == InterSpec => []IndexReadsBack
  <1>1. InterInv => IndexReadsBack
    <2> SUFFICES ASSUME InterInv, maps # Unset, Lacks(Rows(book), "="), Lacks(Rows(book), LF)
                 PROVE  maps = KeyMaps(Rows(book))
      BY DEF IndexReadsBack
    <2> DEFINE R == Rows(book)
    <2>1. /\ R \in Seq(Row) /\ Len(R) <= Len(Numbers)
          /\ maps = MapsFrom(IndexText("h", KeyMaps(R)), "h", R)
      BY BooksAreRanked DEF InterInv, IndexIs, Ranked
    <2>2. Lacks(R, "=") /\ Lacks(R, LF)
      OBVIOUS
    <2> HIDE DEF R
    <2>3. maps = KeyMaps(R)
      BY <2>1, <2>2, IndexFileGivesMaps
    <2>4. QED
      BY <2>3 DEF R
  <1>2. QED
    BY <1>1, InterInvariance, PTL
=============================================================================
