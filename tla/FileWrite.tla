----------------------------- MODULE FileWrite ------------------------------
(***************************************************************************)
(* write_file_atomic, copy_file_to and read_file of utils.cpp, one system  *)
(* call at a time.  Every writer of a file goes through one and the same   *)
(* name "<file>.tmp", so what two of them do to each other is told apart   *)
(* only with inodes: a name leads to an inode, a process that opened an    *)
(* inode keeps writing to it whatever becomes of its name.                 *)
(*                                                                         *)
(* Contents are sequences of Blocks blocks; a block of value v is v        *)
(* itself, so a value is whole when it is Blocks times the same v.         *)
(*                                                                         *)
(* Faults are those of the environment, as far as Faults names them:       *)
(*   "kill"   a writer is killed between two of its steps;                 *)
(*   "rename" rename(2) fails, and the copy that stands in is taken;       *)
(*   "full"   the disk fills up while the temporary file is written;       *)
(*   "power"  the machine stops, and what was not on the disk yet is gone. *)
(* `hit` collects those that have struck without write_file_atomic giving  *)
(* up because of them.                                                     *)
(***************************************************************************)
EXTENDS Integers, Sequences, FiniteSets

CONSTANTS
    Writers, Readers,
    Values,    \* what may be written
    Blocks,    \* blocks per value: bound on the model
    Inodes,    \* bound on the model: one for each name, descriptor and writer
    Faults,
    None,      \* no inode, no value
    Zero       \* the block a write leaves behind the end of the file it skips

ASSUME BlocksAssumption == Blocks \in Nat \ {0}
ASSUME NoneAssumption == None \notin Inodes \cup Values
ASSUME FaultsAssumption == Faults \subseteq {"kill", "rename", "full", "power"}

VARIABLES
    dir,       \* the directory: inode of the file and of its temporary file
    disk,      \* the blocks of each inode
    dirty,     \* the inodes with blocks that are not on the disk yet
    writer,    \* the writing processes
    reader,    \* the reading processes
    hit        \* the faults that have struck unnoticed

vars == << dir, disk, dirty, writer, reader, hit >>

Idle == [pc |-> "idle", val |-> None, out |-> None, in |-> None, off |-> 0]

Closed == [in |-> None, got |-> << >>]

\* The streams, names and results of the processes: in particular no inode holds
\* more blocks than a value has, so a reader of the file ends.
TypeOK ==
    /\ dir \in [{"file", "tmp"} -> Inodes \cup {None}]
    /\ DOMAIN disk = Inodes
    /\ \A i \in Inodes : disk[i] \in Seq(Values \cup {Zero}) /\ Len(disk[i]) <= Blocks
    /\ dirty \subseteq Inodes
    /\ writer \in [Writers -> [pc : {"idle", "open", "write", "rename", "copy", "copying", "remove"},
                               val : Values \cup {None}, out : Inodes \cup {None},
                               in : Inodes \cup {None}, off : 0 .. Blocks]]
    /\ DOMAIN reader = Readers
    /\ \A r \in Readers : reader[r].in \in Inodes \cup {None} /\ Len(reader[r].got) <= Blocks
    /\ hit \subseteq Faults

Init ==
    /\ dir = [n \in {"file", "tmp"} |-> None]
    /\ disk = [i \in Inodes |-> << >>]
    /\ dirty = {}
    /\ writer = [w \in Writers |-> Idle]
    /\ reader = [r \in Readers |-> Closed]
    /\ hit = {}

-----------------------------------------------------------------------------
\* Inodes with no name that no process holds open.
FreeInodes ==
    Inodes \ ({dir["file"], dir["tmp"]}
                \cup {writer[w].out : w \in Writers} \cup {writer[w].in : w \in Writers}
                \cup {reader[r].in : r \in Readers})

\* open(name, O_CREAT | O_TRUNC) gives inode i.
Truncate(name, i) ==
    /\ IF dir[name] = None THEN i \in FreeInodes /\ i = CHOOSE j \in FreeInodes : TRUE
                           ELSE i = dir[name]
    /\ dir' = [dir EXCEPT ![name] = i]
    /\ disk' = [disk EXCEPT ![i] = << >>]
    /\ dirty' = dirty \cup {i}

\* Mutant of WriteAt: one block too far.
WriteAfter(s, k, v) ==
    [j \in 1 .. (IF Len(s) > k + 1 THEN Len(s) ELSE k + 2) |->
        IF j = k + 2 THEN v ELSE IF j <= Len(s) THEN s[j] ELSE Zero]

\* A write at block k (from 0), which fills up whatever it skips.
WriteAt(s, k, v) ==
    [j \in 1 .. (IF Len(s) > k THEN Len(s) ELSE k + 1) |->
        IF j = k + 1 THEN v ELSE IF j <= Len(s) THEN s[j] ELSE Zero]

Return(w) == writer' = [writer EXCEPT ![w] = Idle]

-----------------------------------------------------------------------------
(* write_file_atomic(file, v) by w                                           *)

Start(w, v) ==
    /\ writer[w].pc = "idle"
    /\ writer' = [writer EXCEPT ![w] = [Idle EXCEPT !.pc = "open", !.val = v]]
    /\ UNCHANGED << dir, disk, dirty, reader, hit >>

\* Mutant of OpenTmp: the file itself is opened.
OpenInPlace(w) ==
    /\ writer[w].pc = "open"
    /\ \E i \in Inodes :
         /\ Truncate("file", i)
         /\ writer' = [writer EXCEPT ![w].pc = "write", ![w].out = i]
    /\ UNCHANGED << reader, hit >>

OpenTmp(w) ==
    /\ writer[w].pc = "open"
    /\ \E i \in Inodes :
         /\ Truncate("tmp", i)
         /\ writer' = [writer EXCEPT ![w].pc = "write", ![w].out = i]
    /\ UNCHANGED << reader, hit >>

WriteBlock(w) ==
    /\ writer[w].pc = "write" /\ writer[w].off < Blocks
    /\ disk' = [disk EXCEPT ![writer[w].out] = WriteAt(@, writer[w].off, writer[w].val)]
    /\ dirty' = dirty \cup {writer[w].out}
    /\ writer' = [writer EXCEPT ![w].off = @ + 1]
    /\ UNCHANGED << dir, reader, hit >>

\* The disk is full and out.write says so: false, the temporary file stays.
WriteFails(w) ==
    /\ writer[w].pc \in {"open", "write"} /\ writer[w].off < Blocks
    /\ "full" \in Faults
    /\ Return(w)
    /\ UNCHANGED << dir, disk, dirty, reader, hit >>

\* Mutant of CloseTmp: the rename does not wait for the stream to be closed.
CloseLate(w) ==
    /\ writer[w].pc = "write" /\ writer[w].off >= Blocks - 1
    /\ writer' = [writer EXCEPT ![w].pc = "rename", ![w].out = None, ![w].off = 0]
    /\ UNCHANGED << dir, disk, dirty, reader, hit >>

\* The stream is closed.  What it still buffers is written now, and nobody looks
\* whether that succeeds.
CloseTmp(w) ==
    /\ writer[w].pc = "write" /\ writer[w].off >= Blocks - 1
    /\ \/ /\ disk' = [disk EXCEPT ![writer[w].out] =
                        IF writer[w].off < Blocks
                          THEN WriteAt(@, writer[w].off, writer[w].val) ELSE @]
          /\ UNCHANGED hit
       \/ /\ "full" \in Faults /\ writer[w].off < Blocks /\ hit' = hit \cup {"full"}
          /\ UNCHANGED disk
    /\ dirty' = dirty \cup {writer[w].out}
    /\ writer' = [writer EXCEPT ![w].pc = "rename", ![w].out = None, ![w].off = 0]
    /\ UNCHANGED << dir, reader >>

\* Mutant of Rename: the file becomes a second name of the temporary file.
Link(w) ==
    /\ writer[w].pc = "rename" /\ dir["tmp"] # None
    /\ dir' = [dir EXCEPT !["file"] = dir["tmp"]]
    /\ Return(w)
    /\ UNCHANGED << disk, dirty, reader, hit >>

Rename(w) ==
    /\ writer[w].pc = "rename" /\ dir["tmp"] # None
    /\ dir' = [dir EXCEPT !["file"] = dir["tmp"], !["tmp"] = None]
    /\ Return(w)
    /\ UNCHANGED << disk, dirty, reader, hit >>

\* rename fails: the temporary file is gone, or the system refuses.
RenameFails(w) ==
    /\ writer[w].pc = "rename"
    /\ \/ dir["tmp"] = None /\ UNCHANGED hit
       \/ "rename" \in Faults /\ hit' = hit \cup {"rename"}
    /\ writer' = [writer EXCEPT ![w].pc = "copy"]
    /\ UNCHANGED << dir, disk, dirty, reader >>

\* copy_file_to opens both files before it looks whether either could be opened:
\* the file is truncated even when there is nothing to copy.
CopyOpen(w) ==
    /\ writer[w].pc = "copy"
    /\ \E i \in Inodes :
         /\ Truncate("file", i)
         /\ writer' = [writer EXCEPT ![w] =
              IF dir["tmp"] = None THEN Idle
              ELSE [@ EXCEPT !.pc = "copying", !.in = dir["tmp"], !.out = i]]
    /\ UNCHANGED << reader, hit >>

CopyBlock(w) ==
    /\ writer[w].pc = "copying" /\ writer[w].off < Len(disk[writer[w].in])
    /\ disk' = [disk EXCEPT ![writer[w].out] =
                  WriteAt(@, writer[w].off, disk[writer[w].in][writer[w].off + 1])]
    /\ dirty' = dirty \cup {writer[w].out}
    /\ writer' = [writer EXCEPT ![w].off = @ + 1]
    /\ UNCHANGED << dir, reader, hit >>

\* The end of the temporary file is reached.  A stream that copied nothing has
\* failed, and the answer is false.
CopyEnd(w) ==
    /\ writer[w].pc = "copying" /\ writer[w].off >= Len(disk[writer[w].in])
    /\ writer' = [writer EXCEPT ![w] = IF writer[w].off = 0 THEN Idle
                                       ELSE [@ EXCEPT !.pc = "remove", !.in = None, !.out = None]]
    /\ UNCHANGED << dir, disk, dirty, reader, hit >>

RemoveTmp(w) ==
    /\ writer[w].pc = "remove"
    /\ dir' = [dir EXCEPT !["tmp"] = None]
    /\ Return(w)
    /\ UNCHANGED << disk, dirty, reader, hit >>

-----------------------------------------------------------------------------
(* read_file(file) by r: blocks are read from the inode that was opened.     *)

ReadOpen(r) ==
    /\ reader[r] = Closed /\ dir["file"] # None
    /\ reader' = [reader EXCEPT ![r].in = dir["file"]]
    /\ UNCHANGED << dir, disk, dirty, writer, hit >>

ReadBlock(r) ==
    /\ reader[r].in # None /\ Len(reader[r].got) < Len(disk[reader[r].in])
    /\ reader' = [reader EXCEPT ![r].got = Append(@, disk[reader[r].in][Len(@) + 1])]
    /\ UNCHANGED << dir, disk, dirty, writer, hit >>

ReadEnd(r) ==
    /\ reader[r].in # None /\ Len(reader[r].got) >= Len(disk[reader[r].in])
    /\ reader' = [reader EXCEPT ![r] = Closed]
    /\ UNCHANGED << dir, disk, dirty, writer, hit >>

-----------------------------------------------------------------------------
(* The environment                                                           *)

Kill(w) ==
    /\ "kill" \in Faults /\ writer[w].pc # "idle"
    /\ hit' = hit \cup {"kill"}
    /\ Return(w)
    /\ UNCHANGED << dir, disk, dirty, reader >>

\* The system writes an inode to the disk whenever it likes: nobody calls fsync.
Sync(i) ==
    /\ "power" \in Faults /\ i \in dirty
    /\ dirty' = dirty \ {i}
    /\ UNCHANGED << dir, disk, writer, reader, hit >>

\* Of a dirty inode some leading blocks survive; renames are taken to survive.
PowerLoss ==
    /\ "power" \in Faults /\ hit' = hit \cup {"power"}
    /\ \E kept \in [Inodes -> 0 .. Blocks] :
         /\ \A i \in Inodes : IF i \in dirty THEN kept[i] <= Len(disk[i])
                                             ELSE kept[i] = Len(disk[i])
         /\ disk' = [i \in Inodes |-> SubSeq(disk[i], 1, kept[i])]
    /\ dirty' = {}
    /\ writer' = [w \in Writers |-> Idle]
    /\ reader' = [r \in Readers |-> Closed]
    /\ UNCHANGED dir

Write(w) ==
    \/ \E v \in Values : Start(w, v)
    \/ OpenTmp(w) \/ WriteBlock(w) \/ WriteFails(w) \/ CloseTmp(w)
    \/ Rename(w) \/ RenameFails(w)
    \/ CopyOpen(w) \/ CopyBlock(w) \/ CopyEnd(w) \/ RemoveTmp(w)

Read(r) == ReadOpen(r) \/ ReadBlock(r) \/ ReadEnd(r)

Next ==
    \/ \E w \in Writers : Write(w) \/ Kill(w)
    \/ \E r \in Readers : Read(r)
    \/ \E i \in Inodes : Sync(i)
    \/ PowerLoss

Spec == Init /\ [][Next]_vars

-----------------------------------------------------------------------------
(* Properties                                                                *)

Whole(v) == [k \in 1 .. Blocks |-> v]

\* README.md:40 "atomic writes, crash-safe temp files", README.md:198 "Writes are
\* atomic with temp files and fsync barriers": the file is absent or holds one
\* whole value, whatever happens.
FileIsWhole == dir["file"] # None => \E v \in Values : disk[dir["file"]] = Whole(v)

\* The promise survives killed writers, but nothing else is guarded against.
Voided == hit \ {"kill"} # {}

\* What is read of a file while others replace it belongs to one value, because
\* the replaced inode is never written again.  (read_file against
\* write_file_atomic: readers take no lock.)
ReadsOneValue ==
    ~Voided => \A r \in Readers : \A j, k \in DOMAIN reader[r].got :
                                     reader[r].got[j] = reader[r].got[k]

\* Even when the copy stands in for the rename, a write that answers true has
\* put the whole value in place.  (The fallback branch of write_file_atomic; a
\* full disk goes unnoticed when the stream is closed.)
SuccessMeansStored ==
    [][ \A w \in Writers :
          RemoveTmp(w) \/ Rename(w) =>
            "full" \in hit \/ disk'[dir'["file"]] = Whole(writer[w].val) ]_vars

ContentsNow == IF dir["file"] = None THEN None
               ELSE IF \E v \in Values : disk[dir["file"]] = Whole(v)
                    THEN disk[dir["file"]][1] ELSE Zero

Atomic == INSTANCE AtomicFile WITH
    contents <- ContentsNow,
    pending  <- [w \in Writers |-> writer[w].val],
    voided   <- Voided,
    Nothing  <- None

\* One writer at a time, killed wherever you like, is what AtomicFile promises:
\* the contents change once, in the step that renames; a write that gave up or was
\* killed has left them alone; and a temporary file left behind by a killed writer
\* disturbs no later write.  The first fault other than a kill voids the promise.
RefinesAtomicFile == Atomic!Spec
=============================================================================
