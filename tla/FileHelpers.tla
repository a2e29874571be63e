---------------------------- MODULE FileHelpers -----------------------------
(***************************************************************************)
(* The data-ops helpers of cli.cpp on JSONL files: one command that reads  *)
(* one or more files line by line and writes another, or counts.  backup,  *)
(* dedupe and redact stream into the output they have opened and emptied;  *)
(* normalize, merge, sample and grep gather everything and hand it to      *)
(* atomic_write_all.  validate and report have threaded versions, which    *)
(* run the pool of LineQueue.                                              *)
(*                                                                         *)
(* The process may be killed at any step, a file may fail to open, a       *)
(* rename may fail, and the disk may fill up, which nobody notices: no     *)
(* write and no close is checked.  A stream is buffered: of what was       *)
(* written to it, a killed process or a full disk leaves some first part   *)
(* on the disk (that the part may end within a line is left out).          *)
(***************************************************************************)
EXTENDS LineQueue, SequencesExt, FiniteSetsExt

CONSTANTS
    Paths,      \* names of files
    Contents,   \* what they may hold at first: sequences of lines
    Sizes,      \* sample sizes asked for
    NoFile      \* no file has that name

ASSUME ContentsAssumption == Contents \subseteq Seq(Line) /\ NoFile \notin Seq(Line)
ASSUME PathsAssumption == Paths # {}
ASSUME SizesAssumption == Sizes \subseteq Nat /\ Sizes # {}

VARIABLES
    files,      \* Paths -> lines, or NoFile
    temp,       \* the file named after the pid and the time, or NoFile
    job,        \* the command under way
    before      \* history: files as the command found them

helperVars == << files, temp, job, before >>
vars == << queueVars, helperVars >>

Streaming == {"backup", "dedupe", "redact"}
Gathering == {"normalize", "merge", "sample", "grep"}
Counting == {"report", "validate"}

\* ins: the input files; on: which of them is read; at: its lines read so far;
\* acc: what is written or gathered; seen: the keys met; n: the lines counted;
\* lost (history): the disk was full, and some of what was written is not there.
Job == [cmd : Streaming \cup Gathering \cup Counting \cup {"diff", "none"},
        ins : Seq(Paths), out : Paths, size : Sizes, on : Nat, at : Nat,
        acc : Seq(Line), seen : SUBSET (Line \cup Texts), n : Nat, lost : BOOLEAN,
        phase : {"start", "read", "write", "rename", "pool", "ok", "io", "invalid", "killed"}]

\* Files and jobs have the shape the code gives them.
TypeOK ==
    /\ QueueTypeOK
    /\ files \in [Paths -> Seq(Line) \cup {NoFile}]
    /\ temp \in Seq(Line) \cup {NoFile}
    /\ job \in Job

NoJob == [cmd |-> "none", ins |-> << >>, out |-> CHOOSE p \in Paths : TRUE,
          size |-> CHOOSE s \in Sizes : TRUE, on |-> 1, at |-> 0,
          acc |-> << >>, seen |-> {}, n |-> 0, lost |-> FALSE, phase |-> "start"]

Init ==
    /\ files \in [Paths -> Contents \cup {NoFile}] /\ before = files
    /\ temp = NoFile /\ job = NoJob
    /\ QueueInit

-----------------------------------------------------------------------------
(* Commands on one or more files, step by step                               *)

Asked(cmd, ins, out, size) ==
    [NoJob EXCEPT !.cmd = cmd, !.ins = ins, !.out = out, !.size = size, !.phase = "read"]

\* Opening the output of a stream empties the file, the input too if it is that.
Opened(cmd, out) ==
    IF cmd \in Streaming THEN [files EXCEPT ![out] = << >>] ELSE files

Open(cmd, in, out, size) ==
    /\ job = NoJob /\ cmd \in (Streaming \cup Gathering) \ {"merge"}
    /\ cmd # "sample" => size = NoJob.size
    /\ cmd = "backup" => out # in    \* the name of a backup holds the time
    /\ files[in] # NoFile
    /\ job' = Asked(cmd, << in >>, out, size) /\ files' = Opened(cmd, out)
    /\ UNCHANGED << temp, before, queueVars >>

\* The input, or the output of a stream, cannot be opened.
OpenFails(cmd, in) ==
    /\ job = NoJob /\ cmd \in (Streaming \cup Gathering) \ {"merge"}
    /\ files[in] = NoFile \/ cmd \in Streaming
    /\ job' = [NoJob EXCEPT !.cmd = cmd, !.phase = "io"]
    /\ UNCHANGED << files, temp, before, queueVars >>

\* A file that merge cannot open is skipped.
Readable(p) == IF files[p] = NoFile THEN << >> ELSE << p >>

OpenMerge(a, b, out) ==
    /\ job = NoJob
    /\ job' = Asked("merge", Readable(a) \o Readable(b), out, NoJob.size)
    /\ UNCHANGED << files, temp, before, queueVars >>

Reading == job.phase = "read" /\ job.on <= Len(job.ins)
Source == files[job.ins[job.on]]
NextLine == Source[job.at + 1]

\* The line that was read is done with.
Advanced == [job EXCEPT !.at = @ + 1]
Writing(l) == [Advanced EXCEPT !.acc = Append(@, l)]

\* Mutant of OncePerKey: a key is noted when its line is dropped.
NotedWhenDropped(key) ==
    IF key \in job.seen THEN [Advanced EXCEPT !.seen = @ \cup {key}] ELSE Writing(NextLine)

\* A line is kept unless one with its key was met.
OncePerKey(key) ==
    IF key \in job.seen THEN Advanced
    ELSE [Writing(NextLine) EXCEPT !.seen = @ \cup {key}]

\* Mutant of Reservoir: room for one line more than asked.
ReservoirPlusOne ==
    IF job.n <= job.size
    THEN {[Writing(NextLine) EXCEPT !.n = @ + 1]}
    ELSE {IF j < job.size THEN [Advanced EXCEPT !.acc[j + 1] = NextLine, !.n = @ + 1]
                          ELSE [Advanced EXCEPT !.n = @ + 1] : j \in 0 .. job.n}

\* sample keeps the first lines, then puts a later one in a place drawn at
\* random out of as many as there were lines so far, this one included.
Reservoir ==
    IF job.n < job.size
    THEN {[Writing(NextLine) EXCEPT !.n = @ + 1]}
    ELSE {IF j < job.size THEN [Advanced EXCEPT !.acc[j + 1] = NextLine, !.n = @ + 1]
                          ELSE [Advanced EXCEPT !.n = @ + 1] : j \in 0 .. job.n}

ReadEmpty ==
    /\ Reading /\ job.at < Len(Source) /\ IsEmpty(NextLine)
    /\ job' = IF job.cmd \in {"backup", "normalize"} THEN Writing(NextLine) ELSE Advanced
    /\ UNCHANGED << files, temp, before, queueVars >>

\* A line that cannot be parsed is passed on, grep drops it, and sample and
\* backup do not parse at all.
ReadBroken ==
    /\ Reading /\ job.at < Len(Source) /\ NextLine.form = "broken"
    /\ job.cmd # "sample"
    /\ job' = IF job.cmd = "grep" THEN Advanced ELSE Writing(NextLine)
    /\ UNCHANGED << files, temp, before, queueVars >>

ReadRecord ==
    /\ Reading /\ job.at < Len(Source) /\ Parses(NextLine) /\ job.cmd # "sample"
    /\ job' = CASE job.cmd = "backup" -> Writing(NextLine)
                [] job.cmd = "dedupe" -> OncePerKey(DedupeKey(NextLine))
                [] job.cmd = "merge" -> OncePerKey(MergeKey(NextLine))
                [] job.cmd = "redact" -> Writing(Redacted(NextLine))
                [] job.cmd = "normalize" -> Writing(Normalized(NextLine))
                [] job.cmd = "grep" -> IF Matches(NextLine) THEN Writing(NextLine) ELSE Advanced
    /\ UNCHANGED << files, temp, before, queueVars >>

ReadSample ==
    /\ Reading /\ job.at < Len(Source) /\ ~IsEmpty(NextLine)
    /\ job.cmd = "sample"
    /\ job' \in Reservoir
    /\ UNCHANGED << files, temp, before, queueVars >>

NextFile ==
    /\ Reading /\ job.at = Len(Source)
    /\ job' = [job EXCEPT !.on = @ + 1, !.at = 0]
    /\ UNCHANGED << files, temp, before, queueVars >>

\* The first k of the lines written reach the disk.
OnDisk(k) == SubSeq(job.acc, 1, k)
Short(k) == job.lost \/ k < Len(job.acc)

\* The stream is closed.
CloseStream ==
    /\ job.phase = "read" /\ job.on > Len(job.ins) /\ job.cmd \in Streaming
    /\ \E k \in 0 .. Len(job.acc) :
          /\ files' = [files EXCEPT ![job.out] = OnDisk(k)]
          /\ job' = [job EXCEPT !.phase = "ok", !.lost = Short(k)]
    /\ UNCHANGED << temp, before, queueVars >>

\* What was gathered goes on to atomic_write_all.
GatheredAll ==
    /\ job.phase = "read" /\ job.on > Len(job.ins) /\ job.cmd \notin Streaming
    /\ job' = [job EXCEPT !.phase = "write"]
    /\ UNCHANGED << files, temp, before, queueVars >>

\* Mutant of WriteTemp: the output itself is opened, and emptied.
WriteInPlace ==
    /\ job.phase = "write" /\ temp' = job.acc /\ files' = [files EXCEPT ![job.out] = << >>]
    /\ job' = [job EXCEPT !.phase = "rename"] /\ UNCHANGED << before, queueVars >>

\* The temporary file is opened, written and closed.
WriteTemp ==
    /\ job.phase = "write"
    /\ \E k \in 0 .. Len(job.acc) :
          temp' = OnDisk(k) /\ job' = [job EXCEPT !.phase = "rename", !.lost = Short(k)]
    /\ UNCHANGED << files, before, queueVars >>

RenameTemp ==
    /\ job.phase = "rename"
    /\ files' = [files EXCEPT ![job.out] = temp] /\ temp' = NoFile
    /\ job' = [job EXCEPT !.phase = "ok"] /\ UNCHANGED << before, queueVars >>

\* The temporary file cannot be opened, or not renamed; then it stays.
AtomicWriteFails ==
    /\ job.phase \in {"write", "rename"}
    /\ job' = [job EXCEPT !.phase = "io"]
    /\ UNCHANGED << files, temp, before, queueVars >>

Kill ==
    /\ job.phase \in {"read", "write", "rename", "pool"}
    /\ job' = [job EXCEPT !.phase = "killed"]
    /\ IF job.phase = "read" /\ job.cmd \in Streaming
       THEN \E k \in 0 .. Len(job.acc) : files' = [files EXCEPT ![job.out] = OnDisk(k)]
       ELSE UNCHANGED files
    /\ IF job.phase = "write"
       THEN temp' \in {temp} \cup {OnDisk(k) : k \in 0 .. Len(job.acc)}
       ELSE UNCHANGED temp
    /\ UNCHANGED << before, queueVars >>

-----------------------------------------------------------------------------
(* validate, report and diff                                                 *)

LinesOf(p) == IF files[p] = NoFile THEN << >> ELSE files[p]

Answer(cmd, in, phase) ==
    /\ job = NoJob
    /\ job' = [NoJob EXCEPT !.cmd = cmd, !.ins = << in >>,
                  !.phase = IF files[in] = NoFile THEN "io" ELSE phase,
                  !.n = Cardinality(RecordsIn(LinesOf(in)))]
    /\ UNCHANGED << files, temp, before, queueVars >>

\* The sequential versions; reading the one file is one step.
ValidateInTurn(in) ==
    Answer("validate", in,
           IF \A i \in RecordsIn(LinesOf(in)) : Valid(LinesOf(in)[i])
           THEN "ok" ELSE "invalid")

ReportInTurn(in) == Answer("report", in, "ok")

\* n: the e-mails added; at: those removed.
Diff(a, b) ==
    /\ job = NoJob
    /\ LET A == EmailsIn(LinesOf(a))
           B == EmailsIn(LinesOf(b))
       IN job' = [NoJob EXCEPT !.cmd = "diff", !.ins = << a, b >>, !.phase = "ok",
                     !.n = Cardinality(B \ A), !.at = Cardinality(A \ B)]
    /\ UNCHANGED << files, temp, before, queueVars >>

\* The threaded versions; a file that cannot be opened has no lines.
StartPool(cmd, in, ws) ==
    /\ job = NoJob /\ cmd \in Counting
    /\ job' = [NoJob EXCEPT !.cmd = cmd, !.phase = "pool", !.ins = << in >>]
    /\ UNCHANGED << files, temp, before >>
    /\ StartWorkers(LinesOf(in), ws)

Settle(w) == \/ job.cmd = "validate" /\ Judge(w)
             \/ job.cmd = "report" /\ NoteEmail(w)

\* The worker takes its next step, whatever it is.
Work(w) == Pop(w) \/ Count(w) \/ Settle(w)

PoolStep ==
    /\ job.phase = "pool"
    /\ Push \/ Close \/ \E w \in Threads : Work(w) \/ SpuriousWake(w)
    /\ UNCHANGED helperVars

PrintCounters ==
    /\ job.phase = "pool" /\ Joined
    /\ job' = [job EXCEPT !.phase = IF bad > 0 THEN "invalid" ELSE "ok"]
    /\ UNCHANGED << files, temp, before, queueVars >>

-----------------------------------------------------------------------------

StartCommand ==
    \/ \E cmd \in Streaming \cup Gathering, in, out \in Paths, s \in Sizes :
          Open(cmd, in, out, s)
    \/ \E cmd \in Streaming \cup Gathering, in \in Paths : OpenFails(cmd, in)
    \/ \E in, out \in Paths : OpenMerge(in, out, out)
    \/ \E in \in Paths : ValidateInTurn(in) \/ ReportInTurn(in)
    \/ \E a, b \in Paths : Diff(a, b)
    \/ \E cmd \in Counting, in \in Paths, ws \in Teams : StartPool(cmd, in, ws)

FileStep ==
    \/ ReadEmpty \/ ReadBroken \/ ReadRecord \/ ReadSample \/ NextFile
    \/ CloseStream \/ GatheredAll \/ WriteTemp \/ RenameTemp

Next == StartCommand \/ FileStep \/ AtomicWriteFails \/ Kill \/ PoolStep \/ PrintCounters

\* The operating system lets the process, and each of its threads, run on.
Fairness ==
    /\ WF_vars(FileStep) /\ WF_vars(PrintCounters)
    /\ WF_vars(job.phase = "pool" /\ (Push \/ Close) /\ UNCHANGED helperVars)
    /\ \A w \in Threads : WF_vars(job.phase = "pool" /\ Work(w) /\ UNCHANGED helperVars)

Spec == Init /\ [][Next]_vars /\ Fairness

-----------------------------------------------------------------------------

\* The lines at some places, in order: among the first n lines, and in all.
FirstLinesAt(lines, places) ==
    LET at[n \in 0 .. Len(lines)] == IF n = 0 THEN << >>
                                    ELSE IF n \in places THEN Append(at[n - 1], lines[n])
                                    ELSE at[n - 1]
    IN at

LinesAt(lines, places) == FirstLinesAt(lines, places)[Len(lines)]

Firsts(lines, Key(_)) ==
    {i \in DOMAIN lines : ~IsEmpty(lines[i]) /\
        (Parses(lines[i]) =>
            ~\E j \in 1 .. i - 1 : Parses(lines[j]) /\ Key(lines[j]) = Key(lines[i]))}

\* No command that writes a file reads more than two.
Given(k) == IF k \in DOMAIN job.ins /\ before[job.ins[k]] # NoFile
            THEN before[job.ins[k]] ELSE << >>
Input == Given(1) \o Given(2)
Output == files[job.out]
InPlace == \E k \in DOMAIN job.ins : job.ins[k] = job.out

Finished(cmd) == job.cmd = cmd /\ job.phase = "ok"

\* The output is all that is called for, or a first part when the disk was full.
Holds(lines) ==
    \E k \in 0 .. Len(lines) : Output = SubSeq(lines, 1, k) /\ (~job.lost => k = Len(lines))

\* When a command reports success, its output is what the whole input calls
\* for: dedupe and merge keep the first line of each key and every line that is
\* no JSON, redact leaves no address readable in a record, normalize and grep
\* take each line on its own.  On a full disk it may be a first part of that:
\* nobody checks that the lines were written.  An output that names the input
\* is right for the commands that gather, and not for those that stream.
OutputRight ==
    /\ Finished("backup") => Holds(Input)
    /\ Finished("dedupe") /\ ~InPlace => Holds(LinesAt(Input, Firsts(Input, DedupeKey)))
    /\ Finished("merge") => Holds(LinesAt(Input, Firsts(Input, MergeKey)))
    /\ Finished("redact") /\ ~InPlace =>
          /\ Len(Output) <= Cardinality(RecordsIn(Input))
          /\ ~job.lost => Len(Output) = Cardinality(RecordsIn(Input))
          /\ \A i \in DOMAIN Output : \E t \in Texts :
                Output[i].email \in {Absent, StarEmail[t]}
    /\ Finished("normalize") => Holds([i \in DOMAIN Input |-> Normalized(Input[i])])
    /\ Finished("grep") =>
          Holds(LinesAt(Input, {i \in DOMAIN Input : Parses(Input[i]) /\ Matches(Input[i])}))

\* sample ends with as many records as were asked for, or all there are (on a
\* full disk with no more than that), and takes none more often than the input
\* has it.
SampleRight ==
    Finished("sample") =>
        LET Times(l, s) == Cardinality({i \in DOMAIN s : s[i] = l})
            wanted == Min({job.size, Cardinality(RecordsIn(Input))})
        IN /\ Len(Output) <= wanted /\ (~job.lost => Len(Output) = wanted)
           /\ \A i \in DOMAIN Output :
                 /\ ~IsEmpty(Output[i])
                 /\ Times(Output[i], Output) <= Times(Output[i], Input)

\* However a command ends, it has changed no file but its output; one that
\* gathers has left that as it was unless it reports success.
OthersUntouched ==
    \A p \in Paths : files[p] # before[p] =>
        p = job.out /\ (job.cmd \in Gathering => job.phase = "ok")

\* The threads count as one thread would: no line is lost in the queue, counted
\* twice or judged without being counted, whichever worker gets it.
CountersRight ==
    /\ ok + bad <= count /\ count <= pushed
    /\ job.cmd \in Counting /\ job.phase \in {"ok", "invalid"} /\ team # {} =>
          /\ count = Cardinality(RecordsIn(text))
          /\ job.cmd = "report" => emails = EmailsIn(text)
          /\ job.cmd = "validate" =>
                /\ ok + bad = count
                /\ ok = Cardinality({i \in DOMAIN text : ValidThreaded(text[i])})

\* A command that is not killed comes to its end: no worker sleeps on.
Ends == job # NoJob ~> job.phase \in {"ok", "io", "invalid", "killed"}
=============================================================================
