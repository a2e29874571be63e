-------------------------- MODULE FileHelpersProofs --------------------------
(***************************************************************************)
(* For every set of threads, files and lines: the threaded validate and    *)
(* report count what one thread would count, no helper changes a file but  *)
(* its output, and what it writes there is what it is for.                 *)
(*                                                                         *)
(* CountersRight compares the counters with the file when the threads are  *)
(* done.  On the way there a line may be in the queue, in the hands of a   *)
(* worker that has not counted it, or counted and not judged, so QInv      *)
(* compares, at every step, the counters and what the workers hold with    *)
(* the lines that have been popped: the first ones of the file, because    *)
(* the queue is the stretch of the file that follows them.  That a worker  *)
(* only ends when the queue is closed and empty then makes the popped      *)
(* lines the whole file.                                                   *)
(*                                                                         *)
(* OutputRight and SampleRight compare an output with the whole input when *)
(* a command is done.  Progress says of every moment what a command has    *)
(* made of the part of its input that it has read (ReadSoFar).             *)
(***************************************************************************)
EXTENDS FileHelpers, TLAPS, FiniteSetTheorems, SequenceTheorems, WellFoundedInduction

Popped == pushed - Len(queue)

PoppedRecords == {i \in 1 .. Popped : ~IsEmpty(text[i])}
PoppedValid   == {i \in 1 .. Popped : ValidThreaded(text[i])}
PoppedEmails  == {text[i].email : i \in 1 .. Popped} \ {Absent}

InCount == {w \in Threads : worker[w] = "count"}
InJudge == {w \in Threads : worker[w] = "judge"}
HeldValid == {w \in InCount \cup InJudge : ValidThreaded(task[w])}
HeldEmails == {task[w].email : w \in InCount \cup InJudge} \ {Absent}

\* The queue is the stretch of the file between the popped lines and those that
\* have not been pushed.
Stretch ==
    /\ Len(queue) <= pushed
    /\ \A i \in 1 .. Len(queue) : queue[i] = text[Popped + i]
    /\ done => pushed = Len(text)

\* Only members of the team work, and they end when there is nothing left.
TeamWork ==
    \A w \in Threads :
        /\ w \notin team => worker[w] = "ended"
        /\ w \in team /\ worker[w] = "ended" => done /\ queue = << >>

\* Every record that was popped is counted or about to be.
Counted == count + Cardinality(InCount) = Cardinality(PoppedRecords)

\* Every record that was counted is judged or about to be: by validate as valid
\* or not, by report for its e-mail.
NoneTwice == ok + bad + Cardinality(InJudge) <= count
Judged ==
    /\ ok + bad + Cardinality(InJudge) = count
    /\ ok + Cardinality(HeldValid) = Cardinality(PoppedValid)
Noted == emails \cup HeldEmails = PoppedEmails

QInv ==
    /\ QueueTypeOK /\ Stretch /\ TeamWork /\ Counted /\ NoneTwice
    /\ job.cmd = "validate" => Judged
    /\ job.cmd = "report" => Noted

\* How far a command has come says what it is.
Stages ==
    /\ job = NoJob => QueueInit /\ files = before
    /\ job.phase = "read" => job.cmd \in Streaming \cup Gathering
    /\ job.phase \in {"write", "rename"} => job.cmd \in Gathering
    /\ job.phase = "pool" => job.cmd \in Counting
    /\ job.cmd \in Counting /\ job.phase \in {"ok", "invalid"} /\ team # {} => Joined

\* What a command reads is there.
Inputs ==
    /\ job.on >= 1
    /\ job.phase = "read" => \A k \in DOMAIN job.ins : files[job.ins[k]] # NoFile

\* What has been done to the files so far.
Touched ==
    \A p \in Paths : files[p] # before[p] =>
        /\ p = job.out /\ job.cmd \in Streaming \cup Gathering
        /\ job.cmd \in Gathering => job.phase = "ok"

FilesTyped ==
    /\ files \in [Paths -> Seq(Line) \cup {NoFile}]
    /\ temp \in Seq(Line) \cup {NoFile}
    /\ job \in Job

FInv == FilesTyped /\ Stages /\ Inputs /\ Touched

IInv == QInv /\ FInv

-----------------------------------------------------------------------------
(* Lines.                                                                    *)

(* A line without a character has no e-mail and is not valid.                *)
LEMMA LineFacts ==
    ASSUME NEW l \in Line
    PROVE  /\ l.email \in Fields /\ l.name \in Fields /\ l.phone \in Fields
           /\ IsEmpty(l) => l.email = Absent
  BY DEF Line, Bare, Fields, IsEmpty

LEMMA ValidLines == \A l : ValidThreaded(l) => ~IsEmpty(l)
  BY DEF ValidThreaded, Parses, IsEmpty

-----------------------------------------------------------------------------
(* The queue and its workers.                                                *)

(* The sets that are counted are finite.                                     *)
LEMMA CountedSets ==
    ASSUME QueueTypeOK
    PROVE  /\ Popped \in Int
           /\ IsFiniteSet(PoppedRecords) /\ IsFiniteSet(PoppedValid)
           /\ IsFiniteSet(InCount) /\ IsFiniteSet(InJudge) /\ IsFiniteSet(HeldValid)
  <1>1. Popped \in Int
    BY LenProperties DEF Popped, QueueTypeOK
  <1>2. IsFiniteSet(1 .. Popped) /\ IsFiniteSet(Threads)
    BY <1>1, FS_Interval, TeamsAssumption
  <1>3. /\ PoppedRecords \in SUBSET (1 .. Popped) /\ PoppedValid \in SUBSET (1 .. Popped)
        /\ InCount \in SUBSET Threads /\ InJudge \in SUBSET Threads
        /\ HeldValid \in SUBSET Threads
    BY DEF PoppedRecords, PoppedValid, InCount, InJudge, HeldValid
  <1>4. QED
    BY <1>1, <1>2, <1>3, FS_Subset

(* Before the workers start there is nothing to count.                       *)
LEMMA NothingYet ==
    ASSUME QueueInit
    PROVE  QueueTypeOK /\ Stretch /\ TeamWork /\ Counted /\ NoneTwice /\ Judged /\ Noted
  <1>1. /\ text = << >> /\ queue = << >> /\ pushed = 0 /\ done = FALSE /\ team = {}
        /\ count = 0 /\ ok = 0 /\ bad = 0 /\ emails = {}
        /\ \A w \in Threads : worker[w] = "ended"
    BY DEF QueueInit
  <1>2. QueueTypeOK
    <2>1. Bare("empty") \in Line
      BY DEF Line
    <2>2. << >> \in Seq(Line) /\ Len(<< >>) = 0
      BY EmptySeq
    <2>3. worker \in [Threads -> {"ended"}] /\ task \in [Threads -> Line]
      BY <2>1 DEF QueueInit
    <2>4. text \in Seq(Line) /\ pushed \in 0 .. Len(text) /\ queue \in Seq(Line)
      BY <1>1, <2>2
    <2>5. QED
      BY <1>1, <2>3, <2>4 DEF QueueTypeOK
  <1>3. Popped = 0
    <2>1. Len(queue) = 0 /\ pushed = 0
      BY <1>1
    <2>2. QED
      BY <2>1 DEF Popped
  <1>4. PoppedRecords = {} /\ PoppedValid = {} /\ PoppedEmails = {}
    BY <1>3 DEF PoppedRecords, PoppedValid, PoppedEmails
  <1>5. InCount = {} /\ InJudge = {}
    BY <1>1 DEF InCount, InJudge
  <1>6. HeldValid = {} /\ HeldEmails = {}
    BY <1>5 DEF HeldValid, HeldEmails
  <1>7. QED
    BY <1>1, <1>2, <1>4, <1>5, <1>6, FS_EmptySet, EmptySeq
       DEF Stretch, TeamWork, Counted, NoneTwice, Judged, Noted

(* The workers start with the file, and nothing of it popped.                *)
LEMMA StartStep ==
    ASSUME QueueInit, NEW lines \in Seq(Line), NEW ws \in Teams, StartWorkers(lines, ws)
    PROVE  QueueTypeOK' /\ Stretch' /\ TeamWork' /\ Counted' /\ NoneTwice' /\ Judged' /\ Noted'
  <1>1. /\ text' = lines /\ queue' = << >> /\ pushed' = 0 /\ done' = FALSE /\ team' = ws
        /\ count' = 0 /\ ok' = 0 /\ bad' = 0 /\ emails' = {} /\ task' = task
        /\ \A w \in Threads : worker'[w] = IF w \in ws THEN "pop" ELSE "ended"
    BY DEF QueueInit, StartWorkers
  <1>2. QueueTypeOK'
    <2>1. Bare("empty") \in Line
      BY DEF Line
    <2>2. << >> \in Seq(Line) /\ Len(lines) \in Nat
      BY EmptySeq, LenProperties
    <2>3. ws \subseteq Threads
      BY TeamsAssumption
    <2>4. worker' \in [Threads -> {"pop", "ended"}]
      BY DEF StartWorkers
    <2>5. task' \in [Threads -> Line]
      BY <1>1, <2>1 DEF QueueInit
    <2>6. text' \in Seq(Line) /\ pushed' \in 0 .. Len(text') /\ queue' \in Seq(Line)
      BY <1>1, <2>2
    <2>7. QED
      BY <1>1, <2>3, <2>4, <2>5, <2>6 DEF QueueTypeOK
  <1>3. Popped' = 0
    <2>1. Len(queue') = 0 /\ pushed' = 0
      BY <1>1
    <2>2. QED
      BY <2>1 DEF Popped
  <1>4. PoppedRecords' = {} /\ PoppedValid' = {} /\ PoppedEmails' = {}
    BY <1>3 DEF PoppedRecords, PoppedValid, PoppedEmails
  <1>5. InCount' = {} /\ InJudge' = {}
    BY <1>1 DEF InCount, InJudge
  <1>6. HeldValid' = {} /\ HeldEmails' = {}
    BY <1>5 DEF HeldValid, HeldEmails
  <1>7. QED
    BY <1>1, <1>2, <1>4, <1>5, <1>6, FS_EmptySet, EmptySeq
       DEF Stretch, TeamWork, Counted, NoneTwice, Judged, Noted

(* Waking sleepers changes nothing that is counted.                          *)
LEMMA WakeFacts ==
    ASSUME QueueTypeOK, NEW ws \in SUBSET Asleep, Wake(ws), UNCHANGED task
    PROVE  /\ worker' \in [Threads -> {"pop", "asleep", "count", "judge", "ended"}]
           /\ \A w \in Threads : worker'[w] = "ended" <=> worker[w] = "ended"
           /\ InCount' = InCount /\ InJudge' = InJudge
           /\ HeldValid' = HeldValid /\ HeldEmails' = HeldEmails
  <1>1. \A w \in Threads : worker'[w] = IF w \in ws THEN "pop" ELSE worker[w]
    BY DEF Wake
  <1>2. \A w \in ws : w \in Threads /\ worker[w] = "asleep"
    BY DEF Asleep
  <1>3. InCount' = InCount /\ InJudge' = InJudge
    BY <1>1, <1>2 DEF InCount, InJudge
  <1>4. HeldValid' = HeldValid /\ HeldEmails' = HeldEmails
    BY <1>3 DEF HeldValid, HeldEmails
  <1>5. worker' \in [Threads -> {"pop", "asleep", "count", "judge", "ended"}]
    BY DEF Wake, QueueTypeOK
  <1>6. QED
    BY <1>1, <1>2, <1>3, <1>4, <1>5

(* So does telling one worker, which there may not be.                       *)
LEMMA NotifyFacts ==
    ASSUME QueueTypeOK, NotifyOne \/ NotifyAll, UNCHANGED task
    PROVE  /\ worker' \in [Threads -> {"pop", "asleep", "count", "judge", "ended"}]
           /\ \A w \in Threads : worker'[w] = "ended" <=> worker[w] = "ended"
           /\ InCount' = InCount /\ InJudge' = InJudge
           /\ HeldValid' = HeldValid /\ HeldEmails' = HeldEmails
  <1>1. CASE worker' = worker
    BY <1>1 DEF QueueTypeOK, InCount, InJudge, HeldValid, HeldEmails
  <1>2. CASE \E ws \in SUBSET Asleep : Wake(ws)
    BY <1>2, WakeFacts
  <1>3. QED
    BY <1>1, <1>2 DEF NotifyOne, NotifyAll

(* A push lengthens the stretch at its end.                                  *)
LEMMA PushStep ==
    ASSUME QInv, Push, UNCHANGED job
    PROVE  QInv'
  <1>1. /\ QueueTypeOK /\ Stretch /\ TeamWork
        /\ text \in Seq(Line) /\ queue \in Seq(Line) /\ Len(text) \in Nat /\ Len(queue) \in Nat
        /\ pushed \in Nat /\ Len(queue) <= pushed
    BY LenProperties DEF QInv, QueueTypeOK, Stretch
  <1>2. /\ ~done /\ pushed < Len(text) /\ queue' = Append(queue, text[pushed + 1])
        /\ pushed' = pushed + 1 /\ done' = done /\ text' = text /\ team' = team /\ task' = task
        /\ count' = count /\ ok' = ok /\ bad' = bad /\ emails' = emails
    BY DEF Push
  <1>3. /\ worker' \in [Threads -> {"pop", "asleep", "count", "judge", "ended"}]
        /\ \A w \in Threads : worker'[w] = "ended" <=> worker[w] = "ended"
        /\ InCount' = InCount /\ InJudge' = InJudge
        /\ HeldValid' = HeldValid /\ HeldEmails' = HeldEmails
    BY <1>1, <1>2, NotifyFacts DEF Push
  <1>4. text[pushed + 1] \in Line
    BY <1>1, <1>2, ElementOfSeq
  <1>5. /\ queue' \in Seq(Line) /\ Len(queue') = Len(queue) + 1
        /\ queue'[Len(queue) + 1] = text[pushed + 1]
        /\ \A i \in 1 .. Len(queue) : queue'[i] = queue[i]
    BY <1>1, <1>2, <1>4, AppendProperties
  <1>6. Popped' = Popped
    BY <1>1, <1>2, <1>5 DEF Popped
  <1>7. QueueTypeOK'
    BY <1>1, <1>2, <1>3, <1>5 DEF QueueTypeOK
  <1>8. Stretch'
    <2>1. \A i \in 1 .. Len(queue) : queue[i] = text[Popped + i]
      BY <1>1 DEF Stretch
    <2>2. Popped + (Len(queue) + 1) = pushed + 1
      BY <1>1 DEF Popped
    <2>3. ASSUME NEW i \in 1 .. Len(queue')
          PROVE  queue'[i] = text'[Popped' + i]
      <3>1. CASE i = Len(queue) + 1
        BY <1>2, <1>5, <1>6, <2>2, <3>1
      <3>2. CASE i # Len(queue) + 1
        <4>1. i \in 1 .. Len(queue)
          BY <1>1, <1>5, <3>2
        <4>2. QED
          BY <1>2, <1>5, <1>6, <2>1, <4>1
      <3>3. QED
        BY <3>1, <3>2
    <2>4. QED
      BY <1>1, <1>2, <1>5, <2>3 DEF Stretch
  <1>9. TeamWork'
    BY <1>1, <1>2, <1>3 DEF TeamWork
  <1>10. /\ PoppedRecords' = PoppedRecords /\ PoppedValid' = PoppedValid
         /\ PoppedEmails' = PoppedEmails
    BY <1>2, <1>6 DEF PoppedRecords, PoppedValid, PoppedEmails
  <1>11. QED
    BY <1>2, <1>3, <1>7, <1>8, <1>9, <1>10 DEF QInv, Counted, NoneTwice, Judged, Noted

(* The queue is closed when the whole file has been pushed.                  *)
LEMMA CloseStep ==
    ASSUME QInv, Close, UNCHANGED job
    PROVE  QInv'
  <1>1. QueueTypeOK /\ Stretch /\ TeamWork
    BY DEF QInv
  <1>2. /\ ~done /\ pushed = Len(text) /\ done' = TRUE /\ queue' = queue /\ pushed' = pushed
        /\ text' = text /\ team' = team /\ task' = task
        /\ count' = count /\ ok' = ok /\ bad' = bad /\ emails' = emails
    BY DEF Close
  <1>3. /\ worker' \in [Threads -> {"pop", "asleep", "count", "judge", "ended"}]
        /\ \A w \in Threads : worker'[w] = "ended" <=> worker[w] = "ended"
        /\ InCount' = InCount /\ InJudge' = InJudge
        /\ HeldValid' = HeldValid /\ HeldEmails' = HeldEmails
    BY <1>1, <1>2, NotifyFacts DEF Close
  <1>4. QueueTypeOK' /\ Stretch' /\ TeamWork'
    BY <1>1, <1>2, <1>3 DEF QueueTypeOK, Stretch, TeamWork, Popped
  <1>5. /\ PoppedRecords' = PoppedRecords /\ PoppedValid' = PoppedValid
        /\ PoppedEmails' = PoppedEmails
    BY <1>2 DEF PoppedRecords, PoppedValid, PoppedEmails, Popped
  <1>6. QED
    BY <1>2, <1>3, <1>4, <1>5 DEF QInv, Counted, NoneTwice, Judged, Noted

(* A worker wakes up unasked.                                                *)
LEMMA SpuriousStep ==
    ASSUME QInv, NEW w \in Threads, SpuriousWake(w), UNCHANGED job
    PROVE  QInv'
  <1>1. QueueTypeOK /\ Stretch /\ TeamWork
    BY DEF QInv
  <1>2. /\ done' = done /\ queue' = queue /\ pushed' = pushed
        /\ text' = text /\ team' = team /\ task' = task
        /\ count' = count /\ ok' = ok /\ bad' = bad /\ emails' = emails
    BY DEF SpuriousWake
  <1>3. {w} \in SUBSET Asleep /\ Wake({w})
    BY DEF SpuriousWake
  <1>4. /\ worker' \in [Threads -> {"pop", "asleep", "count", "judge", "ended"}]
        /\ \A v \in Threads : worker'[v] = "ended" <=> worker[v] = "ended"
        /\ InCount' = InCount /\ InJudge' = InJudge
        /\ HeldValid' = HeldValid /\ HeldEmails' = HeldEmails
    BY <1>1, <1>2, <1>3, WakeFacts
  <1>5. QueueTypeOK' /\ Stretch' /\ TeamWork'
    BY <1>1, <1>2, <1>4 DEF QueueTypeOK, Stretch, TeamWork, Popped
  <1>6. /\ PoppedRecords' = PoppedRecords /\ PoppedValid' = PoppedValid
        /\ PoppedEmails' = PoppedEmails
    BY <1>2 DEF PoppedRecords, PoppedValid, PoppedEmails, Popped
  <1>7. QED
    BY <1>2, <1>4, <1>5, <1>6 DEF QInv, Counted, NoneTwice, Judged, Noted
(* Popping a line: it is the next one of the file, and it is in the hands of *)
(* the worker that popped it unless it is empty.                             *)
LEMMA TakeFacts ==
    ASSUME QueueTypeOK, Stretch, NEW w \in Threads, worker[w] = "pop", Take(w),
           UNCHANGED << text, pushed >>
    PROVE  LET h == text[Popped + 1]
           IN  /\ Popped \in Nat /\ Popped' = Popped + 1
               /\ queue' \in Seq(Line) /\ Len(queue') = Len(queue) - 1 /\ queue # << >>
               /\ \A i \in 1 .. Len(queue') : queue'[i] = text[Popped + 1 + i]
               /\ h \in Line
               /\ task' = [task EXCEPT ![w] = h]
               /\ worker' = [worker EXCEPT ![w] = IF IsEmpty(h) THEN "pop" ELSE "count"]
  <1>1. /\ text \in Seq(Line) /\ queue \in Seq(Line) /\ Len(text) \in Nat /\ Len(queue) \in Nat
        /\ pushed \in 0 .. Len(text) /\ Len(queue) <= pushed
        /\ \A i \in 1 .. Len(queue) : queue[i] = text[Popped + i]
    BY LenProperties DEF QueueTypeOK, Stretch
  <1>2. /\ queue # << >> /\ queue' = Tail(queue)
        /\ task' = [task EXCEPT ![w] = Head(queue)]
        /\ worker' = [worker EXCEPT ![w] = IF IsEmpty(Head(queue)) THEN "pop" ELSE "count"]
    BY DEF Take
  <1>3. /\ Head(queue) = queue[1] /\ Tail(queue) \in Seq(Line)
        /\ Len(queue) >= 1 /\ Len(queue') = Len(queue) - 1
        /\ \A i \in 1 .. Len(queue) - 1 : queue'[i] = queue[i + 1]
    BY <1>1, <1>2, HeadTailProperties, EmptySeq
  <1>4. Popped \in Nat /\ Popped' = Popped + 1
    BY <1>1, <1>3 DEF Popped
  <1>5. Head(queue) = text[Popped + 1]
    BY <1>1, <1>3
  <1>6. Head(queue) \in Line
    BY <1>1, <1>3, ElementOfSeq
  <1>7. ASSUME NEW i \in 1 .. Len(queue')
        PROVE  queue'[i] = text[Popped + 1 + i]
    <2>1. i \in 1 .. Len(queue) - 1 /\ i + 1 \in 1 .. Len(queue)
      BY <1>1, <1>3
    <2>2. queue'[i] = text[Popped + (i + 1)]
      BY <1>1, <1>3, <2>1
    <2>3. Popped + (i + 1) = Popped + 1 + i
      BY <1>4
    <2>4. QED
      BY <2>2, <2>3
  <1>8. QED
    BY <1>2, <1>3, <1>4, <1>5, <1>6, <1>7

(* What has been popped grows by that line.                                  *)
LEMMA TakenLine ==
    ASSUME Popped \in Nat, Popped' = Popped + 1, text' = text, text[Popped + 1] \in Line
    PROVE  LET n == Popped + 1
           IN  /\ n \notin PoppedRecords /\ n \notin PoppedValid
               /\ PoppedRecords' = IF IsEmpty(text[n]) THEN PoppedRecords
                                                       ELSE PoppedRecords \cup {n}
               /\ PoppedValid' = IF ValidThreaded(text[n]) THEN PoppedValid \cup {n}
                                                           ELSE PoppedValid
               /\ PoppedEmails' = PoppedEmails \cup ({text[n].email} \ {Absent})
  <1> DEFINE n == Popped + 1
  <1>1. 1 .. Popped' = (1 .. Popped) \cup {n} /\ n \notin 1 .. Popped
    OBVIOUS
  <1> HIDE DEF n
  <1>2. /\ n \notin PoppedRecords
        /\ PoppedRecords' = IF IsEmpty(text[n]) THEN PoppedRecords ELSE PoppedRecords \cup {n}
    BY <1>1 DEF PoppedRecords
  <1>3. /\ n \notin PoppedValid
        /\ PoppedValid' = IF ValidThreaded(text[n]) THEN PoppedValid \cup {n} ELSE PoppedValid
    BY <1>1 DEF PoppedValid
  <1>4. PoppedEmails' = PoppedEmails \cup ({text[n].email} \ {Absent})
    BY <1>1 DEF PoppedEmails
  <1>5. QED
    BY <1>2, <1>3, <1>4 DEF n

(* What is held changes by what the worker does with it.                     *)
LEMMA HeldLine ==
    ASSUME QueueTypeOK, NEW w \in Threads, worker[w] = "pop", NEW h \in Line,
           task' = [task EXCEPT ![w] = h],
           worker' = [worker EXCEPT ![w] = IF IsEmpty(h) THEN "pop" ELSE "count"]
    PROVE  /\ w \notin InCount /\ w \notin HeldValid /\ InJudge' = InJudge
           /\ InCount' = IF IsEmpty(h) THEN InCount ELSE InCount \cup {w}
           /\ HeldValid' = IF ValidThreaded(h) THEN HeldValid \cup {w} ELSE HeldValid
           /\ HeldEmails' = HeldEmails \cup ({h.email} \ {Absent})
  <1>1. /\ \A v \in Threads : worker'[v] = IF v # w THEN worker[v]
                                           ELSE IF IsEmpty(h) THEN "pop" ELSE "count"
        /\ \A v \in Threads : task'[v] = IF v = w THEN h ELSE task[v]
    BY DEF QueueTypeOK
  <1>2. /\ w \notin InCount /\ w \notin InJudge /\ w \notin HeldValid
        /\ InCount \subseteq Threads /\ InJudge \subseteq Threads
    BY DEF InCount, InJudge, HeldValid
  <1>3. InJudge' = InJudge
    BY <1>1 DEF InJudge
  <1>4. InCount' = IF IsEmpty(h) THEN InCount ELSE InCount \cup {w}
    BY <1>1 DEF InCount
  <1>5. HeldValid' = IF ValidThreaded(h) THEN HeldValid \cup {w} ELSE HeldValid
    BY <1>1, <1>2, <1>3, <1>4, ValidLines DEF HeldValid
  <1>6. HeldEmails' = HeldEmails \cup ({h.email} \ {Absent})
    <2>1. \A v \in InCount \cup InJudge : task'[v] = task[v]
      BY <1>1, <1>2
    <2>2. CASE IsEmpty(h)
      <3>1. {h.email} \ {Absent} = {}
        BY <2>2, LineFacts
      <3>2. HeldEmails' = HeldEmails
        BY <1>3, <1>4, <2>1, <2>2 DEF HeldEmails
      <3>3. QED
        BY <3>1, <3>2
    <2>3. CASE ~IsEmpty(h)
      <3>1. (InCount \cup InJudge)' = (InCount \cup InJudge) \cup {w}
        BY <1>3, <1>4, <2>3
      <3>2. {task'[v].email : v \in (InCount \cup InJudge)'}
              = {task[v].email : v \in InCount \cup InJudge} \cup {h.email}
        BY <1>1, <2>1, <3>1
      <3>3. QED
        BY <3>2 DEF HeldEmails
    <2>4. QED
      BY <2>2, <2>3
  <1>7. QED
    BY <1>2, <1>3, <1>4, <1>5, <1>6

LEMMA TakeStep ==
    ASSUME QInv, NEW w \in Threads, worker[w] = "pop", Take(w),
           UNCHANGED << text, pushed, done, team, count, ok, bad, emails, job >>
    PROVE  QInv'
  <1> DEFINE n == Popped + 1
             h == text[n]
  <1>1. QueueTypeOK /\ Stretch /\ TeamWork
    BY DEF QInv
  <1>2. /\ Popped \in Nat /\ Popped' = n
        /\ queue' \in Seq(Line) /\ Len(queue') = Len(queue) - 1 /\ queue # << >>
        /\ \A i \in 1 .. Len(queue') : queue'[i] = text[n + i]
        /\ h \in Line
        /\ task' = [task EXCEPT ![w] = h]
        /\ worker' = [worker EXCEPT ![w] = IF IsEmpty(h) THEN "pop" ELSE "count"]
    BY <1>1, TakeFacts
  <1>3. /\ n \notin PoppedRecords /\ n \notin PoppedValid
        /\ PoppedRecords' = IF IsEmpty(h) THEN PoppedRecords ELSE PoppedRecords \cup {n}
        /\ PoppedValid' = IF ValidThreaded(h) THEN PoppedValid \cup {n} ELSE PoppedValid
        /\ PoppedEmails' = PoppedEmails \cup ({h.email} \ {Absent})
    BY <1>2, TakenLine
  <1> HIDE DEF n, h
  <1>4. /\ w \notin InCount /\ w \notin HeldValid /\ InJudge' = InJudge
        /\ InCount' = IF IsEmpty(h) THEN InCount ELSE InCount \cup {w}
        /\ HeldValid' = IF ValidThreaded(h) THEN HeldValid \cup {w} ELSE HeldValid
        /\ HeldEmails' = HeldEmails \cup ({h.email} \ {Absent})
    BY <1>1, <1>2, HeldLine
  <1>5. QueueTypeOK'
    BY <1>1, <1>2 DEF QueueTypeOK
  <1>6. Stretch'
    <2>1. Len(queue) \in Nat /\ pushed \in Nat
      BY <1>1, LenProperties DEF QueueTypeOK
    <2>2. QED
      BY <1>1, <1>2, <2>1 DEF Stretch
  <1>7. TeamWork'
    <2>1. \A v \in Threads : v # w => worker'[v] = worker[v]
      BY <1>1, <1>2 DEF QueueTypeOK
    <2>2. worker'[w] # "ended" /\ w \in team
      BY <1>1, <1>2 DEF QueueTypeOK, TeamWork
    <2>3. QED
      BY <1>1, <1>2, <2>1, <2>2 DEF TeamWork
  <1>8. /\ IsFiniteSet(PoppedRecords) /\ IsFiniteSet(PoppedValid)
        /\ IsFiniteSet(InCount) /\ IsFiniteSet(InJudge) /\ IsFiniteSet(HeldValid)
    BY <1>1, CountedSets
  <1>9. /\ Cardinality(InCount) \in Nat /\ Cardinality(PoppedRecords) \in Nat
        /\ Cardinality(HeldValid) \in Nat /\ Cardinality(PoppedValid) \in Nat
        /\ count \in Nat /\ ok \in Nat
    BY <1>1, <1>8, FS_CardinalityType DEF QueueTypeOK
  <1>10. Counted'
    <2>1. count + Cardinality(InCount) = Cardinality(PoppedRecords)
      BY DEF QInv, Counted
    <2>2. CASE IsEmpty(h)
      BY <1>3, <1>4, <2>1, <2>2 DEF Counted
    <2>3. CASE ~IsEmpty(h)
      <3>1. /\ Cardinality(InCount') = Cardinality(InCount) + 1
            /\ Cardinality(PoppedRecords') = Cardinality(PoppedRecords) + 1
        BY <1>3, <1>4, <1>8, <2>3, FS_AddElement
      <3>2. QED
        BY <1>9, <2>1, <3>1 DEF Counted
    <2>4. QED
      BY <2>2, <2>3
  <1>11. NoneTwice'
    BY <1>4 DEF QInv, NoneTwice
  <1>12. ASSUME Judged
         PROVE  Judged'
    <2>1. CASE ValidThreaded(h)
      <3>1. /\ Cardinality(HeldValid') = Cardinality(HeldValid) + 1
            /\ Cardinality(PoppedValid') = Cardinality(PoppedValid) + 1
        BY <1>3, <1>4, <1>8, <2>1, FS_AddElement
      <3>2. QED
        BY <1>4, <1>9, <1>12, <3>1 DEF Judged
    <2>2. CASE ~ValidThreaded(h)
      BY <1>3, <1>4, <1>12, <2>2 DEF Judged
    <2>3. QED
      BY <2>1, <2>2
  <1>13. Noted => Noted'
    BY <1>3, <1>4 DEF Noted
  <1>14. QED
    BY <1>5, <1>6, <1>7, <1>10, <1>11, <1>12, <1>13 DEF QInv

(* A worker that finds the queue empty leaves nothing behind.                *)
LEMMA PopStep ==
    ASSUME QInv, NEW w \in Threads, Pop(w), UNCHANGED job
    PROVE  QInv'
  <1>1. QueueTypeOK /\ Stretch /\ TeamWork /\ worker[w] = "pop"
    BY DEF QInv, Pop
  <1>2. UNCHANGED << text, pushed, done, team, count, ok, bad, emails, job >>
    BY DEF Pop
  <1>3. CASE Take(w)
    BY <1>1, <1>2, <1>3, TakeStep
  <1>4. CASE LeaveQueue(w) \/ Sleep(w)
    <2>1. PICK stage \in {"ended", "asleep"} :
            /\ worker' = [worker EXCEPT ![w] = stage] /\ queue' = queue /\ task' = task
            /\ stage = "ended" => queue = << >> /\ done
      BY <1>4 DEF LeaveQueue, Sleep
    <2>2. \A v \in Threads : worker'[v] = IF v = w THEN stage ELSE worker[v]
      BY <1>1, <2>1 DEF QueueTypeOK
    <2>3. InCount' = InCount /\ InJudge' = InJudge
      BY <1>1, <2>2 DEF InCount, InJudge
    <2>4. HeldValid' = HeldValid /\ HeldEmails' = HeldEmails
      BY <2>1, <2>3 DEF HeldValid, HeldEmails
    <2>5. QueueTypeOK' /\ Stretch'
      BY <1>1, <1>2, <2>1 DEF QueueTypeOK, Stretch, Popped
    <2>6. TeamWork'
      BY <1>1, <1>2, <2>1, <2>2 DEF TeamWork
    <2>7. /\ PoppedRecords' = PoppedRecords /\ PoppedValid' = PoppedValid
          /\ PoppedEmails' = PoppedEmails
      BY <1>2, <2>1 DEF PoppedRecords, PoppedValid, PoppedEmails, Popped
    <2>8. QED
      BY <1>2, <2>3, <2>4, <2>5, <2>6, <2>7 DEF QInv, Counted, NoneTwice, Judged, Noted
  <1>5. QED
    BY <1>3, <1>4 DEF Pop

(* A record is counted, and its worker has still to judge it.                *)
LEMMA CountStep ==
    ASSUME QInv, NEW w \in Threads, Count(w), UNCHANGED job
    PROVE  QInv'
  <1>1. QueueTypeOK /\ Stretch /\ TeamWork
    BY DEF QInv
  <1>2. /\ worker[w] = "count" /\ count' = count + 1
        /\ worker' = [worker EXCEPT ![w] = "judge"]
        /\ UNCHANGED << text, pushed, queue, done, team, task, ok, bad, emails >>
    BY DEF Count
  <1>3. \A v \in Threads : worker'[v] = IF v = w THEN "judge" ELSE worker[v]
    BY <1>1, <1>2 DEF QueueTypeOK
  <1>4. /\ InCount' = InCount \ {w} /\ w \in InCount
        /\ InJudge' = InJudge \cup {w} /\ w \notin InJudge
    BY <1>2, <1>3 DEF InCount, InJudge
  <1>5. InCount' \cup InJudge' = InCount \cup InJudge
    BY <1>4
  <1>6. HeldValid' = HeldValid /\ HeldEmails' = HeldEmails
    BY <1>2, <1>5 DEF HeldValid, HeldEmails
  <1>7. QueueTypeOK' /\ Stretch' /\ TeamWork'
    BY <1>1, <1>2, <1>3 DEF QueueTypeOK, Stretch, TeamWork, Popped
  <1>8. /\ PoppedRecords' = PoppedRecords /\ PoppedValid' = PoppedValid
        /\ PoppedEmails' = PoppedEmails
    BY <1>2 DEF PoppedRecords, PoppedValid, PoppedEmails, Popped
  <1>9. /\ Cardinality(InCount') = Cardinality(InCount) - 1
        /\ Cardinality(InJudge') = Cardinality(InJudge) + 1
        /\ Cardinality(InCount) \in Nat /\ Cardinality(InJudge) \in Nat
        /\ Cardinality(PoppedRecords) \in Nat
        /\ count \in Nat /\ ok \in Nat /\ bad \in Nat
    BY <1>1, <1>4, CountedSets, FS_AddElement, FS_RemoveElement, FS_CardinalityType DEF QueueTypeOK
  <1>10. Counted' /\ NoneTwice'
    BY <1>2, <1>8, <1>9 DEF QInv, Counted, NoneTwice
  <1>11. ASSUME Judged
         PROVE  Judged'
    <2>1. ok + bad + Cardinality(InJudge) = count
      BY <1>11 DEF Judged
    <2>2. ok' + bad' + Cardinality(InJudge') = count'
      BY <1>2, <1>9, <2>1
    <2>3. QED
      BY <1>2, <1>6, <1>8, <1>11, <2>2 DEF Judged
  <1>12. Noted => Noted'
    BY <1>2, <1>6, <1>8 DEF Noted
  <1>13. QED
    BY <1>7, <1>10, <1>11, <1>12 DEF QInv

(* A record that is judged or noted leaves the hands of its worker.          *)
LEMMA ReleaseFacts ==
    ASSUME QueueTypeOK, NEW w \in Threads, worker[w] = "judge",
           worker' = [worker EXCEPT ![w] = "pop"],
           UNCHANGED << text, pushed, queue, done, team, task, count >>
    PROVE  /\ InCount' = InCount
           /\ Cardinality(InJudge') = Cardinality(InJudge) - 1
           /\ Cardinality(HeldValid') = IF ValidThreaded(task[w]) THEN Cardinality(HeldValid) - 1
                                                                  ELSE Cardinality(HeldValid)
           /\ HeldEmails = HeldEmails' \cup ({task[w].email} \ {Absent})
           /\ Stretch => Stretch'
           /\ TeamWork => TeamWork'
           /\ PoppedRecords' = PoppedRecords /\ PoppedValid' = PoppedValid
           /\ PoppedEmails' = PoppedEmails
           /\ Cardinality(InJudge) \in Nat /\ Cardinality(HeldValid) \in Nat
           /\ Cardinality(PoppedValid) \in Nat
  <1>1. \A v \in Threads : worker'[v] = IF v = w THEN "pop" ELSE worker[v]
    BY DEF QueueTypeOK
  <1>2. InCount' = InCount /\ InJudge' = InJudge \ {w} /\ w \in InJudge /\ w \notin InCount
    BY <1>1 DEF InCount, InJudge
  <1>3. HeldValid' = HeldValid \ {w} /\ (w \in HeldValid <=> ValidThreaded(task[w]))
    BY <1>2 DEF HeldValid
  <1>4. HeldEmails = HeldEmails' \cup ({task[w].email} \ {Absent})
    <2>1. InCount \cup InJudge = (InCount' \cup InJudge') \cup {w}
      BY <1>2
    <2>2. {task[v].email : v \in InCount \cup InJudge}
            = {task[v].email : v \in InCount' \cup InJudge'} \cup {task[w].email}
      BY <2>1
    <2>3. QED
      BY <2>2 DEF HeldEmails
  <1>5. Stretch => Stretch'
    BY DEF Stretch, Popped
  <1>6. TeamWork => TeamWork'
    BY <1>1 DEF TeamWork
  <1>7. /\ PoppedRecords' = PoppedRecords /\ PoppedValid' = PoppedValid
        /\ PoppedEmails' = PoppedEmails
    BY DEF PoppedRecords, PoppedValid, PoppedEmails, Popped
  <1>8. /\ IsFiniteSet(InJudge) /\ IsFiniteSet(HeldValid) /\ IsFiniteSet(PoppedValid)
    BY CountedSets
  <1>9. /\ Cardinality(InJudge') = Cardinality(InJudge) - 1
        /\ Cardinality(InJudge) \in Nat /\ Cardinality(HeldValid) \in Nat
        /\ Cardinality(PoppedValid) \in Nat
    BY <1>2, <1>8, FS_RemoveElement, FS_CardinalityType
  <1>10. Cardinality(HeldValid') = IF w \in HeldValid THEN Cardinality(HeldValid) - 1
                                                      ELSE Cardinality(HeldValid)
    BY <1>3, <1>8, FS_RemoveElement
  <1>11. QED
    BY <1>2, <1>3, <1>4, <1>5, <1>6, <1>7, <1>9, <1>10

(* validate: one record more is valid, or one more is not.                   *)
LEMMA JudgeStep ==
    ASSUME QInv, NEW w \in Threads, job.cmd = "validate", Judge(w), UNCHANGED job
    PROVE  QInv'
  <1>1. QueueTypeOK /\ Stretch /\ TeamWork /\ Counted /\ NoneTwice /\ Judged
    BY DEF QInv
  <1>2. /\ worker[w] = "judge" /\ worker' = [worker EXCEPT ![w] = "pop"]
        /\ IF ValidThreaded(task[w]) THEN ok' = ok + 1 /\ bad' = bad
                                     ELSE bad' = bad + 1 /\ ok' = ok
        /\ UNCHANGED << text, pushed, queue, done, team, task, count, emails >>
    BY DEF Judge
  <1>3. /\ InCount' = InCount
        /\ Cardinality(InJudge') = Cardinality(InJudge) - 1
        /\ Cardinality(HeldValid') = IF ValidThreaded(task[w]) THEN Cardinality(HeldValid) - 1
                                                               ELSE Cardinality(HeldValid)
        /\ Stretch' /\ TeamWork'
        /\ PoppedRecords' = PoppedRecords /\ PoppedValid' = PoppedValid
        /\ Cardinality(InJudge) \in Nat /\ Cardinality(HeldValid) \in Nat
        /\ Cardinality(PoppedValid) \in Nat
    BY <1>1, <1>2, ReleaseFacts
  <1>4. count \in Nat /\ ok \in Nat /\ bad \in Nat
    BY <1>1 DEF QueueTypeOK
  <1>5. QueueTypeOK'
    BY <1>1, <1>2 DEF QueueTypeOK
  <1>6. Counted'
    BY <1>1, <1>2, <1>3 DEF Counted
  <1>7. /\ ok + bad + Cardinality(InJudge) = count
        /\ ok + Cardinality(HeldValid) = Cardinality(PoppedValid)
    BY <1>1 DEF Judged
  <1>8. /\ ok' + bad' + Cardinality(InJudge') = count
        /\ ok' + Cardinality(HeldValid') = Cardinality(PoppedValid)
    BY <1>2, <1>3, <1>4, <1>7
  <1>9. Judged' /\ NoneTwice'
    BY <1>2, <1>3, <1>4, <1>8 DEF Judged, NoneTwice
  <1>10. QED
    BY <1>3, <1>5, <1>6, <1>9 DEF QInv

(* report: the e-mail of a record that is counted joins the set.             *)
LEMMA NoteStep ==
    ASSUME QInv, NEW w \in Threads, job.cmd = "report", NoteEmail(w), UNCHANGED job
    PROVE  QInv'
  <1>1. QueueTypeOK /\ Stretch /\ TeamWork /\ Counted /\ NoneTwice /\ Noted
    BY DEF QInv
  <1>2. /\ worker[w] = "judge" /\ worker' = [worker EXCEPT ![w] = "pop"]
        /\ emails' = emails \cup ({task[w].email} \ {Absent})
        /\ UNCHANGED << text, pushed, queue, done, team, task, count, ok, bad >>
    BY DEF NoteEmail
  <1>3. /\ InCount' = InCount
        /\ Cardinality(InJudge') = Cardinality(InJudge) - 1
        /\ HeldEmails = HeldEmails' \cup ({task[w].email} \ {Absent})
        /\ Stretch' /\ TeamWork'
        /\ PoppedRecords' = PoppedRecords /\ PoppedEmails' = PoppedEmails
        /\ Cardinality(InJudge) \in Nat
    BY <1>1, <1>2, ReleaseFacts
  <1>4. count \in Nat /\ ok \in Nat /\ bad \in Nat
    BY <1>1 DEF QueueTypeOK
  <1>5. task[w] \in Line
    BY <1>1 DEF QueueTypeOK
  <1>6. QueueTypeOK'
    <2>1. {task[w].email} \ {Absent} \subseteq Texts
      BY <1>5, LineFacts DEF Fields
    <2>2. QED
      BY <1>1, <1>2, <2>1 DEF QueueTypeOK
  <1>7. Counted' /\ NoneTwice'
    BY <1>1, <1>2, <1>3, <1>4 DEF Counted, NoneTwice
  <1>8. Noted'
    BY <1>1, <1>2, <1>3 DEF Noted
  <1>9. QED
    BY <1>3, <1>6, <1>7, <1>8 DEF QInv

(* Every step of the pool keeps the count.                                   *)
LEMMA PoolKeepsCount ==
    ASSUME QInv, PoolStep
    PROVE  QInv'
  <1>1. UNCHANGED job
    BY DEF PoolStep, helperVars
  <1>2. \/ Push \/ Close
        \/ \E w \in Threads : \/ Pop(w) \/ Count(w) \/ SpuriousWake(w)
                              \/ job.cmd = "validate" /\ Judge(w)
                              \/ job.cmd = "report" /\ NoteEmail(w)
    BY DEF PoolStep, Work, Settle
  <1>3. QED
    BY <1>1, <1>2, PushStep, CloseStep, PopStep, CountStep, SpuriousStep, JudgeStep, NoteStep
-----------------------------------------------------------------------------
(* Jobs.                                                                     *)

(* No job is a job.                                                          *)
LEMMA NoJobFacts ==
    /\ NoJob \in Job
    /\ NoJob.cmd = "none" /\ NoJob.phase = "start" /\ NoJob.on = 1 /\ NoJob.size \in Sizes
  <1>1. (CHOOSE p \in Paths : TRUE) \in Paths /\ (CHOOSE s \in Sizes : TRUE) \in Sizes
    BY PathsAssumption, SizesAssumption
  <1>2. << >> \in Seq(Paths) /\ << >> \in Seq(Line)
    BY EmptySeq
  <1>3. QED
    BY <1>1, <1>2 DEF NoJob, Job

(* The lists of commands have none in common.                                *)
LEMMA Commands ==
    /\ \A cmd \in Streaming : cmd \notin Gathering /\ cmd \notin Counting
    /\ \A cmd \in Gathering : cmd \notin Counting
    /\ "merge" \in Gathering
    /\ "diff" \notin Streaming \cup Gathering \cup Counting
  BY DEF Streaming, Gathering, Counting

(* The lines of a file, and the count of its records and e-mails.            *)
LEMMA LinesFacts ==
    ASSUME FilesTyped, NEW p \in Paths
    PROVE  /\ LinesOf(p) \in Seq(Line)
           /\ IsFiniteSet(EmailsIn(LinesOf(p)))
           /\ Cardinality(RecordsIn(LinesOf(p))) \in Nat
  <1> DEFINE lines == LinesOf(p)
             T == {lines[i].email : i \in DOMAIN lines}
             f == [i \in DOMAIN lines |-> lines[i].email]
  <1>1. lines \in Seq(Line)
    BY EmptySeq DEF LinesOf, FilesTyped
  <1> HIDE DEF lines
  <1>2. IsFiniteSet(DOMAIN lines)
    BY <1>1, LenProperties, FS_Interval
  <1>3. RecordsIn(lines) \in SUBSET (DOMAIN lines)
    BY DEF RecordsIn
  <1>4. Cardinality(RecordsIn(lines)) \in Nat
    BY <1>2, <1>3, FS_Subset, FS_CardinalityType
  <1>5. f \in Surjection(DOMAIN lines, T)
    BY DEF Surjection
  <1>6. IsFiniteSet(T)
    BY <1>2, <1>5, FS_Surjection
  <1>7. EmailsIn(lines) \in SUBSET T
    BY DEF EmailsIn
  <1>8. IsFiniteSet(EmailsIn(lines))
    BY <1>6, <1>7, FS_Subset
  <1>9. QED
    BY <1>1, <1>4, <1>8 DEF lines

(* A step of anything but the pool leaves the counts alone; before the first *)
(* command there are none.                                                   *)
LEMMA QueueStays ==
    ASSUME QInv, Stages, UNCHANGED queueVars, job = NoJob \/ job'.cmd = job.cmd
    PROVE  QInv'
  <1>1. /\ QueueTypeOK /\ Stretch /\ TeamWork /\ Counted /\ NoneTwice
        /\ job'.cmd = "validate" => Judged
        /\ job'.cmd = "report" => Noted
    BY NothingYet DEF QInv, Stages
  <1>2. UNCHANGED << text, pushed, queue, done, team, worker, task, count, ok, bad, emails >>
    BY DEF queueVars
  <1>3. /\ InCount' = InCount /\ InJudge' = InJudge
        /\ PoppedRecords' = PoppedRecords /\ PoppedValid' = PoppedValid
        /\ PoppedEmails' = PoppedEmails /\ Popped' = Popped
    BY <1>2 DEF InCount, InJudge, PoppedRecords, PoppedValid, PoppedEmails, Popped
  <1>4. HeldValid' = HeldValid /\ HeldEmails' = HeldEmails
    BY <1>2, <1>3 DEF HeldValid, HeldEmails
  <1>5. QueueTypeOK' /\ Stretch' /\ TeamWork'
    BY <1>1, <1>2, <1>3 DEF QueueTypeOK, Stretch, TeamWork
  <1>6. Counted' /\ NoneTwice' /\ (Judged => Judged') /\ (Noted => Noted')
    BY <1>1, <1>2, <1>3, <1>4 DEF Counted, NoneTwice, Judged, Noted
  <1>7. QED
    BY <1>1, <1>5, <1>6 DEF QInv

-----------------------------------------------------------------------------
(* The commands that start.                                                  *)

(* What a command asks for, and what it finds when it cannot go on.          *)
LEMMA AskedFacts ==
    ASSUME NEW cmd \in Streaming \cup Gathering, NEW ins \in Seq(Paths), NEW out \in Paths,
           NEW size \in Sizes
    PROVE  LET j == Asked(cmd, ins, out, size)
           IN  /\ j \in Job /\ j # NoJob /\ j.cmd = cmd /\ j.ins = ins /\ j.out = out
               /\ j.phase = "read" /\ j.on = 1
  <1> DEFINE j == Asked(cmd, ins, out, size)
  <1>1. /\ j \in Job /\ j.cmd = cmd /\ j.ins = ins /\ j.out = out
        /\ j.phase = "read" /\ j.on = 1
    BY NoJobFacts DEF Asked, Job
  <1>2. j # NoJob
    BY <1>1, NoJobFacts
  <1>3. QED
    BY <1>1, <1>2

LEMMA OpenStep ==
    ASSUME IInv, NEW cmd, NEW in \in Paths, NEW out \in Paths, NEW size \in Sizes,
           Open(cmd, in, out, size)
    PROVE  IInv'
  <1> DEFINE ins == << in >>
  <1>1. /\ FilesTyped /\ Stages /\ QInv /\ job = NoJob /\ QueueInit /\ files = before
    BY DEF IInv, FInv, Stages, Open
  <1>2. /\ cmd \in Streaming \cup Gathering /\ files[in] # NoFile
        /\ UNCHANGED << temp, before >> /\ UNCHANGED queueVars
        /\ job' = Asked(cmd, ins, out, size) /\ files' = Opened(cmd, out)
    BY DEF Open
  <1>3. QInv'
    BY <1>1, <1>2, QueueStays
  <1>4. ins \in Seq(Paths) /\ \A k \in DOMAIN ins : ins[k] = in
    OBVIOUS
  <1> HIDE DEF ins
  <1>5. /\ job' \in Job /\ job' # NoJob /\ job'.cmd = cmd /\ job'.ins = ins
        /\ job'.out = out /\ job'.phase = "read" /\ job'.on = 1
    BY <1>2, <1>4, AskedFacts
  <1>6. /\ files' \in [Paths -> Seq(Line) \cup {NoFile}] /\ files'[in] # NoFile
        /\ \A p \in Paths : files'[p] # files[p] => p = out /\ cmd \in Streaming
    <2>1. << >> \in Seq(Line) /\ << >> # NoFile
      BY EmptySeq, ContentsAssumption
    <2>2. QED
      BY <1>1, <1>2, <2>1 DEF Opened, FilesTyped
  <1>7. Touched'
    BY <1>1, <1>2, <1>5, <1>6, Commands DEF Touched
  <1>8. Stages' /\ Inputs'
    BY <1>2, <1>4, <1>5, <1>6 DEF Stages, Inputs
  <1>9. FInv'
    BY <1>1, <1>2, <1>5, <1>6, <1>7, <1>8 DEF FInv, FilesTyped
  <1>10. QED
    BY <1>3, <1>9 DEF IInv

(* merge reads those of its files that are there.                            *)
LEMMA OpenMergeStep ==
    ASSUME IInv, NEW a \in Paths, NEW b \in Paths, NEW out \in Paths, OpenMerge(a, b, out)
    PROVE  IInv'
  <1> DEFINE S   == {p \in Paths : files[p] # NoFile}
             ins == Readable(a) \o Readable(b)
  <1>1. /\ FilesTyped /\ Stages /\ QInv /\ job = NoJob /\ QueueInit /\ files = before
    BY DEF IInv, FInv, Stages, OpenMerge
  <1>2. /\ UNCHANGED << files, temp, before >> /\ UNCHANGED queueVars
        /\ job' = Asked("merge", ins, out, NoJob.size)
    BY DEF OpenMerge
  <1>3. \A p \in Paths : Readable(p) \in Seq(S)
    <2> SUFFICES ASSUME NEW p \in Paths PROVE Readable(p) \in Seq(S)
      OBVIOUS
    <2>1. CASE files[p] = NoFile
      BY <2>1, EmptySeq DEF Readable
    <2>2. CASE files[p] # NoFile
      <3>1. p \in S
        BY <2>2
      <3> HIDE DEF S
      <3>2. << p >> \in Seq(S)
        BY <3>1
      <3>3. QED
        BY <2>2, <3>2 DEF Readable
    <2>3. QED
      BY <2>1, <2>2
  <1>4. ins \in Seq(S)
    BY <1>3, ConcatProperties
  <1>5. ins \in Seq(Paths) /\ \A k \in DOMAIN ins : files[ins[k]] # NoFile
    BY <1>4, SeqMonotonic, LenProperties, ElementOfSeq
  <1> HIDE DEF ins
  <1>6. /\ job' \in Job /\ job' # NoJob /\ job'.cmd = "merge" /\ job'.ins = ins
        /\ job'.out = out /\ job'.phase = "read" /\ job'.on = 1
    BY <1>2, <1>5, AskedFacts, Commands, NoJobFacts
  <1>7. QInv'
    BY <1>1, <1>2, QueueStays
  <1>8. FInv'
    BY <1>1, <1>2, <1>5, <1>6, Commands DEF FInv, FilesTyped, Stages, Inputs, Touched
  <1>9. QED
    BY <1>7, <1>8 DEF IInv

(* A command that is over as soon as it has started.                         *)
LEMMA AtOnce ==
    ASSUME IInv, job = NoJob, UNCHANGED << files, temp, before >>, UNCHANGED queueVars,
           job' \in Job, job'.phase \in {"ok", "io", "invalid"}, job'.on = 1
    PROVE  IInv'
  <1>1. /\ FilesTyped /\ Stages /\ QInv /\ QueueInit /\ files = before
    BY DEF IInv, FInv, Stages
  <1>2. QInv'
    BY <1>1, QueueStays
  <1>3. team' = {}
    BY <1>1 DEF QueueInit, queueVars
  <1>4. job' # NoJob
    BY NoJobFacts
  <1>5. FInv'
    BY <1>1, <1>3, <1>4 DEF FInv, FilesTyped, Stages, Inputs, Touched
  <1>6. QED
    BY <1>2, <1>5 DEF IInv

LEMMA OpenFailsStep ==
    ASSUME IInv, NEW cmd, NEW in, OpenFails(cmd, in)
    PROVE  IInv'
  <1>1. /\ job = NoJob /\ cmd \in Streaming \cup Gathering
        /\ UNCHANGED << files, temp, before >> /\ UNCHANGED queueVars
        /\ job' = [NoJob EXCEPT !.cmd = cmd, !.phase = "io"]
    BY DEF OpenFails
  <1>2. job' \in Job /\ job'.phase = "io" /\ job'.on = 1
    BY <1>1, NoJobFacts DEF Job
  <1>3. QED
    BY <1>1, <1>2, AtOnce

LEMMA AnswerStep ==
    ASSUME IInv, NEW cmd \in Counting, NEW in \in Paths, NEW phase \in {"ok", "invalid"},
           Answer(cmd, in, phase)
    PROVE  IInv'
  <1> DEFINE ends == IF files[in] = NoFile THEN "io" ELSE phase
             n    == Cardinality(RecordsIn(LinesOf(in)))
  <1>1. n \in Nat
    BY LinesFacts DEF IInv, FInv
  <1>2. << in >> \in Seq(Paths) /\ ends \in {"ok", "io", "invalid"}
    OBVIOUS
  <1>3. job' = [NoJob EXCEPT !.cmd = cmd, !.ins = << in >>, !.phase = ends, !.n = n]
    BY DEF Answer
  <1> HIDE DEF ends, n
  <1>4. job' \in Job /\ job'.phase = ends /\ job'.on = 1
    BY <1>1, <1>2, <1>3, NoJobFacts DEF Job
  <1>5. QED
    BY <1>2, <1>4, AtOnce DEF Answer

LEMMA DiffStep ==
    ASSUME IInv, NEW a \in Paths, NEW b \in Paths, Diff(a, b)
    PROVE  IInv'
  <1> DEFINE A == EmailsIn(LinesOf(a))
             B == EmailsIn(LinesOf(b))
  <1>1. IsFiniteSet(A) /\ IsFiniteSet(B)
    BY LinesFacts DEF IInv, FInv
  <1>2. job' = [NoJob EXCEPT !.cmd = "diff", !.ins = << a, b >>, !.phase = "ok",
                   !.n = Cardinality(B \ A), !.at = Cardinality(A \ B)]
    BY DEF Diff
  <1> HIDE DEF A, B
  <1>3. B \ A \in SUBSET B /\ A \ B \in SUBSET A
    OBVIOUS
  <1>4. Cardinality(B \ A) \in Nat /\ Cardinality(A \ B) \in Nat
    BY <1>1, <1>3, FS_Subset, FS_CardinalityType
  <1>5. << a, b >> \in Seq(Paths)
    OBVIOUS
  <1>6. job' \in Job /\ job'.phase = "ok" /\ job'.on = 1
    BY <1>2, <1>4, <1>5, NoJobFacts DEF Job
  <1>7. QED
    BY <1>6, AtOnce DEF Diff

(* The pool starts with the lines of the file.                               *)
LEMMA StartPoolStep ==
    ASSUME IInv, NEW cmd, NEW in \in Paths, NEW ws \in Teams, StartPool(cmd, in, ws)
    PROVE  IInv'
  <1>1. /\ FilesTyped /\ QueueInit /\ files = before
        /\ cmd \in Counting /\ StartWorkers(LinesOf(in), ws) /\ UNCHANGED << files, temp, before >>
        /\ job' = [NoJob EXCEPT !.cmd = cmd, !.phase = "pool", !.ins = << in >>]
    BY DEF IInv, FInv, Stages, StartPool
  <1>2. LinesOf(in) \in Seq(Line)
    BY <1>1, LinesFacts
  <1>3. QInv'
    BY <1>1, <1>2, StartStep DEF QInv
  <1>4. << in >> \in Seq(Paths)
    OBVIOUS
  <1>5. job' \in Job /\ job'.phase = "pool" /\ job'.on = 1 /\ job'.cmd = cmd
    BY <1>1, <1>4, NoJobFacts DEF Job
  <1>6. job' # NoJob
    BY <1>5, NoJobFacts
  <1>7. FInv'
    BY <1>1, <1>5, <1>6 DEF FInv, FilesTyped, Stages, Inputs, Touched
  <1>8. QED
    BY <1>3, <1>7 DEF IInv

LEMMA StartCommandStep ==
    ASSUME IInv, StartCommand
    PROVE  IInv'
  <1>1. CASE \E cmd \in Streaming \cup Gathering, in, out \in Paths, s \in Sizes :
               Open(cmd, in, out, s)
    BY <1>1, OpenStep
  <1>2. CASE \E in, out \in Paths : OpenMerge(in, out, out)
    BY <1>2, OpenMergeStep
  <1>3. CASE \E in \in Paths : ValidateInTurn(in) \/ ReportInTurn(in)
    <2>1. "validate" \in Counting /\ "report" \in Counting
      BY DEF Counting
    <2>2. QED
      BY <1>3, <2>1, AnswerStep DEF ValidateInTurn, ReportInTurn
  <1>4. CASE \E a, b \in Paths : Diff(a, b)
    BY <1>4, DiffStep
  <1>5. CASE \E cmd \in Counting, in \in Paths, ws \in Teams : StartPool(cmd, in, ws)
    BY <1>5, StartPoolStep
  <1>6. CASE \E cmd \in Streaming \cup Gathering, in \in Paths : OpenFails(cmd, in)
    BY <1>6, OpenFailsStep
  <1>7. QED
    BY <1>1, <1>2, <1>3, <1>4, <1>5, <1>6 DEF StartCommand
-----------------------------------------------------------------------------
(* The steps of a command that reads.                                        *)

(* A job that goes on to the next line.                                      *)
GoesOn(j) ==
    /\ j \in Job
    /\ j.cmd = job.cmd /\ j.ins = job.ins /\ j.out = job.out
    /\ j.on = job.on /\ j.phase = job.phase

(* The line that is read is a line.                                          *)
LEMMA ReadingFacts ==
    ASSUME FilesTyped, Inputs, Reading
    PROVE  Source \in Seq(Line) /\ (job.at < Len(Source) => NextLine \in Line)
  <1>1. job.ins \in Seq(Paths) /\ job.on \in 1 .. Len(job.ins) /\ job.at \in Nat
    BY LenProperties DEF FilesTyped, Job, Inputs, Reading
  <1>2. job.ins[job.on] \in Paths /\ files[job.ins[job.on]] # NoFile
    BY <1>1, ElementOfSeq, LenProperties DEF Inputs, Reading
  <1>3. Source \in Seq(Line)
    BY <1>2 DEF Source, FilesTyped
  <1>4. Len(Source) \in Nat
    BY <1>3, LenProperties
  <1>5. ASSUME job.at < Len(Source)
        PROVE  NextLine \in Line
    <2>1. job.at + 1 \in 1 .. Len(Source)
      BY <1>1, <1>4, <1>5
    <2>2. QED
      BY <1>3, <2>1, ElementOfSeq DEF NextLine
  <1>6. QED
    BY <1>3, <1>5

LEMMA AdvancedFacts ==
    ASSUME job \in Job
    PROVE  GoesOn(Advanced) /\ Advanced.acc = job.acc /\ Advanced.seen = job.seen
  BY SMTT(30) DEF GoesOn, Advanced, Job

(* Writing a line, or a line in place of one that was gathered.              *)
LEMMA WritingFacts ==
    ASSUME job \in Job, NEW l \in Line
    PROVE  GoesOn(Writing(l)) /\ Writing(l).seen = job.seen
  <1>1. GoesOn(Advanced) /\ Advanced.acc = job.acc /\ Advanced.seen = job.seen
    BY AdvancedFacts
  <1>2. Append(job.acc, l) \in Seq(Line)
    BY AppendProperties DEF Job
  <1>3. Writing(l) = [Advanced EXCEPT !.acc = Append(job.acc, l)]
    BY <1>1 DEF Writing
  <1>4. QED
    BY <1>1, <1>2, <1>3 DEF GoesOn, Job

LEMMA OncePerKeyFacts ==
    ASSUME job \in Job, NextLine \in Line, NEW key \in Line \cup Texts
    PROVE  GoesOn(OncePerKey(key))
  <1> DEFINE p == Writing(NextLine)
  <1>1. GoesOn(p) /\ p.seen = job.seen
    BY WritingFacts
  <1>2. job.seen \cup {key} \in SUBSET (Line \cup Texts)
    BY DEF Job
  <1>3. OncePerKey(key) = IF key \in job.seen THEN Advanced ELSE [p EXCEPT !.seen = @ \cup {key}]
    BY DEF OncePerKey
  <1> HIDE DEF p
  <1>4. GoesOn([p EXCEPT !.seen = @ \cup {key}])
    BY <1>1, <1>2 DEF GoesOn, Job
  <1>5. QED
    BY <1>3, <1>4, AdvancedFacts

(* Gathering other lines leaves the command where it is.                     *)
LEMMA GatheredGoesOn ==
    ASSUME NEW p, GoesOn(p), NEW acc \in Seq(Line)
    PROVE  GoesOn([p EXCEPT !.acc = acc])
  BY DEF GoesOn, Job

(* So does counting one line more.                                           *)
LEMMA CountedGoesOn ==
    ASSUME NEW p, GoesOn(p)
    PROVE  GoesOn([p EXCEPT !.n = @ + 1])
  BY SMTT(30) DEF GoesOn, Job

(* Whatever place the sampling takes, the command goes on.                   *)
LEMMA ReservoirFacts ==
    ASSUME job \in Job, NextLine \in Line, NEW j \in Reservoir
    PROVE  GoesOn(j)
  <1>1. job.n + 1 \in Nat /\ job.acc \in Seq(Line) /\ job.n \in Nat
    BY DEF Job
  <1>2. CASE job.n < job.size
    <2> DEFINE p == Writing(NextLine)
    <2>1. GoesOn(p) /\ j = [p EXCEPT !.n = @ + 1]
      BY <1>2, WritingFacts DEF Reservoir
    <2> HIDE DEF p
    <2>2. QED
      BY <2>1, CountedGoesOn
  <1>3. CASE ~(job.n < job.size)
    <2> DEFINE p == Advanced
    <2>1. GoesOn(p) /\ p.acc = job.acc
      BY AdvancedFacts
    <2>2. PICK k \in 0 .. job.n :
            j = IF k < job.size THEN [p EXCEPT !.acc[k + 1] = NextLine, !.n = @ + 1]
                                ELSE [p EXCEPT !.n = @ + 1]
      BY <1>3 DEF Reservoir
    <2> HIDE DEF p
    <2>3. [job.acc EXCEPT ![k + 1] = NextLine] \in Seq(Line)
      <3>1. CASE k + 1 \in 1 .. Len(job.acc)
        BY <1>1, <3>1, ExceptSeq
      <3>2. CASE k + 1 \notin 1 .. Len(job.acc)
        <4>1. DOMAIN job.acc = 1 .. Len(job.acc)
          BY <1>1, LenProperties
        <4>2. [job.acc EXCEPT ![k + 1] = NextLine] = job.acc
          BY <1>1, <3>2, <4>1
        <4>3. QED
          BY <1>1, <4>2
      <3>3. QED
        BY <3>1, <3>2
    <2>4. CASE k < job.size
      <3> DEFINE acc == [job.acc EXCEPT ![k + 1] = NextLine]
                 q == [p EXCEPT !.acc = acc]
      <3>1. acc \in Seq(Line)
        BY <2>3
      <3>2. p.acc = job.acc /\ GoesOn(p)
        BY <2>1
      <3>3. j = [p EXCEPT !.acc = [job.acc EXCEPT ![k + 1] = NextLine], !.n = @ + 1]
        BY <2>1, <2>2, <2>4
      <3> HIDE DEF acc
      <3>4. j = [p EXCEPT !.acc = acc, !.n = @ + 1]
        BY <3>3 DEF acc
      <3>5. GoesOn(q)
        BY <3>1, <3>2, GatheredGoesOn
      <3>6. j = [q EXCEPT !.n = @ + 1]
        BY <3>2, <3>4 DEF GoesOn, Job
      <3> HIDE DEF q
      <3>7. GoesOn([q EXCEPT !.n = @ + 1])
        BY <3>5, CountedGoesOn
      <3>8. QED
        BY <3>6, <3>7
    <2>5. CASE ~(k < job.size)
      <3>1. j = [p EXCEPT !.n = @ + 1]
        BY <2>2, <2>5
      <3>2. QED
        BY <2>1, <3>1, CountedGoesOn
    <2>6. QED
      BY <2>4, <2>5
  <1>4. QED
    BY <1>2, <1>3

(* Lines that are rewritten stay lines, and keys are texts or lines.         *)
LEMMA RewrittenLines ==
    ASSUME NEW l \in Line
    PROVE  /\ Redacted(l) \in Line /\ Normalized(l) \in Line
           /\ DedupeKey(l) \in Line \cup Texts /\ MergeKey(l) \in Line \cup Texts
  <1>1. /\ \A f \in {Trim, Lower, Digits, StarEmail, StarPhone}, x \in Fields :
             Rewrite(f, x) \in Fields
        /\ \A f : Rewrite(f, Absent) = Absent
    BY TextsAssumption DEF Rewrite, Fields
  <1>2. \A t \in Texts : AsKey(t) \in Line \cup Texts
    BY SpelledAssumption DEF AsKey
  <1>3. l.email \in Fields
    BY LineFacts
  <1>4. DedupeKey(l) \in Line \cup Texts /\ MergeKey(l) \in Line \cup Texts
    BY <1>2, <1>3 DEF DedupeKey, MergeKey, Fields
  <1>5. CASE l \in {Bare(form) : form \in {"empty", "broken", "scalar"}}
    <2>1. l.name = Absent /\ l.email = Absent /\ l.phone = Absent
      BY <1>5 DEF Bare
    <2>2. Redacted(l) = l /\ Normalized(l) = l
      BY <1>1, <1>5, <2>1 DEF Redacted, Normalized, Bare
    <2>3. QED
      BY <1>4, <2>2
  <1>6. CASE l \in [form : {"object"}, name : Fields, email : Fields, phone : Fields]
    <2>1. Redacted(l) \in Line /\ Normalized(l) \in Line
      BY <1>1, <1>6 DEF Redacted, Normalized, Line
    <2>2. QED
      BY <1>4, <2>1
  <1>7. QED
    BY <1>5, <1>6 DEF Line

(* A step within a file leaves the files alone.                              *)
LEMMA GoingOn ==
    ASSUME IInv, job.phase = "read", GoesOn(job'), UNCHANGED << files, temp, before >>,
           UNCHANGED queueVars
    PROVE  IInv'
  <1>1. FilesTyped /\ Stages /\ Inputs /\ Touched /\ QInv
    BY DEF IInv, FInv
  <1>2. /\ job' \in Job /\ job'.cmd = job.cmd /\ job'.ins = job.ins /\ job'.out = job.out
        /\ job'.on = job.on /\ job'.phase = job.phase
    BY DEF GoesOn
  <1>3. QInv'
    BY <1>1, <1>2, QueueStays
  <1>4. job # NoJob /\ job' # NoJob
    BY <1>2, NoJobFacts
  <1>5. FInv'
    BY <1>1, <1>2, <1>4 DEF FInv, FilesTyped, Stages, Inputs, Touched
  <1>6. QED
    BY <1>3, <1>5 DEF IInv

LEMMA ReadGoesOn ==
    ASSUME IInv, ReadEmpty \/ ReadBroken \/ ReadRecord \/ ReadSample
    PROVE  /\ Reading /\ job.at < Len(Source) /\ NextLine \in Line /\ GoesOn(job')
           /\ job.cmd \in Streaming \cup Gathering
           /\ UNCHANGED << files, temp, before >> /\ UNCHANGED queueVars
  <1>1. /\ Reading /\ job.at < Len(Source) /\ UNCHANGED << files, temp, before >>
        /\ UNCHANGED queueVars
    BY DEF ReadEmpty, ReadBroken, ReadRecord, ReadSample
  <1>2. /\ FilesTyped /\ Inputs /\ Stages /\ job \in Job /\ job.phase = "read"
        /\ job.cmd \in Streaming \cup Gathering
    BY <1>1 DEF IInv, FInv, FilesTyped, Reading, Stages
  <1>3. NextLine \in Line
    BY <1>1, <1>2, ReadingFacts
  <1>4. GoesOn(Advanced) /\ \A l \in Line : GoesOn(Writing(l))
    BY <1>2, AdvancedFacts, WritingFacts
  <1>5. GoesOn(job')
    <2>1. CASE ReadEmpty \/ ReadBroken
      BY <1>3, <1>4, <2>1 DEF ReadEmpty, ReadBroken
    <2>2. CASE ReadSample
      BY <1>2, <1>3, <2>2, ReservoirFacts DEF ReadSample
    <2>3. CASE ReadRecord
      <3>1. /\ Redacted(NextLine) \in Line /\ Normalized(NextLine) \in Line
            /\ GoesOn(OncePerKey(DedupeKey(NextLine))) /\ GoesOn(OncePerKey(MergeKey(NextLine)))
        BY <1>2, <1>3, RewrittenLines, OncePerKeyFacts
      <3>2. job.cmd \in {"backup", "dedupe", "redact", "normalize", "merge", "grep"}
        BY <1>2, <2>3 DEF ReadRecord, Streaming, Gathering
      <3>3. QED
        BY <1>3, <1>4, <2>3, <3>1, <3>2 DEF ReadRecord
    <2>4. QED
      BY <2>1, <2>2, <2>3
  <1>6. QED
    BY <1>1, <1>2, <1>3, <1>5

LEMMA ReadStep ==
    ASSUME IInv, ReadEmpty \/ ReadBroken \/ ReadRecord \/ ReadSample
    PROVE  IInv'
  BY ReadGoesOn, GoingOn DEF Reading

(* The next input file; the end of the last one.                             *)
LEMMA NextFileStep ==
    ASSUME IInv, NextFile
    PROVE  IInv'
  <1>1. /\ FilesTyped /\ Stages /\ Inputs /\ Touched /\ QInv /\ job.phase = "read"
        /\ job' = [job EXCEPT !.on = @ + 1, !.at = 0]
        /\ UNCHANGED << files, temp, before >> /\ UNCHANGED queueVars
    BY DEF IInv, FInv, NextFile, Reading
  <1>2. /\ job' \in Job /\ job'.cmd = job.cmd /\ job'.ins = job.ins /\ job'.out = job.out
        /\ job'.on >= 1 /\ job'.phase = job.phase
    <2> DEFINE p == [job EXCEPT !.on = @ + 1]
    <2> job \in Job
      BY <1>1 DEF FilesTyped
    <2>1. /\ p \in Job /\ p.cmd = job.cmd /\ p.ins = job.ins /\ p.out = job.out
          /\ p.on = job.on + 1 /\ p.phase = job.phase
      BY SMTT(30) DEF Job
    <2>2. p.on >= 1
      BY <1>1, <2>1 DEF FilesTyped, Job, Inputs
    <2>3. job' = [p EXCEPT !.at = 0]
      BY <1>1
    <2> HIDE DEF p
    <2>4. /\ job' \in Job /\ job'.cmd = p.cmd /\ job'.ins = p.ins /\ job'.out = p.out
          /\ job'.on = p.on /\ job'.phase = p.phase
      BY <2>1, <2>3 DEF Job
    <2>5. QED
      BY <2>1, <2>2, <2>4
  <1>3. QInv'
    BY <1>1, <1>2, QueueStays
  <1>4. job # NoJob /\ job' # NoJob
    BY <1>1, <1>2, NoJobFacts
  <1>5. FInv'
    BY <1>1, <1>2, <1>4 DEF FInv, FilesTyped, Stages, Inputs, Touched
  <1>6. QED
    BY <1>3, <1>5 DEF IInv

(* A change of phase that leaves the rest of the job as it is.               *)
LEMMA NewPhase ==
    ASSUME job \in Job,
           NEW phase \in {"write", "rename", "ok", "io", "invalid", "killed"},
           job' = [job EXCEPT !.phase = phase]
    PROVE  /\ job' \in Job /\ job' # NoJob /\ job'.cmd = job.cmd /\ job'.ins = job.ins
           /\ job'.out = job.out /\ job'.on = job.on /\ job'.phase = phase
  <1>1. /\ job' \in Job /\ job'.cmd = job.cmd /\ job'.ins = job.ins
        /\ job'.out = job.out /\ job'.on = job.on /\ job'.phase = phase
    BY DEF Job
  <1>2. QED
    BY <1>1, NoJobFacts

(* A file written by a command that may write it.                            *)
LEMMA Written ==
    ASSUME FilesTyped, Touched, NEW s \in Seq(Line) \cup {NoFile},
           job.cmd \in Streaming \cup Gathering,
           files' = [files EXCEPT ![job.out] = s], before' = before,
           job'.cmd = job.cmd, job'.out = job.out,
           job.cmd \in Gathering => job'.phase = "ok"
    PROVE  files' \in [Paths -> Seq(Line) \cup {NoFile}] /\ Touched'
  BY DEF FilesTyped, Touched

(* What of the lines written reaches the disk.                               *)
LEMMA OnDiskFacts ==
    ASSUME job \in Job
    PROVE  \A k \in 0 .. Len(job.acc) : OnDisk(k) \in Seq(Line) /\ Short(k) \in BOOLEAN
  <1> SUFFICES ASSUME NEW k \in 0 .. Len(job.acc)
               PROVE  OnDisk(k) \in Seq(Line) /\ Short(k) \in BOOLEAN
    OBVIOUS
  <1>1. job.acc \in Seq(Line) /\ Len(job.acc) \in Nat /\ job.lost \in BOOLEAN
    BY LenProperties DEF Job
  <1>2. \A i \in 1 .. k : job.acc[i] \in Line
    BY <1>1, ElementOfSeq
  <1>3. OnDisk(k) \in Seq(Line)
    BY <1>1, <1>2, SubSeqProperties DEF OnDisk
  <1>4. QED
    BY <1>1, <1>3 DEF Short

(* A change of phase in which lines may be lost.                             *)
LEMMA WritePhase ==
    ASSUME job \in Job, NEW phase \in {"rename", "ok"}, NEW lost \in BOOLEAN,
           job' = [job EXCEPT !.phase = phase, !.lost = lost]
    PROVE  /\ job' \in Job /\ job' # NoJob /\ job'.cmd = job.cmd /\ job'.ins = job.ins
           /\ job'.out = job.out /\ job'.on = job.on /\ job'.phase = phase
  <1>1. /\ job' \in Job /\ job'.cmd = job.cmd /\ job'.ins = job.ins
        /\ job'.out = job.out /\ job'.on = job.on /\ job'.phase = phase
    BY DEF Job
  <1>2. QED
    BY <1>1, NoJobFacts

(* A stream that is closed.                                                  *)
LEMMA CloseStreamStep ==
    ASSUME IInv, CloseStream
    PROVE  IInv'
  <1>1. /\ FilesTyped /\ Stages /\ Inputs /\ Touched /\ QInv /\ job.phase = "read"
        /\ UNCHANGED << temp, before >> /\ UNCHANGED queueVars /\ job \in Job
        /\ job.cmd \in Streaming
    BY DEF IInv, FInv, CloseStream, FilesTyped
  <1>2. PICK k \in 0 .. Len(job.acc) :
          /\ files' = [files EXCEPT ![job.out] = OnDisk(k)]
          /\ job' = [job EXCEPT !.phase = "ok", !.lost = Short(k)]
    BY DEF CloseStream
  <1>3. OnDisk(k) \in Seq(Line) /\ Short(k) \in BOOLEAN
    BY <1>1, OnDiskFacts
  <1>4. /\ job' \in Job /\ job' # NoJob /\ job'.cmd = job.cmd /\ job'.ins = job.ins
        /\ job'.out = job.out /\ job'.on = job.on /\ job'.phase = "ok"
    BY <1>1, <1>2, <1>3, WritePhase
  <1>5. files' \in [Paths -> Seq(Line) \cup {NoFile}] /\ Touched'
    BY <1>1, <1>2, <1>3, <1>4, Commands, Written
  <1>6. QInv'
    BY <1>1, <1>4, QueueStays
  <1>7. Stages' /\ Inputs'
    BY <1>1, <1>4, Commands DEF Stages, Inputs
  <1>8. QED
    BY <1>1, <1>4, <1>5, <1>6, <1>7 DEF IInv, FInv, FilesTyped

(* What was gathered reaches the output by a rename, which is the last step. *)
LEMMA GatheredAllStep ==
    ASSUME IInv, GatheredAll
    PROVE  IInv'
  <1>1. /\ FilesTyped /\ Stages /\ Inputs /\ Touched /\ QInv /\ job.phase = "read"
        /\ UNCHANGED << files, temp, before >> /\ UNCHANGED queueVars /\ job \in Job
        /\ job.cmd \in Gathering /\ job' = [job EXCEPT !.phase = "write"]
    BY DEF IInv, FInv, GatheredAll, Stages, FilesTyped
  <1>2. /\ job' \in Job /\ job' # NoJob /\ job'.cmd = job.cmd /\ job'.ins = job.ins
        /\ job'.out = job.out /\ job'.on = job.on /\ job'.phase = "write"
    BY <1>1, NewPhase
  <1>3. Touched'
    BY <1>1, <1>2 DEF Touched
  <1>4. QInv'
    BY <1>1, <1>2, QueueStays
  <1>5. Stages' /\ Inputs'
    BY <1>1, <1>2 DEF Stages, Inputs
  <1>6. QED
    BY <1>1, <1>2, <1>3, <1>4, <1>5 DEF IInv, FInv, FilesTyped

LEMMA WriteTempStep ==
    ASSUME IInv, WriteTemp
    PROVE  IInv'
  <1>1. /\ FilesTyped /\ Stages /\ Inputs /\ Touched /\ QInv /\ job.phase = "write"
        /\ job.cmd \in Gathering
        /\ UNCHANGED << files, before >> /\ UNCHANGED queueVars /\ job \in Job
    BY DEF IInv, FInv, WriteTemp, Stages, FilesTyped
  <1>2. PICK k \in 0 .. Len(job.acc) :
          temp' = OnDisk(k) /\ job' = [job EXCEPT !.phase = "rename", !.lost = Short(k)]
    BY DEF WriteTemp
  <1>3. temp' \in Seq(Line) /\ Short(k) \in BOOLEAN
    BY <1>1, <1>2, OnDiskFacts
  <1>4. /\ job' \in Job /\ job' # NoJob /\ job'.cmd = job.cmd /\ job'.ins = job.ins
        /\ job'.out = job.out /\ job'.on = job.on /\ job'.phase = "rename"
    BY <1>1, <1>2, <1>3, WritePhase
  <1>5. Touched'
    BY <1>1, <1>4 DEF Touched
  <1>6. QInv'
    BY <1>1, <1>4, QueueStays
  <1>7. Stages' /\ Inputs'
    BY <1>1, <1>4 DEF Stages, Inputs
  <1>8. QED
    BY <1>1, <1>3, <1>4, <1>5, <1>6, <1>7 DEF IInv, FInv, FilesTyped

(* An output that cannot be written is left as it was.                       *)
LEMMA AtomicWriteFailsStep ==
    ASSUME IInv, AtomicWriteFails
    PROVE  IInv'
  <1>1. /\ FilesTyped /\ Stages /\ Inputs /\ Touched /\ QInv
        /\ job.phase \in {"write", "rename"} /\ job.cmd \in Gathering
        /\ UNCHANGED << files, temp, before >> /\ UNCHANGED queueVars /\ job \in Job
        /\ job' = [job EXCEPT !.phase = "io"]
    BY DEF IInv, FInv, AtomicWriteFails, Stages, FilesTyped
  <1>2. /\ job' \in Job /\ job' # NoJob /\ job'.cmd = job.cmd /\ job'.ins = job.ins
        /\ job'.out = job.out /\ job'.on = job.on /\ job'.phase = "io"
    BY <1>1, NewPhase
  <1>3. Touched'
    BY <1>1, <1>2 DEF Touched
  <1>4. QInv'
    BY <1>1, <1>2, QueueStays
  <1>5. Stages' /\ Inputs'
    BY <1>1, <1>2 DEF Stages, Inputs
  <1>6. QED
    BY <1>1, <1>2, <1>3, <1>4, <1>5 DEF IInv, FInv, FilesTyped

LEMMA RenameTempStep ==
    ASSUME IInv, RenameTemp
    PROVE  IInv'
  <1>1. /\ FilesTyped /\ Stages /\ Inputs /\ Touched /\ QInv /\ job.phase = "rename"
        /\ job.cmd \in Gathering /\ files' = [files EXCEPT ![job.out] = temp] /\ temp' = NoFile
        /\ job' = [job EXCEPT !.phase = "ok"]
        /\ UNCHANGED before /\ UNCHANGED queueVars /\ job \in Job
    BY DEF IInv, FInv, RenameTemp, Stages, FilesTyped
  <1>2. /\ job' \in Job /\ job' # NoJob /\ job'.cmd = job.cmd /\ job'.ins = job.ins
        /\ job'.out = job.out /\ job'.on = job.on /\ job'.phase = "ok"
    BY <1>1, NewPhase
  <1>3. temp \in Seq(Line) \cup {NoFile}
    BY <1>1 DEF FilesTyped
  <1>4. files' \in [Paths -> Seq(Line) \cup {NoFile}] /\ Touched'
    BY <1>1, <1>2, <1>3, Written
  <1>5. QInv'
    BY <1>1, <1>2, QueueStays
  <1>6. Stages' /\ Inputs'
    BY <1>1, <1>2, Commands DEF Stages, Inputs
  <1>7. QED
    BY <1>1, <1>2, <1>4, <1>5, <1>6 DEF IInv, FInv, FilesTyped

(* A killed stream leaves some first part of what was written to it, as does *)
(* a temporary file.                                                         *)
LEMMA KillStep ==
    ASSUME IInv, Kill
    PROVE  IInv'
  <1>1. /\ FilesTyped /\ Stages /\ Inputs /\ Touched /\ QInv
        /\ job.phase \in {"read", "write", "rename", "pool"}
        /\ job' = [job EXCEPT !.phase = "killed"]
        /\ UNCHANGED before /\ UNCHANGED queueVars /\ job \in Job
    BY DEF IInv, FInv, Kill, FilesTyped
  <1>2. /\ job' \in Job /\ job' # NoJob /\ job'.cmd = job.cmd /\ job'.ins = job.ins
        /\ job'.out = job.out /\ job'.on = job.on /\ job'.phase = "killed"
    BY <1>1, NewPhase
  <1>3. QInv'
    BY <1>1, <1>2, QueueStays
  <1>4. Stages' /\ Inputs'
    BY <1>1, <1>2 DEF Stages, Inputs
  <1>5. files' \in [Paths -> Seq(Line) \cup {NoFile}] /\ Touched'
    <2>1. CASE job.phase = "read" /\ job.cmd \in Streaming
      <3>1. PICK k \in 0 .. Len(job.acc) : files' = [files EXCEPT ![job.out] = OnDisk(k)]
        BY <2>1 DEF Kill
      <3>2. OnDisk(k) \in Seq(Line)
        BY <1>1, OnDiskFacts
      <3>3. QED
        BY <1>1, <1>2, <2>1, <3>1, <3>2, Commands, Written
    <2>2. CASE ~(job.phase = "read" /\ job.cmd \in Streaming)
      <3>1. files' = files
        BY <2>2 DEF Kill
      <3>2. QED
        BY <1>1, <1>2, <3>1 DEF FilesTyped, Touched
    <2>3. QED
      BY <2>1, <2>2
  <1>6. temp' \in Seq(Line) \cup {NoFile}
    BY <1>1, OnDiskFacts DEF Kill, FilesTyped
  <1>7. QED
    BY <1>1, <1>2, <1>3, <1>4, <1>5, <1>6 DEF IInv, FInv, FilesTyped

-----------------------------------------------------------------------------
(* The pool as a command.                                                    *)

LEMMA PoolStepInv ==
    ASSUME IInv, PoolStep
    PROVE  IInv'
  <1>1. /\ FilesTyped /\ Stages /\ Inputs /\ Touched /\ QInv /\ job.phase = "pool"
        /\ UNCHANGED << files, temp, job, before >>
    BY DEF IInv, FInv, PoolStep, helperVars
  <1>2. QInv'
    BY <1>1, PoolKeepsCount
  <1>3. job # NoJob
    BY <1>1, NoJobFacts
  <1>4. FInv'
    BY <1>1, <1>3 DEF FInv, FilesTyped, Stages, Inputs, Touched
  <1>5. QED
    BY <1>2, <1>4 DEF IInv

LEMMA PrintCountersStep ==
    ASSUME IInv, PrintCounters
    PROVE  IInv'
  <1>1. /\ FilesTyped /\ Stages /\ Inputs /\ Touched /\ QInv /\ job.phase = "pool" /\ Joined
        /\ UNCHANGED << files, temp, before >> /\ UNCHANGED queueVars /\ job \in Job
    BY DEF IInv, FInv, PrintCounters, FilesTyped
  <1>2. PICK phase \in {"ok", "invalid"} : job' = [job EXCEPT !.phase = phase]
    BY DEF PrintCounters
  <1>3. /\ job' \in Job /\ job' # NoJob /\ job'.cmd = job.cmd /\ job'.ins = job.ins
        /\ job'.out = job.out /\ job'.on = job.on /\ job'.phase = phase
    BY <1>1, <1>2, NewPhase
  <1>4. QInv'
    BY <1>1, <1>3, QueueStays
  <1>5. Joined'
    BY <1>1 DEF Joined, queueVars
  <1>6. job.cmd \in Counting
    BY <1>1 DEF Stages
  <1>7. Stages' /\ Inputs'
    BY <1>1, <1>3, <1>5 DEF Stages, Inputs
  <1>8. Touched'
    BY <1>1, <1>3, <1>6, Commands DEF Touched
  <1>9. QED
    BY <1>1, <1>3, <1>4, <1>7, <1>8 DEF IInv, FInv, FilesTyped

-----------------------------------------------------------------------------
LEMMA InitInv == Init => IInv
  <1> SUFFICES ASSUME Init PROVE IInv
    OBVIOUS
  <1>1. /\ QueueInit /\ files = before /\ job = NoJob /\ temp = NoFile
        /\ files \in [Paths -> Contents \cup {NoFile}]
    BY DEF Init
  <1>2. QInv
    BY <1>1, NothingYet DEF QInv
  <1>3. FInv
    BY <1>1, NoJobFacts, ContentsAssumption, Commands
       DEF FInv, FilesTyped, Stages, Inputs, Touched, QueueInit
  <1>4. QED
    BY <1>2, <1>3 DEF IInv

LEMMA StepInv == IInv /\ [Next]_vars => IInv'
  <1> SUFFICES ASSUME IInv, [Next]_vars PROVE IInv'
    OBVIOUS
  <1>1. CASE StartCommand
    BY <1>1, StartCommandStep
  <1>2. CASE FileStep
    BY <1>2, ReadStep, NextFileStep, CloseStreamStep, GatheredAllStep, WriteTempStep,
       RenameTempStep DEF FileStep
  <1>3. CASE Kill \/ AtomicWriteFails
    BY <1>3, KillStep, AtomicWriteFailsStep
  <1>4. CASE PoolStep \/ PrintCounters
    BY <1>4, PoolStepInv, PrintCountersStep
  <1>5. CASE UNCHANGED vars
    <2>1. UNCHANGED << files, temp, job, before >> /\ UNCHANGED queueVars
      BY <1>5 DEF vars, helperVars
    <2>2. QInv'
      BY <2>1, QueueStays DEF IInv, FInv
    <2>3. FInv'
      BY <2>1 DEF IInv, FInv, FilesTyped, Stages, Inputs, Touched, QueueInit, Joined, queueVars
    <2>4. QED
      BY <2>2, <2>3 DEF IInv
  <1>6. QED
    BY <1>1, <1>2, <1>3, <1>4, <1>5 DEF Next

(* The counters, the workers and the files are right at every step.          *)
LEMMA Invariance == Spec => []IInv
  BY InitInv, StepInv, PTL DEF Spec

(* Files, jobs, the queue and the counters have the types the code gives     *)
(* them: no helper reads a file that is not there or a line past its end.    *)
THEOREM HelperTypes == Spec => []TypeOK
  <1>1. IInv => TypeOK
    BY DEF IInv, QInv, FInv, FilesTyped, TypeOK
  <1>2. QED
    BY <1>1, Invariance, PTL

(* No helper, killed anywhere, changes a file but its output, and one that   *)
(* gathers changes that only when it reports success (atomic_write_all).     *)
THEOREM HelpersTouchOutput == Spec => []OthersUntouched
  <1>1. IInv => OthersUntouched
    BY DEF IInv, FInv, Touched, OthersUntouched
  <1>2. QED
    BY <1>1, Invariance, PTL

(* However many threads there are and whichever of them gets a line, validate*)
(* and report print the counts of one thread (process_lines_parallel,        *)
(* acx_validate_cmd_thr and acx_report_cmd_thr).                             *)
THEOREM ThreadsCountRight == Spec => []CountersRight
  <1>1. ASSUME IInv
        PROVE  ok + bad <= count /\ count <= pushed
    <2>1. QueueTypeOK /\ Stretch /\ Counted /\ NoneTwice
      BY <1>1 DEF IInv, QInv
    <2>2. /\ count \in Nat /\ ok \in Nat /\ bad \in Nat /\ pushed \in Nat /\ Len(queue) \in Nat
          /\ Len(queue) <= pushed
      BY <2>1, LenProperties DEF QueueTypeOK, Stretch
    <2>3. /\ IsFiniteSet(InCount) /\ IsFiniteSet(InJudge)
          /\ Cardinality(InCount) \in Nat /\ Cardinality(InJudge) \in Nat
      BY <2>1, CountedSets, FS_CardinalityType
    <2>4. Popped \in Nat /\ Popped <= pushed
      BY <2>2 DEF Popped
    <2>5. IsFiniteSet(1 .. Popped) /\ Cardinality(1 .. Popped) = Popped
      BY <2>4, FS_Interval
    <2>6. PoppedRecords \in SUBSET (1 .. Popped)
      BY DEF PoppedRecords
    <2>7. Cardinality(PoppedRecords) <= Popped /\ Cardinality(PoppedRecords) \in Nat
      BY <2>5, <2>6, FS_Subset, FS_CardinalityType
    <2>8. QED
      BY <2>1, <2>2, <2>3, <2>4, <2>7 DEF Counted, NoneTwice
  <1>2. ASSUME IInv, Joined, team # {}
        PROVE  /\ count = Cardinality(RecordsIn(text))
               /\ job.cmd = "report" => emails = EmailsIn(text)
               /\ job.cmd = "validate" =>
                    /\ ok + bad = count
                    /\ ok = Cardinality({i \in DOMAIN text : ValidThreaded(text[i])})
    <2>1. QueueTypeOK /\ Stretch /\ TeamWork /\ Counted
      BY <1>2 DEF IInv, QInv
    <2>2. \A w \in Threads : worker[w] = "ended"
      BY <1>2, <2>1 DEF TeamWork, Joined
    <2>3. InCount = {} /\ InJudge = {} /\ HeldValid = {} /\ HeldEmails = {}
      BY <2>2 DEF InCount, InJudge, HeldValid, HeldEmails
    <2>4. queue = << >> /\ done
      BY <1>2, <2>1, <2>2 DEF TeamWork, QueueTypeOK
    <2>5. Popped = Len(text) /\ DOMAIN text = 1 .. Len(text)
      <3>1. Len(queue) = 0 /\ pushed = Len(text) /\ Len(text) \in Nat /\ DOMAIN text = 1 .. Len(text)
        BY <2>1, <2>4, LenProperties DEF Stretch, QueueTypeOK
      <3>2. QED
        BY <3>1 DEF Popped
    <2>6. /\ PoppedRecords = RecordsIn(text) /\ PoppedEmails = EmailsIn(text)
          /\ PoppedValid = {i \in DOMAIN text : ValidThreaded(text[i])}
      BY <2>5 DEF PoppedRecords, RecordsIn, PoppedEmails, EmailsIn, PoppedValid
    <2>7. /\ Cardinality({}) = 0 /\ count \in Nat /\ ok \in Nat /\ bad \in Nat
      BY <2>1, FS_EmptySet DEF QueueTypeOK
    <2>8. count = Cardinality(RecordsIn(text))
      BY <2>1, <2>3, <2>6, <2>7 DEF Counted
    <2>9. job.cmd = "report" => emails = EmailsIn(text)
      BY <1>2, <2>3, <2>6 DEF IInv, QInv, Noted
    <2>10. ASSUME job.cmd = "validate"
           PROVE  /\ ok + bad = count
                  /\ ok = Cardinality({i \in DOMAIN text : ValidThreaded(text[i])})
      <3>1. /\ ok + bad + Cardinality(InJudge) = count
            /\ ok + Cardinality(HeldValid) = Cardinality(PoppedValid)
        BY <1>2, <2>10 DEF IInv, QInv, Judged
      <3>2. QED
        BY <2>3, <2>6, <2>7, <3>1
    <2>11. QED
      BY <2>8, <2>9, <2>10
  <1>3. IInv => CountersRight
    BY <1>1, <1>2 DEF CountersRight, IInv, FInv, Stages
  <1>4. QED
    BY <1>3, Invariance, PTL

-----------------------------------------------------------------------------
(* Lines at places.                                                          *)

(* A set of numbers with a member has a least one.                           *)
LEMMA LeastNumber ==
    ASSUME NEW S \in SUBSET Nat, S # {}
    PROVE  \E n \in S : \A k \in S : n <= k
  <1>1. \E n \in S : \A k \in S : << k, n >> \notin OpToRel(<, Nat)
    BY NatLessThanWellFounded, WFMin
  <1>2. PICK n \in S : \A k \in S : ~(k < n)
    BY <1>1 DEF OpToRel
  <1>3. QED
    BY <1>2

(* What FirstLinesAt takes on with one line more, and what it is.            *)
OneMore(f, lines, places, n) ==
    IF n = 0 THEN << >>
    ELSE IF n \in places THEN Append(f[n - 1], lines[n])
    ELSE f[n - 1]

Grows(f, lines, places, m) == f = [n \in 0 .. m |-> OneMore(f, lines, places, n)]

(* The recursion of FirstLinesAt has a solution.                             *)
LEMMA FirstLinesExist ==
    ASSUME NEW lines, NEW places, NEW m \in Nat
    PROVE  \E f : Grows(f, lines, places, m)
  <1> DEFINE Upto(k) == \E f : Grows(f, lines, places, k)
             Bad     == {k \in Nat : ~Upto(k)}
  <1>1. Upto(0)
    <2> DEFINE f == [n \in 0 .. 0 |-> << >>]
    <2>1. \A n \in 0 .. 0 : OneMore(f, lines, places, n) = << >>
      BY DEF OneMore
    <2>2. Grows(f, lines, places, 0)
      BY <2>1 DEF Grows
    <2>3. QED
      BY <2>2
  <1>2. ASSUME NEW k \in Nat, Upto(k)
        PROVE  Upto(k + 1)
    <2>1. PICK f : Grows(f, lines, places, k)
      BY <1>2
    <2> DEFINE g == [n \in 0 .. k + 1 |-> OneMore(f, lines, places, n)]
    <2>2. \A n \in 0 .. k : g[n] = f[n]
      <3> SUFFICES ASSUME NEW n \in 0 .. k PROVE g[n] = f[n]
        OBVIOUS
      <3>1. f[n] = OneMore(f, lines, places, n)
        BY <2>1 DEF Grows
      <3>2. n \in 0 .. k + 1
        OBVIOUS
      <3>3. QED
        BY <3>1, <3>2
    <2> HIDE DEF g
    <2>3. ASSUME NEW n \in 0 .. k + 1
          PROVE  OneMore(f, lines, places, n) = OneMore(g, lines, places, n)
      <3>1. n # 0 => n - 1 \in 0 .. k
        OBVIOUS
      <3>2. QED
        BY <2>2, <3>1 DEF OneMore
    <2>4. g = [n \in 0 .. k + 1 |-> OneMore(g, lines, places, n)]
      BY <2>3 DEF g
    <2>5. QED
      BY <2>4 DEF Grows
  <1> HIDE DEF Upto
  <1>3. Bad = {}
    <2>1. SUFFICES ASSUME Bad # {}
                   PROVE  FALSE
      OBVIOUS
    <2>2. PICK k \in Bad : \A j \in Bad : k <= j
      BY <2>1, LeastNumber
    <2>3. k # 0 /\ k \in Nat /\ ~Upto(k)
      BY <1>1, <2>2
    <2>4. k - 1 \in Nat /\ k - 1 \notin Bad
      BY <2>2, <2>3
    <2>5. Upto((k - 1) + 1)
      BY <1>2, <2>4
    <2>6. QED
      BY <2>3, <2>5
  <1>4. Upto(m)
    BY <1>3
  <1>5. QED
    BY <1>4 DEF Upto

(* Line by line, one is put behind the others when its place is asked for.   *)
LEMMA FirstLinesUnfold ==
    ASSUME NEW lines, NEW places, Len(lines) \in Nat
    PROVE  LET at == FirstLinesAt(lines, places)
           IN  /\ at[0] = << >>
               /\ \A n \in 0 .. Len(lines) - 1 :
                     at[n + 1] = IF n + 1 \in places THEN Append(at[n], lines[n + 1]) ELSE at[n]
  <1> DEFINE at == CHOOSE at : Grows(at, lines, places, Len(lines))
  <1>1. Grows(at, lines, places, Len(lines))
    BY FirstLinesExist
  <1>2. FirstLinesAt(lines, places) = at
    BY DEF FirstLinesAt, Grows, OneMore
  <1> HIDE DEF at
  <1>3. \A n \in 0 .. Len(lines) : at[n] = OneMore(at, lines, places, n)
    BY <1>1 DEF Grows
  <1>4. at[0] = << >>
    BY <1>3 DEF OneMore
  <1>5. ASSUME NEW n \in 0 .. Len(lines) - 1
        PROVE  at[n + 1] = IF n + 1 \in places THEN Append(at[n], lines[n + 1]) ELSE at[n]
    <2>1. n + 1 \in 0 .. Len(lines) /\ n + 1 # 0 /\ (n + 1) - 1 = n
      OBVIOUS
    <2>2. QED
      BY <1>3, <2>1 DEF OneMore
  <1>6. QED
    BY <1>2, <1>4, <1>5

(* The places asked for among the first k.                                   *)
PlacesTo(places, k) == {i \in 1 .. k : i \in places}

LEMMA OnePlaceMore ==
    ASSUME NEW places, NEW k \in Nat, IsFiniteSet(PlacesTo(places, k))
    PROVE  LET P == PlacesTo(places, k)
               Q == PlacesTo(places, k + 1)
           IN  /\ IsFiniteSet(Q)
               /\ IF k + 1 \in places
                  THEN Q = P \cup {k + 1} /\ Cardinality(Q) = Cardinality(P) + 1
                  ELSE Q = P
  <1> DEFINE P == PlacesTo(places, k)
             Q == PlacesTo(places, k + 1)
  <1>1. Q = (IF k + 1 \in places THEN P \cup {k + 1} ELSE P) /\ k + 1 \notin P
    BY DEF PlacesTo
  <1> HIDE DEF P, Q
  <1>2. IsFiniteSet(P)
    BY DEF P
  <1>3. IsFiniteSet(P \cup {k + 1}) /\ Cardinality(P \cup {k + 1}) = Cardinality(P) + 1
    BY <1>1, <1>2, FS_AddElement
  <1>4. IsFiniteSet(Q) /\ IF k + 1 \in places
                         THEN Q = P \cup {k + 1} /\ Cardinality(Q) = Cardinality(P) + 1
                         ELSE Q = P
    BY <1>1, <1>2, <1>3
  <1>5. QED
    BY <1>4 DEF P, Q

(* What is gathered are lines at the places asked for, as many as there are. *)
Gathers(s, S, lines, places, k) ==
    /\ s \in Seq(S) /\ IsFiniteSet(PlacesTo(places, k))
    /\ Len(s) = Cardinality(PlacesTo(places, k))
    /\ \A m \in 1 .. Len(s) : \E i \in PlacesTo(places, k) : s[m] = lines[i]

LEMMA FirstLinesFacts ==
    ASSUME NEW S, NEW lines \in Seq(S), NEW places, NEW n \in 0 .. Len(lines)
    PROVE  Gathers(FirstLinesAt(lines, places)[n], S, lines, places, n)
  <1> DEFINE at == FirstLinesAt(lines, places)
             Good(k) == Gathers(at[k], S, lines, places, k)
             Bad == {k \in 0 .. Len(lines) : ~Good(k)}
  <1>1. Len(lines) \in Nat
    BY LenProperties
  <1>2. /\ at[0] = << >>
        /\ \A k \in 0 .. Len(lines) - 1 :
              at[k + 1] = IF k + 1 \in places THEN Append(at[k], lines[k + 1]) ELSE at[k]
    BY <1>1, FirstLinesUnfold
  <1> HIDE DEF at
  <1>3. Good(0)
    <2>1. PlacesTo(places, 0) = {}
      BY DEF PlacesTo
    <2>2. Cardinality({}) = 0 /\ IsFiniteSet({})
      BY FS_EmptySet
    <2>3. at[0] \in Seq(S) /\ Len(at[0]) = 0
      BY <1>2, EmptySeq
    <2>4. IsFiniteSet(PlacesTo(places, 0)) /\ Cardinality(PlacesTo(places, 0)) = 0
      BY <2>1, <2>2
    <2>5. 1 .. Len(at[0]) = {}
      BY <2>3
    <2>6. QED
      BY <2>3, <2>4, <2>5 DEF Gathers
  <1>4. ASSUME NEW k \in 0 .. Len(lines) - 1, Good(k)
        PROVE  Good(k + 1)
    <2>1. k \in Nat /\ k + 1 \in 1 .. Len(lines)
      BY <1>1
    <2>2. lines[k + 1] \in S
      BY <2>1, ElementOfSeq
    <2>3. /\ at[k] \in Seq(S) /\ Len(at[k]) \in Nat /\ IsFiniteSet(PlacesTo(places, k))
          /\ Len(at[k]) = Cardinality(PlacesTo(places, k))
          /\ \A m \in 1 .. Len(at[k]) : \E i \in PlacesTo(places, k) : at[k][m] = lines[i]
      BY <1>4, LenProperties DEF Gathers
    <2>4. CASE k + 1 \in places
      <3> DEFINE s == at[k]
      <3>1. at[k + 1] = Append(s, lines[k + 1])
        BY <1>2, <2>4
      <3> HIDE DEF s
      <3>2. s \in Seq(S)
        BY <2>3 DEF s
      <3>3. /\ at[k + 1] \in Seq(S) /\ Len(at[k + 1]) = Len(s) + 1
            /\ at[k + 1][Len(s) + 1] = lines[k + 1]
            /\ \A m \in 1 .. Len(s) : at[k + 1][m] = s[m]
        BY <2>2, <3>1, <3>2, AppendProperties
      <3>4. /\ IsFiniteSet(PlacesTo(places, k + 1))
            /\ PlacesTo(places, k + 1) = PlacesTo(places, k) \cup {k + 1}
            /\ Cardinality(PlacesTo(places, k + 1)) = Cardinality(PlacesTo(places, k)) + 1
        BY <2>1, <2>3, <2>4, OnePlaceMore
      <3>5. ASSUME NEW m \in 1 .. Len(at[k + 1])
            PROVE  \E i \in PlacesTo(places, k + 1) : at[k + 1][m] = lines[i]
        <4>1. CASE m = Len(s) + 1
          BY <3>3, <3>4, <4>1
        <4>2. CASE m # Len(s) + 1
          <5>1. m \in 1 .. Len(s)
            BY <2>3, <3>3, <4>2 DEF s
          <5>2. PICK i \in PlacesTo(places, k) : s[m] = lines[i]
            BY <2>3, <5>1 DEF s
          <5>3. QED
            BY <3>3, <3>4, <5>1, <5>2
        <4>3. QED
          BY <4>1, <4>2
      <3>6. QED
        BY <2>3, <3>3, <3>4, <3>5 DEF Gathers, s
    <2>5. CASE k + 1 \notin places
      <3>1. at[k + 1] = at[k]
        BY <1>2, <2>5
      <3>2. PlacesTo(places, k + 1) = PlacesTo(places, k)
        BY <2>1, <2>3, <2>5, OnePlaceMore
      <3>3. QED
        BY <2>3, <3>1, <3>2 DEF Gathers
    <2>6. QED
      BY <2>4, <2>5
  <1> HIDE DEF Good
  <1>5. Bad = {}
    <2>1. SUFFICES ASSUME Bad # {}
                   PROVE  FALSE
      OBVIOUS
    <2>2. Bad \in SUBSET Nat
      OBVIOUS
    <2>3. PICK k \in Bad : \A j \in Bad : k <= j
      BY <2>1, <2>2, LeastNumber
    <2>4. k \in 0 .. Len(lines) /\ k # 0 /\ ~Good(k)
      BY <1>3, <2>3
    <2>5. k - 1 \in 0 .. Len(lines) - 1 /\ (k - 1) + 1 = k /\ k - 1 \notin Bad
      BY <1>1, <2>3, <2>4
    <2>6. Good((k - 1) + 1)
      BY <1>4, <2>5
    <2>7. QED
      BY <2>4, <2>5, <2>6
  <1>6. Good(n)
    BY <1>5
  <1>7. QED
    BY <1>6 DEF Good, at

(* When every place is asked for, it is the lines themselves.                *)
LEMMA AllLines ==
    ASSUME NEW S, NEW lines \in Seq(S)
    PROVE  LinesAt(lines, DOMAIN lines) = lines
  <1> DEFINE at == FirstLinesAt(lines, DOMAIN lines)
             Bad == {k \in 0 .. Len(lines) : at[k] # SubSeq(lines, 1, k)}
  <1>1. Len(lines) \in Nat /\ DOMAIN lines = 1 .. Len(lines)
    BY LenProperties
  <1>2. /\ at[0] = << >>
        /\ \A k \in 0 .. Len(lines) - 1 : at[k + 1] = Append(at[k], lines[k + 1])
    <2>1. /\ at[0] = << >>
          /\ \A k \in 0 .. Len(lines) - 1 :
                at[k + 1] = IF k + 1 \in DOMAIN lines THEN Append(at[k], lines[k + 1]) ELSE at[k]
      BY <1>1, FirstLinesUnfold
    <2>2. \A k \in 0 .. Len(lines) - 1 : k + 1 \in DOMAIN lines
      BY <1>1
    <2> HIDE DEF at
    <2>3. QED
      BY <2>1, <2>2
  <1> HIDE DEF at
  <1>3. at[0] = SubSeq(lines, 1, 0)
    BY <1>2, SubSeqEmpty
  <1>4. \A k \in 0 .. Len(lines) - 1 : SubSeq(lines, 1, k + 1) = Append(SubSeq(lines, 1, k), lines[k + 1])
    BY <1>1
  <1>5. Bad = {}
    <2>1. SUFFICES ASSUME Bad # {}
                   PROVE  FALSE
      OBVIOUS
    <2>2. Bad \in SUBSET Nat
      OBVIOUS
    <2>3. PICK k \in Bad : \A j \in Bad : k <= j
      BY <2>1, <2>2, LeastNumber
    <2>4. k \in 0 .. Len(lines) /\ k # 0 /\ at[k] # SubSeq(lines, 1, k)
      BY <1>3, <2>3
    <2>5. k - 1 \in 0 .. Len(lines) - 1 /\ (k - 1) + 1 = k /\ k - 1 \notin Bad
      BY <1>1, <2>3, <2>4
    <2>6. at[k - 1] = SubSeq(lines, 1, k - 1)
      BY <2>5
    <2>7. QED
      BY <1>2, <1>4, <2>4, <2>5, <2>6
  <1>6. at[Len(lines)] = SubSeq(lines, 1, Len(lines))
    BY <1>1, <1>5
  <1>7. SubSeq(lines, 1, Len(lines)) = lines
    BY SubSeqFull
  <1>8. QED
    BY <1>6, <1>7 DEF LinesAt, at

-----------------------------------------------------------------------------
(* What the helpers write.  While a command reads, what it has gathered is   *)
(* what it makes of the lines of its input that it has read: Progress adds   *)
(* that to IInv.                                                             *)

\* How many lines of the input have been read.
ReadSoFar == IF job.on = 1 THEN job.at
             ELSE IF job.on = 2 THEN Len(Given(1)) + job.at
             ELSE Len(Input)

\* A stream that empties its own input does not read what it found.
Undisturbed == job.cmd \in Streaming => ~InPlace

\* The places of the lines that a command passes on, and what it makes of them.
Kept ==
    CASE job.cmd \in {"backup", "normalize"} -> DOMAIN Input
      [] job.cmd = "dedupe" -> Firsts(Input, DedupeKey)
      [] job.cmd = "merge" -> Firsts(Input, MergeKey)
      [] job.cmd = "grep" -> {i \in DOMAIN Input : Parses(Input[i]) /\ Matches(Input[i])}
      [] OTHER -> RecordsIn(Input)

Rewritten(l) == CASE job.cmd = "redact" -> Redacted(l)
                  [] job.cmd = "normalize" -> Normalized(l)
                  [] OTHER -> l

RewrittenInput == [i \in DOMAIN Input |-> Rewritten(Input[i])]

\* The keys of the records that have been read.
Met(Key(_)) == {Key(Input[i]) : i \in {j \in 1 .. ReadSoFar : Parses(Input[j])}}

Carried ==
    /\ job.acc = FirstLinesAt(RewrittenInput, Kept)[ReadSoFar]
    /\ job.cmd = "dedupe" => job.seen = Met(DedupeKey)
    /\ job.cmd = "merge" => job.seen = Met(MergeKey)

\* Each line of the sample was read at a place of its own.
RecordsRead == PlacesTo(RecordsIn(Input), ReadSoFar)

OnePlaceEach(lines, places) ==
    \E q \in [1 .. Len(lines) -> places] :
        /\ \A i, m \in 1 .. Len(lines) : q[i] = q[m] => i = m
        /\ \A m \in 1 .. Len(lines) : lines[m] = Input[q[m]]

Drawn ==
    /\ IsFiniteSet(RecordsRead) /\ job.n = Cardinality(RecordsRead)
    /\ Len(job.acc) = IF job.n < job.size THEN job.n ELSE job.size
    /\ OnePlaceEach(job.acc, RecordsRead)

\* Where a command is in its input.
Whereabouts ==
    /\ Len(job.ins) <= 2 /\ job.on <= Len(job.ins) + 1
    /\ job.on <= Len(job.ins) => job.at <= Len(Given(job.on))
    /\ job.on > Len(job.ins) => job.at = 0
    /\ job.phase # "read" => job.on > Len(job.ins)

Gathered == IF job.cmd = "sample" THEN Drawn ELSE Carried

\* What was gathered, or a first part of it when some was lost.
FirstPart(s) ==
    \E k \in 0 .. Len(job.acc) :
        s = SubSeq(job.acc, 1, k) /\ (~job.lost => k = Len(job.acc))

Made ==
    /\ Whereabouts /\ Gathered
    /\ job.phase = "rename" => FirstPart(temp)
    /\ job.phase = "ok" => FirstPart(files[job.out])

Underway == /\ job.cmd \in Streaming \cup Gathering
            /\ job.phase \in {"read", "write", "rename", "ok"}

Progress ==
    /\ before \in [Paths -> Seq(Line) \cup {NoFile}]
    /\ Underway => /\ job.cmd = "backup" => ~InPlace
                   /\ Undisturbed => Made

(* The input is the one file and then the other.                             *)
LEMMA InputFacts ==
    ASSUME job \in Job, before \in [Paths -> Seq(Line) \cup {NoFile}]
    PROVE  /\ Input \in Seq(Line) /\ DOMAIN Input = 1 .. Len(Input)
           /\ Given(1) \in Seq(Line) /\ Given(2) \in Seq(Line)
           /\ Len(Given(1)) \in Nat /\ Len(Given(2)) \in Nat
           /\ Len(Input) = Len(Given(1)) + Len(Given(2))
           /\ \A i \in 1 .. Len(Given(1)) : Input[i] = Given(1)[i]
           /\ \A i \in 1 .. Len(Given(2)) : Input[Len(Given(1)) + i] = Given(2)[i]
  <1>1. ASSUME NEW k \in {1, 2}
        PROVE  Given(k) \in Seq(Line)
    <2>1. CASE k \in DOMAIN job.ins /\ before[job.ins[k]] # NoFile
      <3>1. job.ins \in Seq(Paths) /\ k \in 1 .. Len(job.ins)
        BY <2>1, LenProperties DEF Job
      <3>2. job.ins[k] \in Paths
        BY <3>1, ElementOfSeq
      <3>3. QED
        BY <2>1, <3>2 DEF Given
    <2>2. CASE ~(k \in DOMAIN job.ins /\ before[job.ins[k]] # NoFile)
      BY <2>2, EmptySeq DEF Given
    <2>3. QED
      BY <2>1, <2>2
  <1> DEFINE a == Given(1)
             b == Given(2)
  <1>2. a \in Seq(Line) /\ b \in Seq(Line) /\ Input = a \o b
    BY <1>1 DEF Input
  <1> HIDE DEF a, b
  <1>3. Len(a) \in Nat /\ Len(b) \in Nat
    BY <1>2, LenProperties
  <1>4. /\ Input \in Seq(Line) /\ Len(Input) = Len(a) + Len(b)
        /\ \A i \in 1 .. Len(Input) : Input[i] = IF i <= Len(a) THEN a[i] ELSE b[i - Len(a)]
    BY <1>2, ConcatProperties
  <1>5. \A i \in 1 .. Len(a) : Input[i] = a[i]
    BY <1>3, <1>4
  <1>6. ASSUME NEW i \in 1 .. Len(b)
        PROVE  Input[Len(a) + i] = b[i]
    <2>1. Len(a) + i \in 1 .. Len(Input) /\ ~(Len(a) + i <= Len(a)) /\ (Len(a) + i) - Len(a) = i
      BY <1>3, <1>4
    <2>2. QED
      BY <1>4, <2>1
  <1>7. DOMAIN Input = 1 .. Len(Input)
    BY <1>4, LenProperties
  <1>8. QED
    BY <1>2, <1>3, <1>4, <1>5, <1>6, <1>7 DEF a, b

(* It stays what it was as long as the job has the same files.               *)
LEMMA SameInput ==
    ASSUME before' = before, job'.ins = job.ins, job'.out = job.out, job'.cmd = job.cmd
    PROVE  /\ Input' = Input /\ Given(1)' = Given(1) /\ Given(2)' = Given(2)
           /\ (InPlace' <=> InPlace) /\ (Undisturbed' <=> Undisturbed)
           /\ Kept' = Kept /\ RewrittenInput' = RewrittenInput
           /\ \A k \in {1, 2} : Given(k)' = Given(k)
  <1>1. \A k \in {1, 2} : Given(k)' = Given(k)
    BY DEF Given
  <1>2. Given(1)' = Given(1) /\ Given(2)' = Given(2)
    BY DEF Given
  <1>3. Input' = Input
    BY <1>2 DEF Input
  <1>4. InPlace' <=> InPlace
    BY DEF InPlace
  <1>5. Undisturbed' <=> Undisturbed
    BY <1>4 DEF Undisturbed
  <1>6. Kept' = Kept
    BY <1>3 DEF Kept
  <1>7. RewrittenInput' = RewrittenInput
    BY <1>3 DEF RewrittenInput, Rewritten
  <1>8. QED
    BY <1>1, <1>2, <1>3, <1>4, <1>5, <1>6, <1>7

(* What a command makes of its input are lines, as many as it has.           *)
LEMMA RewrittenFacts ==
    ASSUME Input \in Seq(Line)
    PROVE  /\ RewrittenInput \in Seq(Line) /\ Len(RewrittenInput) = Len(Input)
           /\ \A i \in 1 .. Len(Input) : RewrittenInput[i] = Rewritten(Input[i])
  <1>1. Len(Input) \in Nat /\ DOMAIN Input = 1 .. Len(Input) /\ \A i \in DOMAIN Input : Input[i] \in Line
    BY LenProperties, ElementOfSeq
  <1>2. \A i \in DOMAIN Input : Rewritten(Input[i]) \in Line
    BY <1>1, RewrittenLines DEF Rewritten
  <1>3. RewrittenInput \in [1 .. Len(Input) -> Line]
    BY <1>1, <1>2 DEF RewrittenInput
  <1>4. RewrittenInput \in Seq(Line) /\ Len(RewrittenInput) = Len(Input)
    BY <1>1, <1>3
  <1>5. QED
    BY <1>1, <1>4 DEF RewrittenInput

(* The file that is read is what the command found there.                    *)
LEMMA SourceGiven ==
    ASSUME IInv, Undisturbed, Reading
    PROVE  Source = Given(job.on)
  <1>1. /\ FilesTyped /\ Inputs /\ Touched /\ job.phase = "read"
        /\ job.on >= 1 /\ job.on <= Len(job.ins)
    BY DEF IInv, FInv, Inputs, Reading
  <1>2. job.on \in DOMAIN job.ins /\ job.ins[job.on] \in Paths
    <2>1. job.ins \in Seq(Paths) /\ job.on \in Nat /\ Len(job.ins) \in Nat
      BY <1>1, LenProperties DEF FilesTyped, Job
    <2>2. job.on \in 1 .. Len(job.ins)
      BY <1>1, <2>1
    <2>3. QED
      BY <2>1, <2>2, ElementOfSeq, LenProperties
  <1>3. files[job.ins[job.on]] # NoFile
    BY <1>1, <1>2 DEF Inputs
  <1>4. files[job.ins[job.on]] = before[job.ins[job.on]]
    BY <1>1, <1>2 DEF Touched, Undisturbed, InPlace
  <1>5. QED
    BY <1>2, <1>3, <1>4 DEF Source, Given

(* The next line is the one behind those that have been read.                *)
LEMMA NextLineFacts ==
    ASSUME IInv, Progress, Undisturbed, Reading, job.at < Len(Source),
           job.cmd \in Streaming \cup Gathering
    PROVE  /\ ReadSoFar \in Nat /\ ReadSoFar + 1 \in 1 .. Len(Input)
           /\ Input[ReadSoFar + 1] = NextLine
           /\ Source = Given(job.on) /\ job.on \in {1, 2}
  <1>1. Source = Given(job.on)
    BY SourceGiven
  <1>2. job \in Job /\ job.phase = "read" /\ job.on <= Len(job.ins) /\ job.on >= 1
    BY DEF IInv, FInv, FilesTyped, Inputs, Reading
  <1>3. Len(job.ins) <= 2 /\ Len(job.ins) \in Nat
    BY <1>2, LenProperties DEF Progress, Underway, Made, Whereabouts, Job
  <1>4. job.on \in {1, 2} /\ job.at \in Nat
    BY <1>2, <1>3 DEF Job
  <1>5. /\ Input \in Seq(Line) /\ Len(Given(1)) \in Nat /\ Len(Given(2)) \in Nat
        /\ Len(Input) = Len(Given(1)) + Len(Given(2))
        /\ \A i \in 1 .. Len(Given(1)) : Input[i] = Given(1)[i]
        /\ \A i \in 1 .. Len(Given(2)) : Input[Len(Given(1)) + i] = Given(2)[i]
    BY <1>2, InputFacts DEF Progress
  <1> DEFINE i == job.at + 1
  <1>6. NextLine = Given(job.on)[i] /\ i \in Nat /\ i <= Len(Given(job.on)) /\ i >= 1
    <2>1. job.at < Len(Given(job.on))
      BY <1>1
    <2>2. NextLine = Given(job.on)[i]
      BY <1>1 DEF NextLine
    <2>3. QED
      BY <1>4, <1>5, <2>1, <2>2
  <1>7. CASE job.on = 1
    <2>1. ReadSoFar + 1 = i /\ ReadSoFar \in Nat
      BY <1>4, <1>7 DEF ReadSoFar
    <2> HIDE DEF i
    <2>2. i \in 1 .. Len(Given(1)) /\ i \in 1 .. Len(Input)
      BY <1>5, <1>6, <1>7
    <2>3. QED
      BY <1>1, <1>4, <1>5, <1>6, <1>7, <2>1, <2>2
  <1>8. CASE job.on = 2
    <2>1. ReadSoFar + 1 = Len(Given(1)) + i /\ ReadSoFar \in Nat
      BY <1>4, <1>5, <1>8 DEF ReadSoFar
    <2> HIDE DEF i
    <2>2. i \in 1 .. Len(Given(2)) /\ Len(Given(1)) + i \in 1 .. Len(Input)
      BY <1>5, <1>6, <1>8
    <2>3. QED
      BY <1>1, <1>4, <1>5, <1>6, <1>8, <2>1, <2>2
  <1>9. QED
    BY <1>4, <1>7, <1>8

(* The job after a line that is dropped, written, or written once per key.   *)
LEMMA AdvancedJob ==
    ASSUME job \in Job
    PROVE  /\ Advanced \in Job /\ Advanced.at = job.at + 1 /\ Advanced.acc = job.acc
           /\ Advanced.seen = job.seen /\ Advanced.n = job.n /\ Advanced.size = job.size
  BY SMTT(30) DEF Advanced, Job

LEMMA WritingJob ==
    ASSUME job \in Job, NEW l \in Line
    PROVE  LET j == Writing(l)
           IN  /\ j \in Job /\ j.at = job.at + 1 /\ j.acc = Append(job.acc, l)
               /\ j.seen = job.seen /\ j.n = job.n /\ j.size = job.size
  <1> DEFINE p == Advanced
  <1>1. /\ p \in Job /\ p.at = job.at + 1 /\ p.acc = job.acc
        /\ p.seen = job.seen /\ p.n = job.n /\ p.size = job.size
    BY AdvancedJob
  <1>2. Append(job.acc, l) \in Seq(Line)
    BY AppendProperties DEF Job
  <1>3. Writing(l) = [p EXCEPT !.acc = Append(job.acc, l)]
    BY <1>1 DEF Writing
  <1> HIDE DEF p
  <1>4. QED
    BY <1>1, <1>2, <1>3 DEF Job

LEMMA OncePerKeyJob ==
    ASSUME job \in Job, NextLine \in Line, NEW key \in Line \cup Texts
    PROVE  LET j == OncePerKey(key)
           IN  /\ j.at = job.at + 1 /\ j.seen = job.seen \cup {key}
               /\ j.acc = IF key \in job.seen THEN job.acc ELSE Append(job.acc, NextLine)
  <1> DEFINE p == Writing(NextLine)
  <1>1. /\ p \in Job /\ p.at = job.at + 1 /\ p.acc = Append(job.acc, NextLine)
        /\ p.seen = job.seen
    BY WritingJob
  <1>2. CASE key \in job.seen
    <2>1. OncePerKey(key) = Advanced /\ job.seen \cup {key} = job.seen
      BY <1>2 DEF OncePerKey
    <2>2. QED
      BY <1>2, <2>1, AdvancedJob
  <1>3. CASE key \notin job.seen
    <2>1. OncePerKey(key) = [p EXCEPT !.seen = @ \cup {key}]
      BY <1>3 DEF OncePerKey
    <2> HIDE DEF p
    <2>2. QED
      BY <1>1, <1>3, <2>1 DEF Job
  <1>4. QED
    BY <1>2, <1>3

(* A line that is no object is rewritten as it is.                           *)
LEMMA BareRewritten ==
    ASSUME NEW l \in Line, l.form # "object"
    PROVE  Redacted(l) = l /\ Normalized(l) = l
  <1>1. PICK form \in {"empty", "broken", "scalar"} : l = Bare(form)
    BY DEF Line
  <1>2. l.name = Absent /\ l.email = Absent /\ l.phone = Absent
    BY <1>1 DEF Bare
  <1>3. \A f : Rewrite(f, Absent) = Absent
    BY DEF Rewrite
  <1>4. QED
    BY <1>1, <1>2, <1>3 DEF Redacted, Normalized, Bare

(* One line on, one line more of the input has been read.                    *)
LEMMA OneLineOn ==
    ASSUME IInv, Progress, Undisturbed, Reading, job.at < Len(Source),
           job.cmd \in Streaming \cup Gathering,
           GoesOn(job'), UNCHANGED << files, temp, before >>, job'.at = job.at + 1
    PROVE  ReadSoFar' = ReadSoFar + 1 /\ Whereabouts'
  <1>1. /\ ReadSoFar \in Nat /\ Source = Given(job.on) /\ job.on \in {1, 2}
    BY NextLineFacts
  <1>2. /\ job'.cmd = job.cmd /\ job'.ins = job.ins /\ job'.out = job.out
        /\ job'.on = job.on /\ job'.phase = job.phase /\ job.phase = "read"
        /\ job \in Job /\ job' \in Job /\ job.on <= Len(job.ins)
    BY DEF GoesOn, Reading, IInv, FInv, FilesTyped
  <1>3. /\ Given(1)' = Given(1) /\ Given(2)' = Given(2) /\ Input' = Input
    BY <1>2, SameInput
  <1>4. Len(Given(1)) \in Nat /\ Len(Given(2)) \in Nat /\ job.at \in Nat
    BY <1>2, InputFacts DEF Progress, Job
  <1>5. ReadSoFar' = ReadSoFar + 1
    BY <1>1, <1>2, <1>3, <1>4 DEF ReadSoFar
  <1>6. Len(job.ins) <= 2
    BY <1>2 DEF Progress, Underway, Made, Whereabouts
  <1>7. (job.at <= Len(Given(job.on)))'
    <2>1. job.at + 1 <= Len(Given(job.on))
      BY <1>1, <1>4
    <2>2. Given(job.on)' = Given(job.on)
      BY <1>2 DEF Given
    <2>3. QED
      BY <2>1, <2>2
  <1>8. Whereabouts'
    <2>1. Len(job.ins) \in Nat /\ job.on \in Nat
      BY <1>2, LenProperties DEF Job
    <2>2. QED
      BY <1>2, <1>6, <1>7, <2>1 DEF Whereabouts
  <1>9. QED
    BY <1>5, <1>8

(* What is carried grows by the line that is read, if it is passed on.       *)
LEMMA CarryOn ==
    ASSUME IInv, Progress, Undisturbed, Reading, job.at < Len(Source),
           job.cmd \in Streaming \cup Gathering, job.cmd # "sample",
           GoesOn(job'), UNCHANGED << files, temp, before >>, job'.at = job.at + 1,
           job'.acc = IF ReadSoFar + 1 \in Kept THEN Append(job.acc, Rewritten(NextLine))
                                                ELSE job.acc,
           job.cmd = "dedupe" =>
               job'.seen = IF Parses(NextLine) THEN job.seen \cup {DedupeKey(NextLine)} ELSE job.seen,
           job.cmd = "merge" =>
               job'.seen = IF Parses(NextLine) THEN job.seen \cup {MergeKey(NextLine)} ELSE job.seen
    PROVE  Made'
  <1> DEFINE k == ReadSoFar
  <1>1. k \in Nat /\ k + 1 \in 1 .. Len(Input) /\ Input[k + 1] = NextLine
    BY NextLineFacts
  <1>2. ReadSoFar' = k + 1 /\ Whereabouts'
    BY OneLineOn
  <1>3. /\ job'.cmd = job.cmd /\ job'.ins = job.ins /\ job'.out = job.out
        /\ job'.on = job.on /\ job'.phase = job.phase /\ job.phase = "read" /\ job \in Job
    BY DEF GoesOn, Reading, IInv, FInv, FilesTyped
  <1>4. Carried
    BY <1>3 DEF Progress, Underway, Made, Gathered
  <1>5. Input' = Input /\ Kept' = Kept /\ RewrittenInput' = RewrittenInput
    BY <1>3, SameInput
  <1>6. Input \in Seq(Line) /\ Len(Input) \in Nat
    BY <1>3, InputFacts, LenProperties DEF Progress
  <1>7. Len(RewrittenInput) = Len(Input) /\ RewrittenInput[k + 1] = Rewritten(NextLine)
    BY <1>1, <1>6, RewrittenFacts
  <1>8. FirstLinesAt(RewrittenInput, Kept)[k + 1] =
            IF k + 1 \in Kept
            THEN Append(FirstLinesAt(RewrittenInput, Kept)[k], RewrittenInput[k + 1])
            ELSE FirstLinesAt(RewrittenInput, Kept)[k]
    <2>1. k \in 0 .. Len(RewrittenInput) - 1
      BY <1>1, <1>6, <1>7
    <2> HIDE DEF k
    <2>2. QED
      BY <1>6, <1>7, <2>1, FirstLinesUnfold
  <1>9. job'.acc = FirstLinesAt(RewrittenInput, Kept)[k + 1]
    BY <1>4, <1>7, <1>8 DEF Carried
  <1>10. {j \in 1 .. k + 1 : Parses(Input[j])}
           = IF Parses(NextLine) THEN {j \in 1 .. k : Parses(Input[j])} \cup {k + 1}
                                 ELSE {j \in 1 .. k : Parses(Input[j])}
    BY <1>1
  <1>11. ASSUME job.cmd = "dedupe"
         PROVE  job'.seen = Met(DedupeKey)'
    <2>1. job.seen = Met(DedupeKey)
      BY <1>4, <1>11 DEF Carried
    <2>2. Met(DedupeKey)' = {DedupeKey(Input[i]) : i \in {j \in 1 .. k + 1 : Parses(Input[j])}}
      BY <1>2, <1>5 DEF Met
    <2> HIDE DEF k
    <2>3. QED
      BY <1>1, <1>10, <1>11, <2>1, <2>2 DEF Met, k
  <1>12. ASSUME job.cmd = "merge"
         PROVE  job'.seen = Met(MergeKey)'
    <2>1. job.seen = Met(MergeKey)
      BY <1>4, <1>12 DEF Carried
    <2>2. Met(MergeKey)' = {MergeKey(Input[i]) : i \in {j \in 1 .. k + 1 : Parses(Input[j])}}
      BY <1>2, <1>5 DEF Met
    <2> HIDE DEF k
    <2>3. QED
      BY <1>1, <1>10, <1>12, <2>1, <2>2 DEF Met, k
  <1>13. Carried'
    BY <1>2, <1>3, <1>5, <1>9, <1>11, <1>12 DEF Carried
  <1>14. QED
    BY <1>2, <1>3, <1>13 DEF Made, Gathered

(* Whether the next line is passed on.                                       *)
LEMMA KeptNext ==
    ASSUME NEW n \in DOMAIN Input, job.cmd \in Streaming \cup Gathering
    PROVE  LET l == Input[n]
               Earlier(Key(_)) == \E j \in 1 .. n - 1 : Parses(Input[j]) /\ Key(Input[j]) = Key(l)
           IN  /\ job.cmd \in {"backup", "normalize"} => n \in Kept
               /\ job.cmd = "redact" => (n \in Kept <=> ~IsEmpty(l))
               /\ job.cmd = "grep" => (n \in Kept <=> Parses(l) /\ Matches(l))
               /\ job.cmd = "dedupe" =>
                     (n \in Kept <=> ~IsEmpty(l) /\ (Parses(l) => ~Earlier(DedupeKey)))
               /\ job.cmd = "merge" =>
                     (n \in Kept <=> ~IsEmpty(l) /\ (Parses(l) => ~Earlier(MergeKey)))
  BY DEF Kept, Firsts, RecordsIn

(* Each line, but for the samples, is carried on as it should be.            *)
LEMMA ReadCarries ==
    ASSUME IInv, Progress, Undisturbed, ReadEmpty \/ ReadBroken \/ ReadRecord,
           job.cmd # "sample"
    PROVE  Made'
  <1> DEFINE k == ReadSoFar
             l == NextLine
             Earlier(Key(_)) == \E j \in 1 .. k : Parses(Input[j]) /\ Key(Input[j]) = Key(l)
  <1>1. /\ Reading /\ job.at < Len(Source) /\ l \in Line /\ GoesOn(job')
        /\ job.cmd \in Streaming \cup Gathering /\ UNCHANGED << files, temp, before >>
        /\ job \in Job /\ job.phase = "read"
    BY ReadGoesOn DEF IInv, FInv, FilesTyped, Reading
  <1>2. k \in Nat /\ k + 1 \in 1 .. Len(Input) /\ Input[k + 1] = l
    BY <1>1, NextLineFacts
  <1>3. Carried /\ DOMAIN Input = 1 .. Len(Input)
    BY <1>1, InputFacts DEF Progress, Underway, Made, Gathered
  <1>4. /\ job.cmd \in {"backup", "normalize"} => k + 1 \in Kept
        /\ job.cmd = "redact" => (k + 1 \in Kept <=> ~IsEmpty(l))
        /\ job.cmd = "grep" => (k + 1 \in Kept <=> Parses(l) /\ Matches(l))
        /\ job.cmd = "dedupe" =>
              (k + 1 \in Kept <=> ~IsEmpty(l) /\ (Parses(l) => ~Earlier(DedupeKey)))
        /\ job.cmd = "merge" =>
              (k + 1 \in Kept <=> ~IsEmpty(l) /\ (Parses(l) => ~Earlier(MergeKey)))
    <2>1. k + 1 \in DOMAIN Input /\ (k + 1) - 1 = k
      BY <1>2, <1>3
    <2> DEFINE n == k + 1
    <2>2. n \in DOMAIN Input /\ n - 1 = k /\ Input[n] = l
      BY <1>2, <2>1
    <2> HIDE DEF n, k, l
    <2>3. /\ job.cmd \in {"backup", "normalize"} => n \in Kept
          /\ job.cmd = "redact" => (n \in Kept <=> ~IsEmpty(l))
          /\ job.cmd = "grep" => (n \in Kept <=> Parses(l) /\ Matches(l))
          /\ job.cmd = "dedupe" =>
                (n \in Kept <=> ~IsEmpty(l) /\ (Parses(l) => ~Earlier(DedupeKey)))
          /\ job.cmd = "merge" =>
                (n \in Kept <=> ~IsEmpty(l) /\ (Parses(l) => ~Earlier(MergeKey)))
      BY <1>1, <2>2, KeptNext
    <2>4. QED
      BY <2>3 DEF n
  <1>5. /\ job.cmd = "dedupe" => (DedupeKey(l) \in job.seen <=> Earlier(DedupeKey))
        /\ job.cmd = "merge" => (MergeKey(l) \in job.seen <=> Earlier(MergeKey))
    BY <1>3 DEF Carried, Met
  <1> HIDE DEF k, Earlier
  <1>6. /\ job'.at = job.at + 1
        /\ job'.acc = IF k + 1 \in Kept THEN Append(job.acc, Rewritten(l)) ELSE job.acc
        /\ job.cmd = "dedupe" =>
               job'.seen = IF Parses(l) THEN job.seen \cup {DedupeKey(l)} ELSE job.seen
        /\ job.cmd = "merge" =>
               job'.seen = IF Parses(l) THEN job.seen \cup {MergeKey(l)} ELSE job.seen
    <2>1. /\ Advanced.at = job.at + 1 /\ Advanced.acc = job.acc /\ Advanced.seen = job.seen
          /\ \A x \in Line : /\ Writing(x).at = job.at + 1 /\ Writing(x).acc = Append(job.acc, x)
                            /\ Writing(x).seen = job.seen
      BY <1>1, AdvancedJob, WritingJob
    <2>2. job.cmd \in {"backup", "dedupe", "redact", "normalize", "merge", "grep"}
      BY <1>1 DEF Streaming, Gathering
    <2>3. l.form # "object" => Rewritten(l) = l
      BY <1>1, BareRewritten DEF Rewritten
    <2>4. CASE ReadEmpty
      <3>1. IsEmpty(l) /\ ~Parses(l) /\ Rewritten(l) = l
        BY <2>3, <2>4 DEF ReadEmpty, IsEmpty, Parses
      <3>2. job' = IF job.cmd \in {"backup", "normalize"} THEN Writing(l) ELSE Advanced
        BY <2>4 DEF ReadEmpty
      <3>3. k + 1 \in Kept <=> job.cmd \in {"backup", "normalize"}
        BY <1>4, <2>2, <3>1
      <3> HIDE DEF l
      <3>4. QED
        BY <1>1, <2>1, <3>1, <3>2, <3>3
    <2>5. CASE ReadBroken
      <3>1. ~IsEmpty(l) /\ ~Parses(l) /\ Rewritten(l) = l
        BY <2>3, <2>5 DEF ReadBroken, IsEmpty, Parses
      <3>2. job' = IF job.cmd = "grep" THEN Advanced ELSE Writing(l)
        BY <2>5 DEF ReadBroken
      <3>3. k + 1 \in Kept <=> job.cmd # "grep"
        BY <1>4, <2>2, <3>1
      <3> HIDE DEF l
      <3>4. QED
        BY <1>1, <2>1, <3>1, <3>2, <3>3
    <2>6. CASE ReadRecord
      <3>1. ~IsEmpty(l) /\ Parses(l)
        BY <2>6 DEF ReadRecord, IsEmpty, Parses
      <3>2. CASE job.cmd \in {"backup", "redact", "normalize"}
        <4>1. k + 1 \in Kept /\ Rewritten(l) \in Line
          BY <1>1, <1>4, <3>1, <3>2, RewrittenLines DEF Rewritten
        <4>2. job' = Writing(Rewritten(l))
          BY <2>6, <3>2 DEF ReadRecord, Rewritten
        <4> HIDE DEF l
        <4>3. QED
          BY <2>1, <3>2, <4>1, <4>2
      <3>3. CASE job.cmd = "grep"
        <4>1. job' = IF Matches(l) THEN Writing(l) ELSE Advanced
          BY <2>6, <3>3 DEF ReadRecord
        <4>2. (k + 1 \in Kept <=> Matches(l)) /\ Rewritten(l) = l
          BY <1>4, <3>1, <3>3 DEF Rewritten
        <4> HIDE DEF l
        <4>3. QED
          BY <1>1, <2>1, <3>3, <4>1, <4>2
      <3>4. CASE job.cmd = "dedupe"
        <4>1. job' = OncePerKey(DedupeKey(l)) /\ DedupeKey(l) \in Line \cup Texts
          BY <1>1, <2>6, <3>4, RewrittenLines DEF ReadRecord
        <4>2. (k + 1 \in Kept <=> DedupeKey(l) \notin job.seen) /\ Rewritten(l) = l
          BY <1>4, <1>5, <3>1, <3>4 DEF Rewritten
        <4>3. /\ job'.at = job.at + 1 /\ job'.seen = job.seen \cup {DedupeKey(l)}
              /\ job'.acc = IF DedupeKey(l) \in job.seen THEN job.acc ELSE Append(job.acc, l)
          BY <1>1, <4>1, OncePerKeyJob
        <4>4. QED
          BY <3>1, <3>4, <4>2, <4>3
      <3>5. CASE job.cmd = "merge"
        <4>1. job' = OncePerKey(MergeKey(l)) /\ MergeKey(l) \in Line \cup Texts
          BY <1>1, <2>6, <3>5, RewrittenLines DEF ReadRecord
        <4>2. (k + 1 \in Kept <=> MergeKey(l) \notin job.seen) /\ Rewritten(l) = l
          BY <1>4, <1>5, <3>1, <3>5 DEF Rewritten
        <4>3. /\ job'.at = job.at + 1 /\ job'.seen = job.seen \cup {MergeKey(l)}
              /\ job'.acc = IF MergeKey(l) \in job.seen THEN job.acc ELSE Append(job.acc, l)
          BY <1>1, <4>1, OncePerKeyJob
        <4>4. QED
          BY <3>1, <3>5, <4>2, <4>3
      <3>6. QED
        BY <2>2, <3>2, <3>3, <3>4, <3>5
    <2>7. QED
      BY <2>4, <2>5, <2>6
  <1>7. QED
    BY <1>1, <1>6, CarryOn DEF k

(* What each draw does to the sample.                                        *)
LEMMA ReservoirJob ==
    ASSUME job \in Job, NextLine \in Line, NEW j \in Reservoir
    PROVE  /\ j.at = job.at + 1 /\ j.n = job.n + 1 /\ j.size = job.size
           /\ IF job.n < job.size
              THEN j.acc = Append(job.acc, NextLine)
              ELSE \/ j.acc = job.acc
                   \/ \E m \in 1 .. job.size : j.acc = [job.acc EXCEPT ![m] = NextLine]
  <1>1. CASE job.n < job.size
    <2> DEFINE p == Writing(NextLine)
    <2>1. /\ p \in Job /\ p.at = job.at + 1 /\ p.acc = Append(job.acc, NextLine)
          /\ p.n = job.n /\ p.size = job.size
      BY WritingJob
    <2>2. j = [p EXCEPT !.n = @ + 1]
      BY <1>1 DEF Reservoir
    <2> HIDE DEF p
    <2>3. QED
      BY <1>1, <2>1, <2>2 DEF Job
  <1>2. CASE ~(job.n < job.size)
    <2> DEFINE p == Advanced
    <2>1. /\ p \in Job /\ p.at = job.at + 1 /\ p.acc = job.acc
          /\ p.n = job.n /\ p.size = job.size
      BY AdvancedJob
    <2>2. PICK k \in 0 .. job.n :
            j = IF k < job.size THEN [p EXCEPT !.acc[k + 1] = NextLine, !.n = @ + 1]
                                ELSE [p EXCEPT !.n = @ + 1]
      BY <1>2 DEF Reservoir
    <2> HIDE DEF p
    <2>3. CASE k < job.size
      <3>1. k + 1 \in 1 .. job.size
        <4>1. job.size \in Nat /\ job.n \in Nat
          BY SizesAssumption DEF Job
        <4>2. QED
          BY <2>3, <4>1
      <3> DEFINE acc == [job.acc EXCEPT ![k + 1] = NextLine]
      <3>2. j = [p EXCEPT !.acc = [job.acc EXCEPT ![k + 1] = NextLine], !.n = @ + 1]
        BY <2>1, <2>2, <2>3
      <3> HIDE DEF acc
      <3>3. j = [p EXCEPT !.acc = acc, !.n = @ + 1]
        BY <3>2 DEF acc
      <3>4. j.at = job.at + 1 /\ j.n = job.n + 1 /\ j.size = job.size /\ j.acc = acc
        BY <2>1, <3>3 DEF Job
      <3>5. QED
        BY <1>2, <3>1, <3>4 DEF acc
    <2>4. CASE ~(k < job.size)
      <3>1. j = [p EXCEPT !.n = @ + 1]
        BY <2>2, <2>4
      <3>2. j.at = job.at + 1 /\ j.n = job.n + 1 /\ j.size = job.size /\ j.acc = job.acc
        BY <2>1, <3>1 DEF Job
      <3>3. QED
        BY <1>2, <3>2
    <2>5. QED
      BY <2>3, <2>4
  <1>3. QED
    BY <1>1, <1>2

(* The sample stays one when there is more to draw from, and when it takes   *)
(* the line that was read last, behind the others or in place of one.        *)
LEMMA MoreToDraw ==
    ASSUME NEW lines, NEW P, NEW Q, OnePlaceEach(lines, P), P \subseteq Q
    PROVE  OnePlaceEach(lines, Q)
  <1>1. PICK q \in [1 .. Len(lines) -> P] :
          /\ \A i, m \in 1 .. Len(lines) : q[i] = q[m] => i = m
          /\ \A m \in 1 .. Len(lines) : lines[m] = Input[q[m]]
    BY DEF OnePlaceEach
  <1>2. q \in [1 .. Len(lines) -> Q]
    BY <1>1
  <1>3. QED
    BY <1>1, <1>2 DEF OnePlaceEach

LEMMA DrawOneMore ==
    ASSUME NEW lines \in Seq(Line), NEW P, NEW x, x \notin P, Input[x] \in Line,
           OnePlaceEach(lines, P)
    PROVE  OnePlaceEach(Append(lines, Input[x]), P \cup {x})
  <1> DEFINE more == Append(lines, Input[x])
             n    == Len(lines)
  <1>1. PICK q \in [1 .. n -> P] :
          /\ \A i, m \in 1 .. n : q[i] = q[m] => i = m
          /\ \A m \in 1 .. n : lines[m] = Input[q[m]]
    BY DEF OnePlaceEach
  <1>2. /\ n \in Nat /\ Len(more) = n + 1 /\ more[n + 1] = Input[x]
        /\ \A m \in 1 .. n : more[m] = lines[m]
    BY AppendProperties, LenProperties
  <1> HIDE DEF more, n
  <1> DEFINE p == [m \in 1 .. n + 1 |-> IF m = n + 1 THEN x ELSE q[m]]
  <1>3. \A m \in 1 .. n + 1 : m # n + 1 => m \in 1 .. n
    BY <1>2
  <1>4. p \in [1 .. n + 1 -> P \cup {x}]
    BY <1>1, <1>3
  <1>5. \A m \in 1 .. n + 1 : more[m] = Input[p[m]]
    BY <1>1, <1>2, <1>3
  <1>6. \A m \in 1 .. n : q[m] # x
    BY <1>1
  <1>7. \A i, m \in 1 .. n + 1 : p[i] = p[m] => i = m
    BY <1>1, <1>3, <1>6
  <1> HIDE DEF p
  <1>8. OnePlaceEach(more, P \cup {x})
    BY <1>2, <1>4, <1>5, <1>7 DEF OnePlaceEach
  <1>9. QED
    BY <1>8 DEF more

LEMMA DrawInstead ==
    ASSUME NEW lines \in Seq(Line), NEW P, NEW x, x \notin P, Input[x] \in Line,
           NEW k \in 1 .. Len(lines), OnePlaceEach(lines, P)
    PROVE  OnePlaceEach([lines EXCEPT ![k] = Input[x]], P \cup {x})
  <1> DEFINE other == [lines EXCEPT ![k] = Input[x]]
             n     == Len(lines)
  <1>1. PICK q \in [1 .. n -> P] :
          /\ \A i, m \in 1 .. n : q[i] = q[m] => i = m
          /\ \A m \in 1 .. n : lines[m] = Input[q[m]]
    BY DEF OnePlaceEach
  <1>2. /\ Len(other) = n /\ k \in 1 .. n
        /\ \A m \in 1 .. n : other[m] = IF m = k THEN Input[x] ELSE lines[m]
    BY ExceptSeq, LenProperties
  <1> HIDE DEF other, n
  <1> DEFINE p == [m \in 1 .. n |-> IF m = k THEN x ELSE q[m]]
  <1>3. p \in [1 .. n -> P \cup {x}]
    BY <1>1
  <1>4. \A m \in 1 .. n : other[m] = Input[p[m]]
    BY <1>1, <1>2
  <1>5. \A m \in 1 .. n : q[m] # x
    BY <1>1
  <1>6. \A i, m \in 1 .. n : p[i] = p[m] => i = m
    BY <1>1, <1>5
  <1> HIDE DEF p
  <1>7. OnePlaceEach(other, P \cup {x})
    BY <1>2, <1>3, <1>4, <1>6 DEF OnePlaceEach
  <1>8. QED
    BY <1>7 DEF other

(* Sampling keeps as many records as are asked for, each read once.          *)
LEMMA ReadDraws ==
    ASSUME IInv, Progress, ReadSample
    PROVE  Made'
  <1> DEFINE k == ReadSoFar
             x == k + 1
  <1>1. /\ Reading /\ job.at < Len(Source) /\ NextLine \in Line /\ GoesOn(job')
        /\ job.cmd \in Streaming \cup Gathering /\ UNCHANGED << files, temp, before >>
        /\ job \in Job /\ job.phase = "read" /\ job.cmd = "sample" /\ ~IsEmpty(NextLine)
        /\ job' \in Reservoir
    BY ReadGoesOn DEF ReadSample, IInv, FInv, FilesTyped, Reading
  <1>2. Undisturbed /\ "sample" \notin Streaming
    BY <1>1 DEF Undisturbed, Streaming
  <1>3. k \in Nat /\ x \in 1 .. Len(Input) /\ Input[x] = NextLine
    BY <1>1, <1>2, NextLineFacts
  <1>4. Drawn /\ DOMAIN Input = 1 .. Len(Input)
    BY <1>1, <1>2, InputFacts DEF Progress, Underway, Made, Gathered
  <1>5. /\ job'.at = job.at + 1 /\ job'.n = job.n + 1 /\ job'.size = job.size
        /\ IF job.n < job.size
           THEN job'.acc = Append(job.acc, NextLine)
           ELSE \/ job'.acc = job.acc
                \/ \E m \in 1 .. job.size : job'.acc = [job.acc EXCEPT ![m] = NextLine]
    BY <1>1, ReservoirJob
  <1>6. ReadSoFar' = x /\ Whereabouts'
    BY <1>1, <1>2, <1>5, OneLineOn
  <1>7. /\ job'.cmd = job.cmd /\ job'.phase = job.phase /\ Input' = Input
    BY <1>1, SameInput DEF GoesOn
  <1>8. /\ IsFiniteSet(RecordsRead') /\ Cardinality(RecordsRead') = Cardinality(RecordsRead) + 1
        /\ RecordsRead' = RecordsRead \cup {x} /\ x \notin RecordsRead
    <2>1. x \in RecordsIn(Input)
      BY <1>1, <1>3, <1>4 DEF RecordsIn
    <2>2. RecordsRead' = PlacesTo(RecordsIn(Input), x)
      BY <1>6, <1>7 DEF RecordsRead
    <2>3. IsFiniteSet(PlacesTo(RecordsIn(Input), k)) /\ RecordsRead = PlacesTo(RecordsIn(Input), k)
      BY <1>4 DEF Drawn, RecordsRead
    <2>4. x \notin RecordsRead
      BY <1>3, <2>3 DEF PlacesTo
    <2> HIDE DEF k
    <2>5. QED
      BY <1>3, <2>1, <2>2, <2>3, <2>4, OnePlaceMore
  <1>9. /\ job.n \in Nat /\ job.size \in Nat /\ job.acc \in Seq(Line) /\ Len(job.acc) \in Nat
        /\ Len(job.acc) = IF job.n < job.size THEN job.n ELSE job.size
        /\ job.n = Cardinality(RecordsRead) /\ OnePlaceEach(job.acc, RecordsRead)
    BY <1>1, <1>4, SizesAssumption, LenProperties DEF Drawn, Job
  <1> HIDE DEF k, x
  <1>10. Len(job'.acc) = (IF job.n + 1 < job.size THEN job.n + 1 ELSE job.size)
         /\ OnePlaceEach(job'.acc, RecordsRead \cup {x})
    <2>1. CASE job.n < job.size
      <3>1. job'.acc = Append(job.acc, NextLine)
        BY <1>5, <2>1
      <3>2. Len(job'.acc) = Len(job.acc) + 1
        BY <1>1, <1>9, <3>1, AppendProperties
      <3>3. OnePlaceEach(job'.acc, RecordsRead \cup {x})
        BY <1>1, <1>3, <1>8, <1>9, <3>1, DrawOneMore
      <3>4. QED
        BY <1>9, <2>1, <3>2, <3>3
    <2>2. CASE ~(job.n < job.size)
      <3>1. Len(job.acc) = job.size /\ ~(job.n + 1 < job.size)
        BY <1>9, <2>2
      <3>2. CASE job'.acc = job.acc
        BY <1>9, <3>1, <3>2, MoreToDraw
      <3>3. ASSUME NEW m \in 1 .. job.size, job'.acc = [job.acc EXCEPT ![m] = NextLine]
            PROVE  Len(job'.acc) = job.size /\ OnePlaceEach(job'.acc, RecordsRead \cup {x})
        <4>1. m \in 1 .. Len(job.acc)
          BY <3>1
        <4>2. Len(job'.acc) = Len(job.acc)
          BY <1>1, <1>9, <3>3, <4>1, ExceptSeq
        <4>3. OnePlaceEach(job'.acc, RecordsRead \cup {x})
          BY <1>1, <1>3, <1>8, <1>9, <3>3, <4>1, DrawInstead
        <4>4. QED
          BY <3>1, <4>2, <4>3
      <3>4. QED
        BY <1>5, <2>2, <3>1, <3>2, <3>3
    <2>3. QED
      BY <2>1, <2>2
  <1>11. (OnePlaceEach(job.acc, RecordsRead))'
    BY <1>7, <1>8, <1>10 DEF OnePlaceEach
  <1>12. Drawn'
    BY <1>5, <1>8, <1>9, <1>10, <1>11 DEF Drawn
  <1>13. QED
    BY <1>1, <1>6, <1>7, <1>12 DEF Made, Gathered

(* A job that has just been asked for has read nothing, and gathered nothing.*)
Fresh ==
    /\ job \in Job /\ before \in [Paths -> Seq(Line) \cup {NoFile}]
    /\ job.cmd \in Streaming \cup Gathering /\ Len(job.ins) <= 2 /\ job.phase = "read"
    /\ job.on = 1 /\ job.at = 0 /\ job.acc = << >> /\ job.seen = {} /\ job.n = 0

LEMMA FreshMade == Fresh => Made
  <1> SUFFICES ASSUME Fresh PROVE Made
    OBVIOUS
  <1>1. /\ job \in Job /\ before \in [Paths -> Seq(Line) \cup {NoFile}]
        /\ Len(job.ins) <= 2 /\ Len(job.ins) \in Nat /\ job.phase = "read"
        /\ job.on = 1 /\ job.at = 0 /\ job.acc = << >> /\ job.seen = {} /\ job.n = 0
        /\ job.size \in Nat
    BY LenProperties, SizesAssumption DEF Fresh, Job
  <1>2. ReadSoFar = 0
    BY <1>1 DEF ReadSoFar
  <1>3. Input \in Seq(Line) /\ Len(Given(1)) \in Nat
    BY <1>1, InputFacts
  <1>4. Whereabouts
    BY <1>1, <1>3 DEF Whereabouts
  <1>5. Carried
    <2>1. Len(RewrittenInput) \in Nat
      BY <1>3, RewrittenFacts, LenProperties
    <2>2. FirstLinesAt(RewrittenInput, Kept)[0] = << >>
      BY <2>1, FirstLinesUnfold
    <2>3. 1 .. ReadSoFar = {}
      BY <1>2
    <2>4. Met(DedupeKey) = {} /\ Met(MergeKey) = {}
      BY <2>3 DEF Met
    <2>5. QED
      BY <1>1, <1>2, <2>2, <2>4 DEF Carried
  <1>6. Drawn
    <2>1. RecordsRead = {}
      BY <1>2 DEF RecordsRead, PlacesTo
    <2>2. IsFiniteSet(RecordsRead) /\ Cardinality(RecordsRead) = 0
      BY <2>1, FS_EmptySet
    <2>3. Len(job.acc) = 0
      BY <1>1
    <2>4. OnePlaceEach(job.acc, RecordsRead)
      <3>1. 1 .. Len(job.acc) = {}
        BY <2>3
      <3> DEFINE q == [m \in 1 .. Len(job.acc) |-> 0]
      <3>2. q \in [1 .. Len(job.acc) -> RecordsRead]
        BY <3>1
      <3> HIDE DEF q
      <3>3. QED
        BY <3>1, <3>2 DEF OnePlaceEach
    <2>5. QED
      BY <1>1, <2>2, <2>3, <2>4 DEF Drawn
  <1>7. QED
    BY <1>1, <1>4, <1>5, <1>6 DEF Made, Gathered

LEMMA FreshMadeNext == Fresh' => Made'
  BY FreshMade, PTL

LEMMA AskedFresh ==
    ASSUME NEW cmd \in Streaming \cup Gathering, NEW ins \in Seq(Paths), NEW out \in Paths,
           NEW size \in Sizes, Len(ins) <= 2, job' = Asked(cmd, ins, out, size),
           before \in [Paths -> Seq(Line) \cup {NoFile}], before' = before
    PROVE  Made' /\ job'.cmd = cmd /\ job'.ins = ins /\ job'.out = out
  <1>1. /\ job' \in Job /\ job'.cmd = cmd /\ job'.ins = ins /\ job'.out = out
        /\ job'.phase = "read" /\ job'.on = 1
    BY AskedFacts
  <1>2. /\ NoJob.at = 0 /\ NoJob.acc = << >> /\ NoJob.seen = {} /\ NoJob.n = 0
        /\ NoJob \in Job
    BY NoJobFacts DEF NoJob
  <1>3. /\ job'.at = NoJob.at /\ job'.acc = NoJob.acc /\ job'.seen = NoJob.seen
        /\ job'.n = NoJob.n
    BY <1>2 DEF Asked, Job
  <1>4. Fresh'
    BY <1>1, <1>2, <1>3 DEF Fresh
  <1>5. QED
    BY <1>1, <1>4, FreshMadeNext

(* What has been gathered stays right as long as no line is read.            *)
LEMMA SameGathered ==
    ASSUME Gathered, ReadSoFar' = ReadSoFar, before' = before,
           job'.ins = job.ins, job'.out = job.out, job'.cmd = job.cmd, job'.acc = job.acc,
           job'.seen = job.seen, job'.n = job.n, job'.size = job.size
    PROVE  Gathered'
  <1>1. Input' = Input /\ Kept' = Kept /\ RewrittenInput' = RewrittenInput
    BY SameInput
  <1>2. RecordsRead' = RecordsRead
    BY <1>1 DEF RecordsRead
  <1>3. (OnePlaceEach(job.acc, RecordsRead))' <=> OnePlaceEach(job.acc, RecordsRead)
    BY <1>1, <1>2 DEF OnePlaceEach
  <1>4. Drawn => Drawn'
    BY <1>2, <1>3 DEF Drawn
  <1>5. Met(DedupeKey)' = Met(DedupeKey) /\ Met(MergeKey)' = Met(MergeKey)
    BY <1>1 DEF Met
  <1>6. Carried => Carried'
    BY <1>1, <1>5 DEF Carried
  <1>7. QED
    BY <1>4, <1>6 DEF Gathered

LEMMA PhaseOnly ==
    ASSUME job \in Job, NEW phase \in {"write", "rename", "ok", "io", "invalid", "killed"},
           job' = [job EXCEPT !.phase = phase]
    PROVE  /\ job'.lost = job.lost /\ job'.cmd = job.cmd /\ job'.ins = job.ins /\ job'.out = job.out
           /\ job'.on = job.on /\ job'.at = job.at /\ job'.acc = job.acc
           /\ job'.seen = job.seen /\ job'.n = job.n /\ job'.size = job.size
           /\ job'.phase = phase
  BY DEF Job

LEMMA WriteOnly ==
    ASSUME job \in Job, NEW phase \in {"rename", "ok"}, NEW lost \in BOOLEAN,
           job' = [job EXCEPT !.phase = phase, !.lost = lost]
    PROVE  /\ job'.lost = lost /\ job'.cmd = job.cmd /\ job'.ins = job.ins
           /\ job'.out = job.out /\ job'.on = job.on /\ job'.at = job.at
           /\ job'.acc = job.acc /\ job'.seen = job.seen /\ job'.n = job.n
           /\ job'.size = job.size /\ job'.phase = phase
  BY DEF Job

(* A line without a character is not drawn.                                  *)
LEMMA EmptyUndrawn ==
    ASSUME IInv, Progress, Undisturbed, ReadEmpty, job.cmd = "sample"
    PROVE  Made'
  <1>1. /\ Reading /\ job.at < Len(Source) /\ GoesOn(job') /\ IsEmpty(NextLine)
        /\ job.cmd \in Streaming \cup Gathering /\ UNCHANGED << files, temp, before >>
        /\ job \in Job /\ job.phase = "read" /\ job' = Advanced
    BY ReadGoesOn DEF ReadEmpty, IInv, FInv, FilesTyped, Reading
  <1>2. /\ job'.at = job.at + 1 /\ job'.acc = job.acc /\ job'.n = job.n /\ job'.size = job.size
        /\ job'.cmd = job.cmd /\ job'.phase = job.phase
    BY <1>1, AdvancedJob DEF GoesOn
  <1>3. ReadSoFar' = ReadSoFar + 1 /\ Whereabouts'
    BY <1>1, <1>2, OneLineOn
  <1>4. /\ ReadSoFar \in Nat /\ ReadSoFar + 1 \in 1 .. Len(Input)
        /\ Input[ReadSoFar + 1] = NextLine
    BY <1>1, NextLineFacts
  <1>5. Input' = Input
    BY <1>1, SameInput DEF GoesOn
  <1>6. Drawn
    BY <1>1 DEF Progress, Underway, Made, Gathered
  <1>7. RecordsRead' = RecordsRead
    <2>1. ReadSoFar + 1 \notin RecordsIn(Input)
      BY <1>1, <1>4 DEF RecordsIn
    <2>2. RecordsRead' = PlacesTo(RecordsIn(Input), ReadSoFar + 1)
      BY <1>3, <1>5 DEF RecordsRead
    <2>3. QED
      BY <1>4, <1>6, <2>1, <2>2, OnePlaceMore DEF Drawn, RecordsRead
  <1>8. (OnePlaceEach(job.acc, RecordsRead))'
    BY <1>2, <1>5, <1>6, <1>7 DEF OnePlaceEach, Drawn
  <1>9. Drawn'
    BY <1>2, <1>6, <1>7, <1>8 DEF Drawn
  <1>10. QED
    BY <1>1, <1>2, <1>3, <1>9 DEF Made, Gathered

(* The next file is the second one, or there is none.                        *)
LEMMA NextFileMade ==
    ASSUME IInv, Progress, Undisturbed, NextFile, job.cmd \in Streaming \cup Gathering
    PROVE  Made'
  <1>1. /\ Reading /\ job.phase = "read" /\ job.at = Len(Source) /\ job \in Job
        /\ job' = [job EXCEPT !.on = @ + 1, !.at = 0]
        /\ UNCHANGED << files, temp, before >>
        /\ job.on <= Len(job.ins) /\ job.on >= 1 /\ job.on \in Nat /\ Len(job.ins) \in Nat
    BY LenProperties DEF IInv, FInv, FilesTyped, NextFile, Reading, Inputs, Job
  <1>2. /\ job'.cmd = job.cmd /\ job'.ins = job.ins /\ job'.out = job.out
        /\ job'.on = job.on + 1 /\ job'.at = 0 /\ job'.acc = job.acc
        /\ job'.seen = job.seen /\ job'.n = job.n /\ job'.size = job.size
        /\ job'.phase = job.phase
    BY <1>1 DEF Job
  <1>3. Whereabouts /\ Gathered /\ Len(job.ins) <= 2
    BY <1>1 DEF Progress, Underway, Made, Whereabouts
  <1>4. /\ Len(Given(1)) \in Nat /\ Len(Given(2)) \in Nat
        /\ Len(Input) = Len(Given(1)) + Len(Given(2))
    BY <1>1, InputFacts DEF Progress
  <1>5. Input' = Input /\ Given(1)' = Given(1) /\ Given(2)' = Given(2)
    BY <1>1, <1>2, SameInput
  <1>6. job.on \in {1, 2} /\ job.at = Len(Given(job.on))
    BY <1>1, <1>3, SourceGiven
  <1>7. ReadSoFar' = ReadSoFar
    BY <1>2, <1>4, <1>5, <1>6 DEF ReadSoFar
  <1>8. Gathered'
    BY <1>1, <1>2, <1>3, <1>7, SameGathered
  <1>9. Whereabouts'
    <2>1. job'.on = 2 => (job.at <= Len(Given(job.on)))'
      <3>1. ASSUME job'.on = 2
            PROVE  Given(job.on)' = Given(2)
        BY <1>1, <1>2, <3>1 DEF Given
      <3>2. QED
        BY <1>2, <1>4, <3>1
    <2>2. QED
      BY <1>1, <1>2, <1>3, <1>6, <2>1 DEF Whereabouts
  <1>10. QED
    BY <1>1, <1>2, <1>8, <1>9 DEF Made

(* What the steps that write change of the job.                              *)
LEMMA Afterwards ==
    ASSUME job \in Job, CloseStream \/ GatheredAll \/ WriteTemp \/ RenameTemp
    PROVE  /\ job'.cmd = job.cmd /\ job'.ins = job.ins /\ job'.out = job.out
           /\ job'.on = job.on /\ job'.at = job.at /\ job'.acc = job.acc
           /\ job'.seen = job.seen /\ job'.n = job.n /\ job'.size = job.size
           /\ job'.phase = IF CloseStream \/ RenameTemp THEN "ok"
                           ELSE IF WriteTemp THEN "rename" ELSE "write"
           /\ RenameTemp => job'.lost = job.lost
           /\ WriteTemp => \E k \in 0 .. Len(job.acc) : temp' = OnDisk(k) /\ job'.lost = Short(k)
           /\ CloseStream =>
                 \E k \in 0 .. Len(job.acc) :
                    files' = [files EXCEPT ![job.out] = OnDisk(k)] /\ job'.lost = Short(k)
  <1>1. \A k \in 0 .. Len(job.acc) : Short(k) \in BOOLEAN
    BY OnDiskFacts
  <1>2. CASE CloseStream
    <2>1. PICK k \in 0 .. Len(job.acc) :
            /\ files' = [files EXCEPT ![job.out] = OnDisk(k)]
            /\ job' = [job EXCEPT !.phase = "ok", !.lost = Short(k)]
      BY <1>2 DEF CloseStream
    <2>2. ~WriteTemp /\ ~RenameTemp
      BY <1>2 DEF CloseStream, WriteTemp, RenameTemp
    <2>3. QED
      BY <1>1, <1>2, <2>1, <2>2, WriteOnly
  <1>3. CASE WriteTemp
    <2>1. PICK k \in 0 .. Len(job.acc) :
            /\ temp' = OnDisk(k)
            /\ job' = [job EXCEPT !.phase = "rename", !.lost = Short(k)]
      BY <1>3 DEF WriteTemp
    <2>2. ~CloseStream /\ ~RenameTemp
      BY <1>3 DEF CloseStream, WriteTemp, RenameTemp
    <2>3. QED
      BY <1>1, <1>3, <2>1, <2>2, WriteOnly
  <1>4. CASE RenameTemp
    <2>1. job' = [job EXCEPT !.phase = "ok"] /\ ~CloseStream /\ ~WriteTemp
      BY <1>4 DEF CloseStream, WriteTemp, RenameTemp
    <2>2. QED
      BY <1>4, <2>1, PhaseOnly
  <1>5. CASE GatheredAll
    <2>1. /\ job' = [job EXCEPT !.phase = "write"]
          /\ ~CloseStream /\ ~WriteTemp /\ ~RenameTemp
      BY <1>5 DEF CloseStream, WriteTemp, RenameTemp, GatheredAll
    <2>2. QED
      BY <2>1, PhaseOnly
  <1>6. QED
    BY <1>2, <1>3, <1>4, <1>5

(* No line is lost only if all of them reach the disk.                       *)
LEMMA ShortFacts ==
    ASSUME job \in Job
    PROVE  \A k \in 0 .. Len(job.acc) : ~Short(k) => k = Len(job.acc)
  <1>1. Len(job.acc) \in Nat
    BY LenProperties DEF Job
  <1>2. QED
    BY <1>1 DEF Short

(* At the end of the input the whole of it has been read; from then on the   *)
(* phase changes, and lines may be lost.                                     *)
LEMMA PhaseMade ==
    ASSUME IInv, Progress, Undisturbed, job.cmd \in Streaming \cup Gathering,
           CloseStream \/ GatheredAll \/ WriteTemp \/ RenameTemp
    PROVE  Made'
  <1>1. /\ job \in Job /\ before' = before /\ files \in [Paths -> Seq(Line) \cup {NoFile}]
        /\ job.phase \in {"read", "write", "rename"} /\ job.out \in Paths
        /\ job.phase = "read" => job.on > Len(job.ins)
    BY DEF IInv, FInv, FilesTyped, Job, CloseStream, GatheredAll, WriteTemp, RenameTemp
  <1>2. /\ job'.cmd = job.cmd /\ job'.ins = job.ins /\ job'.out = job.out
        /\ job'.on = job.on /\ job'.at = job.at /\ job'.acc = job.acc
        /\ job'.seen = job.seen /\ job'.n = job.n /\ job'.size = job.size
    BY <1>1, Afterwards
  <1>3. Made /\ Whereabouts /\ Gathered
    BY <1>1 DEF Progress, Underway, Made
  <1>4. /\ Input' = Input /\ Given(1)' = Given(1) /\ Given(job.on)' = Given(job.on)
    <2>1. Input' = Input /\ Given(1)' = Given(1)
      BY <1>1, <1>2, SameInput
    <2>2. Given(job.on)' = Given(job.on)
      BY <1>1, <1>2 DEF Given
    <2>3. QED
      BY <2>1, <2>2
  <1>5. ReadSoFar' = ReadSoFar
    BY <1>2, <1>4 DEF ReadSoFar
  <1>6. Gathered'
    BY <1>1, <1>2, <1>3, <1>5, SameGathered
  <1>7. Whereabouts'
    BY <1>1, <1>2, <1>3, <1>4 DEF Whereabouts
  <1>8. /\ job'.phase = "rename" => FirstPart(temp)'
        /\ job'.phase = "ok" => FirstPart(files[job.out])'
    <2>1. CASE CloseStream
      <3>1. PICK k \in 0 .. Len(job.acc) :
              files' = [files EXCEPT ![job.out] = OnDisk(k)] /\ job'.lost = Short(k)
        BY <1>1, <2>1, Afterwards
      <3>2. files'[job'.out] = SubSeq(job'.acc, 1, k) /\ k \in 0 .. Len(job'.acc)
            /\ (~job'.lost => k = Len(job'.acc))
        BY <1>1, <1>2, <3>1, ShortFacts DEF OnDisk
      <3>3. FirstPart(files[job.out])' /\ job'.phase = "ok"
        BY <1>1, <2>1, <3>2, Afterwards DEF FirstPart
      <3>4. QED
        BY <3>3
    <2>2. CASE WriteTemp
      <3>1. PICK k \in 0 .. Len(job.acc) : temp' = OnDisk(k) /\ job'.lost = Short(k)
        BY <1>1, <2>2, Afterwards
      <3>2. temp' = SubSeq(job'.acc, 1, k) /\ k \in 0 .. Len(job'.acc)
            /\ (~job'.lost => k = Len(job'.acc))
        BY <1>1, <1>2, <3>1, ShortFacts DEF OnDisk
      <3>3. ~CloseStream /\ ~RenameTemp
        BY <2>2 DEF CloseStream, WriteTemp, RenameTemp
      <3>4. FirstPart(temp)' /\ job'.phase = "rename"
        BY <1>1, <2>2, <3>2, <3>3, Afterwards DEF FirstPart
      <3>5. QED
        BY <3>4
    <2>3. CASE RenameTemp
      <3>1. FirstPart(temp) /\ files' = [files EXCEPT ![job.out] = temp]
        BY <1>3, <2>3 DEF RenameTemp, Made
      <3>2. files'[job'.out] = temp /\ job'.lost = job.lost /\ job'.phase = "ok"
        BY <1>1, <1>2, <2>3, <3>1, Afterwards
      <3>3. QED
        BY <1>2, <3>1, <3>2 DEF FirstPart
    <2>4. CASE GatheredAll
      <3>1. ~CloseStream /\ ~WriteTemp /\ ~RenameTemp
        BY <2>4 DEF CloseStream, WriteTemp, RenameTemp, GatheredAll
      <3>2. job'.phase = "write"
        BY <1>1, <2>4, <3>1, Afterwards
      <3>3. QED
        BY <3>2
    <2>5. QED
      BY <2>1, <2>2, <2>3, <2>4
  <1>9. QED
    BY <1>6, <1>7, <1>8 DEF Made

(* A command that opens its input has read nothing of it.                    *)
LEMMA OpenProgress ==
    ASSUME IInv, Progress, NEW cmd, NEW in \in Paths, NEW out \in Paths, NEW size \in Sizes,
           Open(cmd, in, out, size)
    PROVE  Progress'
  <1> DEFINE ins == << in >>
  <1>1. /\ cmd \in Streaming \cup Gathering /\ before' = before
        /\ before \in [Paths -> Seq(Line) \cup {NoFile}]
        /\ job' = Asked(cmd, ins, out, size) /\ (cmd = "backup" => out # in)
    BY DEF Open, Progress
  <1>2. ins \in Seq(Paths) /\ Len(ins) <= 2 /\ \A k \in DOMAIN ins : ins[k] = in
    OBVIOUS
  <1> HIDE DEF ins
  <1>3. Made' /\ job'.cmd = cmd /\ job'.ins = ins /\ job'.out = out
    BY <1>1, <1>2, AskedFresh
  <1>4. job'.cmd = "backup" => ~InPlace'
    BY <1>1, <1>2, <1>3 DEF InPlace
  <1>5. QED
    BY <1>1, <1>3, <1>4 DEF Progress

LEMMA OpenFailsProgress ==
    ASSUME Progress, NEW cmd, NEW in, OpenFails(cmd, in)
    PROVE  Progress'
  <1>1. /\ job' = [NoJob EXCEPT !.cmd = cmd, !.phase = "io"] /\ before' = before
    BY DEF OpenFails
  <1>2. job'.phase = "io"
    BY <1>1, NoJobFacts DEF Job
  <1>3. QED
    BY <1>1, <1>2 DEF Progress, Underway

LEMMA OpenMergeProgress ==
    ASSUME IInv, Progress, NEW a \in Paths, NEW b \in Paths, NEW out \in Paths,
           OpenMerge(a, b, out)
    PROVE  Progress'
  <1> DEFINE ins == Readable(a) \o Readable(b)
  <1>1. /\ before' = before /\ before \in [Paths -> Seq(Line) \cup {NoFile}]
        /\ job' = Asked("merge", ins, out, NoJob.size) /\ "merge" \in Streaming \cup Gathering
    BY Commands DEF OpenMerge, Progress
  <1>2. \A p \in Paths : Readable(p) \in Seq(Paths) /\ Len(Readable(p)) <= 1
    BY EmptySeq DEF Readable
  <1>3. ins \in Seq(Paths) /\ Len(ins) <= 2
    <2> DEFINE ra == Readable(a)
               rb == Readable(b)
    <2>1. ra \in Seq(Paths) /\ rb \in Seq(Paths) /\ Len(ra) <= 1 /\ Len(rb) <= 1
          /\ Len(ra) \in Nat /\ Len(rb) \in Nat
      BY <1>2, LenProperties
    <2> HIDE DEF ra, rb
    <2>2. ra \o rb \in Seq(Paths) /\ Len(ra \o rb) = Len(ra) + Len(rb)
      BY <2>1, ConcatProperties
    <2>3. Len(ra \o rb) <= 2
      BY <2>1, <2>2
    <2>4. QED
      BY <2>2, <2>3 DEF ra, rb
  <1> HIDE DEF ins
  <1>4. Made' /\ job'.cmd = "merge"
    BY <1>1, <1>3, AskedFresh, NoJobFacts
  <1>5. QED
    BY <1>1, <1>4 DEF Progress

(* The other commands write no file.                                         *)
LEMMA OtherStart ==
    ASSUME IInv, Progress,
           \/ \E in \in Paths : ValidateInTurn(in) \/ ReportInTurn(in)
           \/ \E a, b \in Paths : Diff(a, b)
           \/ \E cmd \in Counting, in \in Paths, ws \in Teams : StartPool(cmd, in, ws)
    PROVE  Progress'
  <1>1. before' = before /\ before \in [Paths -> Seq(Line) \cup {NoFile}]
    BY DEF ValidateInTurn, ReportInTurn, Answer, Diff, StartPool, Progress
  <1>2. \A j : j = NoJob => j \in Job
    BY NoJobFacts
  <1>3. job'.cmd \in Counting \cup {"diff"}
    <2>1. ASSUME NEW in \in Paths, ValidateInTurn(in) \/ ReportInTurn(in)
          PROVE  job'.cmd \in Counting
      <3>1. PICK cmd \in Counting, phase \in {"ok", "invalid"} : Answer(cmd, in, phase)
        BY <2>1 DEF ValidateInTurn, ReportInTurn, Counting
      <3>2. job'.cmd = cmd
        BY <3>1, NoJobFacts DEF Answer, Job
      <3>3. QED
        BY <3>2
    <2>2. ASSUME NEW a \in Paths, NEW b \in Paths, Diff(a, b)
          PROVE  job'.cmd = "diff"
      BY <2>2, NoJobFacts DEF Diff, Job
    <2>3. ASSUME NEW cmd \in Counting, NEW in \in Paths, NEW ws \in Teams, StartPool(cmd, in, ws)
          PROVE  job'.cmd = cmd
      BY <2>3, NoJobFacts DEF StartPool, Job
    <2>4. QED
      BY <2>1, <2>2, <2>3
  <1>4. job'.cmd \notin Streaming \cup Gathering
    BY <1>3 DEF Streaming, Gathering, Counting
  <1>5. QED
    BY <1>1, <1>4 DEF Progress, Underway

LEMMA FileStepProgress ==
    ASSUME IInv, Progress, FileStep
    PROVE  Progress'
  <1>1. /\ before' = before /\ job \in Job /\ FilesTyped /\ Stages
        /\ before \in [Paths -> Seq(Line) \cup {NoFile}]
        /\ job.phase \in {"read", "write", "rename"}
    BY DEF FileStep, ReadEmpty, ReadBroken, ReadRecord, ReadSample, NextFile, CloseStream,
           GatheredAll, WriteTemp, RenameTemp, Reading, Progress, IInv, FInv, FilesTyped
  <1>2. job.cmd \in Streaming \cup Gathering /\ Underway
    BY <1>1 DEF Stages, Underway
  <1>3. job'.cmd = job.cmd /\ job'.ins = job.ins /\ job'.out = job.out
    <2>1. CASE ReadEmpty \/ ReadBroken \/ ReadRecord \/ ReadSample
      BY <2>1, ReadGoesOn DEF GoesOn
    <2>2. CASE NextFile
      BY <1>1, <2>2 DEF NextFile, Job
    <2>3. CASE CloseStream \/ GatheredAll \/ WriteTemp \/ RenameTemp
      BY <1>1, <2>3, Afterwards
    <2>4. QED
      BY <2>1, <2>2, <2>3 DEF FileStep
  <1>4. (InPlace' <=> InPlace) /\ (Undisturbed' <=> Undisturbed)
    BY <1>1, <1>3, SameInput
  <1>5. job'.cmd = "backup" => ~InPlace'
    BY <1>2, <1>3, <1>4 DEF Progress
  <1>6. ASSUME Undisturbed
        PROVE  Made'
    <2>1. ReadSample => job.cmd = "sample"
      BY DEF ReadSample
    <2>2. job.cmd = "sample" => ~ReadBroken /\ ~ReadRecord
      BY DEF ReadBroken, ReadRecord
    <2>3. CASE ReadSample
      BY <2>3, ReadDraws
    <2>4. CASE (ReadEmpty \/ ReadBroken \/ ReadRecord) /\ job.cmd # "sample"
      BY <1>6, <2>4, ReadCarries
    <2>5. CASE ReadEmpty /\ job.cmd = "sample"
      BY <1>6, <2>5, EmptyUndrawn
    <2>6. CASE NextFile
      BY <1>2, <1>6, <2>6, NextFileMade
    <2>7. CASE CloseStream \/ GatheredAll \/ WriteTemp \/ RenameTemp
      BY <1>2, <1>6, <2>7, PhaseMade
    <2>8. QED
      BY <2>1, <2>2, <2>3, <2>4, <2>5, <2>6, <2>7 DEF FileStep
  <1>7. QED
    BY <1>1, <1>4, <1>5, <1>6 DEF Progress

LEMMA ProgressStep == IInv /\ Progress /\ [Next]_vars => Progress'
  <1> SUFFICES ASSUME IInv, Progress, [Next]_vars PROVE Progress'
    OBVIOUS
  <1>1. before' = before /\ before \in [Paths -> Seq(Line) \cup {NoFile}] /\ Stages /\ job \in Job
    <2>1. before \in [Paths -> Seq(Line) \cup {NoFile}] /\ Stages /\ job \in Job
      BY DEF Progress, IInv, FInv, FilesTyped
    <2>2. before' = before
      BY DEF Next, StartCommand, Open, OpenFails, OpenMerge, ValidateInTurn, ReportInTurn,
             Answer, Diff, StartPool, FileStep, ReadEmpty, ReadBroken, ReadRecord, ReadSample,
             NextFile, CloseStream, GatheredAll, WriteTemp, RenameTemp, AtomicWriteFails, Kill,
             PoolStep, PrintCounters, vars, helperVars
    <2>3. QED
      BY <2>1, <2>2
  <1>2. CASE StartCommand
    BY <1>2, OpenProgress, OpenFailsProgress, OpenMergeProgress, OtherStart DEF StartCommand
  <1>3. CASE FileStep
    BY <1>3, FileStepProgress
  <1>4. CASE Kill \/ AtomicWriteFails
    <2>1. PICK phase \in {"killed", "io"} : job' = [job EXCEPT !.phase = phase]
      BY <1>4 DEF Kill, AtomicWriteFails
    <2>2. job'.phase = phase
      BY <1>1, <2>1, PhaseOnly
    <2>3. QED
      BY <1>1, <2>2 DEF Progress, Underway
  <1>5. CASE PoolStep
    <2>1. job' = job /\ job.phase = "pool"
      BY <1>5 DEF PoolStep, helperVars
    <2>2. QED
      BY <1>1, <2>1 DEF Progress, Underway
  <1>6. CASE PrintCounters
    <2>1. PICK phase \in {"invalid", "ok"} : job' = [job EXCEPT !.phase = phase]
      BY <1>6 DEF PrintCounters
    <2>2. job'.cmd = job.cmd /\ job.cmd \in Counting
      BY <1>1, <1>6, <2>1, PhaseOnly DEF PrintCounters, Stages
    <2>3. QED
      BY <1>1, <2>2, Commands DEF Progress, Underway
  <1>7. CASE UNCHANGED vars
    <2>1. job' = job /\ files' = files /\ temp' = temp
      BY <1>7 DEF vars, helperVars
    <2>2. (InPlace' <=> InPlace) /\ (Undisturbed' <=> Undisturbed) /\ Input' = Input
      BY <1>1, <2>1, SameInput
    <2>3. ReadSoFar' = ReadSoFar
      BY <1>1, <2>1, <2>2 DEF ReadSoFar, Given
    <2>4. Gathered => Gathered'
      BY <1>1, <2>1, <2>3, SameGathered
    <2>5. Whereabouts => Whereabouts'
      BY <1>1, <2>1 DEF Whereabouts, Given
    <2>6. Made => Made'
      BY <2>1, <2>4, <2>5 DEF Made, FirstPart
    <2>7. QED
      BY <1>1, <2>1, <2>2, <2>6 DEF Progress, Underway
  <1>8. QED
    BY <1>2, <1>3, <1>4, <1>5, <1>6, <1>7 DEF Next

LEMMA ProgressInvariant == Spec => []Progress
  <1>1. Init => Progress
    <2> SUFFICES ASSUME Init PROVE Progress
      OBVIOUS
    <2>1. before \in [Paths -> Seq(Line) \cup {NoFile}] /\ job = NoJob
      BY ContentsAssumption DEF Init
    <2>2. job.cmd \notin Streaming \cup Gathering
      BY <2>1, NoJobFacts DEF Streaming, Gathering
    <2>3. QED
      BY <2>1, <2>2 DEF Progress, Underway
  <1>2. QED
    BY <1>1, ProgressStep, Invariance, PTL DEF Spec

(* A command that reports success has read all its input.                    *)
LEMMA AllRead ==
    ASSUME IInv, Progress, job.cmd \in Streaming \cup Gathering, job.phase = "ok", Undisturbed
    PROVE  /\ ReadSoFar = Len(Input) /\ Gathered /\ FirstPart(Output) /\ Holds(job.acc)
           /\ Input \in Seq(Line) /\ Len(Input) \in Nat /\ DOMAIN Input = 1 .. Len(Input)
           /\ job \in Job
  <1>1. Made /\ Whereabouts /\ Gathered /\ FirstPart(Output) /\ job \in Job /\ job.on >= 1
    BY DEF Progress, Underway, Made, Output, IInv, FInv, FilesTyped, Inputs
  <1>2. /\ Input \in Seq(Line) /\ Len(Input) \in Nat /\ DOMAIN Input = 1 .. Len(Input)
        /\ Len(Given(1)) \in Nat /\ Len(Given(2)) \in Nat
        /\ Len(Input) = Len(Given(1)) + Len(Given(2))
    BY <1>1, InputFacts, LenProperties DEF Progress
  <1>3. /\ job.on = Len(job.ins) + 1 /\ Len(job.ins) \in 0 .. 2 /\ job.at = 0
        /\ DOMAIN job.ins = 1 .. Len(job.ins)
    <2>1. /\ job.ins \in Seq(Paths) /\ job.on \in Nat /\ Len(job.ins) \in Nat
          /\ DOMAIN job.ins = 1 .. Len(job.ins)
      BY <1>1, LenProperties DEF Job
    <2>2. Len(job.ins) <= 2 /\ job.on <= Len(job.ins) + 1 /\ job.on > Len(job.ins) /\ job.at = 0
      BY <1>1 DEF Whereabouts
    <2>3. \A m, o \in Nat : m <= 2 /\ o <= m + 1 /\ o > m => o = m + 1 /\ m \in 0 .. 2
      OBVIOUS
    <2>4. job.on = Len(job.ins) + 1 /\ Len(job.ins) \in 0 .. 2
      BY <2>1, <2>2, <2>3
    <2>5. QED
      BY <2>1, <2>2, <2>4
  <1>4. \A k \in {1, 2} : k > Len(job.ins) => Given(k) = << >>
    BY <1>3 DEF Given
  <1>5. \A k \in {1, 2} : k > Len(job.ins) => Len(Given(k)) = 0
    BY <1>4
  <1>6. ReadSoFar = Len(Input)
    <2>1. CASE Len(job.ins) = 0
      BY <1>2, <1>3, <1>5, <2>1 DEF ReadSoFar
    <2>2. CASE Len(job.ins) = 1
      BY <1>2, <1>3, <1>5, <2>2 DEF ReadSoFar
    <2>3. CASE Len(job.ins) = 2
      BY <1>3, <2>3 DEF ReadSoFar
    <2>4. QED
      BY <1>3, <2>1, <2>2, <2>3
  <1>7. Holds(job.acc)
    BY <1>1 DEF FirstPart, Holds
  <1>8. QED
    BY <1>1, <1>2, <1>6, <1>7

(* So its output is what it makes of the lines it passes on, or a first part *)
(* of that when the disk was full.                                           *)
LEMMA AllCarried ==
    ASSUME IInv, Progress, job.cmd \in Streaming \cup Gathering, job.phase = "ok", Undisturbed,
           job.cmd # "sample"
    PROVE  job.acc = LinesAt(RewrittenInput, Kept) /\ Holds(LinesAt(RewrittenInput, Kept))
  <1>1. /\ ReadSoFar = Len(Input) /\ Carried /\ Holds(job.acc) /\ Input \in Seq(Line)
    BY AllRead DEF Gathered
  <1>2. Len(RewrittenInput) = Len(Input)
    BY <1>1, RewrittenFacts
  <1>3. job.acc = LinesAt(RewrittenInput, Kept)
    BY <1>1, <1>2 DEF Carried, LinesAt
  <1>4. QED
    BY <1>1, <1>3

(* A first part of some lines.                                               *)
LEMMA FirstLines ==
    ASSUME NEW lines \in Seq(Line), NEW k \in 0 .. Len(lines)
    PROVE  LET s == SubSeq(lines, 1, k)
           IN  /\ Len(s) = k /\ DOMAIN s = 1 .. k
               /\ \A i \in 1 .. k : s[i] = lines[i] /\ i \in 1 .. Len(lines)
  <1>1. Len(lines) \in Nat
    BY LenProperties
  <1>2. \A i \in 1 .. k : i \in 1 .. Len(lines)
    BY <1>1
  <1>3. \A i \in 1 .. k : lines[i] \in Line
    BY <1>2, ElementOfSeq
  <1> DEFINE s == SubSeq(lines, 1, k)
  <1>4. s \in Seq(Line) /\ Len(s) = k /\ \A i \in 1 .. k : s[i] = lines[i]
    BY <1>1, <1>3, SubSeqProperties
  <1> HIDE DEF s
  <1>5. DOMAIN s = 1 .. k
    BY <1>4, LenProperties
  <1>6. QED
    BY <1>2, <1>4, <1>5 DEF s

(* A command that reports success has put into its output what its whole     *)
(* input calls for (the loops of acx_backup_cmd, acx_dedupe_cmd,             *)
(* acx_merge_cmd, acx_redact_cmd, acx_normalize_cmd and acx_grep_cmd),       *)
(* however many lines there are and whatever they hold, and nothing but a    *)
(* first part of that even when the disk filled up on the way.               *)
THEOREM HelpersWriteTheirOutput == Spec => []OutputRight
  <1> SUFFICES ASSUME IInv, Progress PROVE OutputRight
    BY Invariance, ProgressInvariant, PTL
  <1>1. ASSUME NEW cmd \in {"dedupe", "merge", "grep", "backup"}, Finished(cmd), Undisturbed
        PROVE  Holds(LinesAt(Input, Kept))
    <2>1. job.cmd = cmd /\ job.phase = "ok" /\ cmd \in Streaming \cup Gathering
      BY <1>1 DEF Finished, Streaming, Gathering
    <2>2. Holds(LinesAt(RewrittenInput, Kept)) /\ Input \in Seq(Line)
      BY <1>1, <2>1, AllCarried, AllRead
    <2>3. RewrittenInput = [i \in DOMAIN Input |-> Input[i]]
      BY <2>1 DEF RewrittenInput, Rewritten
    <2>4. RewrittenInput = Input
      BY <2>2, <2>3
    <2>5. QED
      BY <2>2, <2>4
  <1>2. Finished("backup") => Holds(Input)
    <2> SUFFICES ASSUME Finished("backup") PROVE Holds(Input)
      OBVIOUS
    <2>1. job.cmd = "backup" /\ job.phase = "ok" /\ "backup" \in Streaming \cup Gathering
      BY DEF Finished, Streaming
    <2>2. Undisturbed
      BY <2>1 DEF Progress, Underway, Undisturbed
    <2>3. Holds(LinesAt(Input, Kept)) /\ Kept = DOMAIN Input /\ Input \in Seq(Line)
      BY <1>1, <2>1, <2>2, AllRead DEF Kept
    <2>4. QED
      BY <2>3, AllLines
  <1>3. Finished("dedupe") /\ ~InPlace => Holds(LinesAt(Input, Firsts(Input, DedupeKey)))
    <2> SUFFICES ASSUME Finished("dedupe"), ~InPlace
                 PROVE  Holds(LinesAt(Input, Firsts(Input, DedupeKey)))
      OBVIOUS
    <2>1. Undisturbed /\ Kept = Firsts(Input, DedupeKey)
      BY DEF Undisturbed, Finished, Kept
    <2>2. QED
      BY <1>1, <2>1
  <1>4. Finished("merge") => Holds(LinesAt(Input, Firsts(Input, MergeKey)))
    <2> SUFFICES ASSUME Finished("merge")
                 PROVE  Holds(LinesAt(Input, Firsts(Input, MergeKey)))
      OBVIOUS
    <2>1. Undisturbed /\ Kept = Firsts(Input, MergeKey)
      BY DEF Undisturbed, Finished, Kept, Streaming
    <2>2. QED
      BY <1>1, <2>1
  <1>5. Finished("grep") =>
          Holds(LinesAt(Input, {i \in DOMAIN Input : Parses(Input[i]) /\ Matches(Input[i])}))
    <2> DEFINE P == {i \in DOMAIN Input : Parses(Input[i]) /\ Matches(Input[i])}
    <2> SUFFICES ASSUME Finished("grep")
                 PROVE  Holds(LinesAt(Input, P))
      OBVIOUS
    <2>1. Undisturbed /\ Kept = P
      BY DEF Undisturbed, Finished, Kept, Streaming
    <2>2. QED
      BY <1>1, <2>1
  <1>6. ASSUME Finished("redact"), ~InPlace
        PROVE  /\ Len(Output) <= Cardinality(RecordsIn(Input))
               /\ ~job.lost => Len(Output) = Cardinality(RecordsIn(Input))
               /\ \A i \in DOMAIN Output : \E t \in Texts :
                     Output[i].email \in {Absent, StarEmail[t]}
    <2>1. job.cmd = "redact" /\ job.phase = "ok" /\ "redact" \in Streaming \cup Gathering
      BY <1>6 DEF Finished, Streaming
    <2>2. Undisturbed /\ Kept = RecordsIn(Input)
      BY <1>6, <2>1 DEF Undisturbed, Kept
    <2>3. /\ job.acc = LinesAt(RewrittenInput, RecordsIn(Input)) /\ Input \in Seq(Line)
          /\ job.acc \in Seq(Line) /\ Holds(job.acc)
          /\ Len(Input) \in Nat /\ DOMAIN Input = 1 .. Len(Input)
      BY <2>1, <2>2, AllCarried, AllRead DEF Job
    <2>4. /\ RewrittenInput \in Seq(Line) /\ Len(RewrittenInput) = Len(Input)
          /\ \A i \in 1 .. Len(Input) : RewrittenInput[i] = Redacted(Input[i])
      BY <2>1, <2>3, RewrittenFacts DEF Rewritten
    <2>5. Gathers(job.acc, Line, RewrittenInput, RecordsIn(Input), Len(Input))
      BY <2>3, <2>4, FirstLinesFacts DEF LinesAt
    <2>6. PlacesTo(RecordsIn(Input), Len(Input)) = RecordsIn(Input)
      BY <2>3 DEF PlacesTo, RecordsIn
    <2>7. \A l \in Line : \E t \in Texts : Redacted(l).email \in {Absent, StarEmail[t]}
      <3> SUFFICES ASSUME NEW l \in Line
                   PROVE  \E t \in Texts : Redacted(l).email \in {Absent, StarEmail[t]}
        OBVIOUS
      <3>1. Redacted(l).email = Rewrite(StarEmail, l.email)
        BY DEF Redacted, Line, Bare
      <3>2. l.email \in Fields /\ NoText \in Texts
        BY LineFacts, TextsAssumption
      <3>3. QED
        BY <3>1, <3>2 DEF Rewrite, Fields
    <2>8. ASSUME NEW i \in 1 .. Len(job.acc)
          PROVE  \E t \in Texts : job.acc[i].email \in {Absent, StarEmail[t]}
      <3>1. PICK j \in RecordsIn(Input) : job.acc[i] = RewrittenInput[j]
        BY <2>5, <2>6 DEF Gathers
      <3>2. j \in 1 .. Len(Input) /\ Input[j] \in Line
        BY <2>3, <3>1, ElementOfSeq DEF RecordsIn
      <3>3. QED
        BY <2>4, <2>7, <3>1, <3>2
    <2>9. Len(job.acc) = Cardinality(RecordsIn(Input))
      BY <2>5, <2>6 DEF Gathers
    <2>10. PICK k \in 0 .. Len(job.acc) :
             Output = SubSeq(job.acc, 1, k) /\ (~job.lost => k = Len(job.acc))
      BY <2>3 DEF Holds
    <2>11. /\ Len(Output) = k /\ DOMAIN Output = 1 .. k
           /\ \A i \in 1 .. k : Output[i] = job.acc[i] /\ i \in 1 .. Len(job.acc)
      BY <2>3, <2>10, FirstLines
    <2>12. k \in Nat /\ Len(job.acc) \in Nat /\ k <= Len(job.acc)
      BY <2>3, <2>10, LenProperties
    <2>13. QED
      BY <2>8, <2>9, <2>10, <2>11, <2>12
  <1>7. ASSUME Finished("normalize")
        PROVE  Holds([i \in DOMAIN Input |-> Normalized(Input[i])])
    <2>1. job.cmd = "normalize" /\ job.phase = "ok" /\ "normalize" \in Gathering
          /\ "normalize" \notin Streaming
      BY <1>7 DEF Finished, Streaming, Gathering
    <2>2. Undisturbed /\ Kept = DOMAIN Input
      BY <2>1 DEF Undisturbed, Kept
    <2>3. /\ Holds(LinesAt(RewrittenInput, DOMAIN Input)) /\ Input \in Seq(Line)
          /\ DOMAIN Input = 1 .. Len(Input)
      BY <2>1, <2>2, AllCarried, AllRead
    <2>4. RewrittenInput \in Seq(Line) /\ Len(RewrittenInput) = Len(Input)
      BY <2>3, RewrittenFacts
    <2>5. DOMAIN RewrittenInput = DOMAIN Input
      BY <2>3, <2>4, LenProperties
    <2>6. LinesAt(RewrittenInput, DOMAIN Input) = RewrittenInput
      BY <2>4, <2>5, AllLines
    <2>7. RewrittenInput = [i \in DOMAIN Input |-> Normalized(Input[i])]
      BY <2>1 DEF RewrittenInput, Rewritten
    <2>8. QED
      BY <2>3, <2>6, <2>7
  <1>8. QED
    BY <1>2, <1>3, <1>4, <1>5, <1>6, <1>7 DEF OutputRight

(* A sample has as many records as were asked for, or all there are (on a    *)
(* full disk no more than that), and takes none more often than the input    *)
(* has it (acx_sample_cmd), whatever was drawn.                              *)
THEOREM SamplesAreRight == Spec => []SampleRight
  <1> DEFINE wanted == Min({job.size, Cardinality(RecordsIn(Input))})
  <1> SUFFICES ASSUME IInv, Progress, Finished("sample")
               PROVE  /\ Len(Output) <= wanted /\ (~job.lost => Len(Output) = wanted)
                      /\ \A i \in DOMAIN Output :
                            /\ ~IsEmpty(Output[i])
                            /\ Cardinality({k \in DOMAIN Output : Output[k] = Output[i]})
                                  <= Cardinality({k \in DOMAIN Input : Input[k] = Output[i]})
    <2>1. IInv /\ Progress => SampleRight
      BY DEF SampleRight
    <2>2. QED
      BY <2>1, Invariance, ProgressInvariant, PTL
  <1>1. /\ job.cmd = "sample" /\ job.phase = "ok" /\ "sample" \in Streaming \cup Gathering
        /\ Undisturbed
    BY DEF Finished, Streaming, Gathering, Undisturbed
  <1>2. /\ ReadSoFar = Len(Input) /\ Drawn /\ Holds(job.acc) /\ Input \in Seq(Line)
        /\ Len(Input) \in Nat /\ DOMAIN Input = 1 .. Len(Input)
        /\ job \in Job
    BY <1>1, AllRead DEF Gathered
  <1>3. RecordsRead = RecordsIn(Input)
    BY <1>2 DEF RecordsRead, PlacesTo, RecordsIn
  <1>4. /\ job.acc \in Seq(Line) /\ Len(job.acc) \in Nat
        /\ job.size \in Nat /\ job.n \in Nat
    BY <1>2, SizesAssumption, LenProperties DEF Job
  <1>5. Len(job.acc) = wanted
    <2>1. job.n = Cardinality(RecordsIn(Input))
          /\ Len(job.acc) = IF job.n < job.size THEN job.n ELSE job.size
      BY <1>2, <1>3 DEF Drawn
    <2>2. Len(job.acc) \in {job.size, job.n} /\ \A y \in {job.size, job.n} : Len(job.acc) <= y
      BY <1>4, <2>1
    <2>3. \A x \in {job.size, job.n} : (\A y \in {job.size, job.n} : x <= y) => x = Len(job.acc)
      BY <1>4, <2>1
    <2>4. Min({job.size, job.n}) = Len(job.acc)
      BY <2>2, <2>3 DEF Min
    <2>5. QED
      BY <2>1, <2>4
  <1>6. PICK p \in 0 .. Len(job.acc) :
          Output = SubSeq(job.acc, 1, p) /\ (~job.lost => p = Len(job.acc))
    BY <1>2 DEF Holds
  <1>7. /\ Len(Output) = p /\ DOMAIN Output = 1 .. p
        /\ \A i \in 1 .. p : Output[i] = job.acc[i] /\ i \in 1 .. Len(job.acc)
    BY <1>4, <1>6, FirstLines
  <1>8. PICK q \in [1 .. Len(job.acc) -> RecordsIn(Input)] :
          /\ \A k, m \in 1 .. Len(job.acc) : q[k] = q[m] => k = m
          /\ \A m \in 1 .. Len(job.acc) : job.acc[m] = Input[q[m]]
    BY <1>2, <1>3 DEF Drawn, OnePlaceEach
  <1>9. ASSUME NEW i \in DOMAIN Output
        PROVE  /\ ~IsEmpty(Output[i])
               /\ Cardinality({k \in DOMAIN Output : Output[k] = Output[i]})
                     <= Cardinality({k \in DOMAIN Input : Input[k] = Output[i]})
    <2> DEFINE A == {k \in DOMAIN Output : Output[k] = Output[i]}
               B == {k \in DOMAIN Input : Input[k] = Output[i]}
               f == [k \in A |-> q[k]]
    <2>1. ~IsEmpty(Output[i])
      BY <1>7, <1>8 DEF RecordsIn
    <2>2. IsFiniteSet(B)
      <3>1. IsFiniteSet(1 .. Len(Input)) /\ B \in SUBSET (1 .. Len(Input))
        BY <1>2, FS_Interval
      <3>2. QED
        BY <3>1, FS_Subset
    <2>3. ASSUME NEW k \in A
          PROVE  q[k] \in B
      BY <1>7, <1>8 DEF RecordsIn
    <2>4. f \in [A -> B]
      BY <2>3
    <2>5. \A k, m \in A : f[k] = f[m] => k = m
      BY <1>7, <1>8
    <2> HIDE DEF f, A, B
    <2>6. f \in Injection(A, B)
      BY <2>4, <2>5 DEF Injection, IsInjective
    <2>7. Cardinality(A) <= Cardinality(B)
      BY <2>2, <2>6, FS_Injection
    <2>8. QED
      BY <2>1, <2>7 DEF A, B
  <1>10. Len(Output) <= wanted /\ (~job.lost => Len(Output) = wanted)
    BY <1>4, <1>5, <1>6, <1>7
  <1>11. QED
    BY <1>9, <1>10
=============================================================================
