------------------------ MODULE ParallelImportProofs ------------------------
(***************************************************************************)
(* For any number of threads, any file and any book: no two rows on their  *)
(* way into the book clash, and the rows collected in the end are an       *)
(* acceptance of the file.  That the rows do not clash is not inductive;   *)
(* what makes it so is that the sets of seen keys cover every row that has *)
(* been let through, the ones not yet collected included, and every        *)
(* contact of the book.  That no row is lost or collected twice rests on   *)
(* the order of the queue: the lines up to the last one popped are each    *)
(* with one worker, collected, or refused for good, and those after it are *)
(* each in the queue.                                                      *)
(***************************************************************************)
EXTENDS ParallelImport, SequenceTheorems, FiniteSetTheorems, WellFoundedInduction, TLAPS

Typed ==
    /\ queue \in Seq(Lines)
    /\ outv \in Seq(Lines)
    /\ task \in [Workers -> Lines \cup {0}]
    /\ worker \in [Workers -> {"pop", "waiting", "dedup", "emit", "ended"}]
    /\ input \in Seq(Contact) /\ before \in Seq(Contact)
    /\ read \in 0 .. Len(input)
    /\ \A w \in Workers : worker[w] \in {"dedup", "emit"} => task[w] \in Lines

SeenCovers ==
    /\ \A k \in Inside : input[k].email \in emails /\ input[k].phone \in phones
    /\ \A i \in DOMAIN before : before[i].email \in emails /\ before[i].phone \in phones

IInv == Typed /\ SeenCovers /\ NoClashInside

-----------------------------------------------------------------------------
(* A step that lets nobody in and collects nothing, the rows inside are as   *)
(* they were.                                                                *)
LEMMA SameInside ==
    ASSUME IInv, Typed', Inside' = Inside,
           UNCHANGED << input, before, emails, phones >>
    PROVE  IInv'
  <1>1. SeenCovers'
    BY DEF IInv, SeenCovers
  <1>2. NoClashInside'
    BY DEF IInv, NoClashInside
  <1>3. QED
    BY <1>1, <1>2 DEF IInv

(* The threads start outside, and the keys of the book are seen.             *)
LEMMA InitInv == Init => IInv
  <1> SUFFICES ASSUME Init PROVE IInv
    OBVIOUS
  <1>1. input \in Seq(Contact) /\ before \in Seq(Contact)
    BY InputsAssumption, BooksAssumption DEF Init
  <1>2. queue = << >> /\ outv = << >> /\ << >> \in Seq(Lines)
    BY EmptySeq DEF Init
  <1>3. Typed
    BY <1>1, <1>2, LenProperties DEF Init, Typed
  <1>4. Inside = {}
    <2>1. Accepted = {}
      BY <1>2 DEF Accepted
    <2>2. {w \in Workers : worker[w] = "emit"} = {}
      BY DEF Init
    <2>3. QED
      BY <2>1, <2>2 DEF Inside
  <1>5. SeenCovers
    BY <1>4 DEF SeenCovers, Init
  <1>6. NoClashInside
    BY <1>4 DEF NoClashInside
  <1>7. QED
    BY <1>3, <1>5, <1>6 DEF IInv

(* The main thread changes neither tasks nor results.                        *)
LEMMA MainStep ==
    ASSUME IInv, Main
    PROVE  IInv'
  <1>1. /\ UNCHANGED << input, before, task, emails, phones, outv >>
        /\ Typed
    BY DEF IInv, Main, Push, NotifyOne, Close, NotifyAll, Join
  <1>2. Typed'
    <2>1. CASE Push
      <3>1. read + 1 \in Lines /\ read' \in 0 .. Len(input)
        BY <1>1, <2>1, LenProperties DEF Typed, Push, Lines
      <3>2. queue' \in Seq(Lines)
        BY <1>1, <2>1, <3>1, AppendProperties DEF Typed, Push
      <3>3. QED
        BY <1>1, <2>1, <3>1, <3>2 DEF Typed, Push, Lines
    <2>2. CASE NotifyOne
      BY <1>1, <2>2 DEF Typed, NotifyOne, Lines
    <2>3. CASE Close
      BY <1>1, <2>3 DEF Typed, Close, Lines
    <2>4. CASE NotifyAll
      BY <1>1, <2>4 DEF Typed, NotifyAll, Lines
    <2>5. CASE Join
      BY <1>1, <2>5 DEF Typed, Join, Lines
    <2>6. QED
      BY <2>1, <2>2, <2>3, <2>4, <2>5 DEF Main
  <1>3. \A w \in Workers : worker'[w] = "emit" <=> worker[w] = "emit"
    BY <1>1 DEF Typed, Main, Push, NotifyOne, Close, NotifyAll, Join
  <1>4. Inside' = Inside
    BY <1>1, <1>3 DEF Inside, Accepted
  <1>5. QED
    BY <1>1, <1>2, <1>4, SameInside

(* Taking a line, going to sleep, waking up, ending.                         *)
LEMMA PopStep ==
    ASSUME IInv, NEW w \in Workers, Pop(w)
    PROVE  IInv'
  <1>1. Typed /\ UNCHANGED << input, before, read, emails, phones, outv >> /\ worker[w] = "pop"
    BY DEF IInv, Pop
  <1>2. CASE /\ queue # << >>
             /\ queue' = Tail(queue) /\ task' = [task EXCEPT ![w] = Head(queue)]
             /\ worker' = [worker EXCEPT ![w] = "dedup"]
    <2>1. Head(queue) \in Lines /\ Tail(queue) \in Seq(Lines)
      BY <1>1, <1>2, HeadTailProperties DEF Typed
    <2>2. Typed'
      BY <1>1, <1>2, <2>1 DEF Typed, Lines
    <2>3. /\ \A v \in Workers : worker'[v] = "emit" <=> worker[v] = "emit"
          /\ \A v \in Workers : worker[v] = "emit" => task'[v] = task[v]
      BY <1>1, <1>2 DEF Typed
    <2>4. Inside' = Inside
      BY <1>1, <2>3 DEF Inside, Accepted
    <2>5. QED
      BY <1>1, <2>2, <2>4, SameInside
  <1>3. CASE /\ worker' = [worker EXCEPT ![w] = IF done THEN "ended" ELSE "waiting"]
             /\ UNCHANGED << queue, task >>
    <2>1. Typed'
      BY <1>1, <1>3 DEF Typed, Lines
    <2>2. \A v \in Workers : worker'[v] = "emit" <=> worker[v] = "emit"
      BY <1>1, <1>3 DEF Typed
    <2>3. Inside' = Inside
      BY <1>1, <1>3, <2>2 DEF Inside, Accepted
    <2>4. QED
      BY <1>1, <2>1, <2>3, SameInside
  <1>4. QED
    BY <1>2, <1>3 DEF Pop

(* A worker that wakes up or drops its line goes back to the queue.          *)
LEMMA BackToQueue ==
    ASSUME IInv, NEW w \in Workers, worker[w] # "emit",
           worker' = [worker EXCEPT ![w] = "pop"],
           UNCHANGED << input, before, read, queue, task, emails, phones, outv >>
    PROVE  IInv'
  <1>1. Typed'
    BY DEF IInv, Typed, Lines
  <1>2. \A v \in Workers : worker'[v] = "emit" <=> worker[v] = "emit"
    BY DEF IInv, Typed
  <1>3. Inside' = Inside
    BY <1>2 DEF Inside, Accepted
  <1>4. QED
    BY <1>1, <1>3, SameInside

(* The row let through has no seen key, so it clashes with none inside, and  *)
(* its keys are seen from now on.                                            *)
LEMMA DedupStep ==
    ASSUME IInv, NEW w \in Workers, Dedup(w)
    PROVE  IInv'
  <1> DEFINE k == task[w]
             c == input[k]
  <1>1. /\ Typed /\ SeenCovers /\ NoClashInside
        /\ worker[w] = "dedup" /\ UNCHANGED << input, before, read, queue, task, outv >>
    BY DEF IInv, Dedup
  <1>2. k \in Lines /\ c \in Contact
    BY <1>1, ElementOfSeq, LenProperties DEF Typed, Lines
  <1>3. CASE worker' = [worker EXCEPT ![w] = "pop"] /\ UNCHANGED << emails, phones >>
    BY <1>1, <1>3, BackToQueue
  <1>4. CASE /\ c.email \notin emails /\ c.phone \notin phones
             /\ worker' = [worker EXCEPT ![w] = "emit"]
             /\ emails' = emails \cup {c.email} /\ phones' = phones \cup {c.phone}
    <2>1. Typed'
      BY <1>1, <1>2, <1>4 DEF Typed, Lines
    <2>2. Inside' = Inside \cup {k}
      <3>1. {v \in Workers : worker'[v] = "emit"} = {v \in Workers : worker[v] = "emit"} \cup {w}
        BY <1>1, <1>4 DEF Typed
      <3>2. QED
        BY <1>1, <3>1 DEF Inside, Accepted
    <2>3. SeenCovers'
      BY <1>1, <1>4, <2>2 DEF SeenCovers
    <2>4. \A l \in Inside : ~Clash(input[l], c) /\ ~Clash(c, input[l])
      BY <1>1, <1>4 DEF SeenCovers, Clash
    <2>5. \A i \in DOMAIN before : ~Clash(before[i], c)
      BY <1>1, <1>4 DEF SeenCovers, Clash
    <2>6. NoClashInside'
      BY <1>1, <2>2, <2>4, <2>5 DEF NoClashInside
    <2>7. QED
      BY <2>1, <2>3, <2>6 DEF IInv
  <1>5. QED
    BY <1>3, <1>4 DEF Dedup

(* Collecting a row that was let through leaves it inside.                   *)
LEMMA EmitStep ==
    ASSUME IInv, NEW w \in Workers, Emit(w)
    PROVE  IInv'
  <1>1. /\ Typed /\ worker[w] = "emit" /\ outv' = Append(outv, task[w])
        /\ worker' = [worker EXCEPT ![w] = "pop"]
        /\ UNCHANGED << input, before, read, queue, task, emails, phones >>
    BY DEF IInv, Emit
  <1>2. task[w] \in Lines
    BY <1>1 DEF Typed
  <1>3. /\ outv' \in Seq(Lines)
        /\ Len(outv) \in Nat /\ Len(outv') = Len(outv) + 1
        /\ DOMAIN outv = 1 .. Len(outv) /\ DOMAIN outv' = 1 .. Len(outv')
        /\ \A i \in 1 .. Len(outv) : outv'[i] = outv[i]
        /\ outv'[Len(outv) + 1] = task[w]
    BY <1>1, <1>2, AppendProperties, LenProperties DEF Typed
  <1>4. Typed'
    BY <1>1, <1>3 DEF Typed, Lines
  <1>5. Accepted' = Accepted \cup {task[w]}
    BY <1>3 DEF Accepted
  <1>6. {v \in Workers : worker[v] = "emit"} = {v \in Workers : worker'[v] = "emit"} \cup {w}
    BY <1>1 DEF Typed
  <1>7. Inside' = Inside
    BY <1>1, <1>5, <1>6 DEF Inside
  <1>8. QED
    BY <1>1, <1>4, <1>7, SameInside

(* Every step of every thread keeps the invariant.                           *)
LEMMA StepInv == IInv /\ [Next]_vars => IInv'
  <1> SUFFICES ASSUME IInv, [Next]_vars PROVE IInv'
    OBVIOUS
  <1>1. CASE Main
    BY <1>1, MainStep
  <1>2. ASSUME NEW w \in Workers, Work(w) \/ WakeUp(w)
        PROVE  IInv'
    <2>1. CASE Pop(w)
      BY <2>1, PopStep
    <2>2. CASE Reject(w) \/ WakeUp(w)
      BY <2>2, BackToQueue DEF Reject, WakeUp
    <2>3. CASE Dedup(w)
      BY <2>3, DedupStep
    <2>4. CASE Emit(w)
      BY <2>4, EmitStep
    <2>5. QED
      BY <1>2, <2>1, <2>2, <2>3, <2>4 DEF Work
  <1>3. CASE UNCHANGED vars
    <2>1. UNCHANGED << input, before, read, queue, worker, task, emails, phones, outv >>
      BY <1>3 DEF vars
    <2>2. Typed'
      BY <2>1 DEF IInv, Typed, Lines
    <2>3. Inside' = Inside
      BY <2>1 DEF Inside, Accepted
    <2>4. QED
      BY <2>1, <2>2, <2>3, SameInside
  <1>4. QED
    BY <1>1, <1>2, <1>3 DEF Next

(* For any number of worker threads, the rows of a parallel import never     *)
(* clash with each other or with the book (seen_email and seen_phone under   *)
(* dedup_mu in import_data_parallel).                                        *)
THEOREM NoTwoClash == Spec => []NoClashInside
  <1>1. IInv => NoClashInside
    BY DEF IInv
  <1>2. QED
    BY <1>1, InitInv, StepInv, PTL DEF Spec

-----------------------------------------------------------------------------
(* What becomes of every line                                                *)

Popped == read - Len(queue)

Busy == {w \in Workers : worker[w] \in {"dedup", "emit"}}

IsValid(c) == {c.name, c.email, c.phone} \subseteq Valid

\* The line cannot go into the book any more.
Refused(k) ==
    \/ ~IsValid(input[k])
    \/ \E i \in DOMAIN before : Clash(before[i], input[k])
    \/ \E l \in Inside : Clash(input[l], input[k])

Shapes ==
    /\ input \in Inputs /\ before \in Books
    /\ main \in {"read", "notify", "close", "notify_all", "join", "joined"}
    /\ done \in BOOLEAN
    /\ emails \subseteq Emails /\ phones \subseteq Phones

\* The queue holds the lines behind the last one popped, in their order.
QueueInOrder == Len(queue) <= read /\ \A i \in DOMAIN queue : queue[i] = Popped + i

\* A popped line is with one worker or was collected once.
OnceEach ==
    /\ \A w \in Busy : task[w] <= Popped /\ task[w] \notin Accepted
    /\ \A v, w \in Busy : task[v] = task[w] => v = w
    /\ \A i \in DOMAIN outv : outv[i] <= Popped
    /\ \A i, j \in DOMAIN outv : outv[i] = outv[j] => i = j

\* A popped line is with a worker, was collected, or can be forgotten.
Judged ==
    /\ \A k \in Inside : IsValid(input[k])
    /\ \A k \in 1 .. Popped : k \in Accepted \/ (\E w \in Busy : task[w] = k) \/ Refused(k)

\* A key is only seen because a contact of the book or a row let through has it.
KeysKnown ==
    /\ \A e \in emails : \/ \E i \in DOMAIN before : before[i].email = e
                         \/ \E k \in Inside : input[k].email = e
    /\ \A p \in phones : \/ \E i \in DOMAIN before : before[i].phone = p
                         \/ \E k \in Inside : input[k].phone = p

\* A worker ends when all was read and taken.
Ending ==
    /\ done => read = Len(input) /\ main \in {"notify_all", "join", "joined"}
    /\ \A w \in Workers : worker[w] = "ended" => done /\ queue = << >>
    /\ main = "joined" => \A w \in Workers : worker[w] = "ended"

Lots == OnceEach /\ Judged /\ KeysKnown

AInv == IInv /\ Shapes /\ QueueInOrder /\ Lots /\ Ending

(* What Typed says of the numbers.                                           *)
LEMMA Numbers ==
    ASSUME Typed
    PROVE  /\ Len(queue) \in Nat /\ DOMAIN queue = 1 .. Len(queue)
           /\ Len(outv) \in Nat /\ DOMAIN outv = 1 .. Len(outv)
           /\ Len(input) \in Nat /\ Lines = 1 .. Len(input)
           /\ read \in Nat /\ Popped \in Int
           /\ Accepted \subseteq Lines
           /\ \A w \in Busy : task[w] \in Lines
BY LenProperties, ElementOfSeq DEF Typed, Popped, Accepted, Busy, Lines

(* Nobody takes a line, collects it or lets go of it.                        *)
LEMMA SameLots ==
    ASSUME Lots, Popped' = Popped, UNCHANGED << input, before, task, emails, phones, outv >>,
           \A w \in Workers : /\ worker'[w] = "dedup" <=> worker[w] = "dedup"
                              /\ worker'[w] = "emit" <=> worker[w] = "emit"
    PROVE  Lots'
  <1>1. Busy' = Busy /\ Inside' = Inside /\ Accepted' = Accepted
    BY DEF Busy, Inside, Accepted
  <1>2. OnceEach'
    BY <1>1 DEF Lots, OnceEach
  <1>3. Judged'
    BY <1>1 DEF Lots, Judged, Refused
  <1>4. KeysKnown'
    BY <1>1 DEF Lots, KeysKnown
  <1>5. QED
    BY <1>2, <1>3, <1>4 DEF Lots

LEMMA InitAInv == Init => AInv
  <1> SUFFICES ASSUME Init PROVE AInv
    OBVIOUS
  <1>1. IInv /\ Typed
    BY InitInv DEF IInv
  <1>2. queue = << >> /\ outv = << >> /\ read = 0 /\ Len(queue) = 0 /\ DOMAIN queue = {}
        /\ DOMAIN outv = {}
    BY DEF Init
  <1>3. Busy = {} /\ Inside = {} /\ Accepted = {} /\ Popped = 0
    <2>1. Busy = {} /\ {w \in Workers : worker[w] = "emit"} = {}
      BY DEF Init, Busy
    <2>2. Accepted = {}
      BY <1>2 DEF Accepted
    <2>3. Popped = 0
      <3>1. read = 0 /\ Len(queue) = 0
        BY <1>2
      <3>2. QED
        BY <3>1 DEF Popped
    <2>4. QED
      BY <2>1, <2>2, <2>3 DEF Inside
  <1>4. Shapes
    <2>1. before \in Seq(Contact)
      BY <1>1 DEF Typed
    <2>2. \A i \in DOMAIN before : before[i].email \in Emails /\ before[i].phone \in Phones
      <3>1. \A i \in DOMAIN before : before[i] \in Contact
        BY <2>1, ElementOfSeq, LenProperties
      <3>2. QED
        BY <3>1 DEF Contact
    <2>3. QED
      BY <2>2 DEF Init, Shapes
  <1>5. QueueInOrder /\ OnceEach /\ Judged
    BY <1>2, <1>3 DEF QueueInOrder, OnceEach, Judged
  <1>6. KeysKnown
    BY DEF Init, KeysKnown
  <1>7. Ending
    BY DEF Init, Ending
  <1>8. QED
    BY <1>1, <1>4, <1>5, <1>6, <1>7 DEF AInv, Lots

LEMMA MainAInv ==
    ASSUME AInv, Main
    PROVE  AInv'
  <1>1. /\ UNCHANGED << input, before, task, emails, phones, outv >>
        /\ IInv /\ Typed /\ IInv' /\ Typed' /\ Shapes /\ QueueInOrder /\ Lots /\ Ending
    BY MainStep DEF AInv, IInv, Main, Push, NotifyOne, Close, NotifyAll, Join
  <1>2. \A w \in Workers : /\ worker'[w] = "dedup" <=> worker[w] = "dedup"
                           /\ worker'[w] = "emit" <=> worker[w] = "emit"
                           /\ worker'[w] = "ended" <=> worker[w] = "ended"
    BY <1>1 DEF Typed, Main, Push, NotifyOne, Close, NotifyAll, Join
  <1>3. Shapes'
    BY <1>1 DEF Shapes, Main, Push, NotifyOne, Close, NotifyAll, Join
  <1>4. QueueInOrder' /\ Popped' = Popped
    <2>1. CASE Push
      <3>1. /\ read' = read + 1 /\ Len(queue') = Len(queue) + 1
            /\ DOMAIN queue' = 1 .. Len(queue) + 1 /\ queue'[Len(queue) + 1] = read + 1
            /\ \A i \in 1 .. Len(queue) : queue'[i] = queue[i]
        <4>1. queue \in Seq(Lines) /\ queue' = Append(queue, read + 1) /\ read + 1 \in Lines
          BY <1>1, <2>1, Numbers DEF Push, Typed
        <4>2. QED
          BY <2>1, <4>1, AppendProperties, LenProperties DEF Push
      <3>2. Popped' = Popped
        BY <1>1, <3>1, Numbers DEF Popped
      <3>3. \A i \in 1 .. Len(queue) + 1 : i \in 1 .. Len(queue) \/ i = Len(queue) + 1
        BY <1>1, Numbers
      <3>4. read + 1 = Popped + (Len(queue) + 1)
        BY <1>1, Numbers DEF Popped
      <3>5. Len(queue') <= read'
        BY <1>1, <3>1, Numbers DEF QueueInOrder
      <3>6. QED
        BY <1>1, <3>1, <3>2, <3>3, <3>4, <3>5, Numbers DEF QueueInOrder
    <2>2. CASE NotifyOne \/ Close \/ NotifyAll \/ Join
      <3>1. UNCHANGED << read, queue >>
        BY <2>2 DEF NotifyOne, Close, NotifyAll, Join
      <3>2. QED
        BY <1>1, <3>1 DEF QueueInOrder, Popped
    <2>3. QED
      BY <2>1, <2>2 DEF Main
  <1>5. Lots'
    BY <1>1, <1>2, <1>4, SameLots
  <1>6. Ending'
    BY <1>1, <1>2 DEF Ending, Main, Push, NotifyOne, Close, NotifyAll, Join
  <1>7. QED
    BY <1>1, <1>3, <1>4, <1>5, <1>6 DEF AInv

(* The line popped is the next one, so no worker has it and none was         *)
(* collected that comes later.                                               *)
LEMMA PopAInv ==
    ASSUME AInv, NEW w \in Workers, Pop(w)
    PROVE  AInv'
  <1>1. /\ IInv /\ Typed /\ IInv' /\ Typed' /\ Shapes /\ QueueInOrder /\ Lots /\ Ending
        /\ UNCHANGED << input, before, main, read, done, emails, phones, outv >>
        /\ worker[w] = "pop"
    BY PopStep DEF AInv, IInv, Pop
  <1>2. Shapes' /\ Accepted' = Accepted
    BY <1>1 DEF Shapes, Accepted
  <1>3. CASE /\ queue = << >> /\ worker' = [worker EXCEPT ![w] = IF done THEN "ended" ELSE "waiting"]
             /\ UNCHANGED << queue, task >>
    <2>1. Popped' = Popped /\ QueueInOrder'
      BY <1>1, <1>3 DEF Popped, QueueInOrder
    <2>2. \A v \in Workers : /\ worker'[v] = "dedup" <=> worker[v] = "dedup"
                             /\ worker'[v] = "emit" <=> worker[v] = "emit"
      BY <1>1, <1>3 DEF Typed
    <2>3. Lots'
      BY <1>1, <1>3, <2>1, <2>2, SameLots
    <2>4. Ending'
      BY <1>1, <1>3 DEF Typed, Ending
    <2>5. QED
      BY <1>1, <1>2, <2>1, <2>3, <2>4 DEF AInv
  <1>4. CASE /\ queue # << >>
             /\ queue' = Tail(queue) /\ task' = [task EXCEPT ![w] = Head(queue)]
             /\ worker' = [worker EXCEPT ![w] = "dedup"]
    <2> DEFINE n == Len(queue)
    <2>1. /\ queue \in Seq(Lines) /\ n \in Nat /\ n # 0 /\ DOMAIN queue = 1 .. n
          /\ read \in Nat /\ Popped = read - n /\ n <= read
      BY <1>1, <1>4, Numbers, EmptySeq DEF Typed, QueueInOrder, Popped
    <2>2. /\ Len(queue') = n - 1 /\ DOMAIN queue' = 1 .. n - 1
          /\ \A i \in 1 .. n - 1 : queue'[i] = queue[i + 1]
          /\ Head(queue) = queue[1]
      BY <1>4, <2>1, HeadTailProperties, LenProperties
    <2>3. Popped' = Popped + 1
      BY <1>1, <2>1, <2>2 DEF Popped
    <2>4. Head(queue) = Popped + 1
      BY <1>1, <2>1, <2>2 DEF QueueInOrder
    <2>5. QueueInOrder'
      <3>1. \A i \in 1 .. n - 1 : i + 1 \in 1 .. n /\ queue[i + 1] = Popped + (i + 1)
        BY SMTT(30), <1>1, <2>1 DEF QueueInOrder
      <3>2. Len(queue') <= read'
        BY <1>1, <2>1, <2>2
      <3>3. \A i \in 1 .. n - 1 : Popped + (i + 1) = (Popped + 1) + i
        BY <2>1
      <3>4. \A i \in DOMAIN queue' : queue'[i] = Popped' + i
        BY <2>2, <2>3, <3>1, <3>3
      <3>5. QED
        BY <3>2, <3>4 DEF QueueInOrder
    <2>6. /\ Busy' = Busy \cup {w} /\ w \notin Busy /\ task'[w] = Popped + 1
          /\ \A v \in Busy : task'[v] = task[v]
      BY <1>1, <1>4, <2>4 DEF Typed, Busy
    <2>7. Inside' = Inside
      <3>1. {v \in Workers : worker'[v] = "emit"} = {v \in Workers : worker[v] = "emit"}
        BY <1>1, <1>4 DEF Typed
      <3>2. \A v \in {u \in Workers : worker[u] = "emit"} : task'[v] = task[v]
        BY <2>6 DEF Busy
      <3>3. QED
        BY <1>2, <3>1, <3>2 DEF Inside
    <2>8. /\ \A v \in Busy : task[v] \in Nat /\ task[v] <= Popped
          /\ \A i \in DOMAIN outv : outv[i] \in Nat /\ outv[i] <= Popped
          /\ Popped \in Nat
      <3>1. Accepted \subseteq Nat /\ \A v \in Busy : task[v] \in Nat
        BY <1>1, Numbers
      <3>2. QED
        <4>1. \A i \in DOMAIN outv : outv[i] \in Nat
          BY <3>1 DEF Accepted
        <4>2. Popped \in Nat
          BY <2>1
        <4>3. QED
          BY <1>1, <3>1, <4>1, <4>2 DEF Lots, OnceEach
    <2>9. OnceEach'
      <3>1. Popped + 1 \notin Accepted
        BY <2>8 DEF Accepted
      <3>2. \A v \in Busy' : task'[v] <= Popped' /\ task'[v] \notin Accepted'
        BY <1>1, <1>2, <2>3, <2>6, <2>8, <3>1 DEF Lots, OnceEach
      <3>3. \A u, v \in Busy' : task'[u] = task'[v] => u = v
        BY <1>1, <2>6, <2>8 DEF Lots, OnceEach
      <3>4. (\A i \in DOMAIN outv : outv[i] <= Popped)'
        BY <1>1, <2>3, <2>8
      <3>5. QED
        BY <1>1, <3>2, <3>3, <3>4 DEF Lots, OnceEach
    <2>10. Judged'
      <3>1. \A k \in 1 .. Popped + 1 : k \in 1 .. Popped \/ k = Popped + 1
        BY <2>8
      <3>2. \A k \in 1 .. Popped : Refused(k) => Refused(k)'
        BY <1>1, <2>7 DEF Refused
      <3>3. \A k \in 1 .. Popped : k \in Accepted' \/ (\E v \in Busy' : task'[v] = k) \/ Refused(k)'
        BY <1>1, <1>2, <2>6, <3>2 DEF Lots, Judged
      <3>4. \E v \in Busy' : task'[v] = Popped + 1
        BY <2>6
      <3>5. (\A k \in Inside : IsValid(input[k]))'
        BY <1>1, <2>7 DEF Lots, Judged
      <3>6. QED
        BY <2>3, <3>1, <3>3, <3>4, <3>5 DEF Judged
    <2>11. KeysKnown'
      BY <1>1, <2>7 DEF Lots, KeysKnown
    <2>12. Ending'
      BY <1>1, <1>4 DEF Typed, Ending
    <2>13. QED
      BY <1>1, <1>2, <2>5, <2>9, <2>10, <2>11, <2>12 DEF AInv, Lots
  <1>5. QED
    BY <1>3, <1>4 DEF Pop

LEMMA WakeUpAInv ==
    ASSUME AInv, NEW w \in Workers, WakeUp(w)
    PROVE  AInv'
  <1>1. /\ IInv /\ Typed /\ IInv' /\ Shapes /\ QueueInOrder /\ Lots /\ Ending
        /\ UNCHANGED << input, before, main, read, queue, done, task, emails, phones, outv >>
        /\ worker[w] = "waiting" /\ worker' = [worker EXCEPT ![w] = "pop"]
    BY BackToQueue DEF AInv, IInv, WakeUp
  <1>2. \A v \in Workers : /\ worker'[v] = "dedup" <=> worker[v] = "dedup"
                           /\ worker'[v] = "emit" <=> worker[v] = "emit"
                           /\ worker'[v] = "ended" <=> worker[v] = "ended"
    BY <1>1 DEF Typed
  <1>3. Popped' = Popped /\ QueueInOrder' /\ Shapes' /\ Ending'
    BY <1>1, <1>2 DEF Popped, QueueInOrder, Shapes, Ending
  <1>4. Lots'
    BY <1>1, <1>2, <1>3, SameLots
  <1>5. QED
    BY <1>1, <1>3, <1>4 DEF AInv

(* A worker lets go of a line for which there is no room in the book.        *)
LEMMA LetGo ==
    ASSUME AInv, IInv', NEW w \in Workers, worker[w] = "dedup", Refused(task[w]),
           worker' = [worker EXCEPT ![w] = "pop"],
           UNCHANGED << input, before, main, read, queue, done, task, emails, phones, outv >>
    PROVE  AInv'
  <1>1. IInv /\ Typed /\ Shapes /\ QueueInOrder /\ Lots /\ Ending
    BY DEF AInv, IInv
  <1>2. /\ Busy' = Busy \ {w} /\ w \in Busy
        /\ {v \in Workers : worker'[v] = "emit"} = {v \in Workers : worker[v] = "emit"}
        /\ \A v \in Workers : worker'[v] = "ended" <=> worker[v] = "ended"
    BY <1>1 DEF Typed, Busy
  <1>3. Accepted' = Accepted /\ Inside' = Inside /\ Popped' = Popped
    BY <1>2 DEF Accepted, Inside, Popped
  <1>4. Shapes' /\ QueueInOrder' /\ Ending'
    BY <1>1, <1>2, <1>3 DEF Shapes, QueueInOrder, Ending
  <1>5. OnceEach'
    BY <1>1, <1>2, <1>3 DEF Lots, OnceEach
  <1>6. Judged'
    <2>1. \A k \in 1 .. Popped : Refused(k) => Refused(k)'
      BY <1>3 DEF Refused
    <2>2. \A k \in 1 .. Popped : k \in Accepted \/ (\E v \in Busy' : task[v] = k) \/ Refused(k)
      BY <1>1, <1>2 DEF Lots, Judged
    <2>3. QED
      BY <1>1, <1>3, <2>1, <2>2 DEF Lots, Judged
  <1>7. KeysKnown'
    BY <1>1, <1>3 DEF Lots, KeysKnown
  <1>8. QED
    BY <1>4, <1>5, <1>6, <1>7 DEF AInv, Lots

LEMMA RejectAInv ==
    ASSUME AInv, NEW w \in Workers, Reject(w)
    PROVE  AInv'
  <1>1. /\ UNCHANGED << input, before, main, read, queue, done, task, emails, phones, outv >>
        /\ worker[w] = "dedup" /\ worker' = [worker EXCEPT ![w] = "pop"]
        /\ ~IsValid(input[task[w]])
    BY DEF Reject, IsValid
  <1>2. IInv'
    BY <1>1, BackToQueue DEF AInv
  <1>3. QED
    BY <1>1, <1>2, LetGo DEF Refused

LEMMA DedupAInv ==
    ASSUME AInv, NEW w \in Workers, Dedup(w)
    PROVE  AInv'
  <1> DEFINE k == task[w]
             c == input[k]
  <1>1. /\ IInv /\ Typed /\ IInv' /\ Shapes /\ QueueInOrder /\ Lots /\ Ending
        /\ worker[w] = "dedup" /\ UNCHANGED << input, before, main, read, queue, done, task, outv >>
        /\ IsValid(c)
    BY DedupStep DEF AInv, IInv, Dedup, IsValid
  <1>2. CASE /\ c.email \in emails \/ c.phone \in phones
             /\ worker' = [worker EXCEPT ![w] = "pop"] /\ UNCHANGED << emails, phones >>
    <2>1. Refused(k)
      BY <1>1, <1>2 DEF Lots, KeysKnown, Refused, Clash
    <2>2. QED
      BY <1>1, <1>2, <2>1, LetGo
  <1>3. CASE /\ c.email \notin emails /\ c.phone \notin phones
             /\ worker' = [worker EXCEPT ![w] = "emit"]
             /\ emails' = emails \cup {c.email} /\ phones' = phones \cup {c.phone}
    <2>1. /\ Busy' = Busy /\ w \in Busy
          /\ {v \in Workers : worker'[v] = "emit"} = {v \in Workers : worker[v] = "emit"} \cup {w}
          /\ \A v \in Workers : worker'[v] = "ended" <=> worker[v] = "ended"
      BY <1>1, <1>3 DEF Typed, Busy
    <2>2. Accepted' = Accepted /\ Popped' = Popped /\ Inside' = Inside \cup {k}
      BY <1>1, <2>1 DEF Accepted, Popped, Inside
    <2>3. c \in Contact
      BY <1>1, <2>1, Numbers, ElementOfSeq DEF Typed, Lines
    <2>4. Shapes'
      BY <1>1, <1>3, <2>3 DEF Shapes, Contact
    <2>5. QueueInOrder' /\ Ending'
      BY <1>1, <2>1, <2>2 DEF QueueInOrder, Ending
    <2>6. OnceEach'
      BY <1>1, <2>1, <2>2 DEF Lots, OnceEach
    <2>7. Judged'
      <3>1. \A l \in 1 .. Popped : Refused(l) => Refused(l)'
        BY <1>1, <2>2 DEF Refused
      <3>2. \A l \in 1 .. Popped : l \in Accepted \/ (\E v \in Busy : task[v] = l) \/ Refused(l)
        BY <1>1 DEF Lots, Judged
      <3>3. \A l \in Inside \cup {k} : IsValid(input[l])
        BY <1>1 DEF Lots, Judged
      <3>4. QED
        BY <1>1, <2>1, <2>2, <3>1, <3>2, <3>3 DEF Judged
    <2>8. KeysKnown'
      BY <1>1, <1>3, <2>2 DEF Lots, KeysKnown
    <2>9. QED
      BY <1>1, <2>4, <2>5, <2>6, <2>7, <2>8 DEF AInv, Lots
  <1>4. QED
    BY <1>2, <1>3 DEF Dedup

LEMMA EmitAInv ==
    ASSUME AInv, NEW w \in Workers, Emit(w)
    PROVE  AInv'
  <1>1. /\ IInv /\ Typed /\ IInv' /\ Typed' /\ Shapes /\ QueueInOrder /\ Lots /\ Ending
        /\ worker[w] = "emit" /\ worker' = [worker EXCEPT ![w] = "pop"]
        /\ outv' = Append(outv, task[w])
        /\ UNCHANGED << input, before, main, read, queue, done, task, emails, phones >>
    BY EmitStep DEF AInv, IInv, Emit
  <1>2. /\ Busy' = Busy \ {w} /\ w \in Busy
        /\ {v \in Workers : worker[v] = "emit"} = {v \in Workers : worker'[v] = "emit"} \cup {w}
        /\ \A v \in Workers : worker'[v] = "ended" <=> worker[v] = "ended"
    BY <1>1 DEF Typed, Busy
  <1>3. task[w] \in Lines /\ task[w] \notin Accepted /\ task[w] <= Popped
    BY <1>1, <1>2, Numbers DEF Lots, OnceEach
  <1>4. /\ DOMAIN outv' = DOMAIN outv \cup {Len(outv) + 1} /\ Len(outv) + 1 \notin DOMAIN outv
        /\ \A i \in DOMAIN outv : outv'[i] = outv[i]
        /\ outv'[Len(outv) + 1] = task[w]
    <2>1. outv \in Seq(Lines) /\ Len(outv) \in Nat /\ DOMAIN outv = 1 .. Len(outv)
      BY <1>1, Numbers DEF Typed
    <2>2. /\ DOMAIN outv' = 1 .. Len(outv) + 1 /\ outv'[Len(outv) + 1] = task[w]
          /\ \A i \in 1 .. Len(outv) : outv'[i] = outv[i]
      BY <1>1, <1>3, <2>1, AppendProperties, LenProperties
    <2>3. 1 .. Len(outv) + 1 = 1 .. Len(outv) \cup {Len(outv) + 1} /\ Len(outv) + 1 \notin 1 .. Len(outv)
      BY <2>1
    <2>4. QED
      BY <2>1, <2>2, <2>3
  <1>5. Accepted' = Accepted \cup {task[w]}
    BY <1>4 DEF Accepted
  <1>6. Inside' = Inside /\ Popped' = Popped
    BY <1>1, <1>2, <1>5 DEF Inside, Popped
  <1>7. Shapes' /\ QueueInOrder' /\ Ending'
    BY <1>1, <1>2, <1>6 DEF Shapes, QueueInOrder, Ending
  <1>8. OnceEach'
    <2>1. \A v \in Busy' : task'[v] <= Popped' /\ task'[v] \notin Accepted'
      BY <1>1, <1>2, <1>5, <1>6 DEF Lots, OnceEach
    <2>2. \A u, v \in Busy' : task'[u] = task'[v] => u = v
      BY <1>1, <1>2 DEF Lots, OnceEach
    <2>3. \A i \in DOMAIN outv' : outv'[i] <= Popped'
      BY <1>1, <1>3, <1>4, <1>6 DEF Lots, OnceEach
    <2>4. \A i \in DOMAIN outv : outv[i] # task[w]
      BY <1>3 DEF Accepted
    <2>5. \A i, j \in DOMAIN outv' : outv'[i] = outv'[j] => i = j
      BY <1>1, <1>4, <2>4 DEF Lots, OnceEach
    <2>6. QED
      BY <2>1, <2>2, <2>3, <2>5 DEF OnceEach
  <1>9. Judged'
    <2>1. \A k \in 1 .. Popped : Refused(k) => Refused(k)'
      BY <1>1, <1>6 DEF Refused
    <2>2. \A k \in 1 .. Popped : k \in Accepted' \/ (\E v \in Busy' : task[v] = k) \/ Refused(k)
      BY <1>1, <1>2, <1>5 DEF Lots, Judged
    <2>3. QED
      BY <1>1, <1>6, <2>1, <2>2 DEF Lots, Judged
  <1>10. KeysKnown'
    BY <1>1, <1>6 DEF Lots, KeysKnown
  <1>11. QED
    BY <1>1, <1>7, <1>8, <1>9, <1>10 DEF AInv, Lots

LEMMA StepAInv == AInv /\ [Next]_vars => AInv'
  <1> SUFFICES ASSUME AInv, [Next]_vars PROVE AInv'
    OBVIOUS
  <1>1. CASE Main
    BY <1>1, MainAInv
  <1>2. ASSUME NEW w \in Workers, Work(w) \/ WakeUp(w)
        PROVE  AInv'
    BY <1>2, PopAInv, WakeUpAInv, RejectAInv, DedupAInv, EmitAInv DEF Work
  <1>3. CASE UNCHANGED vars
    <2>1. UNCHANGED << input, before, main, read, queue, done, worker, task, emails, phones, outv >>
      BY <1>3 DEF vars
    <2>2. IInv'
      BY <1>3, StepInv DEF AInv
    <2>3. Popped' = Popped
      BY <2>1 DEF Popped
    <2>4. Shapes' /\ QueueInOrder' /\ Ending'
      BY <2>1, <2>3 DEF AInv, Shapes, QueueInOrder, Ending
    <2>5. Lots'
      BY <2>1, <2>3, SameLots DEF AInv
    <2>6. QED
      BY <2>2, <2>4, <2>5 DEF AInv
  <1>4. QED
    BY <1>1, <1>2, <1>3 DEF Next

LEMMA AcceptanceInvariant == Spec => []AInv
BY InitAInv, StepAInv, PTL DEF Spec

(* Threads, queue and results keep their shape (import_data_parallel).       *)
THEOREM ImportTypes == Spec => []TypeOK
  <1>1. AInv => TypeOK
    BY DEF AInv, IInv, Typed, Shapes, TypeOK
  <1>2. QED
    BY AcceptanceInvariant, <1>1, PTL

-----------------------------------------------------------------------------
(* The rows collected, sorted                                                *)

LEMMA LeastElement ==
    ASSUME NEW T \in SUBSET Nat, T # {}
    PROVE  \E x \in T : \A y \in T : x <= y
  <1>1. PICK x \in T : \A y \in T : << y, x >> \notin OpToRel(<, Nat)
    BY NatLessThanWellFounded, WFMin
  <1>2. \A y \in T : ~(y < x)
    BY <1>1 DEF OpToRel
  <1>3. QED
    BY <1>2

Ascending(p, m) == \A i, j \in 1 .. m : i < j => p[i] < p[j]

(* Positions can be listed in increasing order.                              *)
LEMMA Enumeration ==
    ASSUME NEW n \in Nat, NEW S \in SUBSET (1 .. n)
    PROVE  \E m \in 0 .. n : \E p \in [1 .. m -> S] :
              Ascending(p, m) /\ {p[i] : i \in 1 .. m} = S
  <1> DEFINE Upto(k) == S \cap (1 .. k)
             Listed(k) == \E m \in 0 .. k : \E p \in [1 .. m -> S] :
                             Ascending(p, m) /\ {p[i] : i \in 1 .. m} = Upto(k)
             T == {k \in 0 .. n : ~Listed(k)}
  <1>1. Listed(0)
    <2> DEFINE p == [i \in 1 .. 0 |-> i]
    <2>1. p \in [1 .. 0 -> S] /\ {p[i] : i \in 1 .. 0} = {} /\ Upto(0) = {}
      OBVIOUS
    <2>2. Ascending(p, 0)
      BY DEF Ascending
    <2>3. 0 \in 0 .. 0
      OBVIOUS
    <2> HIDE DEF p
    <2>4. QED
      BY <2>1, <2>2, <2>3
  <1>2. ASSUME NEW k \in 0 .. n, k + 1 \in 0 .. n, Listed(k)
        PROVE  Listed(k + 1)
    <2>1. PICK m \in 0 .. k : \E p \in [1 .. m -> S] :
                 Ascending(p, m) /\ {p[i] : i \in 1 .. m} = Upto(k)
      BY <1>2
    <2>2. PICK p \in [1 .. m -> S] : Ascending(p, m) /\ {p[i] : i \in 1 .. m} = Upto(k)
      BY <2>1
    <2>3. CASE k + 1 \notin S
      <3>1. Upto(k + 1) = Upto(k) /\ m \in 0 .. k + 1
        BY <2>3
      <3>2. QED
        BY <2>2, <3>1
    <2>4. CASE k + 1 \in S
      <3> DEFINE q == [i \in 1 .. m + 1 |-> IF i = m + 1 THEN k + 1 ELSE p[i]]
      <3>1. m + 1 \in 0 .. k + 1 /\ 1 .. m + 1 = 1 .. m \cup {m + 1} /\ m + 1 \notin 1 .. m
        OBVIOUS
      <3>2. /\ q \in [1 .. m + 1 -> S] /\ q[m + 1] = k + 1
            /\ \A i \in 1 .. m : q[i] = p[i] /\ p[i] \in Upto(k)
        BY <2>2, <2>4, <3>1
      <3> HIDE DEF q
      <3>3. Ascending(q, m + 1)
        <4>1. \A i \in 1 .. m : p[i] < k + 1
          BY <3>2
        <4>2. SUFFICES ASSUME NEW i \in 1 .. m + 1, NEW j \in 1 .. m + 1, i < j
                       PROVE  q[i] < q[j]
          BY DEF Ascending
        <4>3. i \in 1 .. m
          BY <4>2
        <4>4. CASE j = m + 1
          BY <3>2, <4>1, <4>3, <4>4
        <4>5. CASE j \in 1 .. m
          BY <2>2, <3>2, <4>2, <4>3, <4>5 DEF Ascending
        <4>6. QED
          BY <3>1, <4>4, <4>5
      <3>4. {q[i] : i \in 1 .. m + 1} = Upto(k) \cup {k + 1}
        BY <2>2, <3>1, <3>2
      <3>5. Upto(k + 1) = Upto(k) \cup {k + 1}
        BY <2>4
      <3>6. QED
        BY <3>1, <3>2, <3>3, <3>4, <3>5
    <2>5. QED
      BY <2>3, <2>4
  <1> HIDE DEF Listed
  <1>3. T = {}
    <2> SUFFICES ASSUME T # {} PROVE FALSE
      OBVIOUS
    <2>1. T \in SUBSET Nat
      OBVIOUS
    <2>2. PICK x \in T : \A y \in T : x <= y
      BY <2>1, LeastElement
    <2>3. x # 0
      BY <1>1
    <2>4. x - 1 \in 0 .. n /\ x - 1 \notin T /\ (x - 1) + 1 = x
      BY <2>2, <2>3
    <2>5. Listed(x)
      BY <1>2, <2>4
    <2>6. QED
      BY <2>5
  <1>4. Listed(n)
    BY <1>3
  <1>5. QED
    BY <1>4 DEF Listed

(* A list without repetitions is as long as what it lists.                   *)
LEMMA ListCount ==
    ASSUME NEW S, NEW m \in Nat, NEW p \in [1 .. m -> S],
           {p[i] : i \in 1 .. m} = S,
           \A i, j \in 1 .. m : p[i] = p[j] => i = j
    PROVE  Cardinality(S) = m
  <1>1. p \in Bijection(1 .. m, S)
    BY DEF Bijection, Injection, Surjection, IsInjective
  <1>2. ExistsBijection(1 .. m, S)
    BY <1>1 DEF ExistsBijection
  <1>3. IsFiniteSet(1 .. m) /\ Cardinality(1 .. m) = m
    BY FS_Interval
  <1>4. QED
    BY <1>2, <1>3, FS_Bijection

(* For any number of worker threads and whatever they overtake: what a       *)
(* parallel import appends is an acceptance of the file.  No row is lost, no *)
(* row is appended twice, and a row is left out only when it is not valid or *)
(* clashes with one that is in the book (import_data_parallel).  This is     *)
(* what ContactRepo takes the parallel import to do.                         *)
THEOREM ImportAcceptable == Spec => []ResultAcceptable
  <1>1. AInv => ResultAcceptable
    <2> SUFFICES ASSUME AInv, main = "joined"
                 PROVE  \E p \in Acceptances(before, input) :
                           /\ Len(p) = Len(outv)
                           /\ {p[i] : i \in DOMAIN p} = Accepted
      BY DEF ResultAcceptable
    <2> DEFINE n == Len(input)
    <2>1. /\ Typed /\ NoClashInside /\ OnceEach /\ Judged /\ Ending
          /\ n \in Nat /\ Lines = 1 .. n /\ DOMAIN input = 1 .. n
          /\ Accepted \in SUBSET (1 .. n)
          /\ outv \in Seq(Lines) /\ Len(outv) \in Nat /\ DOMAIN outv = 1 .. Len(outv)
      BY Numbers DEF AInv, IInv, Lots, Typed, Lines
    <2>2. Busy = {} /\ Inside = Accepted
      BY <2>1 DEF Ending, Busy, Inside
    <2>3. Popped = n
      <3>1. PICK w \in Workers : worker[w] = "ended"
        BY <2>1, WorkersAssumption DEF Ending
      <3>2. queue = << >> /\ read = n
        BY <2>1, <3>1 DEF Ending
      <3>3. QED
        BY <2>1, <3>2 DEF Popped
    <2>4. PICK m \in 0 .. n : \E p \in [1 .. m -> Accepted] :
                 Ascending(p, m) /\ {p[i] : i \in 1 .. m} = Accepted
      BY <2>1, Enumeration
    <2>5. PICK p \in [1 .. m -> Accepted] :
                 Ascending(p, m) /\ {p[i] : i \in 1 .. m} = Accepted
      BY <2>4
    <2>6. m \in Nat /\ DOMAIN p = 1 .. m /\ Len(p) = m
      <3>1. p \in Seq(Accepted)
        BY <2>1, <2>4, <2>5, SeqDef
      <3>2. QED
        BY <2>1, <2>4, <2>5, <3>1, LenProperties
    <2>7. \A i, j \in 1 .. m : p[i] = p[j] => i = j
      <3> SUFFICES ASSUME NEW i \in 1 .. m, NEW j \in 1 .. m, p[i] = p[j] PROVE i = j
        OBVIOUS
      <3>1. p[i] \in Nat /\ p[j] \in Nat
        <4>1. p[i] \in Accepted /\ p[j] \in Accepted
          BY <2>5
        <4>2. \A k \in Accepted : k \in Nat
          <5>1. \A k \in 1 .. n : k \in Nat
            OBVIOUS
          <5>2. Accepted \subseteq 1 .. n
            BY <2>1
          <5>3. QED
            BY <5>1, <5>2
        <4>3. QED
          BY <4>1, <4>2
      <3>2. ~(i < j) /\ ~(j < i)
        BY <2>5, <3>1 DEF Ascending
      <3>3. QED
        BY <2>6, <3>2
    <2>8. Len(p) = Len(outv)
      <3>1. Cardinality(Accepted) = m
        BY <2>5, <2>6, <2>7, ListCount
      <3>2. /\ outv \in [1 .. Len(outv) -> Accepted]
            /\ {outv[i] : i \in 1 .. Len(outv)} = Accepted
        BY <2>1, LenProperties DEF Accepted
      <3>3. \A i, j \in 1 .. Len(outv) : outv[i] = outv[j] => i = j
        BY <2>1 DEF OnceEach
      <3>4. Cardinality(Accepted) = Len(outv)
        BY <2>1, <3>2, <3>3, ListCount
      <3>5. QED
        BY <2>6, <3>1, <3>4
    <2>9. Accepted \subseteq Acceptable(before, input)
      BY <2>1, <2>2 DEF Acceptable, Judged, NoClashInside, IsValid
    <2>10. p \in Ascents(Acceptable(before, input), n)
      <3>1. p \in [1 .. m -> Acceptable(before, input)]
        BY <2>5, <2>9
      <3>2. QED
        BY <2>4, <2>5, <3>1 DEF Ascents, Ascending
    <2>11. \A i, j \in DOMAIN p : i < j => ~Clash(input[p[i]], input[p[j]])
      BY <2>1, <2>2, <2>5, <2>6, <2>7 DEF NoClashInside
    <2>12. ASSUME NEW k \in Acceptable(before, input)
           PROVE  \E i \in DOMAIN p : p[i] = k \/ Clash(input[p[i]], input[k])
      <3>1. /\ k \in 1 .. n /\ IsValid(input[k])
            /\ \A i \in DOMAIN before : ~Clash(before[i], input[k])
        BY <2>1 DEF Acceptable, IsValid
      <3>2. k \in Accepted \/ \E l \in Accepted : Clash(input[l], input[k])
        BY <2>1, <2>2, <2>3, <3>1 DEF Judged, Refused
      <3>3. QED
        BY <2>5, <2>6, <3>2
    <2>13. p \in Acceptances(before, input)
      BY <2>10, <2>11, <2>12 DEF Acceptances
    <2>14. QED
      BY <2>5, <2>6, <2>8, <2>13
  <1>2. QED
    BY AcceptanceInvariant, <1>1, PTL

=============================================================================
