--------------------------- MODULE ParallelImport ---------------------------
(***************************************************************************)
(* import_data_parallel of storage.cpp: the main thread reads lines into a *)
(* queue, worker threads take them out, drop what is malformed, invalid or *)
(* a duplicate, and collect the rest; when all have ended, the main thread *)
(* sorts what was collected by line number and appends it to the book.     *)
(*                                                                         *)
(* Each block under a mutex is one step.  The main thread notifies the     *)
(* condition variable after it has released the mutex, and a waiting       *)
(* worker may wake up without having been notified.                        *)
(***************************************************************************)
EXTENDS ContactBook, FiniteSets

CONSTANTS
    Workers,   \* ACX_IMPORT_WORKERS threads, at least one
    Inputs,    \* what the input file may hold: sequences of contacts
    Books      \* the contacts the book may hold before

ASSUME WorkersAssumption == Workers # {} /\ IsFiniteSet(Workers)
ASSUME InputsAssumption == Inputs \subseteq Seq(Contact)
ASSUME BooksAssumption == Books \subseteq Seq(Contact)

VARIABLES
    input, before,      \* the rows of the file and the contacts of the book
    main,               \* what the main thread is about to do
    read,               \* the lines it has read
    queue, done,        \* guarded by q_mu
    worker, task,       \* what each worker is about to do, and with which line
    emails, phones,     \* seen_email and seen_phone, guarded by dedup_mu
    outv                \* line numbers in order of arrival, guarded by out_mu

vars == << input, before, main, read, queue, done, worker, task, emails, phones, outv >>

Lines == DOMAIN input

\* Threads, queue and results have the shape the code gives them.
TypeOK ==
    /\ input \in Inputs /\ before \in Books
    /\ main \in {"read", "notify", "close", "notify_all", "join", "joined"}
    /\ read \in 0 .. Len(input) /\ done \in BOOLEAN
    /\ queue \in Seq(Lines) /\ outv \in Seq(Lines)
    /\ worker \in [Workers -> {"pop", "waiting", "dedup", "emit", "ended"}]
    /\ task \in [Workers -> Lines \cup {0}]
    /\ emails \subseteq Emails /\ phones \subseteq Phones

Init ==
    /\ input \in Inputs /\ before \in Books
    /\ main = "read" /\ read = 0
    /\ queue = << >> /\ done = FALSE
    /\ worker = [w \in Workers |-> "pop"] /\ task = [w \in Workers |-> 0]
    /\ emails = {before[i].email : i \in DOMAIN before}
    /\ phones = {before[i].phone : i \in DOMAIN before}
    /\ outv = << >>

-----------------------------------------------------------------------------
(* The main thread                                                           *)

\* Mutant of Push: one line is read after the last.
PushPast ==
    /\ main = "read" /\ read <= Len(input)
    /\ read' = read + 1 /\ queue' = Append(queue, read + 1)
    /\ main' = "notify"
    /\ UNCHANGED << input, before, done, worker, task, emails, phones, outv >>

Push ==
    /\ main = "read" /\ read < Len(input)
    /\ read' = read + 1 /\ queue' = Append(queue, read + 1)
    /\ main' = "notify"
    /\ UNCHANGED << input, before, done, worker, task, emails, phones, outv >>

\* q_cv.notify_one, after the mutex was released: some waiting worker, if any.
NotifyOne ==
    /\ main = "notify"
    /\ LET waiting == {w \in Workers : worker[w] = "waiting"}
       IN  IF waiting = {} THEN UNCHANGED worker
           ELSE \E w \in waiting : worker' = [worker EXCEPT ![w] = "pop"]
    /\ main' = "read"
    /\ UNCHANGED << input, before, read, queue, done, task, emails, phones, outv >>

Close ==
    /\ main = "read" /\ read = Len(input)
    /\ done' = TRUE /\ main' = "notify_all"
    /\ UNCHANGED << input, before, read, queue, worker, task, emails, phones, outv >>

\* Mutant of NotifyAll: one worker is told.
NotifyOneAtEnd ==
    /\ main = "notify_all"
    /\ LET waiting == {w \in Workers : worker[w] = "waiting"}
       IN  IF waiting = {} THEN UNCHANGED worker
           ELSE \E w \in waiting : worker' = [worker EXCEPT ![w] = "pop"]
    /\ main' = "join"
    /\ UNCHANGED << input, before, read, queue, done, task, emails, phones, outv >>

NotifyAll ==
    /\ main = "notify_all"
    /\ worker' = [w \in Workers |-> IF worker[w] = "waiting" THEN "pop" ELSE worker[w]]
    /\ main' = "join"
    /\ UNCHANGED << input, before, read, queue, done, task, emails, phones, outv >>

\* Mutant of Join: the first worker to end is enough.
JoinFirst ==
    /\ main = "join" /\ \E w \in Workers : worker[w] = "ended"
    /\ main' = "joined"
    /\ UNCHANGED << input, before, read, queue, done, worker, task, emails, phones, outv >>

Join ==
    /\ main = "join" /\ \A w \in Workers : worker[w] = "ended"
    /\ main' = "joined"
    /\ UNCHANGED << input, before, read, queue, done, worker, task, emails, phones, outv >>

-----------------------------------------------------------------------------
(* A worker                                                                  *)

\* With q_mu held: the predicate of the wait, then the queue.
Pop(w) ==
    /\ worker[w] = "pop"
    /\ \/ /\ queue # << >>
          /\ queue' = Tail(queue) /\ task' = [task EXCEPT ![w] = Head(queue)]
          /\ worker' = [worker EXCEPT ![w] = "dedup"]
       \/ /\ queue = << >>
          /\ worker' = [worker EXCEPT ![w] = IF done THEN "ended" ELSE "waiting"]
          /\ UNCHANGED << queue, task >>
    /\ UNCHANGED << input, before, main, read, done, emails, phones, outv >>

\* A wait that ends by itself.
WakeUp(w) ==
    /\ worker[w] = "waiting"
    /\ worker' = [worker EXCEPT ![w] = "pop"]
    /\ UNCHANGED << input, before, main, read, queue, done, task, emails, phones, outv >>

\* A line that is too long, malformed or not valid.
Reject(w) ==
    /\ worker[w] = "dedup"
    /\ LET c == input[task[w]]
       IN  ~({c.name, c.email, c.phone} \subseteq Valid)
    /\ worker' = [worker EXCEPT ![w] = "pop"]
    /\ UNCHANGED << input, before, main, read, queue, done, task, emails, phones, outv >>

\* Mutant of Dedup: only the e-mail is looked up.
DedupByEmail(w) ==
    /\ worker[w] = "dedup"
    /\ LET c == input[task[w]]
       IN  /\ {c.name, c.email, c.phone} \subseteq Valid
           /\ IF c.email \in emails
                THEN /\ worker' = [worker EXCEPT ![w] = "pop"]
                     /\ UNCHANGED << emails, phones >>
                ELSE /\ worker' = [worker EXCEPT ![w] = "emit"]
                     /\ emails' = emails \cup {c.email}
                     /\ phones' = phones \cup {c.phone}
    /\ UNCHANGED << input, before, main, read, queue, done, task, outv >>

\* With dedup_mu held: the line is a duplicate, or its keys are taken for it.
Dedup(w) ==
    /\ worker[w] = "dedup"
    /\ LET c == input[task[w]]
       IN  /\ {c.name, c.email, c.phone} \subseteq Valid
           /\ IF c.email \in emails \/ c.phone \in phones
                THEN /\ worker' = [worker EXCEPT ![w] = "pop"]
                     /\ UNCHANGED << emails, phones >>
                ELSE /\ worker' = [worker EXCEPT ![w] = "emit"]
                     /\ emails' = emails \cup {c.email}
                     /\ phones' = phones \cup {c.phone}
    /\ UNCHANGED << input, before, main, read, queue, done, task, outv >>

\* With out_mu held.
Emit(w) ==
    /\ worker[w] = "emit"
    /\ outv' = Append(outv, task[w])
    /\ worker' = [worker EXCEPT ![w] = "pop"]
    /\ UNCHANGED << input, before, main, read, queue, done, task, emails, phones >>

Main == Push \/ NotifyOne \/ Close \/ NotifyAll \/ Join

Work(w) == Pop(w) \/ Reject(w) \/ Dedup(w) \/ Emit(w)

Next == Main \/ \E w \in Workers : Work(w) \/ WakeUp(w)

\* Every thread that can go on does; no mutex is held for longer than a step.
Spec == Init /\ [][Next]_vars /\ WF_vars(Main) /\ \A w \in Workers : WF_vars(Work(w))

-----------------------------------------------------------------------------
(* Properties                                                                *)

Accepted == {outv[i] : i \in DOMAIN outv}

\* Whoever interleaves how, the rows collected are an acceptance of the input: valid
\* rows that clash neither with the book nor with each other, no row twice, and no
\* row left out that clashes with none of them.  ContactRepo takes this for what
\* import --parallel does.
ResultAcceptable ==
    main = "joined" => \E p \in Acceptances(before, input) :
                          /\ Len(p) = Len(outv)
                          /\ {p[i] : i \in DOMAIN p} = Accepted

\* No two rows on their way into the book clash, at any moment, even while one of
\* them has been let through and not yet been collected.
Inside == Accepted \cup {task[w] : w \in {v \in Workers : worker[v] = "emit"}}

NoClashInside ==
    /\ \A k, l \in Inside : k # l => ~Clash(input[k], input[l])
    /\ \A k \in Inside, i \in DOMAIN before : ~Clash(before[i], input[k])

\* The import ends: no worker sleeps through the last notification, whatever the
\* order in which lines, notifications and waits fall.
Terminates == <>(main = "joined")
=============================================================================
