----------------------------- MODULE LineQueue ------------------------------
(***************************************************************************)
(* process_lines_parallel of cli.cpp with what the threaded validate and   *)
(* report do to each line: the main thread pushes the lines of a file into *)
(* a LineQueue, the workers pop them and count, and when the queue is      *)
(* marked done they end and the main thread joins them.                    *)
(*                                                                         *)
(* push, pop and the closing block hold the mutex and are one step each; a *)
(* worker asleep on the condition variable may also wake up unasked.       *)
(***************************************************************************)
EXTENDS JsonLines, FiniteSets

CONSTANTS
    Threads,   \* the workers there may be
    Teams      \* those that are started: {} when ACX_THREADS is 0

ASSUME TeamsAssumption == IsFiniteSet(Threads) /\ Teams \subseteq SUBSET Threads

VARIABLES
    text,          \* the lines of the file; none when it cannot be opened
    pushed,        \* how many of them the main thread has pushed
    queue, done,   \* the LineQueue
    team, worker,  \* the workers that run, and what each is about to do
    task,          \* the line that each has popped last
    count, ok, bad, emails   \* the atomic counters and the guarded set

queueVars == << text, pushed, queue, done, team, worker, task, count, ok, bad, emails >>

QueueTypeOK ==
    /\ text \in Seq(Line) /\ pushed \in 0 .. Len(text)
    /\ queue \in Seq(Line) /\ done \in BOOLEAN /\ team \subseteq Threads
    /\ worker \in [Threads -> {"pop", "asleep", "count", "judge", "ended"}]
    /\ task \in [Threads -> Line]
    /\ count \in Nat /\ ok \in Nat /\ bad \in Nat /\ emails \subseteq Texts

QueueInit ==
    /\ text = << >> /\ pushed = 0 /\ queue = << >> /\ done = FALSE
    /\ team = {} /\ worker = [w \in Threads |-> "ended"]
    /\ task = [w \in Threads |-> Bare("empty")]
    /\ count = 0 /\ ok = 0 /\ bad = 0 /\ emails = {}

StartWorkers(lines, ws) ==
    /\ text' = lines /\ team' = ws
    /\ worker' = [w \in Threads |-> IF w \in ws THEN "pop" ELSE "ended"]
    /\ UNCHANGED << pushed, queue, done, task, count, ok, bad, emails >>

Asleep == {w \in Threads : worker[w] = "asleep"}
Wake(ws) == worker' = [w \in Threads |-> IF w \in ws THEN "pop" ELSE worker[w]]

\* notify_one wakes one sleeper, if there is one.
NotifyOne == \/ Asleep = {} /\ UNCHANGED worker
             \/ \E w \in Asleep : Wake({w})

NotifyAll == Wake(Asleep)

Push ==
    /\ ~done /\ pushed < Len(text)
    /\ queue' = Append(queue, text[pushed + 1]) /\ pushed' = pushed + 1
    /\ NotifyOne
    /\ UNCHANGED << text, done, team, task, count, ok, bad, emails >>

\* Mutant of Close: one worker is told that the queue is done.
CloseToldOne ==
    /\ ~done /\ pushed = Len(text)
    /\ done' = TRUE
    /\ NotifyOne
    /\ UNCHANGED << text, pushed, queue, team, task, count, ok, bad, emails >>

Close ==
    /\ ~done /\ pushed = Len(text)
    /\ done' = TRUE
    /\ NotifyAll
    /\ UNCHANGED << text, pushed, queue, team, task, count, ok, bad, emails >>

\* What a worker finds in pop: a line, the end, or nothing yet.
Take(w) ==
    /\ queue # << >>
    /\ task' = [task EXCEPT ![w] = Head(queue)] /\ queue' = Tail(queue)
    /\ worker' = [worker EXCEPT ![w] = IF IsEmpty(Head(queue)) THEN "pop" ELSE "count"]

\* Mutant of LeaveQueue: a worker ends as soon as the queue is done.
LeaveAtOnce(w) ==
    /\ done
    /\ worker' = [worker EXCEPT ![w] = "ended"] /\ UNCHANGED << queue, task >>

LeaveQueue(w) ==
    /\ queue = << >> /\ done
    /\ worker' = [worker EXCEPT ![w] = "ended"] /\ UNCHANGED << queue, task >>

Sleep(w) ==
    /\ queue = << >> /\ ~done
    /\ worker' = [worker EXCEPT ![w] = "asleep"] /\ UNCHANGED << queue, task >>

Pop(w) ==
    /\ worker[w] = "pop"
    /\ Take(w) \/ LeaveQueue(w) \/ Sleep(w)
    /\ UNCHANGED << text, pushed, done, team, count, ok, bad, emails >>

SpuriousWake(w) ==
    /\ w \in Asleep /\ Wake({w})
    /\ UNCHANGED << text, pushed, queue, done, team, task, count, ok, bad, emails >>

\* count is raised before the line is parsed.
Count(w) ==
    /\ worker[w] = "count"
    /\ count' = count + 1
    /\ worker' = [worker EXCEPT ![w] = "judge"]
    /\ UNCHANGED << text, pushed, queue, done, team, task, ok, bad, emails >>

\* The rest of what validate does to a line, and of what report does.
Judge(w) ==
    /\ worker[w] = "judge"
    /\ IF ValidThreaded(task[w]) THEN ok' = ok + 1 /\ UNCHANGED bad
                                 ELSE bad' = bad + 1 /\ UNCHANGED ok
    /\ worker' = [worker EXCEPT ![w] = "pop"]
    /\ UNCHANGED << text, pushed, queue, done, team, task, count, emails >>

NoteEmail(w) ==
    /\ worker[w] = "judge"
    /\ emails' = emails \cup ({task[w].email} \ {Absent})
    /\ worker' = [worker EXCEPT ![w] = "pop"]
    /\ UNCHANGED << text, pushed, queue, done, team, task, count, ok, bad >>

\* The main thread has joined every worker and may print the counters.
Joined == done /\ \A w \in team : worker[w] = "ended"
=============================================================================
