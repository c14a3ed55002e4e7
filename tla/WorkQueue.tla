----------------------------- MODULE WorkQueue ------------------------------
(***************************************************************************)
(* workqueue.h: client threads queue tasks, worker threads take and        *)
(* execute them.  One mutex; m_ccond, on which clients wait for room, for  *)
(* idleness or for the end of the workers; m_wcond, on which workers wait  *)
(* for tasks.                                                              *)
(*                                                                         *)
(* A step is what a thread does between taking the mutex and releasing it, *)
(* by returning or by waiting on a condition variable.  A thread which has *)
(* been notified is no longer in the wait set and competes for the mutex.  *)
(***************************************************************************)
EXTENDS Naturals, FiniteSets, Sequences

CONSTANTS
    Client, Worker, Task,
    None,       \* no task
    High,       \* m_high: how many tasks make clients wait, 0 for no limit
    Low,        \* m_low: how many tasks make workers start
    Modulus,    \* of the unsigned counters, 2^32 in the code
    Flush,      \* the values of flushprevious which the clients use
    Ops,        \* the operations which the clients call
    WorkerFails,  \* BOOLEAN: workers may meet unrecoverable errors
    MaxCalls    \* bound: calls of each client

ASSUME LimitsAssumption == High \in Nat /\ Low \in Nat \ {0} /\ MaxCalls \in Nat
ASSUME ModulusAssumption == Modulus \in Nat /\ Modulus > 1
ASSUME ThreadsAssumption == IsFiniteSet(Worker) /\ Cardinality(Worker) \in 1..(Modulus - 1)
ASSUME TaskAssumption == None \notin Task
ASSUME FlagsAssumption == Flush \subseteq BOOLEAN /\ WorkerFails \in BOOLEAN

VARIABLES
    queue,      \* m_queue
    ok,         \* m_ok
    open,       \* m_openforbusiness
    started,    \* m_worker_threads is not empty
    exited,     \* m_workers_exited
    cwaiting,   \* m_clients_waiting
    wwaiting,   \* m_workers_waiting
    cset,       \* the clients which wait on m_ccond
    wset,       \* the workers which wait on m_wcond
    cpc,        \* where each client is: "out", or in "put", "idle", "term"
    arg,        \* what it puts: [task, flush]
    wpc,        \* where each worker is: "none", "free", "take", "work", "quit", "gone"
    task,       \* the task it executes
    idle,       \* ghost: the clients whose last waitIdle() returned true
    calls       \* how many calls each client has made

flags == <<ok, open, started, exited>>
counters == <<cwaiting, wwaiting>>
sets == <<cset, wset>>
client == <<cpc, arg, idle, calls>>
worker == <<wpc, task>>
vars == <<queue, flags, counters, sets, client, worker>>

NThreads == IF started THEN Cardinality(Worker) ELSE 0
Ok == ok /\ exited = 0 /\ started
Inc(n) == IF n = Modulus - 1 THEN 0 ELSE n + 1
Dec(n) == IF n = 0 THEN Modulus - 1 ELSE n - 1

\* start(), which is called before the first task.
Init ==
    /\ queue = <<>> /\ ok = TRUE /\ open = TRUE /\ started = TRUE
    /\ exited = 0 /\ cwaiting = 0 /\ wwaiting = 0 /\ cset = {} /\ wset = {}
    /\ cpc = [c \in Client |-> "out"]
    /\ arg = [c \in Client |-> [task |-> None, flush |-> FALSE]]
    /\ wpc = [w \in Worker |-> "free"] /\ task = [w \in Worker |-> None]
    /\ idle = {} /\ calls = [c \in Client |-> 0]

-----------------------------------------------------------------------------
(* Clients *)

Goto(c, l) == cpc' = [cpc EXCEPT ![c] = l]
\* A call begins; the answer to the previous one is history.
Call(c, op) ==
    /\ cpc[c] = "out" /\ op \in Ops /\ calls[c] < MaxCalls
    /\ calls' = [calls EXCEPT ![c] = @ + 1]
    /\ idle' = idle \ {c}
\* m_clients_waiting++ and wait(), by a client which counted n waiting ones.
Sleep(c, n) == cset' = cset \cup {c} /\ cwaiting' = Inc(n)
\* notify_one(): any of the waiting threads, if there is one.
NotifyOne(s, t) == IF s = {} THEN t = {} ELSE \E x \in s : t = s \ {x}

\* Mutant: waits only when the queue is above the limit.
FullLate == High > 0 /\ Len(queue) > High
Full == High > 0 /\ Len(queue) >= High

\* Mutant: put() wakes a worker only if the queue was empty.
PutOrSleepIfEmpty(c, a, n) ==
    IF Full
    THEN Goto(c, "put") /\ Sleep(c, n) /\ UNCHANGED <<queue, wset>>
    ELSE /\ queue' = IF a.flush THEN <<a.task>> ELSE Append(queue, a.task)
         /\ IF wwaiting > 0 /\ queue = <<>> THEN NotifyOne(wset, wset') ELSE UNCHANGED wset
         /\ Goto(c, "out") /\ cwaiting' = n /\ UNCHANGED cset

\* put(), from the test of its loop on, with n counted clients.
PutOrSleep(c, a, n) ==
    IF Full
    THEN Goto(c, "put") /\ Sleep(c, n) /\ UNCHANGED <<queue, wset>>
    ELSE /\ queue' = IF a.flush THEN <<a.task>> ELSE Append(queue, a.task)
         /\ IF wwaiting > 0 THEN NotifyOne(wset, wset') ELSE UNCHANGED wset
         /\ Goto(c, "out") /\ cwaiting' = n /\ UNCHANGED cset

Put(c) ==
    /\ Call(c, "put")
    /\ \E t \in Task, f \in Flush :
          LET a == [task |-> t, flush |-> f]
          IN  /\ arg' = [arg EXCEPT ![c] = a]
              /\ IF Ok /\ open
                 THEN PutOrSleep(c, a, cwaiting)
                 ELSE UNCHANGED <<queue, cwaiting, sets, cpc>>
    /\ UNCHANGED <<flags, wwaiting, worker>>

PutWoken(c) ==
    /\ cpc[c] = "put" /\ c \notin cset
    /\ IF Ok
       THEN PutOrSleep(c, arg[c], Dec(cwaiting))
       ELSE Goto(c, "out") /\ cwaiting' = Dec(cwaiting) /\ UNCHANGED <<queue, sets>>
    /\ UNCHANGED <<flags, wwaiting, worker, arg, idle, calls>>

\* Mutant: the workers which execute a task are not waited for.
BusyWhileQueued == Len(queue) > 0 /\ exited < NThreads
\* The condition of waitIdle(): the sum is that of unsigned numbers.
Busy ==
    \/ Len(queue) > 0 /\ exited < NThreads
    \/ (wwaiting + exited) % Modulus < NThreads

WaitOrAnswer(c, n) ==
    IF Busy
    THEN Goto(c, "idle") /\ Sleep(c, n) /\ idle' = idle \ {c}
    ELSE /\ Goto(c, "out") /\ cwaiting' = n
         /\ idle' = IF Ok THEN idle \cup {c} ELSE idle \ {c}
         /\ UNCHANGED cset

WaitIdle(c) ==
    /\ cpc[c] = "out" /\ "idle" \in Ops /\ calls[c] < MaxCalls
    /\ calls' = [calls EXCEPT ![c] = @ + 1]
    /\ WaitOrAnswer(c, cwaiting)
    /\ UNCHANGED <<queue, flags, wwaiting, wset, worker, arg>>

WaitWoken(c) ==
    /\ cpc[c] = "idle" /\ c \notin cset
    /\ WaitOrAnswer(c, Dec(cwaiting))
    /\ UNCHANGED <<queue, flags, wwaiting, wset, worker, arg, calls>>

\* setTerminateAndWait(), from the test of its loop on.  The joins do not wait:
\* a worker returns after workerExit().
TermOrSleep(c, n) ==
    IF exited < NThreads
    THEN /\ wset' = {} /\ Goto(c, "term") /\ Sleep(c, n)
         /\ ok' = (ok /\ cpc[c] = "term")           \* set before the loop only
         /\ UNCHANGED <<started, exited, wwaiting, wpc>>
    ELSE /\ started' = FALSE /\ wpc' = [w \in Worker |-> "none"]
         /\ exited' = 0 /\ cwaiting' = 0 /\ wwaiting' = 0 /\ ok' = TRUE
         /\ Goto(c, "out")
         /\ UNCHANGED sets

Terminate(c) ==
    /\ Call(c, "term")
    /\ IF started
       THEN TermOrSleep(c, cwaiting)
       ELSE UNCHANGED <<ok, started, exited, counters, sets, wpc, cpc>>
    /\ UNCHANGED <<queue, open, task, arg>>

TermWoken(c) ==
    /\ cpc[c] = "term" /\ c \notin cset
    /\ TermOrSleep(c, Dec(cwaiting))
    /\ UNCHANGED <<queue, open, task, arg, idle, calls>>

\* start(), again.  Another client which is still in setTerminateAndWait() would wait
\* for the new workers: callers do not do that, and it is left out.
Start(c) ==
    /\ Call(c, "start") /\ ~started /\ \A d \in Client : cpc[d] # "term"
    /\ started' = TRUE /\ wpc' = [w \in Worker |-> "free"]
    /\ UNCHANGED <<queue, ok, open, exited, counters, sets, cpc, arg, task>>

CloseShop(c) ==
    /\ Call(c, "close")
    /\ open' = FALSE
    /\ UNCHANGED <<queue, ok, started, exited, counters, sets, cpc, arg, worker>>

-----------------------------------------------------------------------------
(* Workers *)

WGoto(w, l) == wpc' = [wpc EXCEPT ![w] = l]

\* Mutant: take() tells nobody that it found the queue empty.
TakeOrSleepQuietly(w, n) ==
    IF Len(queue) < Low
    THEN /\ WGoto(w, "take") /\ wset' = wset \cup {w} /\ wwaiting' = Inc(n)
         /\ UNCHANGED <<queue, task, cset>>
    ELSE /\ task' = [task EXCEPT ![w] = Head(queue)]
         /\ queue' = Tail(queue) /\ WGoto(w, "work")
         /\ IF cwaiting > 0 THEN NotifyOne(cset, cset') ELSE UNCHANGED cset
         /\ wwaiting' = n /\ UNCHANGED wset

\* take(), from the test of its loop on, with n counted workers.
TakeOrSleep(w, n) ==
    IF Len(queue) < Low
    THEN /\ WGoto(w, "take") /\ wset' = wset \cup {w} /\ wwaiting' = Inc(n)
         /\ cset' = IF queue = <<>> THEN {} ELSE cset
         /\ UNCHANGED <<queue, task>>
    ELSE /\ task' = [task EXCEPT ![w] = Head(queue)]
         /\ queue' = Tail(queue) /\ WGoto(w, "work")
         /\ IF cwaiting > 0 THEN NotifyOne(cset, cset') ELSE UNCHANGED cset
         /\ wwaiting' = n /\ UNCHANGED wset

Take(w) ==
    /\ wpc[w] = "free"
    /\ IF Ok
       THEN TakeOrSleep(w, wwaiting)
       ELSE WGoto(w, "quit") /\ UNCHANGED <<queue, counters, sets, task>>
    /\ UNCHANGED <<flags, cwaiting, client>>

\* Mutant: a worker which leaves at the end of the queue stays counted.
TakeWokenCounted(w) ==
    /\ wpc[w] = "take" /\ w \notin wset
    /\ IF Ok
       THEN TakeOrSleep(w, Dec(wwaiting))
       ELSE WGoto(w, "quit") /\ UNCHANGED <<queue, wwaiting, sets, task>>
    /\ UNCHANGED <<flags, cwaiting, client>>

TakeWoken(w) ==
    /\ wpc[w] = "take" /\ w \notin wset
    /\ IF Ok
       THEN TakeOrSleep(w, Dec(wwaiting))
       ELSE WGoto(w, "quit") /\ wwaiting' = Dec(wwaiting) /\ UNCHANGED <<queue, sets, task>>
    /\ UNCHANGED <<flags, cwaiting, client>>

\* The worker function has executed its task, or has met an error.
Finish(w) ==
    /\ wpc[w] = "work"
    /\ task' = [task EXCEPT ![w] = None]
    /\ WGoto(w, "free") \/ (WorkerFails /\ WGoto(w, "quit"))
    /\ UNCHANGED <<queue, flags, counters, sets, client>>

WorkerExit(w) ==
    /\ wpc[w] = "quit"
    /\ exited' = exited + 1 /\ ok' = FALSE /\ cset' = {}
    /\ WGoto(w, "gone")
    /\ UNCHANGED <<queue, open, started, counters, wset, client, task>>

\* A thread may return from a wait without having been notified.
Spurious ==
    /\ \/ \E c \in cset : cset' = cset \ {c} /\ UNCHANGED wset
       \/ \E w \in wset : wset' = wset \ {w} /\ UNCHANGED cset
    /\ UNCHANGED <<queue, flags, counters, client, worker>>

CallAny(c) ==
    Put(c) \/ WaitIdle(c) \/ Terminate(c) \/ Start(c) \/ CloseShop(c)
ClientWoken(c) == PutWoken(c) \/ WaitWoken(c) \/ TermWoken(c)
WorkerStep(w) == Take(w) \/ TakeWoken(w) \/ Finish(w) \/ WorkerExit(w)

Next ==
    \/ \E c \in Client : CallAny(c) \/ ClientWoken(c)
    \/ \E w \in Worker : WorkerStep(w)
    \/ Spurious

\* Notified threads get the mutex and workers work.  Clients need not call.
Fairness ==
    /\ \A c \in Client : WF_vars(ClientWoken(c))
    /\ \A w \in Worker : WF_vars(WorkerStep(w))

Spec == Init /\ [][Next]_vars
FairSpec == Spec /\ Fairness

-----------------------------------------------------------------------------
(* Properties *)

TypeOK ==
    /\ queue \in Seq(Task) /\ ok \in BOOLEAN /\ open \in BOOLEAN /\ started \in BOOLEAN
    /\ exited \in 0..Cardinality(Worker)
    /\ cwaiting \in 0..(Modulus - 1) /\ wwaiting \in 0..(Modulus - 1)
    /\ cset \subseteq {c \in Client : cpc[c] # "out"}
    /\ wset \subseteq {w \in Worker : wpc[w] = "take"}
    /\ cpc \in [Client -> {"out", "put", "idle", "term"}]
    /\ arg \in [Client -> [task : Task \cup {None}, flush : BOOLEAN]]
    /\ wpc \in [Worker -> {"none", "free", "take", "work", "quit", "gone"}]
    /\ task \in [Worker -> Task \cup {None}]
    /\ idle \subseteq Client /\ calls \in [Client -> 0..MaxCalls]

\* "hi number of tasks on queue before clients blocks": however many clients are
\* woken for one free place, the queue does not grow above the limit.
QueueBound == High > 0 => Len(queue) <= High

\* waitIdle() decides from counters, not from what the threads do: m_workers_waiting
\* and m_workers_exited are the numbers of the threads which are there.
WorkersCounted ==
    /\ wwaiting = Cardinality({w \in Worker : wpc[w] = "take"})
    /\ exited = Cardinality({w \in Worker : wpc[w] = "gone"})

\* The queue does what TaskQueue promises: order, one worker per task, and no
\* "idle" while there is work.
TQ == INSTANCE TaskQueue WITH tasks <- queue, running <- task
Promise == TQ!Spec

\* "Just wake one worker, there is only one new task": no task waits for a busy worker
\* while another one sleeps, there is one for it which is awake (if one task is enough
\* to start).
TasksHaveWorkers ==
    Low = 1 /\ Ok /\ wset # {} =>
        Len(queue) <= Cardinality({w \in Worker : wpc[w] = "free" \/ (wpc[w] = "take" /\ w \notin wset)})

\* No wakeup is lost: when the clients make no more calls, every call returns.
EveryCallReturns == <>[](\A c \in Client : cpc[c] = "out")

\* setTerminateAndWait(): "Reset to start state".
StartState ==
    ~started /\ (\A c \in Client : cpc[c] = "out") => cwaiting = 0 /\ wwaiting = 0

\* waitIdle(): "Waits until the task queue is empty and the workers are all back
\* sleeping (or exited)".
WaitIdleReturns == \A c \in Client : cpc[c] = "idle" ~> cpc[c] # "idle"
=============================================================================
