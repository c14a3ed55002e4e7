----------------------------- MODULE TaskQueue ------------------------------
(***************************************************************************)
(* What WorkQueue promises to its users, without threads, locks or         *)
(* condition variables: tasks are taken in the order in which they were    *)
(* put, each by one worker; put(t, true) replaces the tasks which nobody   *)
(* has taken; waitIdle() does not return true while there is a task or a   *)
(* worker which executes one.                                              *)
(***************************************************************************)
EXTENDS Sequences

CONSTANTS
    Task,      \* what is put on the queue
    Worker,    \* the threads which execute tasks
    Client,    \* the threads which put them
    None       \* no task

VARIABLES
    tasks,     \* the queue
    running,   \* the task of each worker
    idle       \* the clients whose last waitIdle() returned true

Init ==
    /\ tasks = <<>>
    /\ running = [w \in Worker |-> None]
    /\ idle = {}

\* put(t) and put(t, true), by a client whose answer to waitIdle() is history.
Put(t, c) ==
    /\ tasks' = Append(tasks, t)
    /\ idle' = idle \ {c}
    /\ UNCHANGED running

Replace(t, c) ==
    /\ tasks' = <<t>>
    /\ idle' = idle \ {c}
    /\ UNCHANGED running

\* A call which is refused, blocks, or returns false.
Forget(c) == idle' = idle \ {c} /\ UNCHANGED <<tasks, running>>

Take(w) ==
    /\ tasks # <<>> /\ running[w] = None
    /\ running' = [running EXCEPT ![w] = Head(tasks)]
    /\ tasks' = Tail(tasks)
    /\ UNCHANGED idle

Finish(w) ==
    /\ running[w] # None
    /\ running' = [running EXCEPT ![w] = None]
    /\ UNCHANGED <<tasks, idle>>

AnswerIdle(c) ==
    /\ tasks = <<>> /\ \A w \in Worker : running[w] = None
    /\ idle' = idle \cup {c}
    /\ UNCHANGED <<tasks, running>>

Next ==
    \/ \E c \in Client : Forget(c) \/ AnswerIdle(c) \/ \E t \in Task : Put(t, c) \/ Replace(t, c)
    \/ \E w \in Worker : Take(w) \/ Finish(w)

Spec == Init /\ [][Next]_<<tasks, running, idle>>
=============================================================================
