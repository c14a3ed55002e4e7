-------------------------- MODULE WorkQueueProofs ---------------------------
(***************************************************************************)
(* For any number of clients and workers, any limits and any tasks: the    *)
(* counters of WorkQueue are the numbers of the threads, the queue stays   *)
(* below its limit, every task in it has a worker awake, and WorkQueue     *)
(* implements TaskQueue.                                                   *)
(***************************************************************************)
EXTENDS WorkQueue, FiniteSetTheorems, TLAPS

-----------------------------------------------------------------------------
(* Counting threads *)

Count(f, l) == Cardinality({w \in Worker : f[w] = l})
\* Without the thread v.
CountBut(f, l, v) == Cardinality({w \in Worker \ {v} : f[w] = l})

\* What a thread adds to a count.
LEMMA CountSplit ==
    ASSUME NEW f, NEW l, NEW v \in Worker
    PROVE  /\ CountBut(f, l, v) \in Nat
           /\ CountBut(f, l, v) + 1 <= Cardinality(Worker)
           /\ f[v] = l => Count(f, l) = CountBut(f, l, v) + 1
           /\ f[v] # l => Count(f, l) = CountBut(f, l, v)
<1> DEFINE S == {w \in Worker \ {v} : f[w] = l}
           T == {w \in Worker : f[w] = l}
<1>1. IsFiniteSet(Worker) /\ IsFiniteSet(S)
  BY ThreadsAssumption, FS_Subset
<1>2. v \notin S /\ S \cup {v} \subseteq Worker
  OBVIOUS
<1>3. Cardinality(S \cup {v}) = Cardinality(S) + 1 /\ IsFiniteSet(S \cup {v})
  BY <1>1, <1>2, FS_AddElement
<1>4. Cardinality(S \cup {v}) <= Cardinality(Worker)
  BY <1>1, <1>2, FS_Subset
<1>5. Cardinality(S) \in Nat
  BY <1>1, FS_CardinalityType
<1>6. CASE f[v] = l
  <2>1. T = S \cup {v}
    BY <1>6
  <2> QED
    BY <1>3, <1>4, <1>5, <1>6, <2>1 DEF Count, CountBut
<1>7. CASE f[v] # l
  <2>1. T = S
    BY <1>7
  <2> QED
    BY <1>3, <1>4, <1>5, <1>7, <2>1 DEF Count, CountBut
<1> QED
  BY <1>6, <1>7

\* All the threads are at l if their number is.
LEMMA CountAll ==
    ASSUME NEW f, NEW l
    PROVE  /\ Count(f, l) \in Nat
           /\ Count(f, l) >= Cardinality(Worker) => \A w \in Worker : f[w] = l
<1> DEFINE T == {w \in Worker : f[w] = l}
<1>1. IsFiniteSet(Worker) /\ IsFiniteSet(T) /\ Cardinality(T) \in Nat
  BY ThreadsAssumption, FS_Subset, FS_CardinalityType
<1>2. ASSUME NEW v \in Worker, f[v] # l
      PROVE  Cardinality(T) < Cardinality(Worker)
  <2>1. Count(f, l) = CountBut(f, l, v) /\ CountBut(f, l, v) + 1 <= Cardinality(Worker)
        /\ CountBut(f, l, v) \in Nat
    BY <1>2, CountSplit
  <2> QED
    BY <2>1, ThreadsAssumption, ModulusAssumption DEF Count
<1> QED
  BY <1>1, <1>2, ThreadsAssumption, ModulusAssumption DEF Count

-----------------------------------------------------------------------------
(* The inductive invariant *)

ClientType ==
    /\ queue \in Seq(Task) /\ cwaiting \in 0..(Modulus - 1)
    /\ cset \subseteq {c \in Client : cpc[c] # "out"}
    /\ cpc \in [Client -> {"out", "put", "idle", "term"}]
    /\ arg \in [Client -> [task : Task \cup {None}, flush : BOOLEAN]]
    /\ idle \subseteq Client /\ calls \in [Client -> 0..MaxCalls]

FlagType == ok \in BOOLEAN /\ open \in BOOLEAN /\ started \in BOOLEAN

WorkerType ==
    /\ exited \in 0..Cardinality(Worker) /\ wwaiting \in 0..(Modulus - 1)
    /\ wset \subseteq {w \in Worker : wpc[w] = "take"}
    /\ wpc \in [Worker -> {"none", "free", "take", "work", "quit", "gone"}]
    /\ task \in [Worker -> Task \cup {None}]

\* A client which waits in put() has a task to put, and no answer of waitIdle().
HasTask == \A c \in Client : cpc[c] = "put" => arg[c].task \in Task /\ c \notin idle

\* The threads exist while the queue is started; a thread has a task while it
\* works.
Phases ==
    /\ \A w \in Worker : wpc[w] = "none" <=> ~started
    /\ ~started => exited = 0
    /\ \A w \in Worker : task[w] \in Task <=> wpc[w] = "work"

ClientInv == ClientType /\ HasTask /\ QueueBound
WorkerInv == WorkerType /\ WorkersCounted /\ Phases
Inv == ClientInv /\ FlagType /\ WorkerInv

LEMMA InvType == Inv => TypeOK
BY DEF Inv, ClientInv, WorkerInv, ClientType, FlagType, WorkerType, TypeOK

LEMMA CounterType ==
    ASSUME NEW n \in 0..(Modulus - 1)
    PROVE  /\ Inc(n) \in 0..(Modulus - 1) /\ Dec(n) \in 0..(Modulus - 1)
           /\ n < Modulus - 1 => Inc(n) = n + 1
           /\ n > 0 => Dec(n) = n - 1
BY ModulusAssumption DEF Inc, Dec

LEMMA InitInv == Init => Inv
<1> SUFFICES ASSUME Init PROVE Inv
  OBVIOUS
<1>1. \A w \in Worker : wpc[w] = "free"
  BY DEF Init
<1>2. {w \in Worker : wpc[w] = "take"} = {} /\ {w \in Worker : wpc[w] = "gone"} = {}
  BY <1>1
<1>3. WorkersCounted
  BY <1>2, FS_EmptySet DEF Init, WorkersCounted
<1>4. ClientType /\ FlagType /\ WorkerType
  BY ThreadsAssumption, ModulusAssumption, LimitsAssumption
  DEF Init, ClientType, FlagType, WorkerType
<1>5. Phases /\ HasTask
  BY TaskAssumption DEF Init, Phases, HasTask
<1>6. QueueBound
  BY LimitsAssumption DEF Init, QueueBound
<1> QED
  BY <1>3, <1>4, <1>5, <1>6 DEF Inv, ClientInv, WorkerInv

-----------------------------------------------------------------------------
(* Clients *)

\* Fewer workers sleep, and nothing else about them changes.
LEMMA WorkersSame ==
    ASSUME WorkerInv, UNCHANGED <<started, exited, wwaiting, wpc, task>>, wset' \subseteq wset
    PROVE  WorkerInv'
BY DEF WorkerInv, WorkerType, WorkersCounted, Phases

LEMMA Notified ==
    ASSUME NEW s, NEW t, NotifyOne(s, t)
    PROVE  t \subseteq s
BY DEF NotifyOne

\* A call of put() or waitIdle() changes the fields of one client.
LEMMA CallType ==
    ASSUME ClientInv, NEW c \in Client, NEW op, Call(c, op)
    PROVE  /\ cpc[c] = "out" /\ c \notin cset
           /\ calls' \in [Client -> 0..MaxCalls] /\ idle' = idle \ {c}
BY LimitsAssumption DEF ClientInv, ClientType, Call

LEMMA PutKeeps ==
    ASSUME ClientInv, NEW c \in Client, c \notin cset,
           NEW a \in [task : Task, flush : BOOLEAN], NEW n \in 0..(Modulus - 1),
           PutOrSleep(c, a, n),
           arg' = [arg EXCEPT ![c] = a],
           calls' \in [Client -> 0..MaxCalls], idle' = idle \ {c}
    PROVE  ClientInv' /\ wset' \subseteq wset
<1> USE DEF ClientInv
<1>0. arg' \in [Client -> [task : Task \cup {None}, flush : BOOLEAN]] /\ arg'[c].task \in Task
  BY DEF ClientType
<1>1. CASE Full
  <2>1. /\ cpc' = [cpc EXCEPT ![c] = "put"] /\ cset' = cset \cup {c} /\ cwaiting' = Inc(n)
        /\ queue' = queue /\ wset' = wset
    BY <1>1 DEF PutOrSleep, Goto, Sleep
  <2>2. cwaiting' \in 0..(Modulus - 1)
    BY <2>1, CounterType
  <2>3. ClientType'
    BY <1>0, <2>1, <2>2 DEF ClientType
  <2>4. HasTask' /\ QueueBound'
    BY <1>0, <2>1 DEF HasTask, QueueBound, ClientType
  <2> QED
    BY <2>1, <2>3, <2>4
<1>2. CASE ~Full
  <2>1. /\ cpc' = [cpc EXCEPT ![c] = "out"] /\ cset' = cset /\ cwaiting' = n
        /\ queue' = IF a.flush THEN <<a.task>> ELSE Append(queue, a.task)
        /\ wset' = wset \/ NotifyOne(wset, wset')
    BY <1>2 DEF PutOrSleep, Goto
  <2>2. queue' \in Seq(Task)
    BY <2>1 DEF ClientType
  <2>3. ClientType'
    BY <1>0, <2>1, <2>2 DEF ClientType
  <2>4. HasTask'
    BY <1>0, <2>1 DEF HasTask, ClientType
  <2>5. QueueBound'
    <3>1. Len(queue) \in Nat
      BY DEF ClientType
    <3>2. Len(queue') = 1 \/ Len(queue') = Len(queue) + 1
      BY <2>1 DEF ClientType
    <3>3. High \in Nat
      BY LimitsAssumption
    <3>4. High > 0 => Len(queue) < High
      BY <1>2, <3>1, <3>3 DEF Full
    <3>5. ASSUME NEW k \in Nat, k = 1 \/ k = Len(queue) + 1, High > 0
          PROVE  k <= High
      BY <3>1, <3>3, <3>4, <3>5
    <3>6. Len(queue') \in Nat
      BY <2>2
    <3>7. High > 0 => Len(queue') <= High
      BY <3>2, <3>5, <3>6
    <3> QED
      BY <3>7 DEF QueueBound
  <2> QED
    BY <2>1, <2>3, <2>4, <2>5, Notified
<1> QED
  BY <1>1, <1>2

LEMMA WaitKeeps ==
    ASSUME ClientInv, NEW c \in Client, c \notin cset, NEW n \in 0..(Modulus - 1),
           WaitOrAnswer(c, n), UNCHANGED <<queue, arg>>, calls' \in [Client -> 0..MaxCalls]
    PROVE  ClientInv'
<1> USE DEF ClientInv
<1>1. CASE Busy
  <2>1. /\ cpc' = [cpc EXCEPT ![c] = "idle"] /\ cset' = cset \cup {c} /\ cwaiting' = Inc(n)
        /\ idle' = idle \ {c}
    BY <1>1 DEF WaitOrAnswer, Goto, Sleep
  <2>2. ClientType'
    BY <2>1, CounterType DEF ClientType
  <2> QED
    BY <2>1, <2>2 DEF HasTask, QueueBound, ClientType
<1>2. CASE ~Busy
  <2>1. /\ cpc' = [cpc EXCEPT ![c] = "out"] /\ cset' = cset /\ cwaiting' = n
        /\ idle' \subseteq idle \cup {c}
    BY <1>2 DEF WaitOrAnswer, Goto
  <2>2. ClientType'
    BY <2>1 DEF ClientType
  <2> QED
    BY <2>1, <2>2 DEF HasTask, QueueBound, ClientType
<1> QED
  BY <1>1, <1>2

LEMMA TermKeeps ==
    ASSUME Inv, NEW c \in Client, c \notin cset, NEW n \in 0..(Modulus - 1),
           TermOrSleep(c, n), UNCHANGED <<queue, open, task, arg>>,
           calls' \in [Client -> 0..MaxCalls], idle' = idle \ {c} \/ idle' = idle
    PROVE  Inv'
<1> USE DEF Inv, ClientInv, WorkerInv
<1>1. CASE exited < NThreads
  <2>1. /\ wset' = {} /\ cpc' = [cpc EXCEPT ![c] = "term"]
        /\ cset' = cset \cup {c} /\ cwaiting' = Inc(n)
        /\ ok' = (ok /\ cpc[c] = "term")
        /\ UNCHANGED <<started, exited, wwaiting, wpc>>
    BY <1>1 DEF TermOrSleep, Goto, Sleep
  <2>2. ClientType'
    BY <2>1, CounterType DEF ClientType
  <2>3. ClientInv'
    BY <2>1, <2>2 DEF HasTask, QueueBound, ClientType
  <2>4. FlagType'
    BY <2>1 DEF FlagType
  <2>5. WorkerInv'
    BY <2>1, WorkersSame
  <2> QED
    BY <2>3, <2>4, <2>5
<1>2. CASE ~(exited < NThreads)
  <2>1. /\ started' = FALSE /\ wpc' = [w \in Worker |-> "none"]
        /\ exited' = 0 /\ cwaiting' = 0 /\ wwaiting' = 0 /\ ok' = TRUE
        /\ cpc' = [cpc EXCEPT ![c] = "out"] /\ cset' = cset /\ wset' = wset
    BY <1>2 DEF TermOrSleep, Goto, sets
  <2>2. ClientType'
    BY <2>1, ModulusAssumption DEF ClientType
  <2>3. ClientInv'
    BY <2>1, <2>2 DEF HasTask, QueueBound, ClientType
  <2>4. FlagType'
    BY <2>1 DEF FlagType
  <2>5. \A w \in Worker : wpc[w] \in {"gone", "none"}
    <3>1. CASE started
      <4>1. exited = Count(wpc, "gone")
        BY DEF WorkersCounted, Count
      <4>2. Cardinality(Worker) \in Nat /\ Count(wpc, "gone") \in Nat
        BY ThreadsAssumption, ModulusAssumption, CountAll
      <4>3. ~(exited < Cardinality(Worker))
        BY <1>2, <3>1 DEF NThreads
      <4> QED
        BY <4>1, <4>2, <4>3, CountAll
    <3>2. CASE ~started
      BY <3>2 DEF Phases
    <3> QED
      BY <3>1, <3>2
  <2>6. wset = {}
    BY <2>5 DEF WorkerType
  <2>7. {w \in Worker : wpc'[w] = "take"} = {} /\ {w \in Worker : wpc'[w] = "gone"} = {}
    BY <2>1
  <2>8. WorkersCounted'
    BY <2>1, <2>7, FS_EmptySet DEF WorkersCounted
  <2>9. WorkerType'
    BY <2>1, <2>6, ThreadsAssumption, ModulusAssumption DEF WorkerType
  <2>10. Phases'
    <3>1. \A w \in Worker : wpc'[w] = "none" /\ task'[w] \notin Task
      BY <2>1, <2>5 DEF Phases
    <3> QED
      BY <2>1, <3>1 DEF Phases
  <2> QED
    BY <2>3, <2>4, <2>8, <2>9, <2>10
<1> QED
  BY <1>1, <1>2

LEMMA CallKeeps ==
    ASSUME Inv, NEW c \in Client, CallAny(c)
    PROVE  Inv'
<1> USE DEF Inv
<1>1. CASE Put(c)
  <2>1. Call(c, "put") /\ UNCHANGED <<ok, open, started, exited, wwaiting, wpc, task>>
    BY <1>1 DEF Put, flags, worker
  <2>2. /\ cpc[c] = "out" /\ c \notin cset
        /\ calls' \in [Client -> 0..MaxCalls] /\ idle' = idle \ {c}
    BY <2>1, CallType
  <2>3. PICK t \in Task, f \in Flush :
          /\ arg' = [arg EXCEPT ![c] = [task |-> t, flush |-> f]]
          /\ IF Ok /\ open
             THEN PutOrSleep(c, [task |-> t, flush |-> f], cwaiting)
             ELSE UNCHANGED <<queue, cwaiting, sets, cpc>>
    BY <1>1 DEF Put
  <2>4. [task |-> t, flush |-> f] \in [task : Task, flush : BOOLEAN]
    BY FlagsAssumption
  <2>5. ClientInv' /\ wset' \subseteq wset
    <3>1. CASE Ok /\ open
      <4>1. cwaiting \in 0..(Modulus - 1)
        BY DEF ClientInv, ClientType
      <4> QED
        BY <2>2, <2>3, <2>4, <3>1, <4>1, PutKeeps
    <3>2. CASE ~(Ok /\ open)
      BY <2>2, <2>3, <2>4, <3>2 DEF ClientInv, ClientType, HasTask, QueueBound, sets
    <3> QED
      BY <3>1, <3>2
  <2>6. WorkerInv'
    BY <2>1, <2>5, WorkersSame
  <2> QED
    BY <2>1, <2>5, <2>6 DEF FlagType
<1>2. CASE WaitIdle(c)
  <2>1. /\ cpc[c] = "out" /\ calls[c] < MaxCalls /\ calls' = [calls EXCEPT ![c] = @ + 1]
        /\ WaitOrAnswer(c, cwaiting)
        /\ UNCHANGED <<queue, ok, open, started, exited, wwaiting, wset, wpc, task, arg>>
    BY <1>2 DEF WaitIdle, flags, worker
  <2>2. c \notin cset /\ cwaiting \in 0..(Modulus - 1) /\ calls' \in [Client -> 0..MaxCalls]
    BY <2>1, LimitsAssumption DEF ClientInv, ClientType
  <2>3. ClientInv'
    BY <2>1, <2>2, WaitKeeps
  <2>4. WorkerInv'
    BY <2>1, WorkersSame
  <2> QED
    BY <2>1, <2>3, <2>4 DEF FlagType
<1>3. CASE Terminate(c)
  <2>1. Call(c, "term") /\ UNCHANGED <<queue, open, task, arg>>
    BY <1>3 DEF Terminate
  <2>2. /\ c \notin cset /\ cwaiting \in 0..(Modulus - 1)
        /\ calls' \in [Client -> 0..MaxCalls] /\ idle' = idle \ {c}
    BY <2>1, CallType DEF ClientInv, ClientType
  <2>3. CASE started
    BY <1>3, <2>1, <2>2, <2>3, TermKeeps DEF Terminate
  <2>4. CASE ~started
    <3>1. UNCHANGED <<ok, started, exited, cwaiting, wwaiting, cset, wset, wpc, cpc>>
      BY <1>3, <2>4 DEF Terminate, counters, sets
    <3>2. ClientInv'
      BY <2>1, <2>2, <3>1 DEF ClientInv, ClientType, HasTask, QueueBound
    <3>3. WorkerInv'
      BY <2>1, <3>1, WorkersSame
    <3> QED
      BY <2>1, <3>1, <3>2, <3>3 DEF FlagType
  <2> QED
    BY <2>3, <2>4
<1>4. CASE Start(c)
  <2>1. /\ Call(c, "start") /\ ~started /\ started' = TRUE
        /\ wpc' = [w \in Worker |-> "free"]
        /\ UNCHANGED <<queue, ok, open, exited, cwaiting, wwaiting, cset, wset, cpc, arg, task>>
    BY <1>4 DEF Start, counters, sets
  <2>2. calls' \in [Client -> 0..MaxCalls] /\ idle' = idle \ {c}
    BY <2>1, CallType
  <2>3. ClientInv'
    BY <2>1, <2>2 DEF ClientInv, ClientType, HasTask, QueueBound
  <2>4. FlagType'
    BY <2>1 DEF FlagType
  <2>5. \A w \in Worker : wpc[w] = "none"
    BY <2>1 DEF WorkerInv, Phases
  <2>6. \A l \in {"take", "gone"} :
          {w \in Worker : wpc'[w] = l} = {} /\ {w \in Worker : wpc[w] = l} = {}
    BY <2>1, <2>5
  <2>7. WorkersCounted'
    BY <2>1, <2>6 DEF WorkerInv, WorkersCounted
  <2>8. WorkerType' /\ Phases'
    BY <2>1, <2>5 DEF WorkerInv, WorkerType, Phases
  <2> QED
    BY <2>3, <2>4, <2>7, <2>8 DEF WorkerInv
<1>5. CASE CloseShop(c)
  <2>1. /\ Call(c, "close") /\ open' = FALSE
        /\ UNCHANGED <<queue, ok, started, exited, cwaiting, wwaiting, cset, wset, cpc, arg,
                       wpc, task>>
    BY <1>5 DEF CloseShop, counters, sets, worker
  <2>2. calls' \in [Client -> 0..MaxCalls] /\ idle' = idle \ {c}
    BY <2>1, CallType
  <2>3. ClientInv'
    BY <2>1, <2>2 DEF ClientInv, ClientType, HasTask, QueueBound
  <2>4. WorkerInv' /\ FlagType'
    BY <2>1, WorkersSame DEF FlagType
  <2> QED
    BY <2>3, <2>4
<1> QED
  BY <1>1, <1>2, <1>3, <1>4, <1>5 DEF CallAny

LEMMA WokenKeeps ==
    ASSUME Inv, NEW c \in Client, ClientWoken(c)
    PROVE  Inv'
<1> USE DEF Inv
<1>0. cwaiting \in 0..(Modulus - 1) /\ Dec(cwaiting) \in 0..(Modulus - 1)
  BY CounterType DEF ClientInv, ClientType
<1>1. CASE PutWoken(c)
  <2>1. /\ cpc[c] = "put" /\ c \notin cset
        /\ UNCHANGED <<ok, open, started, exited, wwaiting, wpc, task, arg, idle, calls>>
    BY <1>1 DEF PutWoken, flags, worker
  <2>2. /\ arg[c] \in [task : Task, flush : BOOLEAN] /\ arg' = [arg EXCEPT ![c] = arg[c]]
        /\ calls' \in [Client -> 0..MaxCalls] /\ idle' = idle \ {c}
    BY <2>1 DEF ClientInv, ClientType, HasTask
  <2>3. ClientInv' /\ wset' \subseteq wset
    <3>1. CASE Ok
      BY <1>0, <1>1, <2>1, <2>2, <3>1, PutKeeps DEF PutWoken
    <3>2. CASE ~Ok
      BY <1>0, <1>1, <2>1, <3>2
      DEF PutWoken, Goto, ClientInv, ClientType, HasTask, QueueBound, sets
    <3> QED
      BY <3>1, <3>2
  <2> QED
    BY <2>1, <2>3, WorkersSame DEF FlagType
<1>2. CASE WaitWoken(c)
  <2>1. /\ c \notin cset /\ WaitOrAnswer(c, Dec(cwaiting))
        /\ UNCHANGED <<queue, ok, open, started, exited, wwaiting, wset, wpc, task, arg, calls>>
    BY <1>2 DEF WaitWoken, flags, worker
  <2>2. ClientInv'
    BY <1>0, <2>1, WaitKeeps DEF ClientInv, ClientType
  <2> QED
    BY <2>1, <2>2, WorkersSame DEF FlagType
<1>3. CASE TermWoken(c)
  <2>1. /\ c \notin cset /\ TermOrSleep(c, Dec(cwaiting))
        /\ UNCHANGED <<queue, open, task, arg, idle, calls>>
    BY <1>3 DEF TermWoken
  <2>2. calls' \in [Client -> 0..MaxCalls] /\ idle' = idle
    BY <2>1 DEF ClientInv, ClientType
  <2> QED
    BY <1>0, <2>1, <2>2, TermKeeps
<1> QED
  BY <1>1, <1>2, <1>3 DEF ClientWoken

-----------------------------------------------------------------------------
(* Workers *)

\* Fewer clients sleep, the queue is not longer, and nothing else about the
\* clients changes.
LEMMA ClientsSame ==
    ASSUME ClientInv, UNCHANGED <<cwaiting, cpc, arg, idle, calls>>, cset' \subseteq cset,
           queue' = queue \/ (queue # <<>> /\ queue' = Tail(queue))
    PROVE  ClientInv'
<1>1. queue' \in Seq(Task) /\ Len(queue') \in Nat /\ Len(queue) \in Nat /\ Len(queue') <= Len(queue)
  <2>1. queue \in Seq(Task) /\ Len(queue) \in Nat
    BY DEF ClientInv, ClientType
  <2>2. CASE queue' = queue
    BY <2>1, <2>2
  <2>3. CASE queue # <<>> /\ queue' = Tail(queue)
    <3>1. Tail(queue) \in Seq(Task) /\ Len(Tail(queue)) = Len(queue) - 1
      BY <2>1, <2>3
    <3>2. Len(Tail(queue)) \in Nat /\ Len(Tail(queue)) <= Len(queue)
      BY <2>1, <3>1
    <3> QED
      BY <2>1, <2>3, <3>1, <3>2
  <2> QED
    BY <2>2, <2>3
<1>2. ClientType' /\ HasTask'
  BY <1>1 DEF ClientInv, ClientType, HasTask
<1>3. QueueBound'
  BY <1>1, LimitsAssumption DEF ClientInv, QueueBound
<1> QED
  BY <1>2, <1>3 DEF ClientInv

\* The counters after a worker has gone from its place to l.
LEMMA CountMove ==
    ASSUME WorkerInv, NEW w \in Worker, NEW l \in {"free", "take", "work", "quit", "gone"},
           wpc' = [wpc EXCEPT ![w] = l], wpc[w] # "none",
           UNCHANGED started,
           wset' \subseteq {v \in Worker : wpc'[v] = "take"},
           task' \in [Worker -> Task \cup {None}],
           \A v \in Worker : task'[v] \in Task <=> wpc'[v] = "work",
           wwaiting' = CountBut(wpc, "take", w) + (IF l = "take" THEN 1 ELSE 0),
           exited' = CountBut(wpc, "gone", w) + (IF l = "gone" THEN 1 ELSE 0)
    PROVE  WorkerInv'
<1> USE DEF WorkerInv
<1>1. wpc \in [Worker -> {"none", "free", "take", "work", "quit", "gone"}]
  BY DEF WorkerType
<1>2. wpc' \in [Worker -> {"none", "free", "take", "work", "quit", "gone"}] /\ wpc'[w] = l
  BY <1>1
<1>3. ASSUME NEW k
      PROVE  /\ Count(wpc', k) = CountBut(wpc, k, w) + (IF l = k THEN 1 ELSE 0)
             /\ CountBut(wpc, k, w) \in Nat
             /\ CountBut(wpc, k, w) + 1 <= Cardinality(Worker)
  <2>1. CountBut(wpc', k, w) = CountBut(wpc, k, w)
    <3>1. {v \in Worker \ {w} : wpc'[v] = k} = {v \in Worker \ {w} : wpc[v] = k}
      BY <1>1
    <3> QED
      BY <3>1 DEF CountBut
  <2>2. /\ CountBut(wpc', k, w) \in Nat
        /\ CountBut(wpc', k, w) + 1 <= Cardinality(Worker)
        /\ wpc'[w] = k => Count(wpc', k) = CountBut(wpc', k, w) + 1
        /\ wpc'[w] # k => Count(wpc', k) = CountBut(wpc', k, w)
    BY CountSplit
  <2>3. CASE l = k
    BY <1>2, <2>1, <2>2, <2>3
  <2>4. CASE l # k
    BY <1>2, <2>1, <2>2, <2>4
  <2> QED
    BY <2>3, <2>4
<1>4. wwaiting' = Count(wpc', "take") /\ exited' = Count(wpc', "gone")
  BY <1>3
<1>5. WorkersCounted'
  BY <1>4 DEF WorkersCounted, Count
<1>6. Cardinality(Worker) \in 1..(Modulus - 1)
  BY ThreadsAssumption
<1>7. wwaiting' \in 0..(Modulus - 1) /\ exited' \in 0..Cardinality(Worker)
  BY <1>3, <1>6, ModulusAssumption
<1>8. WorkerType'
  BY <1>2, <1>7 DEF WorkerType
<1>9. started
  BY DEF Phases
<1>10. Phases'
  BY <1>1, <1>2, <1>9 DEF Phases
<1> QED
  BY <1>5, <1>8, <1>10

\* The counters before it goes, without it.
LEMMA CountBefore ==
    ASSUME WorkerInv, NEW w \in Worker
    PROVE  /\ wpc[w] = "take" => wwaiting = CountBut(wpc, "take", w) + 1
           /\ wpc[w] # "take" => wwaiting = CountBut(wpc, "take", w)
           /\ wpc[w] # "gone" => exited = CountBut(wpc, "gone", w)
           /\ CountBut(wpc, "take", w) \in 0..(Modulus - 2)
<1>1. wwaiting = Count(wpc, "take") /\ exited = Count(wpc, "gone")
  BY DEF WorkerInv, WorkersCounted, Count
<1>2. \A k : /\ CountBut(wpc, k, w) \in Nat
             /\ CountBut(wpc, k, w) + 1 <= Cardinality(Worker)
             /\ wpc[w] = k => Count(wpc, k) = CountBut(wpc, k, w) + 1
             /\ wpc[w] # k => Count(wpc, k) = CountBut(wpc, k, w)
  BY CountSplit
<1>3. /\ CountBut(wpc, "take", w) \in Nat
      /\ CountBut(wpc, "take", w) + 1 <= Cardinality(Worker)
  BY <1>2
<1>4. Cardinality(Worker) \in 1..(Modulus - 1) /\ Modulus \in Nat
  BY ThreadsAssumption, ModulusAssumption
<1>5. CountBut(wpc, "take", w) \in 0..(Modulus - 2)
  BY <1>3, <1>4
<1> QED
  BY <1>1, <1>2, <1>5

LEMMA TakeKeeps ==
    ASSUME Inv, NEW w \in Worker, wpc[w] \in {"free", "take"}, w \notin wset,
           TakeOrSleep(w, CountBut(wpc, "take", w)),
           UNCHANGED <<flags, cwaiting, client>>
    PROVE  Inv'
<1> USE DEF Inv
<1>0. /\ UNCHANGED <<ok, open, started, exited, cwaiting, cpc, arg, idle, calls>>
      /\ FlagType'
  BY DEF flags, client, FlagType
<1>1. /\ wpc \in [Worker -> {"none", "free", "take", "work", "quit", "gone"}]
      /\ task \in [Worker -> Task \cup {None}]
      /\ wset \subseteq {v \in Worker : wpc[v] = "take"}
      /\ task[w] \notin Task
      /\ \A v \in Worker : task[v] \in Task <=> wpc[v] = "work"
      /\ queue \in Seq(Task)
  BY DEF WorkerInv, WorkerType, Phases, ClientInv, ClientType
<1>2. /\ exited = CountBut(wpc, "gone", w)
      /\ CountBut(wpc, "take", w) \in 0..(Modulus - 2)
  BY CountBefore
<1>3. CASE Len(queue) < Low
  <2>1. /\ wpc' = [wpc EXCEPT ![w] = "take"] /\ wset' = wset \cup {w}
        /\ wwaiting' = Inc(CountBut(wpc, "take", w)) /\ cset' \subseteq cset
        /\ queue' = queue /\ task' = task
    BY <1>3 DEF TakeOrSleep, WGoto
  <2>2. wwaiting' = CountBut(wpc, "take", w) + 1
    BY <1>2, <2>1, CounterType, ModulusAssumption
  <2>3. WorkerInv'
    <3>1. wset' \subseteq {v \in Worker : wpc'[v] = "take"}
      BY <1>1, <2>1
    <3>2. \A v \in Worker : task'[v] \in Task <=> wpc'[v] = "work"
      BY <1>1, <2>1
    <3>3. exited' = CountBut(wpc, "gone", w) + 0
      BY <1>0, <1>2, CountSplit
    <3> QED
      BY <1>0, <1>1, <2>1, <2>2, <3>1, <3>2, <3>3, CountMove
  <2>4. ClientInv'
    BY <1>0, <2>1, ClientsSame
  <2> QED
    BY <1>0, <2>3, <2>4
<1>4. CASE ~(Len(queue) < Low)
  <2>1. /\ wpc' = [wpc EXCEPT ![w] = "work"] /\ wset' = wset
        /\ wwaiting' = CountBut(wpc, "take", w)
        /\ queue' = Tail(queue) /\ task' = [task EXCEPT ![w] = Head(queue)]
        /\ cset' = cset \/ NotifyOne(cset, cset')
    BY <1>4 DEF TakeOrSleep, WGoto
  <2>2. queue # <<>> /\ Head(queue) \in Task
    BY <1>1, <1>4, LimitsAssumption
  <2>3. WorkerInv'
    <3>1. wset' \subseteq {v \in Worker : wpc'[v] = "take"}
      BY <1>1, <2>1
    <3>2. /\ \A v \in Worker : task'[v] \in Task <=> wpc'[v] = "work"
          /\ task' \in [Worker -> Task \cup {None}]
      BY <1>1, <2>1, <2>2
    <3>3. exited' = CountBut(wpc, "gone", w) + 0 /\ wwaiting' = CountBut(wpc, "take", w) + 0
      BY <1>0, <1>2, <2>1, CountSplit
    <3> QED
      BY <1>0, <1>1, <2>1, <3>1, <3>2, <3>3, CountMove
  <2>4. ClientInv'
    BY <1>0, <2>1, <2>2, ClientsSame, Notified
  <2> QED
    BY <1>0, <2>3, <2>4
<1> QED
  BY <1>3, <1>4

LEMMA WorkerKeeps ==
    ASSUME Inv, NEW w \in Worker, WorkerStep(w)
    PROVE  Inv'
<1> USE DEF Inv
<1>1. /\ wpc \in [Worker -> {"none", "free", "take", "work", "quit", "gone"}]
      /\ task \in [Worker -> Task \cup {None}]
      /\ wset \subseteq {v \in Worker : wpc[v] = "take"}
      /\ \A v \in Worker : task[v] \in Task <=> wpc[v] = "work"
      /\ wwaiting \in 0..(Modulus - 1)
  BY DEF WorkerInv, WorkerType, Phases
<1>2. /\ wpc[w] = "take" => wwaiting = CountBut(wpc, "take", w) + 1
      /\ wpc[w] # "take" => wwaiting = CountBut(wpc, "take", w)
      /\ wpc[w] # "gone" => exited = CountBut(wpc, "gone", w)
      /\ CountBut(wpc, "take", w) \in 0..(Modulus - 2)
  BY CountBefore
<1>3. CountBut(wpc, "gone", w) \in Nat
  BY CountSplit
<1>4. wpc[w] = "take" => Dec(wwaiting) = CountBut(wpc, "take", w)
  BY <1>1, <1>2, CounterType, ModulusAssumption
<1>5. ASSUME wpc[w] # "none", wpc' = [wpc EXCEPT ![w] = "quit"],
             UNCHANGED <<queue, flags, cwaiting, sets, client>>, w \notin wset,
             task' \in [Worker -> Task \cup {None}], task'[w] \notin Task,
             \A v \in Worker \ {w} : task'[v] = task[v],
             wwaiting' = CountBut(wpc, "take", w), wpc[w] # "gone"
      PROVE  Inv'
  <2>1. UNCHANGED <<ok, open, started, exited, cset, wset, cpc, arg, idle, calls>> /\ FlagType'
    BY <1>5 DEF flags, sets, client, FlagType
  <2>2. ClientInv'
    BY <1>5, <2>1, ClientsSame
  <2>3. wset' \subseteq {v \in Worker : wpc'[v] = "take"}
    BY <1>1, <1>5, <2>1
  <2>4. \A v \in Worker : task'[v] \in Task <=> wpc'[v] = "work"
    BY <1>1, <1>5
  <2>5. wwaiting' = CountBut(wpc, "take", w) + 0 /\ exited' = CountBut(wpc, "gone", w) + 0
    BY <1>2, <1>3, <1>5, <2>1
  <2>6. WorkerInv'
    BY <1>5, <2>1, <2>3, <2>4, <2>5, CountMove
  <2> QED
    BY <2>1, <2>2, <2>6
<1>6. CASE Take(w)
  <2>1. wpc[w] = "free" /\ UNCHANGED <<flags, cwaiting, client>> /\ w \notin wset
    BY <1>1, <1>6 DEF Take
  <2>2. CASE Ok
    BY <1>2, <1>6, <2>1, <2>2, TakeKeeps DEF Take
  <2>3. CASE ~Ok
    BY <1>1, <1>2, <1>5, <1>6, <2>1, <2>3 DEF Take, WGoto, counters
  <2> QED
    BY <2>2, <2>3
<1>7. CASE TakeWoken(w)
  <2>1. wpc[w] = "take" /\ UNCHANGED <<flags, cwaiting, client>> /\ w \notin wset
    BY <1>7 DEF TakeWoken
  <2>2. CASE Ok
    BY <1>4, <1>7, <2>1, <2>2, TakeKeeps DEF TakeWoken
  <2>3. CASE ~Ok
    BY <1>1, <1>4, <1>5, <1>7, <2>1, <2>3 DEF TakeWoken, WGoto
  <2> QED
    BY <2>2, <2>3
<1>8. CASE Finish(w)
  <2>1. /\ wpc[w] = "work" /\ task' = [task EXCEPT ![w] = None]
        /\ wpc' = [wpc EXCEPT ![w] = "free"] \/ wpc' = [wpc EXCEPT ![w] = "quit"]
        /\ UNCHANGED <<queue, flags, cwaiting, wwaiting, sets, client>>
    BY <1>8 DEF Finish, WGoto, counters
  <2>2. task' \in [Worker -> Task \cup {None}] /\ task'[w] \notin Task /\ w \notin wset
        /\ \A v \in Worker \ {w} : task'[v] = task[v]
    BY <1>1, <2>1, TaskAssumption
  <2>3. CASE wpc' = [wpc EXCEPT ![w] = "quit"]
    BY <1>2, <1>5, <2>1, <2>2, <2>3
  <2>4. CASE wpc' = [wpc EXCEPT ![w] = "free"]
    <3>1. UNCHANGED <<ok, open, started, exited, cset, wset, cpc, arg, idle, calls>> /\ FlagType'
      BY <2>1 DEF flags, sets, client, FlagType
    <3>2. ClientInv'
      BY <2>1, <3>1, ClientsSame
    <3>3. wset' \subseteq {v \in Worker : wpc'[v] = "take"}
      BY <1>1, <2>1, <2>4, <3>1
    <3>4. \A v \in Worker : task'[v] \in Task <=> wpc'[v] = "work"
      BY <1>1, <2>1, <2>2, <2>4
    <3>5. wwaiting' = CountBut(wpc, "take", w) + 0 /\ exited' = CountBut(wpc, "gone", w) + 0
      BY <1>2, <1>3, <2>1, <3>1
    <3>6. WorkerInv'
      BY <2>1, <2>2, <2>4, <3>1, <3>3, <3>4, <3>5, CountMove
    <3> QED
      BY <3>1, <3>2, <3>6
  <2> QED
    BY <2>1, <2>3, <2>4
<1>9. CASE WorkerExit(w)
  <2>1. /\ wpc[w] = "quit" /\ exited' = exited + 1 /\ ok' = FALSE /\ cset' = {}
        /\ wpc' = [wpc EXCEPT ![w] = "gone"]
        /\ UNCHANGED <<queue, open, started, cwaiting, wwaiting, wset, cpc, arg, idle, calls, task>>
    BY <1>9 DEF WorkerExit, WGoto, counters, client
  <2>2. FlagType'
    BY <2>1 DEF FlagType
  <2>3. ClientInv'
    BY <2>1, ClientsSame
  <2>4. wset' \subseteq {v \in Worker : wpc'[v] = "take"}
    BY <1>1, <2>1
  <2>5. \A v \in Worker : task'[v] \in Task <=> wpc'[v] = "work"
    BY <1>1, <2>1
  <2>6. wwaiting' = CountBut(wpc, "take", w) + 0 /\ exited' = CountBut(wpc, "gone", w) + 1
    BY <1>2, <1>3, <2>1
  <2>7. WorkerInv'
    BY <1>1, <2>1, <2>4, <2>5, <2>6, CountMove
  <2> QED
    BY <2>2, <2>3, <2>7
<1> QED
  BY <1>6, <1>7, <1>8, <1>9 DEF WorkerStep

-----------------------------------------------------------------------------
(* The theorems *)

LEMMA StepInv == Inv /\ [Next]_vars => Inv'
<1> SUFFICES ASSUME Inv, [Next]_vars PROVE Inv'
  OBVIOUS
<1>1. ASSUME NEW c \in Client, CallAny(c) \/ ClientWoken(c) PROVE Inv'
  BY <1>1, CallKeeps, WokenKeeps
<1>2. ASSUME NEW w \in Worker, WorkerStep(w) PROVE Inv'
  BY <1>2, WorkerKeeps
<1>3. CASE Spurious
  <2>1. /\ cset' \subseteq cset /\ wset' \subseteq wset
        /\ UNCHANGED <<queue, ok, open, started, exited, cwaiting, wwaiting, cpc, arg, idle, calls,
                       wpc, task>>
    BY <1>3 DEF Spurious, flags, counters, client, worker
  <2> QED
    BY <2>1, ClientsSame, WorkersSame DEF Inv, FlagType
<1>4. CASE UNCHANGED vars
  <2>1. /\ cset' \subseteq cset /\ wset' \subseteq wset
        /\ UNCHANGED <<queue, ok, open, started, exited, cwaiting, wwaiting, cpc, arg, idle, calls,
                       wpc, task>>
    BY <1>4 DEF vars, flags, counters, sets, client, worker
  <2> QED
    BY <2>1, ClientsSame, WorkersSame DEF Inv, FlagType
<1> QED
  BY <1>1, <1>2, <1>3, <1>4 DEF Next

\* The inductive invariant, for every number of threads.
THEOREM QueueInvariant == Spec => []Inv
BY InitInv, StepInv, PTL DEF Spec

\* Type correctness: the unsigned counters never leave their range.
THEOREM TypeCorrect == Spec => []TypeOK
BY QueueInvariant, InvType, PTL

\* However many clients are woken for one free place, the queue stays below hi.
THEOREM QueueBounded == Spec => []QueueBound
<1>1. Inv => QueueBound
  BY DEF Inv, ClientInv
<1> QED
  BY <1>1, QueueInvariant, PTL

\* waitIdle() and setTerminateAndWait() count the threads which are there.
THEOREM CountersExact == Spec => []WorkersCounted
<1>1. Inv => WorkersCounted
  BY DEF Inv, WorkerInv
<1> QED
  BY <1>1, QueueInvariant, PTL

-----------------------------------------------------------------------------
(* WorkQueue implements TaskQueue *)

abstract == <<queue, task, idle>>

\* What waitIdle() concludes from the counters: no task is queued or executed.
LEMMA IdleIsIdle ==
    ASSUME Inv, ~Busy, Ok
    PROVE  queue = <<>> /\ \A w \in Worker : task[w] = None
<1> USE DEF Inv, WorkerInv, ClientInv
<1>1. Cardinality(Worker) \in 1..(Modulus - 1) /\ Modulus \in Nat
  BY ThreadsAssumption, ModulusAssumption
<1>2. exited = 0 /\ NThreads = Cardinality(Worker) /\ Len(queue) \in Nat /\ queue \in Seq(Task)
  BY DEF Ok, NThreads, ClientType
<1>3. Len(queue) = 0
  BY <1>1, <1>2 DEF Busy
<1>4. wwaiting = Count(wpc, "take") /\ wwaiting \in 0..(Modulus - 1)
  BY DEF WorkersCounted, Count, WorkerType
<1>5. (wwaiting + 0) % Modulus = wwaiting
  BY <1>1, <1>4
<1>6. wwaiting >= Cardinality(Worker)
  BY <1>1, <1>2, <1>4, <1>5 DEF Busy
<1>7. \A w \in Worker : wpc[w] = "take"
  BY <1>4, <1>6, CountAll
<1>8. \A w \in Worker : task[w] = None
  BY <1>7 DEF Phases, WorkerType
<1> QED
  BY <1>2, <1>3, <1>8

LEMMA AnswerImplements ==
    ASSUME Inv, NEW c \in Client, NEW n, WaitOrAnswer(c, n), UNCHANGED <<queue, task>>
    PROVE  TQ!Next
<1>1. CASE idle' = idle \ {c}
  BY <1>1 DEF TQ!Next, TQ!Forget
<1>2. CASE idle' # idle \ {c}
  <2>1. ~Busy /\ Ok /\ idle' = idle \cup {c}
    BY <1>2 DEF WaitOrAnswer
  <2> QED
    BY <2>1, IdleIsIdle DEF TQ!Next, TQ!AnswerIdle
<1> QED
  BY <1>1, <1>2

LEMMA CallImplements ==
    ASSUME Inv, NEW c \in Client, CallAny(c)
    PROVE  TQ!Next \/ UNCHANGED abstract
<1>1. ASSUME queue' = queue, task' = task, idle' = idle \ {c} PROVE TQ!Next
  BY <1>1 DEF TQ!Next, TQ!Forget
<1>2. CASE Put(c)
  <2>1. idle' = idle \ {c} /\ task' = task
    BY <1>2 DEF Put, Call, worker
  <2>2. PICK t \in Task, f \in Flush :
          IF Ok /\ open
          THEN PutOrSleep(c, [task |-> t, flush |-> f], cwaiting)
          ELSE UNCHANGED <<queue, cwaiting, sets, cpc>>
    BY <1>2 DEF Put
  <2>3. queue' = queue \/ queue' = <<t>> \/ queue' = Append(queue, t)
    BY <2>2 DEF PutOrSleep
  <2> QED
    BY <1>1, <2>1, <2>3 DEF TQ!Next, TQ!Put, TQ!Replace
<1>3. CASE WaitIdle(c)
  <2>1. WaitOrAnswer(c, cwaiting) /\ UNCHANGED <<queue, task, started, exited, wwaiting, wpc>>
    BY <1>3 DEF WaitIdle, flags, worker
  <2> QED
    BY <1>1, <2>1, AnswerImplements
<1>4. CASE Terminate(c) \/ Start(c) \/ CloseShop(c)
  <2>1. idle' = idle \ {c} /\ UNCHANGED <<queue, task>>
    BY <1>4 DEF Terminate, Start, CloseShop, Call, worker
  <2> QED
    BY <1>1, <2>1
<1> QED
  BY <1>2, <1>3, <1>4 DEF CallAny

LEMMA WokenImplements ==
    ASSUME Inv, NEW c \in Client, ClientWoken(c)
    PROVE  TQ!Next \/ UNCHANGED abstract
<1>1. CASE PutWoken(c)
  <2>1. cpc[c] = "put" /\ idle' = idle /\ task' = task
    BY <1>1 DEF PutWoken, worker
  <2>2. arg[c].task \in Task /\ idle' = idle \ {c}
    BY <2>1 DEF Inv, ClientInv, HasTask
  <2>3. queue' = queue \/ queue' = <<arg[c].task>> \/ queue' = Append(queue, arg[c].task)
    BY <1>1 DEF PutWoken, PutOrSleep
  <2> QED
    BY <2>1, <2>2, <2>3 DEF abstract, TQ!Next, TQ!Put, TQ!Replace
<1>2. CASE WaitWoken(c)
  <2>1. WaitOrAnswer(c, Dec(cwaiting)) /\ UNCHANGED <<queue, task>>
    BY <1>2 DEF WaitWoken, worker
  <2> QED
    BY <2>1, AnswerImplements
<1>3. CASE TermWoken(c)
  BY <1>3 DEF TermWoken, abstract
<1> QED
  BY <1>1, <1>2, <1>3 DEF ClientWoken

LEMMA WorkerImplements ==
    ASSUME Inv, NEW w \in Worker, WorkerStep(w)
    PROVE  TQ!Next \/ UNCHANGED abstract
<1>1. /\ task[w] \in Task \cup {None} /\ (task[w] \in Task <=> wpc[w] = "work")
      /\ queue \in Seq(Task)
  BY DEF Inv, WorkerInv, WorkerType, Phases, ClientInv, ClientType
<1>2. CASE Take(w) \/ TakeWoken(w)
  <2>1. task[w] = None /\ idle' = idle
    BY <1>1, <1>2 DEF Take, TakeWoken, client
  <2>2. CASE UNCHANGED <<queue, task>>
    BY <2>1, <2>2 DEF abstract
  <2>3. CASE ~UNCHANGED <<queue, task>>
    <3>1. PICK n : TakeOrSleep(w, n)
      BY <1>2, <2>3 DEF Take, TakeWoken
    <3>2. /\ ~(Len(queue) < Low) /\ task' = [task EXCEPT ![w] = Head(queue)]
          /\ queue' = Tail(queue)
      BY <2>3, <3>1 DEF TakeOrSleep
    <3>3. queue # <<>>
      BY <1>1, <3>2, LimitsAssumption
    <3> QED
      BY <2>1, <3>2, <3>3 DEF TQ!Next, TQ!Take
  <2> QED
    BY <2>2, <2>3
<1>3. CASE Finish(w)
  <2>1. /\ task[w] # None /\ task' = [task EXCEPT ![w] = None]
        /\ UNCHANGED <<queue, idle>>
    BY <1>1, <1>3, TaskAssumption DEF Finish, client
  <2> QED
    BY <2>1 DEF TQ!Next, TQ!Finish
<1>4. CASE WorkerExit(w)
  BY <1>4 DEF WorkerExit, client, abstract
<1> QED
  BY <1>2, <1>3, <1>4 DEF WorkerStep

\* Tasks are taken in order and by one worker each, flushed tasks are replaced,
\* and waitIdle() returns true only when nothing is queued or executed.
THEOREM Implements == Spec => Promise
<1>1. Init => TQ!Init
  BY DEF Init, TQ!Init
<1>2. Inv /\ [Next]_vars => [TQ!Next]_<<queue, task, idle>>
  <2> SUFFICES ASSUME Inv, [Next]_vars PROVE TQ!Next \/ UNCHANGED abstract
    BY DEF abstract
  <2>1. ASSUME NEW c \in Client, CallAny(c) \/ ClientWoken(c)
        PROVE  TQ!Next \/ UNCHANGED abstract
    BY <2>1, CallImplements, WokenImplements
  <2>2. ASSUME NEW w \in Worker, WorkerStep(w)
        PROVE  TQ!Next \/ UNCHANGED abstract
    BY <2>2, WorkerImplements
  <2>3. CASE Spurious \/ UNCHANGED vars
    BY <2>3 DEF Spurious, vars, client, worker, abstract
  <2> QED
    BY <2>1, <2>2, <2>3 DEF Next
<1> QED
  BY <1>1, <1>2, QueueInvariant, PTL DEF Spec, Promise, TQ!Spec

-----------------------------------------------------------------------------
(* One wakeup for one task *)

\* The workers which will look at the queue, without being notified.
Awake == {w \in Worker : wpc[w] = "free" \/ (wpc[w] = "take" /\ w \notin wset)}

LEMMA AwakeFinite ==
    /\ IsFiniteSet(Awake) /\ Cardinality(Awake) \in Nat
    /\ IsFiniteSet(Awake') /\ Cardinality(Awake') \in Nat
BY ThreadsAssumption, FS_Subset, FS_CardinalityType DEF Awake

\* As many workers or more, as many tasks or fewer, and no worker falls asleep.
LEMMA AwakeMore ==
    ASSUME Inv, TasksHaveWorkers, Awake \subseteq Awake', queue' = queue,
           wset' \subseteq wset, Ok' => Ok
    PROVE  TasksHaveWorkers'
<1>1. Cardinality(Awake) <= Cardinality(Awake')
  BY AwakeFinite, FS_Subset
<1>2. Len(queue) \in Nat
  BY DEF Inv, ClientInv, ClientType
<1> QED
  BY <1>1, <1>2, AwakeFinite DEF TasksHaveWorkers, Awake

\* put() wakes one worker, if one sleeps, for its one task.
LEMMA PutServed ==
    ASSUME Inv, TasksHaveWorkers, NEW c, NEW a \in [task : Task, flush : BOOLEAN], NEW n,
           PutOrSleep(c, a, n), UNCHANGED <<ok, started, exited, wpc>>
    PROVE  TasksHaveWorkers'
<1>1. queue \in Seq(Task) /\ Len(queue) \in Nat /\ wset \subseteq {w \in Worker : wpc[w] = "take"}
  BY DEF Inv, ClientInv, ClientType, WorkerInv, WorkerType
<1>2. CASE Full
  <2>1. queue' = queue /\ wset' = wset
    BY <1>2 DEF PutOrSleep
  <2> QED
    BY <2>1, AwakeMore DEF Ok, Awake
<1>3. CASE ~Full /\ wset = {}
  <2>1. wset' = {}
    BY <1>3 DEF PutOrSleep, NotifyOne
  <2> QED
    BY <2>1 DEF TasksHaveWorkers
<1>4. CASE ~Full /\ wset # {}
  <2>1. wwaiting > 0
    <3>1. PICK x \in wset : wpc[x] = "take" /\ x \in Worker
      BY <1>1, <1>4
    <3>2. wwaiting = Count(wpc, "take")
      BY DEF Inv, WorkerInv, WorkersCounted, Count
    <3> QED
      BY <3>1, <3>2, CountSplit
  <2>2. PICK x \in wset : wset' = wset \ {x}
    BY <1>4, <2>1 DEF PutOrSleep, NotifyOne
  <2>3. x \notin Awake /\ Awake' = Awake \cup {x}
    BY <1>1, <2>2 DEF Awake
  <2>4. Cardinality(Awake') = Cardinality(Awake) + 1
    BY <2>3, AwakeFinite, FS_AddElement
  <2>5. queue' = <<a.task>> \/ queue' = Append(queue, a.task)
    BY <1>4 DEF PutOrSleep
  <2>6. Len(queue') = 1 \/ Len(queue') = Len(queue) + 1
    BY <1>1, <2>5
  <2>7. Low = 1 /\ Ok' => Len(queue) <= Cardinality(Awake)
    BY <1>4 DEF TasksHaveWorkers, Awake, Ok
  <2>8. ASSUME Low = 1, Ok' PROVE Len(queue') <= Cardinality(Awake')
    <3>1. Len(queue) <= Cardinality(Awake)
      BY <2>7, <2>8
    <3>2. Cardinality(Awake) \in Nat
      BY AwakeFinite
    <3>3. ASSUME NEW k, k = 1 \/ k = Len(queue) + 1 PROVE k <= Cardinality(Awake) + 1
      BY <1>1, <3>1, <3>2, <3>3
    <3> QED
      BY <2>4, <2>6, <3>3
  <2> QED
    BY <2>8 DEF TasksHaveWorkers, Awake
<1> QED
  BY <1>2, <1>3, <1>4

\* A worker which is awake takes a task, or finds that there is none.
LEMMA TakeServed ==
    ASSUME Inv, TasksHaveWorkers, NEW w \in Awake, NEW n, TakeOrSleep(w, n), Ok,
           UNCHANGED <<ok, started, exited>>
    PROVE  TasksHaveWorkers'
<1>1. queue \in Seq(Task) /\ Len(queue) \in Nat /\ w \in Worker
      /\ wpc \in [Worker -> {"none", "free", "take", "work", "quit", "gone"}]
  BY DEF Inv, ClientInv, ClientType, WorkerInv, WorkerType, Awake
<1>2. CASE Len(queue) < Low
  <2>1. queue' = queue /\ (Low = 1 => Len(queue') = 0)
    BY <1>1, <1>2 DEF TakeOrSleep
  <2> QED
    BY <2>1, AwakeFinite DEF TasksHaveWorkers, Awake
<1>3. CASE ~(Len(queue) < Low)
  <2>1. wpc' = [wpc EXCEPT ![w] = "work"] /\ wset' = wset /\ queue' = Tail(queue)
    BY <1>3 DEF TakeOrSleep, WGoto
  <2>2. Awake' = Awake \ {w}
    BY <1>1, <2>1 DEF Awake
  <2>3. Cardinality(Awake') = Cardinality(Awake) - 1
    BY <2>2, AwakeFinite, FS_RemoveElement
  <2>4. queue # <<>>
    BY <1>1, <1>3, LimitsAssumption
  <2>5. Len(queue') = Len(queue) - 1
    BY <1>1, <2>1, <2>4
  <2>6. ASSUME Low = 1, wset' # {} PROVE Len(queue') <= Cardinality(Awake')
    <3>1. Len(queue) <= Cardinality(Awake)
      BY <2>1, <2>6 DEF TasksHaveWorkers, Awake
    <3> QED
      BY <1>1, <2>3, <2>5, <3>1, AwakeFinite
  <2> QED
    BY <2>6 DEF TasksHaveWorkers, Awake
<1> QED
  BY <1>2, <1>3

LEMMA ServedStep == ASSUME Inv, TasksHaveWorkers, [Next]_vars PROVE TasksHaveWorkers'
<1>1. /\ wset \subseteq {w \in Worker : wpc[w] = "take"}
      /\ wpc \in [Worker -> {"none", "free", "take", "work", "quit", "gone"}]
      /\ arg \in [Client -> [task : Task \cup {None}, flush : BOOLEAN]]
  BY DEF Inv, ClientInv, ClientType, WorkerInv, WorkerType
<1>2. ASSUME UNCHANGED <<queue, ok, started, exited, wpc>>, wset' \subseteq wset
      PROVE  TasksHaveWorkers'
  <2>1. Awake \subseteq Awake'
    BY <1>2 DEF Awake
  <2> QED
    BY <1>2, <2>1, AwakeMore DEF Ok
<1>3. ASSUME NEW c \in Client, CallAny(c) PROVE TasksHaveWorkers'
  <2>1. CASE Put(c)
    <3>1. UNCHANGED <<ok, started, exited, wpc>>
      BY <2>1 DEF Put, flags, worker
    <3>2. PICK t \in Task, f \in Flush :
            IF Ok /\ open
            THEN PutOrSleep(c, [task |-> t, flush |-> f], cwaiting)
            ELSE UNCHANGED <<queue, cwaiting, sets, cpc>>
      BY <2>1 DEF Put
    <3>3. [task |-> t, flush |-> f] \in [task : Task, flush : BOOLEAN]
      BY FlagsAssumption
    <3>4. CASE Ok /\ open
      BY <3>1, <3>2, <3>3, <3>4, PutServed
    <3>5. CASE ~(Ok /\ open)
      BY <1>2, <3>1, <3>2, <3>5 DEF sets
    <3> QED
      BY <3>4, <3>5
  <2>2. CASE WaitIdle(c) \/ CloseShop(c)
    BY <1>2, <2>2 DEF WaitIdle, CloseShop, flags, sets, worker
  <2>3. CASE Terminate(c)
    <3>1. wset' = {} \/ ~started' \/ UNCHANGED <<queue, ok, started, exited, wpc, wset>>
      BY <2>3 DEF Terminate, TermOrSleep, sets
    <3> QED
      BY <1>2, <3>1 DEF TasksHaveWorkers, Ok
  <2>4. CASE Start(c)
    <3>1. \A w \in Worker : wpc[w] = "none"
      BY <2>4 DEF Start, Inv, WorkerInv, Phases
    <3>2. wset' = {}
      BY <1>1, <2>4, <3>1 DEF Start, sets
    <3> QED
      BY <3>2 DEF TasksHaveWorkers
  <2> QED
    BY <1>3, <2>1, <2>2, <2>3, <2>4 DEF CallAny
<1>4. ASSUME NEW c \in Client, ClientWoken(c) PROVE TasksHaveWorkers'
  <2>1. CASE PutWoken(c)
    <3>1. UNCHANGED <<ok, started, exited, wpc>> /\ cpc[c] = "put"
      BY <2>1 DEF PutWoken, flags, worker
    <3>2. arg[c] \in [task : Task, flush : BOOLEAN]
      BY <1>1, <3>1 DEF Inv, ClientInv, HasTask
    <3>3. CASE Ok
      BY <2>1, <3>1, <3>2, <3>3, PutServed DEF PutWoken
    <3>4. CASE ~Ok
      BY <1>2, <2>1, <3>1, <3>4 DEF PutWoken, sets
    <3> QED
      BY <3>3, <3>4
  <2>2. CASE WaitWoken(c)
    BY <1>2, <2>2 DEF WaitWoken, flags, worker
  <2>3. CASE TermWoken(c)
    <3>1. wset' = {} \/ ~started'
      BY <2>3 DEF TermWoken, TermOrSleep
    <3> QED
      BY <3>1 DEF TasksHaveWorkers, Ok
  <2> QED
    BY <1>4, <2>1, <2>2, <2>3 DEF ClientWoken
<1>5. ASSUME NEW w \in Worker, WorkerStep(w) PROVE TasksHaveWorkers'
  <2>1. CASE Take(w) \/ TakeWoken(w)
    <3>1. w \in Awake /\ UNCHANGED <<ok, started, exited>>
      BY <1>1, <2>1 DEF Take, TakeWoken, Awake, flags
    <3>2. CASE Ok
      BY <2>1, <3>1, <3>2, TakeServed DEF Take, TakeWoken
    <3>3. CASE ~Ok
      BY <3>1, <3>3 DEF TasksHaveWorkers, Ok
    <3> QED
      BY <3>2, <3>3
  <2>2. CASE Finish(w)
    <3>1. /\ wpc[w] = "work" /\ UNCHANGED <<queue, ok, started, exited, wset>>
          /\ \E l : wpc' = [wpc EXCEPT ![w] = l]
      BY <2>2 DEF Finish, WGoto, flags, sets
    <3>2. Awake \subseteq Awake'
      BY <1>1, <3>1 DEF Awake
    <3> QED
      BY <3>1, <3>2, AwakeMore DEF Ok
  <2>3. CASE WorkerExit(w)
    BY <2>3 DEF WorkerExit, TasksHaveWorkers, Ok
  <2> QED
    BY <1>5, <2>1, <2>2, <2>3 DEF WorkerStep
<1>6. CASE Spurious \/ UNCHANGED vars
  BY <1>2, <1>6 DEF Spurious, vars, flags, sets, worker
<1> QED
  BY <1>3, <1>4, <1>5, <1>6 DEF Next

\* notify_one() in put() is enough, for any number of clients and workers and with
\* spurious wakeups: while a worker sleeps there are at least as many workers awake as
\* there are tasks on the queue.
THEOREM TasksServed == Spec => []TasksHaveWorkers
<1>1. Init => TasksHaveWorkers
  BY DEF Init, TasksHaveWorkers
<1>2. Inv /\ TasksHaveWorkers /\ [Next]_vars => TasksHaveWorkers'
  BY ServedStep
<1> QED
  BY <1>1, <1>2, QueueInvariant, PTL DEF Spec
=============================================================================
