SPECIFICATION FairSpec
CONSTANTS
  c1 = c1
  c2 = c2
  w1 = w1
  w2 = w2
  t1 = t1
  t2 = t2
  None = None
  Client <- MCClients
  Worker <- MCWorkers
  Task <- MCTasks
  High = 2
  Low = 1
  Modulus = 16
  Flush <- MCBoth
  Ops <- MCAllOps
  WorkerFails = TRUE
  MaxCalls = 2
INVARIANT QueueBound
INVARIANT WorkersCounted
INVARIANT TasksHaveWorkers
PROPERTY Promise
PROPERTY EveryCallReturns
CHECK_DEADLOCK FALSE
