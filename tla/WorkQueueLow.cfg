SPECIFICATION FairSpec
CONSTANTS
  c1 = c1
  c2 = c2
  w1 = w1
  w2 = w2
  t1 = t1
  t2 = t2
  None = None
  Client <- MCOneClient
  Worker <- MCOneWorker
  Task <- MCOneTask
  High = 0
  Low = 2
  Modulus = 16
  Flush <- MCBoth
  Ops <- MCWorkOps
  WorkerFails = FALSE
  MaxCalls = 2
PROPERTY WaitIdleReturns
CHECK_DEADLOCK FALSE
