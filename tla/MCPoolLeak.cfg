\* A call is cancelled while its worker answers.
SPECIFICATION PoolSpec
CONSTANTS
  w1 = w1
  w2 = w2
  c1 = c1
  c2 = c2
  NoWorker = NoWorker
  Worker <- MCOneWorker
  Call <- MCTwoCalls
  PoolFaults = {"cancel"}
INVARIANT NoWorkerLost
CHECK_DEADLOCK FALSE
