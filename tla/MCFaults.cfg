\* Requests are refused or time out; a stream of up to four pieces through a queue
\* of two, whose consumer is cancelled up to three times; two calls on two workers,
\* with every fault at once; two tasks that ask, and three answers over three sessions.
SPECIFICATION MCSpec
CONSTANTS
  Events = 3
  Capacity = 2
  BatchSize = 2
  Attempts = 2
  Faults = {"refuse", "slow"}
  BufferSize = 2
  Pieces = 4
  Cancels = 3
  w1 = w1
  w2 = w2
  c1 = c1
  c2 = c2
  NoWorker = NoWorker
  Worker <- MCWorkers
  Call <- MCTwoCalls
  PoolFaults = {"crash", "timeout", "cancel", "badargs", "spawn", "close", "badline"}
  Asker = {a1, a2}
  Key = {k1, k2}
  Tries = 2
  AnswerBound = 3
  SessionBound = 3
INVARIANTS LossBounded StreamSound WorkersSound RecordingSound
PROPERTIES OrderWhilePrompt FlushEnds StreamEnds LeaseRefined HeldCallEnds
CHECK_DEADLOCK FALSE
