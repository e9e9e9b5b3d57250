\* The RPM limit is lifted while a caller waits.
SPECIFICATION Spec
CONSTANTS
  t1 = t1
  t2 = t2
  t3 = t3
  Task <- MCTwo
  Cancellable <- MCTwo
  Cap = 2
  Window = 1
  Reserve <- MCReserve2
  Actual = {1}
  RpmLimits = {0}
  TpmLimits = {}
  Rpm0 = 1
  Tpm0 = 0
  Defaults = {}
INVARIANT UnlimitedFreesWaiters
