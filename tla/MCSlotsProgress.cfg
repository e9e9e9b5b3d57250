\* set_limit may be called with the limits already set, and calls cost more
\* than their reserve, or nothing.
SPECIFICATION FairSpec
CONSTANTS
  t1 = t1
  t2 = t2
  t3 = t3
  Task <- MCThree
  Cancellable <- MCNone
  Cap = 2
  Window = 1
  Reserve <- MCReserveMixed
  Actual = {3}
  RpmLimits = {2}
  TpmLimits = {3}
  Rpm0 = 2
  Tpm0 = 3
  Defaults = {}
INVARIANTS RpmOvershoot LedgerCovered
PROPERTY NoWaiterStarves
