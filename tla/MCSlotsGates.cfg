\* Three tasks on two permits, limits that change under way, cancellations.
SPECIFICATION Spec
CONSTANTS
  t1 = t1
  t2 = t2
  t3 = t3
  Task <- MCThree
  Cancellable <- MCThree
  Cap = 2
  Window = 1
  Reserve <- MCReserve2
  Actual = {1}
  RpmLimits = {1, 2}
  TpmLimits = {3}
  Rpm0 = 1
  Tpm0 = 3
  Defaults = {2}
SYMMETRY MCSymmetry
INVARIANTS TypeOK PermitConservation NoIdlePermit NoGhostWaiters
PROPERTIES FifoWakeups AdmissionRefined
