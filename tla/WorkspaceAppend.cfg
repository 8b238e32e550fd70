\* One text to append, its answer lost, and a retry.
SPECIFICATION Spec
CONSTANTS
  w1 = w1
  w2 = w2
  alice = alice
  bob = bob
  Writes = {w1}
  Asked <- OnlyAppend
  Principals = {alice}
  MaxAttempts = 2
  None = None
INVARIANTS
  AppendedOnce
CHECK_DEADLOCK FALSE
