\* Two writes of one or two principals, two runs each.
SPECIFICATION Spec
CONSTANTS
  w1 = w1
  w2 = w2
  alice = alice
  bob = bob
  Writes = {w1, w2}
  Asked <- EveryShape
  Principals = {alice, bob}
  MaxAttempts = 2
  None = None
SYMMETRY Symmetry
INVARIANTS
  TypeOK
  WritesAsItsPrincipal
  KeyedOnce
  NamedIsWhole
  FailureStopsShort
CHECK_DEADLOCK FALSE
