\* One instant in two spellings, two targets, the last one not always reachable,
\* and two runs of each broadcast.
SPECIFICATION Spec
CONSTANTS
  one = one
  two = two
  morning = morning
  Owners = {one, two}
  utc = utc
  local = local
  Instants = {morning}
  Offsets = {utc, local}
  NTargets = 2
  Deployments <- WithAndWithoutLast
  MaxTokens = 2
  MaxAttempts = 2
  MaxFaults = 1
  None = None
SYMMETRY Symmetry
INVARIANTS
  TypeOK
  OncePerTarget
  FailureReachedNobody
PROPERTIES
  KeepsLedger
CHECK_DEADLOCK FALSE
