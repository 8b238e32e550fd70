\* A callback that completes while a refresh is under way.
SPECIFICATION Spec
CONSTANTS
  alice = alice
  bob = bob
  read = read
  write = write
  Tasks = {t1, t2}
  Accounts = {alice}
  Scopes = {read, write}
  Needs <- TwoNeeds
  StateIds = {1, 2}
  MaxGrants = 3
  MaxFaults = 0
  None = None
INVARIANTS
  AuthorizationSticks
SYMMETRY Symmetric
