\* Two accounts and one scope: links followed by anyone, refreshes whose replies
\* are lost or leave things out, and the lock.
SPECIFICATION FairSpec
CONSTANTS
  alice = alice
  bob = bob
  read = read
  write = write
  Tasks = {t1, t2}
  Accounts = {alice, bob}
  Scopes = {read}
  Needs <- OneNeed
  StateIds = {1}
  MaxGrants = 3
  MaxFaults = 1
  None = None
INVARIANTS
  TypeOK
  CredentialBelongs
  StateConsumedOnce
  RefreshedOnce
  ScopesTruthful
PROPERTIES
  LockPassed
