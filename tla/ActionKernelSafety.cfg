\* Two requests at a time on one idempotency slot, any intent, one fault.
SPECIFICATION Spec
CONSTANTS
  feishu = feishu
  apikey = apikey
  stranger = stranger
  ours = ours
  theirs = theirs
  None = None
  Tasks = {t1, t2}
  Slots = {s1}
  Principals = {feishu, apikey, stranger}
  Accounts = {ours, theirs}
  AccountOf <- MCAccountOf
  OwnerOf <- MCOwnerOf
  Args = {a1}
  Versions = {v1, v2}
  Specs <- AllIntents
  ConfirmModes = {TRUE, FALSE}
  AuthOutcomes = {"granted", "denied"}
  LocalOutcomes = {"clarify", "failure", "not_sent", "timeout"}
  ReconcileAnswers = {"found", "absent", "silent"}
  MaxCalls = 2
  MaxFaults = 1
SYMMETRY Symmetry
INVARIANTS
  TypeOK
  HandlerExclusive
  ClaimExclusive
  RunsWhatWasConfirmed
  RejectedNeverRuns
  SucceededIsApplied
  FailedHadNoEffect
  NoBlindRetry
PROPERTIES
  VerdictStable
  LedgerSpec
