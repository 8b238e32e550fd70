\* No faults, no denial: a reconcile and a retry of one UNKNOWN action race.
SPECIFICATION Spec
CONSTANTS
  feishu = feishu
  apikey = apikey
  stranger = stranger
  ours = ours
  theirs = theirs
  None = None
  Tasks = {t1, t2}
  Slots = {s1}
  Principals = {feishu}
  Accounts = {ours, theirs}
  AccountOf <- MCAccountOf
  OwnerOf <- MCOwnerOf
  Args = {a1}
  Versions = {v1}
  Specs <- RetriedIntent
  ConfirmModes = {FALSE}
  AuthOutcomes = {"granted"}
  LocalOutcomes = {"not_sent"}
  ReconcileAnswers = {"found", "silent"}
  MaxCalls = 2
  MaxFaults = 0
INVARIANT SettledRecordsAgree
