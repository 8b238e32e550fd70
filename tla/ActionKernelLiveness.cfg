\* No faults, fair tasks: claims and executions come to an end.
SPECIFICATION FairSpec
CONSTANTS
  feishu = feishu
  apikey = apikey
  stranger = stranger
  ours = ours
  theirs = theirs
  None = None
  Tasks = {t1, t2}
  Slots = {s1}
  Principals = {feishu}
  Accounts = {ours, theirs}
  AccountOf <- MCAccountOf
  OwnerOf <- MCOwnerOf
  Args = {a1}
  Versions = {v1}
  Specs <- RetriedIntent
  ConfirmModes = {FALSE}
  AuthOutcomes = {"granted", "denied"}
  LocalOutcomes = {"failure", "timeout"}
  ReconcileAnswers = {"found", "absent", "silent"}
  MaxCalls = 2
  MaxFaults = 0
PROPERTY RowsSettle
