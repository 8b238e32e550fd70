\* The answer "did not reach the remote side" after an exception behind the handler.
SPECIFICATION Spec
CONSTANTS
  feishu = feishu
  apikey = apikey
  stranger = stranger
  ours = ours
  theirs = theirs
  None = None
  Tasks = {t1, t2}
  Slots = {s1}
  Principals = {feishu}
  Accounts = {ours, theirs}
  AccountOf <- MCAccountOf
  OwnerOf <- MCOwnerOf
  Args = {a1}
  Versions = {v1}
  Specs <- RetriedIntent
  ConfirmModes = {FALSE}
  AuthOutcomes = {"granted", "denied"}
  LocalOutcomes = {"clarify", "failure", "not_sent", "timeout"}
  ReconcileAnswers = {"found", "absent", "silent"}
  MaxCalls = 2
  MaxFaults = 1
INVARIANT NotRunReachedNobody
