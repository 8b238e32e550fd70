\* Three modules in every order of dependence; two requests of two principals at
\* a time.
SPECIFICATION FairServiceSpec
CONSTANTS
  t1 = t1
  t2 = t2
  alice = alice
  bob = bob
  alices = alices
  r1 = r1
  plan1 = plan1
  ModuleIds = {1, 2, 3, 4, 5, 6}
  Namespaces = {"agent", "news", "talk", "plan"}
  Names = {"agent", "news", "talk", "plan", "calendar", "calendar/feishu", "calendar/local"}
  Reserved <- ReservedNames
  Configurations <- Standard
  NoModule = NoModule
  Serving <- Served
  Tasks = {t1, t2}
  Principals = {alice, bob}
  Conversations = {alices}
  OwnerOf <- Owners
  RequestIds = {r1}
  PlanIds = {plan1}
  MaxSteps = 2
  Limit = 1
  Capacity = 1
  MaxRuns = 2
  MaxWindow = 1
  None = None
INVARIANTS
  ServiceTypeOK
  OrderedAlike
  RefusedIfUnsound
  LeansOnOpen
  AnswersInContext
  WithinLimit
PROPERTIES
  PlansPrivate
  EveryRequestEnds
