------------------------------- MODULE Requests -------------------------------
(***************************************************************************)
(* Requests on their way through the server: authenticated and counted,    *)
(* chats waiting for their conversation and routed by the language model,  *)
(* intents executed; the conversation's answer and the two messages it     *)
(* leaves, the agent's loop over the intents offered to it, and the plans  *)
(* both can save, load and, after a confirmation, delete.                  *)
(*                                                                         *)
(* A task serves one request at a time and stops where the code awaits.    *)
(* What the dispatcher does with writes is ActionKernel's; here a write    *)
(* happens, or its task is cut off.  The language model is external: it    *)
(* may decide anything.                                                    *)
(***************************************************************************)
EXTENDS Naturals, Sequences, FiniteSets, Functions

CONSTANTS
  Tasks,         \* request-serving coroutines
  Principals,
  Conversations, \* conversation keys
  OwnerOf,       \* the principal in each conversation's key
  RequestIds,    \* X-Request-Id as clients choose it
  PlanIds,
  MaxSteps,      \* steps of one agent run
  Limit,         \* requests of one principal in one window
  Capacity,      \* counts kept before old ones are dropped
  MaxRuns,       \* bound: executions
  MaxWindow,     \* bound: the last window
  None

ASSUME RequestsAssumption ==
  /\ OwnerOf \in [Conversations -> Principals]
  /\ MaxSteps \in Nat /\ Limit \in Nat /\ Capacity \in Nat
  /\ MaxRuns \in Nat /\ MaxWindow \in Nat
  /\ None \notin Principals \cup Conversations
  /\ IsFiniteSet(Tasks)

VARIABLES
  place,    \* where each task is
  request,  \* what each busy task serves
  run,      \* the number of its execution, 0 before it has one
  step,     \* the router's attempt, or the agent's step
  seen,     \* how many messages of the conversation the model was given
  found,    \* whose plan was loaded
  log,      \* the messages of each conversation
  plan,     \* by plan id: who it belongs to
  asked,    \* deletions waiting for a confirmation
  runs,     \* executions so far
  counts,   \* the rate limiter's counts, by principal and window
  window,   \* the minute
  admitted  \* requests admitted in this window, by principal

serving == <<place, request, run, step, seen, found>>
stored == <<log, plan, asked>>
limiter == <<counts, window, admitted>>
requestVars == <<serving, stored, runs, limiter>>

-----------------------------------------------------------------------------
\* conversation.respond, agent.execute, and the intents of the plan module.
Intents == {"respond", "agent", "get", "save", "delete"}

\* The exposed intents but the agent itself.
AgentTools == {"get", "save", "delete"}

Requested ==
  [who: Principals, id: RequestIds, conversation: Conversations \cup {None},
   intent: Intents \cup {None}, plan: PlanIds]

\* A message carries its execution, and how much of the conversation was known
\* when it was written.
Messages ==
  [role: {"user", "assistant"}, id: RequestIds \cup 1 .. MaxRuns, basis: Nat]

Deletions ==
  [run: 1 .. MaxRuns, who: Principals, plan: PlanIds]

Handling == {"answer", "user", "assistant", "decide", "get", "save", "delete"}
Places == {"idle", "lock", "route", "start", "reply"} \cup Handling

Each(value) == [t \in Tasks |-> value]

RequestsInit ==
  /\ place = Each("idle") /\ request = Each(None) /\ found = Each(None)
  /\ run = Each(0) /\ step = Each(0) /\ seen = Each(0)
  /\ log = [c \in Conversations |-> <<>>]
  /\ plan = [p \in PlanIds |-> None]
  /\ asked = {}
  /\ runs = 0
  /\ counts = <<>>
  /\ window = 0
  /\ admitted = [p \in Principals |-> 0]

-----------------------------------------------------------------------------
(* FixedWindowRateLimiter.allow, which gives nobody else a turn.           *)

CountOf(p) == IF <<p, window>> \in DOMAIN counts THEN counts[<<p, window>>] ELSE 0

\* Faulty: the newest counts are dropped.
FaultyKept(entry) == entry[2] < window

\* This window's counts and the last one's are kept.
Kept(entry) == entry[2] + 1 >= window

Counted(p) ==
  [entry \in DOMAIN counts \cup {<<p, window>>} |->
     IF entry = <<p, window>> THEN CountOf(p) + 1 ELSE counts[entry]]

Pruned(table) ==
  IF Cardinality(DOMAIN table) > Capacity
  THEN RestrictDomain(table, Kept)
  ELSE table

Allow(p) ==
  /\ CountOf(p) < Limit
  /\ counts' = Pruned(Counted(p))
  /\ admitted' = [admitted EXCEPT ![p] = @ + 1]
  /\ UNCHANGED window

NextWindow ==
  /\ window < MaxWindow /\ window' = window + 1
  /\ admitted' = [p \in Principals |-> 0]
  /\ UNCHANGED <<serving, stored, runs, counts>>

-----------------------------------------------------------------------------
(* A request comes in.                                                     *)

\* Executions begun, and those of requests that wait.
Begun == runs + Cardinality({t \in Tasks : place[t] # "idle" /\ run[t] = 0})

Serve(t, first, what) ==
  /\ place[t] = "idle" /\ Begun < MaxRuns /\ Allow(what.who)
  /\ place' = [place EXCEPT ![t] = first]
  /\ request' = [request EXCEPT ![t] = what]
  /\ UNCHANGED <<run, step, seen, found, stored, runs>>

Chat(t, c, i, p) ==
  Serve(t, "lock",
    [who |-> OwnerOf[c], id |-> i, conversation |-> c, intent |-> None, plan |-> p])

\* POST /api/v1/intents/.../execute: no conversation, no lock.
ExecuteIntent(t, who, i, intent, p) ==
  Serve(t, "start",
    [who |-> who, id |-> i, conversation |-> None, intent |-> intent, plan |-> p])

Conversation(t) == request[t].conversation
Inside(t, c) ==
  place[t] \notin {"idle", "lock", "reply"} /\ Conversation(t) = c

\* Faulty: conversations are not waited for.
FaultyUnlocked(c) == TRUE

Unlocked(c) == \A t \in Tasks : ~Inside(t, c)

Goto(t, next) == place' = [place EXCEPT ![t] = next]

EnterConversation(t) ==
  /\ place[t] = "lock" /\ Unlocked(Conversation(t))
  /\ Goto(t, "route")
  /\ UNCHANGED <<request, run, step, seen, found, stored, runs, limiter>>

-----------------------------------------------------------------------------
(* TopLevelRouter.route.                                                   *)

\* Confident, complete, of an exposed intent with valid arguments.
Routed(t, intent) ==
  /\ place[t] = "route"
  /\ request' = [request EXCEPT ![t].intent = intent]
  /\ step' = [step EXCEPT ![t] = 0]
  /\ Goto(t, "start")
  /\ UNCHANGED <<run, seen, found, stored, runs, limiter>>

\* Not so, and the model is told and asked once more.
Repair(t) ==
  /\ place[t] = "route" /\ step[t] = 0
  /\ step' = [step EXCEPT ![t] = 1]
  /\ UNCHANGED <<place, request, run, seen, found, stored, runs, limiter>>

\* Missing fields, low confidence, invalid twice; or the model fails.
NotRouted(t) ==
  /\ place[t] = "route"
  /\ Goto(t, "reply")
  /\ UNCHANGED <<request, run, step, seen, found, stored, runs, limiter>>

-----------------------------------------------------------------------------
(* IntentDispatcher.execute of a read, or of a write not done before.      *)

FirstPlace(intent) ==
  CASE intent = "respond" -> "answer"
    [] intent = "agent" -> "decide"
    [] OTHER -> intent

\* The context is assembled and the handler called.
Execute(t) ==
  /\ place[t] = "start"
  /\ runs' = runs + 1
  /\ run' = [run EXCEPT ![t] = runs + 1]
  /\ seen' = [seen EXCEPT ![t] =
       IF Conversation(t) = None THEN 0 ELSE Len(log[Conversation(t)])]
  /\ Goto(t, FirstPlace(request[t].intent))
  /\ UNCHANGED <<request, step, found, stored, limiter>>

\* A request that is refused, the timeout, or an exception of the handler: it
\* stops where it is.
GiveUp(t) ==
  /\ place[t] \in Handling
  /\ Goto(t, "reply")
  /\ UNCHANGED <<request, run, step, seen, found, stored, runs, limiter>>

Reply(t) ==
  /\ place[t] = "reply"
  /\ Goto(t, "idle")
  /\ request' = [request EXCEPT ![t] = None]
  /\ run' = [run EXCEPT ![t] = 0]
  /\ step' = [step EXCEPT ![t] = 0]
  /\ seen' = [seen EXCEPT ![t] = 0]
  /\ found' = [found EXCEPT ![t] = None]
  /\ UNCHANGED <<stored, runs, limiter>>

-----------------------------------------------------------------------------
(* conversation.respond.                                                   *)

Answer(t) ==
  /\ place[t] = "answer"
  /\ Goto(t, IF Conversation(t) = None THEN "reply" ELSE "user")
  /\ UNCHANGED <<request, run, step, seen, found, stored, runs, limiter>>

Message(t, role, i) == [role |-> role, id |-> i, basis |-> seen[t]]

\* Message ids are unique over all conversations.
Known(i) == \E c \in Conversations : \E k \in DOMAIN log[c] : log[c][k].id = i

AppendMessage(t, message) ==
  log' = IF Known(message.id) THEN log
         ELSE [log EXCEPT ![Conversation(t)] = Append(@, message)]

\* The user's message has the request's id, the answer that of the execution.
AppendUser(t) ==
  /\ place[t] = "user"
  /\ AppendMessage(t, Message(t, "user", request[t].id))
  /\ Goto(t, "assistant")
  /\ UNCHANGED <<request, run, step, seen, found, plan, asked, runs, limiter>>

AppendAssistant(t) ==
  /\ place[t] = "assistant"
  /\ AppendMessage(t, Message(t, "assistant", run[t]))
  /\ Goto(t, "reply")
  /\ UNCHANGED <<request, run, step, seen, found, plan, asked, runs, limiter>>

-----------------------------------------------------------------------------
(* agent.execute.                                                          *)

\* The model answers, or asks the user; or the steps are used up.
Conclude(t) ==
  /\ place[t] = "decide"
  /\ Goto(t, "reply")
  /\ UNCHANGED <<request, run, step, seen, found, stored, runs, limiter>>

\* The model calls an intent, which a child request executes.
CallTool(t, intent, p) ==
  /\ place[t] = "decide" /\ step[t] < MaxSteps
  /\ IF intent \in AgentTools
     THEN /\ request' = [request EXCEPT ![t].plan = p]
          /\ Goto(t, intent)
          /\ UNCHANGED step
     ELSE /\ step' = [step EXCEPT ![t] = @ + 1]
          /\ UNCHANGED <<place, request>>
  /\ UNCHANGED <<run, seen, found, stored, runs, limiter>>

\* Faulty: only calls that are not allowed are counted.
FaultyDone(t) ==
  /\ Goto(t, IF request[t].intent = "agent" THEN "decide" ELSE "reply")
  /\ UNCHANGED step

\* An intent has its result: the agent's next observation, or the reply.
Done(t) ==
  IF request[t].intent = "agent"
  THEN Goto(t, "decide") /\ step' = [step EXCEPT ![t] = @ + 1]
  ELSE Goto(t, "reply") /\ UNCHANGED step

\* A child request fails by itself, and the agent goes on.
ToolFails(t) ==
  /\ place[t] \in AgentTools /\ request[t].intent = "agent"
  /\ Done(t)
  /\ UNCHANGED <<request, run, seen, found, stored, runs, limiter>>

-----------------------------------------------------------------------------
(* The plan module.                                                        *)

Plan(t) == request[t].plan
Who(t) == request[t].who

\* Faulty: whoever knows the id.
FaultyVisible(p, who) == plan[p] # None

Visible(p, who) == plan[p] = who

GetPlan(t) ==
  /\ place[t] = "get"
  /\ found' = [found EXCEPT ![t] =
       IF Visible(Plan(t), Who(t)) THEN plan[Plan(t)] ELSE None]
  /\ Done(t)
  /\ UNCHANGED <<request, run, seen, stored, runs, limiter>>

\* Whoever saves a plan has it, whosever it was.
SavePlan(t) ==
  /\ place[t] = "save"
  /\ plan' = [plan EXCEPT ![Plan(t)] = Who(t)]
  /\ Done(t)
  /\ UNCHANGED <<request, run, seen, found, log, asked, runs, limiter>>

Deletion(t) == [run |-> run[t], who |-> Who(t), plan |-> Plan(t)]

\* A deletion is confirmed first: the request, or the agent's run, ends.
AskToDelete(t) ==
  /\ place[t] = "delete"
  /\ asked' = asked \cup {Deletion(t)}
  /\ Goto(t, "reply")
  /\ UNCHANGED <<request, run, step, seen, found, log, plan, runs, limiter>>

Deletes(d) ==
  /\ d \in asked
  /\ asked' = asked \ {d}
  /\ plan' = IF Visible(d.plan, d.who) THEN [plan EXCEPT ![d.plan] = None] ELSE plan
  /\ UNCHANGED <<serving, log, runs, limiter>>

-----------------------------------------------------------------------------
Arrive(t) ==
  \E i \in RequestIds, p \in PlanIds :
    \/ \E c \in Conversations : Chat(t, c, i, p)
    \/ \E who \in Principals, intent \in Intents : ExecuteIntent(t, who, i, intent, p)

Handle(t) ==
  \/ Answer(t) \/ AppendUser(t) \/ AppendAssistant(t) \/ Conclude(t)
  \/ \E intent \in Intents, p \in PlanIds : CallTool(t, intent, p)
  \/ ToolFails(t) \/ GetPlan(t) \/ SavePlan(t) \/ AskToDelete(t) \/ GiveUp(t)

Step(t) ==
  \/ EnterConversation(t)
  \/ \E intent \in Intents : Routed(t, intent)
  \/ Repair(t) \/ NotRouted(t) \/ Execute(t) \/ Handle(t) \/ Reply(t)

RequestsNext ==
  \/ \E t \in Tasks : Arrive(t) \/ Step(t)
  \/ \E d \in asked : Deletes(d)
  \/ NextWindow

RequestsSpec == RequestsInit /\ [][RequestsNext]_requestVars

-----------------------------------------------------------------------------
(* Properties.                                                             *)

\* Tasks, messages, plans and counts keep their shape.
RequestsTypeOK ==
  /\ place \in [Tasks -> Places]
  /\ request \in [Tasks -> Requested \cup {None}]
  /\ run \in [Tasks -> 0 .. MaxRuns]
  /\ step \in [Tasks -> 0 .. MaxSteps + 1]
  /\ seen \in [Tasks -> Nat]
  /\ found \in [Tasks -> Principals \cup {None}]
  /\ log \in [Conversations -> Seq(Messages)]
  /\ plan \in [PlanIds -> Principals \cup {None}]
  /\ asked \subseteq Deletions
  /\ runs \in 0 .. MaxRuns
  /\ DOMAIN counts \subseteq Principals \X (0 .. MaxWindow)
  /\ Range(counts) \subseteq 1 .. Limit
  /\ window \in 0 .. MaxWindow
  /\ admitted \in [Principals -> Nat]

\* An answer is given to the conversation the model has seen: nothing comes
\* between that and the answer but the question itself.
AnswersInContext ==
  \A c \in Conversations : \A k \in DOMAIN log[c] :
    log[c][k].role = "assistant" => k <= log[c][k].basis + 2

\* Plans change hands, and deletions wait for a confirmation: still nobody is
\* given the plan of somebody else, and a deletion only ever removes a plan that
\* belongs, by then, to whoever asked for it.
PlansPrivate ==
  [][/\ \A t \in Tasks : found'[t] # found[t] /\ found'[t] # None => found'[t] = Who(t)
     /\ \A p \in PlanIds : plan'[p] = None /\ plan[p] # None =>
          \E d \in asked \ asked' : d.plan = p /\ d.who = plan[p]]_requestVars

\* No principal has more requests admitted in a window than the limit, also
\* when the table of counts is full.
WithinLimit == \A p \in Principals : admitted[p] <= Limit
=============================================================================
