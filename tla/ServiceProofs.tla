----------------------------- MODULE ServiceProofs -----------------------------
(***************************************************************************)
(* Safety of the service for every number of tasks, principals,            *)
(* conversations, plans, steps, windows and executions, every limit and    *)
(* capacity, and every set of deployments.                                 *)
(*                                                                         *)
(* Requests are proved first.  The argument is in three parts that do not  *)
(* need each other: what a task carries at each place (tasks and rows keep *)
(* their shape), what it knows of its conversation (which nobody else is   *)
(* in), and what the table of counts says of the present window.  The      *)
(* process is proved in AssemblyProofs.  Together: a process that ends     *)
(* takes its tasks and counts with it, which is all that either needs to   *)
(* know of the other.                                                      *)
(***************************************************************************)
EXTENDS Service, AssemblyProofs

-----------------------------------------------------------------------------
(* The inductive invariant.                                                *)

TaskTypes ==
  /\ place \in [Tasks -> Places]
  /\ request \in [Tasks -> Requested \cup {None}]
  /\ run \in [Tasks -> 0 .. MaxRuns]
  /\ step \in [Tasks -> 0 .. MaxSteps + 1]
  /\ seen \in [Tasks -> Nat]
  /\ found \in [Tasks -> Principals \cup {None}]

RowTypes ==
  /\ log \in [Conversations -> Seq(Messages)]
  /\ plan \in [PlanIds -> Principals \cup {None}]
  /\ asked \subseteq Deletions

\* What a task carries at each place.
Carries(t) ==
  /\ place[t] # "idle" => request[t] \in Requested
  /\ place[t] \in {"idle", "lock", "route", "start"} => run[t] = 0
  /\ place[t] \in Handling => run[t] \in 1 .. MaxRuns
  /\ place[t] \in Handling \cup {"start"} => request[t].intent \in Intents
  /\ place[t] \in {"user", "assistant"} => Conversation(t) # None
  /\ place[t] \in AgentTools /\ request[t].intent = "agent" => step[t] < MaxSteps

Carried == \A t \in Tasks : Carries(t)

\* Requests that have no execution yet; MaxRuns is kept for them.
Waiting == {t \in Tasks : place[t] # "idle" /\ run[t] = 0}
Bounded == runs \in Nat /\ runs + Cardinality(Waiting) <= MaxRuns

\* One task at a time is in a conversation.
Alone ==
  \A t, u \in Tasks : \A c \in Conversations : Inside(t, c) /\ Inside(u, c) => t = u

\* What the model was given of the conversation is all there is, but for the
\* question.
Knows(t) ==
  Conversation(t) # None =>
    /\ place[t] \in {"answer", "user"} => Len(log[Conversation(t)]) = seen[t]
    /\ place[t] = "assistant" => Len(log[Conversation(t)]) <= seen[t] + 1

AllKnow == \A t \in Tasks : Knows(t)

\* The table holds the count of every principal in the present window.
Counts ==
  /\ counts = [entry \in DOMAIN counts |-> counts[entry]]
  /\ DOMAIN counts \subseteq Principals \X (0 .. MaxWindow)
  /\ \A entry \in DOMAIN counts : counts[entry] \in 1 .. Limit /\ entry[2] <= window
  /\ window \in 0 .. MaxWindow
  /\ admitted \in [Principals -> Nat]
  /\ \A p \in Principals : admitted[p] = CountOf(p)

Shapes == TaskTypes /\ RowTypes /\ Carried
Context == Alone /\ AllKnow /\ AnswersInContext

RequestsInv == Shapes /\ Bounded /\ Context /\ Counts

-----------------------------------------------------------------------------
(* The moves of a task.                                                    *)

OthersStay(t) ==
  \A u \in Tasks \ {t} :
    /\ place'[u] = place[u] /\ request'[u] = request[u] /\ run'[u] = run[u]
    /\ step'[u] = step[u] /\ seen'[u] = seen[u] /\ found'[u] = found[u]

\* A step of one task leaves what the others carry.
LEMMA CarriedBy ==
  ASSUME Carried, NEW t \in Tasks, OthersStay(t), Carries(t)'
  PROVE  Carried'
  BY DEF Carried, Carries, OthersStay, Conversation

\* Who waits has an execution reserved.
LEMMA WaitingCount ==
  /\ IsFiniteSet(Waiting) /\ Cardinality(Waiting) \in Nat
  /\ \A t \in Waiting : Cardinality(Waiting) >= 1
<1>1. Waiting \in SUBSET Tasks /\ IsFiniteSet(Tasks)
  BY RequestsAssumption DEF Waiting
<1>2. IsFiniteSet(Waiting)
  BY <1>1, FS_Subset
<1> QED
  BY <1>2, FS_CardinalityType, FS_EmptySet

LEMMA MayBegin ==
  ASSUME Bounded, TaskTypes, NEW t \in Tasks, Carries(t), place[t] = "start"
  PROVE  runs + 1 \in 1 .. MaxRuns
<1>1. t \in Waiting
  BY DEF Waiting, Carries
<1> QED
  BY <1>1, WaitingCount, RequestsAssumption DEF Bounded

\* Every step keeps the shape of the tasks.
LEMMA StepShapes ==
  ASSUME TaskTypes, RowTypes, Bounded, NEW t \in Tasks, Carries(t), Step(t)
  PROVE  TaskTypes' /\ OthersStay(t) /\ Carries(t)'
<1> DEFINE Held == TaskTypes' /\ OthersStay(t) /\ Carries(t)'
<1> SUFFICES Held
  OBVIOUS
<1> USE RequestsAssumption DEF Goto, TaskTypes, OthersStay, Carries, Conversation
<1>1. CASE EnterConversation(t)
  BY <1>1 DEF EnterConversation, Places, Handling, AgentTools
<1>2. ASSUME NEW intent \in Intents, Routed(t, intent) PROVE Held
  <2>1. request[t] \in Requested /\ request'[t] = [request[t] EXCEPT !.intent = intent]
    BY <1>2 DEF Routed
  <2>2. request'[t] \in Requested /\ request'[t].intent = intent
    BY <2>1 DEF Requested
  <2> QED
    BY <1>2, <2>1, <2>2 DEF Routed, Places, Handling, AgentTools
<1>3. CASE Repair(t)
  BY <1>3 DEF Repair, Handling, AgentTools
<1>4. CASE NotRouted(t) \/ GiveUp(t) \/ Conclude(t)
  BY <1>4 DEF NotRouted, GiveUp, Conclude, Places, Handling, AgentTools
<1>5. CASE Execute(t)
  <2>1. runs + 1 \in 1 .. MaxRuns
    BY <1>5, MayBegin DEF Execute
  <2>2. request[t] \in Requested /\ request[t].intent \in Intents
    BY <1>5 DEF Execute
  <2>3. FirstPlace(request[t].intent) \in {"answer", "decide", "get", "save", "delete"}
    BY <2>2 DEF FirstPlace, Intents
  <2>4. request[t].intent = "agent" => FirstPlace(request[t].intent) = "decide"
    BY DEF FirstPlace
  <2>5. seen'[t] \in Nat /\ seen' = [seen EXCEPT ![t] = seen'[t]]
    <3>1. Conversation(t) # None => log[Conversation(t)] \in Seq(Messages)
      BY <2>2 DEF Requested, RowTypes
    <3> QED
      BY <1>5, <3>1, LenProperties DEF Execute
  <2> QED
    BY <1>5, <2>1, <2>2, <2>3, <2>4, <2>5 DEF Execute, Places, Handling, AgentTools
<1>6. CASE Reply(t)
  BY <1>6 DEF Reply, Places, Handling, AgentTools
<1>7. CASE Answer(t)
  BY <1>7 DEF Answer, Places, Handling, AgentTools
<1>8. CASE AppendUser(t) \/ AppendAssistant(t)
  BY <1>8 DEF AppendUser, AppendAssistant, Places, Handling, AgentTools
<1>9. ASSUME NEW intent \in Intents, NEW p \in PlanIds, CallTool(t, intent, p) PROVE Held
  <2>1. CASE intent \in AgentTools
    <3>1. request[t] \in Requested /\ request'[t] = [request[t] EXCEPT !.plan = p]
      BY <1>9, <2>1 DEF CallTool, Handling
    <3>2. request'[t] \in Requested /\ request'[t].intent = request[t].intent
      BY <3>1 DEF Requested
    <3> QED
      BY <1>9, <2>1, <3>1, <3>2 DEF CallTool, Places, Handling, AgentTools
  <2>2. CASE intent \notin AgentTools
    BY <1>9, <2>2 DEF CallTool, Handling, AgentTools
  <2> QED
    BY <2>1, <2>2
<1>10. CASE ToolFails(t)
  BY <1>10 DEF ToolFails, Done, Places, Handling, AgentTools
<1>11. CASE GetPlan(t)
  BY <1>11 DEF GetPlan, Done, Visible, Plan, Who, Requested, Places, Handling, AgentTools
<1>12. CASE SavePlan(t)
  BY <1>12 DEF SavePlan, Done, Places, Handling, AgentTools
<1>13. CASE AskToDelete(t)
  BY <1>13 DEF AskToDelete, Places, Handling, AgentTools
<1> QED
  BY <1>1, <1>2, <1>3, <1>4, <1>5, <1>6, <1>7, <1>8, <1>9, <1>10, <1>11, <1>12, <1>13
  DEF Step, Handle

\* Every step keeps the shape of the rows.
LEMMA StepRows ==
  ASSUME TaskTypes, RowTypes, NEW t \in Tasks, Carries(t), Step(t)
  PROVE  RowTypes'
<1> USE DEF RowTypes
<1>1. place[t] # "idle" => Plan(t) \in PlanIds /\ Who(t) \in Principals
  BY DEF Carries, Requested, Plan, Who
<1>2. ASSUME NEW message \in Messages, Conversation(t) \in Conversations, AppendMessage(t, message)
      PROVE  log' \in [Conversations -> Seq(Messages)]
  <2>1. Append(log[Conversation(t)], message) \in Seq(Messages)
    BY <1>2
  <2> QED
    BY <1>2, <2>1 DEF AppendMessage
<1>3. CASE AppendUser(t)
  <2>1. Conversation(t) \in Conversations /\ request[t].id \in RequestIds
    BY <1>3 DEF AppendUser, Carries, Requested, Conversation, Handling
  <2>2. Message(t, "user", request[t].id) \in Messages
    BY <2>1 DEF Message, Messages, TaskTypes
  <2> QED
    BY <1>2, <1>3, <2>1, <2>2 DEF AppendUser
<1>4. CASE AppendAssistant(t)
  <2>1. Conversation(t) \in Conversations /\ run[t] \in 1 .. MaxRuns
    BY <1>4 DEF AppendAssistant, Carries, Requested, Conversation, Handling
  <2>2. Message(t, "assistant", run[t]) \in Messages
    BY <2>1 DEF Message, Messages, TaskTypes
  <2> QED
    BY <1>2, <1>4, <2>1, <2>2 DEF AppendAssistant
<1>5. CASE SavePlan(t)
  BY <1>1, <1>5 DEF SavePlan
<1>6. CASE AskToDelete(t)
  <2>1. run[t] \in 1 .. MaxRuns /\ Deletion(t) \in Deletions
    BY <1>1, <1>6 DEF AskToDelete, Carries, Handling, Deletion, Deletions
  <2> QED
    BY <1>6, <2>1 DEF AskToDelete
<1> QED
  BY <1>3, <1>4, <1>5, <1>6 DEF Step, Handle, stored, EnterConversation, Routed, Repair,
    NotRouted, Execute, Reply, Answer, Conclude, CallTool, ToolFails, GetPlan, GiveUp

\* Every step keeps an execution for who waits.
LEMMA StepBounded ==
  ASSUME TaskTypes, Bounded, NEW t \in Tasks, Carries(t), Step(t), OthersStay(t)
  PROVE  Bounded'
<1>1. MaxRuns \in Nat
  BY RequestsAssumption
<1>2. CASE Execute(t)
  <2>1. t \in Waiting /\ run'[t] # 0
    BY <1>2 DEF Execute, Waiting, Carries, TaskTypes, Bounded
  <2>2. Waiting' = Waiting \ {t}
    BY <2>1 DEF Waiting, OthersStay
  <2>3. Cardinality(Waiting') = Cardinality(Waiting) - 1
    BY <2>1, <2>2, WaitingCount, FS_RemoveElement
  <2> QED
    BY <1>1, <1>2, <2>3, WaitingCount DEF Execute, Bounded
<1>3. CASE ~Execute(t)
  <2>1. runs' = runs
    BY <1>3 DEF Step, Handle, EnterConversation, Routed, Repair, NotRouted, Reply, Answer,
      AppendUser, AppendAssistant, Conclude, CallTool, ToolFails, GetPlan, SavePlan,
      AskToDelete, GiveUp
  <2>2. place[t] # "idle" /\ (run'[t] = run[t] \/ place'[t] = "idle")
    BY <1>3 DEF Step, Handle, EnterConversation, Routed, Repair, NotRouted, Reply, Answer,
      AppendUser, AppendAssistant, Conclude, CallTool, ToolFails, GetPlan, SavePlan,
      AskToDelete, GiveUp, Goto, TaskTypes, Handling, AgentTools
  <2>3. Waiting' \in SUBSET Waiting
    BY <2>2 DEF Waiting, OthersStay
  <2>4. Cardinality(Waiting') <= Cardinality(Waiting) /\ Cardinality(Waiting') \in Nat
    BY <2>3, WaitingCount, FS_Subset, FS_CardinalityType
  <2> QED
    BY <1>1, <2>1, <2>4, WaitingCount DEF Bounded
<1> QED
  BY <1>2, <1>3

-----------------------------------------------------------------------------
(* Conversations.                                                          *)

\* Only EnterConversation brings a task into a conversation.
LEMMA StepAlone ==
  ASSUME TaskTypes, Alone, NEW t \in Tasks, Carries(t), Step(t), OthersStay(t)
  PROVE  Alone'
<1>1. ASSUME NEW c \in Conversations, Inside(t, c)', ~Inside(t, c)
      PROVE  Unlocked(c)
  BY <1>1 DEF Inside, Conversation, Carries, Requested, TaskTypes, Step, Handle,
    EnterConversation, Routed, Repair, NotRouted, Execute, Reply, Answer, AppendUser,
    AppendAssistant, Conclude, CallTool, ToolFails, Done, GetPlan, SavePlan, AskToDelete,
    GiveUp, Goto, FirstPlace, Intents, Handling, AgentTools
<1>2. \A u \in Tasks \ {t} : \A c \in Conversations : Inside(u, c)' => Inside(u, c)
  BY DEF Inside, Conversation, OthersStay
<1> QED
  BY <1>1, <1>2 DEF Alone, Unlocked

\* What a task adds to its conversation.
LEMMA Adds ==
  ASSUME RowTypes, NEW t \in Tasks, NEW message \in Messages,
         Conversation(t) \in Conversations, AppendMessage(t, message)
  PROVE  LET c == Conversation(t) IN
         /\ \A d \in Conversations \ {c} : log'[d] = log[d]
         /\ \/ log'[c] = log[c]
            \/ /\ Len(log'[c]) = Len(log[c]) + 1
               /\ \A k \in DOMAIN log'[c] :
                    log'[c][k] = IF k = Len(log[c]) + 1 THEN message ELSE log[c][k]
               /\ DOMAIN log'[c] = 1 .. Len(log[c]) + 1
<1>1. log[Conversation(t)] \in Seq(Messages)
  BY DEF RowTypes
<1> QED
  BY <1>1 DEF AppendMessage, RowTypes

\* Nobody else's knowledge is touched by what a task adds to its conversation.
LEMMA StepContext ==
  ASSUME TaskTypes, RowTypes, Carried, Context, NEW t \in Tasks, Step(t), OthersStay(t)
  PROVE  Context'
<1>t. Carries(t)
  BY DEF Carried
<1>a. Alone'
  BY <1>t, StepAlone DEF Context
<1>l. \A c \in Conversations : log[c] \in Seq(Messages) /\ Len(log[c]) \in Nat
  BY LenProperties DEF RowTypes
<1>c. place[t] # "idle" => Conversation(t) \in Conversations \cup {None}
  BY <1>t DEF Carries, Requested, Conversation
<1>m. ASSUME NEW message \in Messages, AppendMessage(t, message),
             Conversation(t) \in Conversations, place[t] \in {"user", "assistant"},
             Conversation(t)' = Conversation(t), UNCHANGED seen,
             \/ place[t] = "user" /\ place'[t] = "assistant" /\ message.role = "user"
             \/ place[t] = "assistant" /\ place'[t] = "reply" /\ message.basis = seen[t]
      PROVE  AllKnow' /\ AnswersInContext'
  <2> DEFINE c == Conversation(t)
  <2>1. \A d \in Conversations \ {c} : log'[d] = log[d]
    BY <1>m, Adds
  <2>2. Len(log[c]) <= seen[t] + 1 /\ (place[t] = "user" => Len(log[c]) = seen[t])
    BY <1>m, <1>l, <1>t DEF Context, AllKnow, Knows, Carries, TaskTypes
  <2>3. \/ log'[c] = log[c]
        \/ /\ Len(log'[c]) = Len(log[c]) + 1
           /\ \A k \in DOMAIN log'[c] :
                log'[c][k] = IF k = Len(log[c]) + 1 THEN message ELSE log[c][k]
           /\ DOMAIN log'[c] = 1 .. Len(log[c]) + 1
    BY <1>m, Adds
  <2>4. \A u \in Tasks \ {t} : Knows(u)'
    <3> SUFFICES ASSUME NEW u \in Tasks \ {t}, Conversation(u) # None,
                        place[u] \in {"answer", "user", "assistant"}
                 PROVE  Knows(u)'
      BY DEF Knows, OthersStay, Conversation
    <3>1. ~(Inside(u, c) /\ Inside(t, c))
      BY <1>m DEF Context, Alone
    <3>2. Conversation(u) # c
      BY <1>m, <3>1 DEF Inside
    <3>3. Conversation(u)' = Conversation(u) /\ seen'[u] = seen[u] /\ place'[u] = place[u]
      BY DEF OthersStay, Conversation
    <3>4. Conversation(u) \in Conversations
      BY DEF Carried, Carries, Requested, Conversation
    <3> QED
      BY <2>1, <3>2, <3>3, <3>4 DEF Context, AllKnow, Knows
  <2>5. Knows(t)'
    BY <1>m, <1>l, <2>2, <2>3 DEF Knows, TaskTypes
  <2>6. AnswersInContext'
    <3> SUFFICES ASSUME NEW d \in Conversations, NEW k \in DOMAIN log'[d],
                        log'[d][k].role = "assistant"
                 PROVE  k <= log'[d][k].basis + 2
      BY DEF AnswersInContext
    <3>1. CASE d # c \/ log'[c] = log[c]
      BY <2>1, <3>1 DEF Context, AnswersInContext
    <3>2. CASE d = c /\ log'[c] # log[c]
      <4>1. CASE k = Len(log[c]) + 1
        <5>1. log'[c][k] = message
          BY <2>3, <3>2, <4>1
        <5>2. message.basis = seen[t] /\ seen[t] \in Nat
          BY <1>m, <3>2, <5>1 DEF TaskTypes
        <5> QED
          BY <1>l, <2>2, <3>2, <4>1, <5>1, <5>2
      <4>2. CASE k # Len(log[c]) + 1
        <5>1. k \in DOMAIN log[c] /\ log'[c][k] = log[c][k]
          BY <1>l, <2>3, <3>2, <4>2
        <5> QED
          BY <3>2, <5>1 DEF Context, AnswersInContext
      <4> QED
        BY <4>1, <4>2
    <3> QED
      BY <3>1, <3>2
  <2> QED
    BY <2>4, <2>5, <2>6 DEF AllKnow
<1>1. CASE AppendUser(t)
  <2>1. Message(t, "user", request[t].id) \in Messages
    BY <1>t, <1>1 DEF AppendUser, Message, Messages, Carries, Requested, TaskTypes, Handling
  <2>2. /\ place[t] = "user" /\ place'[t] = "assistant" /\ Conversation(t)' = Conversation(t)
        /\ Conversation(t) \in Conversations
    BY <1>t, <1>1, <1>c DEF AppendUser, Goto, TaskTypes, Conversation, Carries
  <2> QED
    BY <1>m, <1>1, <1>a, <2>1, <2>2 DEF AppendUser, Message, Context
<1>2. CASE AppendAssistant(t)
  <2>1. Message(t, "assistant", run[t]) \in Messages
    BY <1>t, <1>2 DEF AppendAssistant, Message, Messages, Carries, TaskTypes, Handling
  <2>2. /\ place[t] = "assistant" /\ place'[t] = "reply" /\ Conversation(t)' = Conversation(t)
        /\ Conversation(t) \in Conversations
    BY <1>t, <1>2, <1>c DEF AppendAssistant, Goto, TaskTypes, Conversation, Carries
  <2> QED
    BY <1>m, <1>2, <1>a, <2>1, <2>2 DEF AppendAssistant, Message, Context
<1>3. CASE ~AppendUser(t) /\ ~AppendAssistant(t)
  <2>1. log' = log
    BY <1>3 DEF Step, Handle, stored, EnterConversation, Routed, Repair, NotRouted, Execute,
      Reply, Answer, Conclude, CallTool, ToolFails, GetPlan, SavePlan, AskToDelete, GiveUp
  <2>2. Knows(t)'
    <3>1. CASE Execute(t)
      BY <1>c, <2>1, <3>1 DEF Execute, Knows, Conversation, TaskTypes, Goto, FirstPlace
    <3>2. CASE Answer(t)
      BY <1>t, <1>c, <2>1, <3>2 DEF Answer, Knows, Conversation, TaskTypes, Goto, Context, AllKnow
    <3>3. CASE ~Execute(t) /\ ~Answer(t)
      BY <1>t, <1>3, <3>3 DEF Knows, Carries, TaskTypes, Step, Handle, EnterConversation, Routed,
        Repair, NotRouted, Reply, Conclude, CallTool, ToolFails, Done, GetPlan, SavePlan,
        AskToDelete, GiveUp, Goto, Handling, AgentTools
    <3> QED
      BY <3>1, <3>2, <3>3
  <2>3. \A u \in Tasks \ {t} : Knows(u)'
    BY <2>1 DEF Context, AllKnow, Knows, OthersStay, Conversation
  <2> QED
    BY <1>a, <2>1, <2>2, <2>3 DEF Context, AllKnow, AnswersInContext
<1> QED
  BY <1>1, <1>2, <1>3

-----------------------------------------------------------------------------
(* Arrivals.                                                               *)

\* A request that is taken in: where it goes first, and what it may be.
Comes(t, first, what) ==
  /\ Serve(t, first, what) /\ what \in Requested
  /\ \/ first = "lock"
     \/ first = "start" /\ what.intent \in Intents /\ what.conversation = None

LEMMA ArriveComes ==
  ASSUME NEW t \in Tasks, Arrive(t)
  PROVE  \E first, what : Comes(t, first, what)
<1>1. OwnerOf \in [Conversations -> Principals]
  BY RequestsAssumption
<1>2. ASSUME NEW i \in RequestIds, NEW p \in PlanIds, NEW c \in Conversations, Chat(t, c, i, p)
      PROVE  \E first, what : Comes(t, first, what)
  <2> DEFINE what == [who |-> OwnerOf[c], id |-> i, conversation |-> c, intent |-> None, plan |-> p]
  <2>1. what \in Requested
    BY <1>1 DEF Requested
  <2>2. Comes(t, "lock", what)
    BY <1>2, <2>1 DEF Chat, Comes
  <2> QED
    BY <2>2
<1>3. ASSUME NEW i \in RequestIds, NEW p \in PlanIds, NEW who \in Principals,
             NEW intent \in Intents, ExecuteIntent(t, who, i, intent, p)
      PROVE  \E first, what : Comes(t, first, what)
  <2> DEFINE what == [who |-> who, id |-> i, conversation |-> None, intent |-> intent, plan |-> p]
  <2>1. what \in Requested
    BY DEF Requested
  <2>2. Comes(t, "start", what)
    BY <1>3, <2>1 DEF ExecuteIntent, Comes
  <2> QED
    BY <2>2
<1> QED
  BY <1>2, <1>3 DEF Arrive

\* Idle tasks have no execution: what they begin with is Reply's.
LEMMA ComesFits ==
  ASSUME Shapes, Bounded, Context, NEW t \in Tasks, NEW first, NEW what,
         Comes(t, first, what)
  PROVE  Shapes' /\ Bounded' /\ Context'
<1>1. TaskTypes' /\ RowTypes' /\ OthersStay(t) /\ UNCHANGED <<log, runs>>
  BY DEF Comes, Serve, Shapes, TaskTypes, RowTypes, OthersStay, stored, Places
<1>2. request'[t] = what /\ place'[t] = first /\ place[t] = "idle" /\ run'[t] = 0
  BY DEF Comes, Serve, Shapes, TaskTypes, Carried, Carries
<1>3. Carries(t)'
  BY <1>2 DEF Carries, Comes, Handling, AgentTools, Conversation
<1>4. Carried'
  BY <1>1, <1>3, CarriedBy DEF Shapes
<1>5. Bounded'
  <2>1. Waiting' = Waiting \cup {t} /\ t \notin Waiting
    BY <1>1, <1>2 DEF Waiting, OthersStay, Comes
  <2>2. Cardinality(Waiting') = Cardinality(Waiting) + 1
    BY <2>1, WaitingCount, FS_AddElement
  <2>3. runs + Cardinality(Waiting) < MaxRuns
    BY DEF Comes, Serve, Begun, Waiting
  <2> QED
    BY <1>1, <2>2, <2>3, WaitingCount, RequestsAssumption DEF Bounded
<1>6. Alone'
  <2>1. \A u \in Tasks : \A c \in Conversations : Inside(u, c)' => u # t /\ Inside(u, c)
    BY <1>1, <1>2, RequestsAssumption DEF Comes, Inside, Conversation, OthersStay
  <2> QED
    BY <2>1 DEF Context, Alone
<1>7. AllKnow'
  BY <1>1, <1>2 DEF Comes, Context, AllKnow, Knows, OthersStay, Conversation
<1>8. AnswersInContext'
  BY <1>1 DEF Context, AnswersInContext
<1> QED
  BY <1>1, <1>4, <1>5, <1>6, <1>7, <1>8 DEF Shapes, Context

-----------------------------------------------------------------------------
(* The limit.                                                              *)

\* Pruning drops no count of the present window.
LEMMA PrunedKeeps ==
  ASSUME Counts, NEW p \in Principals, Allow(p)
  PROVE  Counts'
<1> DEFINE counted == Counted(p)
<1>1. window \in Nat /\ Limit \in Nat /\ CountOf(p) \in Nat /\ CountOf(p) < Limit
  BY RequestsAssumption DEF Counts, Allow, CountOf
<1>2. /\ counted = [entry \in DOMAIN counted |-> counted[entry]]
      /\ DOMAIN counted = DOMAIN counts \cup {<<p, window>>}
      /\ counted[<<p, window>>] = CountOf(p) + 1
      /\ \A entry \in DOMAIN counts : entry # <<p, window>> => counted[entry] = counts[entry]
  BY DEF Counted
<1>3. \A entry \in DOMAIN counted : counted[entry] \in 1 .. Limit /\ entry[2] <= window
  BY <1>1, <1>2 DEF Counts
<1>4. DOMAIN counted \subseteq Principals \X (0 .. MaxWindow)
  BY <1>2 DEF Counts
<1>5. /\ counts' = [entry \in DOMAIN counts' |-> counts'[entry]]
      /\ DOMAIN counts' \subseteq DOMAIN counted
      /\ \A entry \in DOMAIN counts' : counts'[entry] = counted[entry]
      /\ \A q \in Principals : <<q, window>> \in DOMAIN counted => <<q, window>> \in DOMAIN counts'
  <2>1. CASE Cardinality(DOMAIN counted) > Capacity
    <3>1. counts' = [entry \in {e \in DOMAIN counted : Kept(e)} |-> counted[entry]]
      BY <2>1 DEF Allow, Pruned, RestrictDomain, Restrict
    <3>2. \A q \in Principals : Kept(<<q, window>>)
      BY <1>1 DEF Kept
    <3> QED
      BY <3>1, <3>2
  <2>2. CASE ~(Cardinality(DOMAIN counted) > Capacity)
    BY <1>2, <2>2 DEF Allow, Pruned
  <2> QED
    BY <2>1, <2>2
<1>6. window' = window /\ admitted' = [admitted EXCEPT ![p] = @ + 1]
  BY DEF Allow
<1>7. \A q \in Principals : CountOf(q)' = IF q = p THEN CountOf(p) + 1 ELSE CountOf(q)
  BY <1>2, <1>5, <1>6 DEF CountOf
<1> QED
  BY <1>1, <1>3, <1>4, <1>5, <1>6, <1>7 DEF Counts

LEMMA NextWindowCounts ==
  ASSUME Counts, NextWindow
  PROVE  Counts'
<1>1. /\ counts' = counts /\ window' = window + 1 /\ window' \in 0 .. MaxWindow
      /\ admitted' = [p \in Principals |-> 0]
  BY RequestsAssumption DEF Counts, NextWindow
<1>2. \A p \in Principals : <<p, window'>> \notin DOMAIN counts
  BY <1>1 DEF Counts
<1>3. \A p \in Principals : CountOf(p)' = 0
  BY <1>1, <1>2 DEF CountOf
<1> QED
  BY <1>1, <1>3 DEF Counts

LEMMA SameCounts ==
  ASSUME Counts, UNCHANGED limiter
  PROVE  Counts'
  BY DEF Counts, limiter, CountOf

-----------------------------------------------------------------------------
(* The invariant.                                                          *)

LEMMA RequestsInitInv == RequestsInit => RequestsInv
<1> SUFFICES ASSUME RequestsInit PROVE RequestsInv
  OBVIOUS
<1> USE RequestsAssumption DEF RequestsInit, Each
<1>1. TaskTypes
  BY DEF TaskTypes, Places
<1>2. RowTypes
  <2>1. <<>> \in Seq(Messages)
    OBVIOUS
  <2> QED
    BY <2>1 DEF RowTypes
<1>3. Carried
  BY DEF Carried, Carries, Handling, AgentTools
<1>4. Bounded
  <2>1. Waiting = {}
    BY DEF Waiting
  <2> QED
    BY <2>1, FS_EmptySet DEF Bounded
<1>5. Context
  BY DEF Context, Alone, AllKnow, Knows, Inside, AnswersInContext
<1>6. Counts
  BY DEF Counts, CountOf
<1> QED
  BY <1>1, <1>2, <1>3, <1>4, <1>5, <1>6 DEF RequestsInv, Shapes

\* A confirmed deletion touches no task.
LEMMA DeletesFits ==
  ASSUME RequestsInv, NEW d \in asked, Deletes(d)
  PROVE  RequestsInv'
<1> USE DEF RequestsInv, Deletes, serving, Shapes, Context
<1>1. TaskTypes' /\ RowTypes' /\ Carried'
  BY DEF TaskTypes, RowTypes, Carried, Carries, Conversation
<1>2. Bounded'
  BY DEF Bounded, Waiting
<1>3. Alone' /\ AllKnow' /\ AnswersInContext'
  BY DEF Alone, Inside, AllKnow, Knows, AnswersInContext, Conversation
<1>4. Counts'
  BY SameCounts
<1> QED
  BY <1>1, <1>2, <1>3, <1>4

\* The next window, and a step that is somebody else's, touch no task either.
LEMMA QuietFits ==
  ASSUME RequestsInv, UNCHANGED <<serving, stored, runs>>
  PROVE  Shapes' /\ Bounded' /\ Context'
<1> USE DEF RequestsInv, serving, stored, Shapes, Context
<1>1. TaskTypes' /\ RowTypes' /\ Carried'
  BY DEF TaskTypes, RowTypes, Carried, Carries, Conversation
<1>2. Bounded'
  BY DEF Bounded, Waiting
<1>3. Alone' /\ AllKnow' /\ AnswersInContext'
  BY DEF Alone, Inside, AllKnow, Knows, AnswersInContext, Conversation
<1> QED
  BY <1>1, <1>2, <1>3

LEMMA RequestsNextInv == RequestsInv /\ [RequestsNext]_requestVars => RequestsInv'
<1> SUFFICES ASSUME RequestsInv, [RequestsNext]_requestVars PROVE RequestsInv'
  OBVIOUS
<1>1. ASSUME NEW t \in Tasks, Step(t) PROVE RequestsInv'
  <2>1. Carries(t)
    BY DEF RequestsInv, Shapes, Carried
  <2>2. TaskTypes' /\ OthersStay(t) /\ Carries(t)'
    BY <1>1, <2>1, StepShapes DEF RequestsInv, Shapes
  <2>3. RowTypes' /\ Bounded' /\ Context' /\ Carried'
    BY <1>1, <2>1, <2>2, StepRows, StepBounded, StepContext, CarriedBy DEF RequestsInv, Shapes
  <2>4. UNCHANGED limiter
    BY <1>1 DEF Step, Handle, EnterConversation, Routed, Repair, NotRouted, Execute, Reply,
      Answer, AppendUser, AppendAssistant, Conclude, CallTool, ToolFails, GetPlan, SavePlan,
      AskToDelete, GiveUp
  <2> QED
    BY <2>2, <2>3, <2>4, SameCounts DEF RequestsInv, Shapes
<1>2. ASSUME NEW t \in Tasks, Arrive(t) PROVE RequestsInv'
  <2>1. PICK first, what : Comes(t, first, what)
    BY <1>2, ArriveComes
  <2>2. what.who \in Principals /\ Allow(what.who)
    BY <2>1 DEF Comes, Serve, Requested
  <2> QED
    BY <2>1, <2>2, ComesFits, PrunedKeeps DEF RequestsInv
<1>3. CASE NextWindow
  BY <1>3, QuietFits, NextWindowCounts DEF RequestsInv, NextWindow
<1>4. CASE UNCHANGED requestVars
  BY <1>4, QuietFits, SameCounts DEF RequestsInv, requestVars
<1> QED
  BY <1>1, <1>2, <1>3, <1>4, DeletesFits DEF RequestsNext

-----------------------------------------------------------------------------
(* What follows.                                                           *)

LEMMA RequestsTypes == RequestsInv => RequestsTypeOK
<1> SUFFICES ASSUME RequestsInv PROVE RequestsTypeOK
  OBVIOUS
<1>1. runs \in 0 .. MaxRuns
  BY WaitingCount, RequestsAssumption DEF RequestsInv, Bounded
<1>2. Range(counts) \subseteq 1 .. Limit
  BY DEF RequestsInv, Counts, Range
<1> QED
  BY <1>1, <1>2 DEF RequestsInv, Shapes, TaskTypes, RowTypes, Counts, RequestsTypeOK

LEMMA Limited == RequestsInv => WithinLimit
<1> SUFFICES ASSUME RequestsInv, NEW p \in Principals PROVE admitted[p] <= Limit
  BY DEF WithinLimit
<1>1. CountOf(p) <= Limit
  BY RequestsAssumption DEF RequestsInv, Counts, CountOf
<1> QED
  BY <1>1 DEF RequestsInv, Counts

\* What a step does to plans and to those who have been given one.
LEMMA Private ==
  ASSUME RequestsInv, [RequestsNext]_requestVars
  PROVE  /\ \A t \in Tasks : found'[t] # found[t] /\ found'[t] # None => found'[t] = Who(t)
         /\ \A p \in PlanIds : plan'[p] = None /\ plan[p] # None =>
              \E d \in asked \ asked' : d.plan = p /\ d.who = plan[p]
<1> DEFINE Given == \A t \in Tasks : found'[t] # found[t] /\ found'[t] # None => found'[t] = Who(t)
           Deleted == \A p \in PlanIds : plan'[p] = None /\ plan[p] # None =>
                        \E d \in asked \ asked' : d.plan = p /\ d.who = plan[p]
<1> SUFFICES Given /\ Deleted
  OBVIOUS
<1>1. ASSUME NEW t \in Tasks, GetPlan(t) PROVE Given /\ Deleted
  BY <1>1 DEF GetPlan, Visible, RequestsInv, Shapes, TaskTypes, stored
<1>2. ASSUME NEW t \in Tasks, SavePlan(t) PROVE Given /\ Deleted
  <2>1. Who(t) # None
    BY <1>2, RequestsAssumption DEF SavePlan, RequestsInv, Shapes, Carried, Carries, Requested, Who
  <2> QED
    BY <1>2, <2>1 DEF SavePlan, RequestsInv, Shapes, RowTypes
<1>3. ASSUME NEW t \in Tasks, Reply(t) PROVE Given /\ Deleted
  BY <1>3 DEF Reply, RequestsInv, Shapes, TaskTypes, stored
<1>4. ASSUME NEW t \in Tasks, Step(t), ~GetPlan(t), ~SavePlan(t), ~Reply(t)
      PROVE  Given /\ Deleted
  BY <1>4 DEF Step, Handle, stored, EnterConversation, Routed, Repair, NotRouted, Execute,
    Answer, AppendUser, AppendAssistant, Conclude, CallTool, ToolFails, AskToDelete, GiveUp
<1>5. ASSUME NEW d \in asked, Deletes(d) PROVE Given /\ Deleted
  BY <1>5 DEF Deletes, Visible, serving, RequestsInv, Shapes, RowTypes
<1>6. ASSUME NEW t \in Tasks, Arrive(t) PROVE Given /\ Deleted
  BY <1>6, ArriveComes DEF Comes, Serve, stored
<1>7. CASE NextWindow \/ UNCHANGED requestVars
  BY <1>7 DEF NextWindow, requestVars, serving, stored
<1> QED
  BY <1>1, <1>2, <1>3, <1>4, <1>5, <1>6, <1>7 DEF RequestsNext

-----------------------------------------------------------------------------
(* Requests and process together.                                          *)

ServiceInv == AssemblyInv /\ OrderInv /\ RequestsInv

\* A process that dies leaves the stores, and no task inside a conversation.
LEMMA DieFits ==
  ASSUME RequestsInv, Die
  PROVE  RequestsInv'
<1> USE RequestsAssumption DEF RequestsInv, Die, Each, stored
<1>1. TaskTypes' /\ RowTypes'
  BY DEF Shapes, TaskTypes, RowTypes, Places
<1>2. Carried'
  BY DEF Carried, Carries, Handling, AgentTools
<1>3. Bounded'
  <2>1. Waiting' = {}
    BY DEF Waiting
  <2>2. Cardinality(Waiting') = 0
    BY <2>1, FS_EmptySet
  <2>3. runs \in 0 .. MaxRuns
    BY WaitingCount DEF Bounded
  <2> QED
    BY <2>2, <2>3 DEF Bounded
<1>4. Context'
  BY DEF Context, Alone, AllKnow, Knows, Inside, AnswersInContext
<1>5. Counts'
  BY DEF Counts, CountOf
<1> QED
  BY <1>1, <1>2, <1>3, <1>4, <1>5 DEF Shapes

LEMMA ServiceNextInv == ServiceInv /\ [ServiceNext]_serviceVars => ServiceInv'
<1> SUFFICES ASSUME ServiceInv, [ServiceNext]_serviceVars PROVE ServiceInv'
  OBVIOUS
<1> USE DEF ServiceInv
<1>1. CASE Build \/ Stop \/ UNCHANGED serviceVars
  <2>1. [AssemblyNext]_assemblyVars /\ UNCHANGED requestVars
    BY <1>1 DEF Build, Stop, serviceVars, AssemblyNext
  <2> QED
    BY <2>1, AssemblyNextInv, OrderNextInv, RequestsNextInv
<1>2. CASE Die
  BY <1>2, AssemblyNextInv, OrderNextInv, DieFits DEF Die, AssemblyNext
<1>3. CASE Serves /\ RequestsNext
  BY <1>3, AssemblyNextInv, OrderNextInv, RequestsNextInv DEF Serves
<1> QED
  BY <1>1, <1>2, <1>3 DEF ServiceNext

LEMMA ServiceSafe == ServiceSpec => []ServiceInv
<1>1. ServiceInit => ServiceInv
  BY AssemblyInitInv, OrderInitInv, RequestsInitInv DEF ServiceInit, ServiceInv
<1> QED
  BY <1>1, ServiceNextInv, PTL DEF ServiceSpec

-----------------------------------------------------------------------------
\* However modules are deployed and requests interleave, the process, its
\* registries and what is stored keep their shape: no index of build_runtime or
\* ApplicationRuntime runs past its list, and executions have numbers of their own.
THEOREM ServiceTypes == ServiceSpec => []ServiceTypeOK
<1>1. ServiceInv => ServiceTypeOK
  BY AssemblyTypes, RequestsTypes DEF ServiceInv, ServiceTypeOK
<1> QED
  BY <1>1, ServiceSafe, PTL

\* For any number of tasks and conversations: the coordinator's locks are enough
\* for every answer to follow, but for its question, the messages its model saw,
\* also when the process dies between the question and the answer.
THEOREM AnswersKeepContext == ServiceSpec => []AnswersInContext
<1>1. ServiceInv => AnswersInContext
  BY DEF ServiceInv, RequestsInv, Context
<1> QED
  BY <1>1, ServiceSafe, PTL

\* For any limit and any capacity, zero included: dropping old counts never gives
\* a principal a second allowance in the same window of one process.
THEOREM LimitHolds == ServiceSpec => []WithinLimit
<1>1. ServiceInv => WithinLimit
  BY Limited DEF ServiceInv
<1> QED
  BY <1>1, ServiceSafe, PTL

\* For every deployment: build_runtime orders the modules the same way however they
\* were listed, namely into the first order, as ids sort, that what they require and
\* can use allows.
THEOREM ListingDoesNotMatter == ServiceSpec => []OrderedAlike
<1>1. ServiceInv => OrderedAlike
  BY SameOrder DEF ServiceInv
<1> QED
  BY <1>1, ServiceSafe, PTL

\* For every deployment: build_runtime raises exactly when modules are missing or
\* double, depend on each other in a circle, or claim what is another's; one
\* module at a time, it overlooks no clash of two.
THEOREM RefusalIsRight == ServiceSpec => []RefusedIfUnsound
<1>1. ServiceInv => RefusedIfUnsound
  BY DEF ServiceInv, OrderInv
<1> QED
  BY <1>1, ServiceSafe, PTL

\* While a resource is open, so are those of the modules it was ordered after:
\* however the start is cut off, and while resources are closed one by one.
THEOREM OpenLeansOnOpen == ServiceSpec => []LeansOnOpen
<1>1. ServiceInv => LeansOnOpen
  BY Leans DEF ServiceInv
<1> QED
  BY <1>1, ServiceSafe, PTL

\* For any principals and plans: nobody is given the plan of somebody else, and a
\* confirmed deletion removes only what belongs, by then, to whoever asked for it.
THEOREM PlansStayPrivate == ServiceSpec => PlansPrivate
<1> DEFINE Given == \A t \in Tasks : found'[t] # found[t] /\ found'[t] # None => found'[t] = Who(t)
           Deleted == \A p \in PlanIds : plan'[p] = None /\ plan[p] # None =>
                        \E d \in asked \ asked' : d.plan = p /\ d.who = plan[p]
<1>1. ServiceInv /\ [ServiceNext]_serviceVars => [Given /\ Deleted]_requestVars
  <2> SUFFICES ASSUME ServiceInv, [ServiceNext]_serviceVars
               PROVE  Given /\ Deleted
    OBVIOUS
  <2>1. CASE [RequestsNext]_requestVars
    BY <2>1, Private DEF ServiceInv
  <2>2. CASE Die
    BY <2>2 DEF Die, Each, stored
  <2> QED
    BY <2>1, <2>2 DEF ServiceNext, Build, Stop, serviceVars
<1> QED
  BY <1>1, ServiceSafe, PTL DEF ServiceSpec, PlansPrivate
=============================================================================
