------------------------------- MODULE Broadcast -------------------------------
(***************************************************************************)
(* A scheduled broadcast: SchedulerService takes a lease on the job and    *)
(* dispatches system.scheduler.broadcast; the action it leaves behind is   *)
(* confirmed, runs ChannelRegistry.deliver_many over the targets, and can  *)
(* be retried under the same idempotency key while its outcome is unknown. *)
(*                                                                         *)
(* The kernel is taken at what ActionKernel shows of it: one action per    *)
(* idempotency key, one run of its handler at a time, refusals before the  *)
(* handler and failures to record what it returned.  What ActionLedger     *)
(* promises of a write is shown again here of a write with many parts.     *)
(*                                                                         *)
(* The messaging service behind the presenters is external.  It shows one  *)
(* message per request id, however often that id is sent to it, and may do *)
(* so after its caller has given up.                                       *)
(***************************************************************************)
EXTENDS KernelPolicy

CONSTANTS
  Owners,       \* scheduler processes
  Instants,     \* instants the job is scheduled for
  Offsets,      \* UTC offsets in which a trigger may give the instant
  NTargets,     \* targets of the broadcast, in the order of delivery
  Deployments,  \* sets of targets whose channels may have presenters
  MaxTokens,    \* bound: leases ever granted
  MaxAttempts,  \* bound: runs of one broadcast
  MaxFaults,    \* bound: restarts
  None

ASSUME BroadcastAssumption ==
  /\ NTargets \in Nat \ {0}
  /\ Deployments \subseteq SUBSET (1 .. NTargets)
  /\ MaxTokens \in Nat /\ MaxAttempts \in Nat \ {0} /\ MaxFaults \in Nat

VARIABLES
  lease,     \* the job's row of scheduler_leases
  due,       \* the occurrence and token each owner is about to dispatch
  action,    \* the row of the broadcast's action, by occurrence
  worker,    \* where the run of each broadcast is
  attempts,  \* how often each broadcast has been run
  flying,    \* requests the service has not looked at yet
  shown,     \* messages in the targets' conversations
  reachable, \* targets whose channel has a presenter now
  faults

vars == <<lease, due, action, worker, attempts, flying, shown, reachable, faults>>

-----------------------------------------------------------------------------
\* The idempotency key of a trigger is the job and the isoformat() of the instant
\* as it was given, in its offset: the same instant in two offsets is two
\* occurrences, with an action and a broadcast each.
Occurrences == [instant: Instants, offset: Offsets]

Targets == 1 .. NTargets
Leases == [owner: Owners, token: 1 .. MaxTokens, live: BOOLEAN]
Claims == [token: 1 .. MaxTokens, occurrence: Occurrences]

Statuses ==
  {"absent", "pending", "executing", "succeeded", "failed", "unknown", "cancelled"}

\* `id` stands for action_id, which is made up when the row is made.  It is the
\* token of the trigger that made it: a trigger makes one action at most.
Actions ==
  [status: Statuses, id: 0 .. MaxTokens, result: Results \cup {"none"}]
NoAction == [status |-> "absent", id |-> 0, result |-> "none"]

\* A run stands before target `next`, or waits for the answer about it; it has
\* delivered to every target before.
Runs == [place: {"none", "claimed", "before", "await"}, next: 1 .. NTargets + 1]
NoRun == [place |-> "none", next |-> 1]

\* `id` is what distinguishes the request ids of one broadcast and target.
Messages == [occurrence: Occurrences, target: Targets, id: 1 .. MaxTokens]
Requests == [message: Messages, attempt: 1 .. MaxAttempts]

Init ==
  /\ lease = None
  /\ due = [o \in Owners |-> None]
  /\ action = [x \in Occurrences |-> NoAction]
  /\ worker = [x \in Occurrences |-> NoRun]
  /\ attempts = [x \in Occurrences |-> 0]
  /\ flying = {}
  /\ shown = {}
  /\ reachable \in Deployments
  /\ faults = 0

-----------------------------------------------------------------------------
(* SchedulerService.                                                       *)

Token == IF lease = None THEN 1 ELSE lease.token + 1

\* The lease is had by whoever asks first, by its owner again at any time, and
\* by anybody once it has expired.
Obtainable(o) == lease # None => lease.owner = o \/ ~lease.live

ClaimLease(o, x) ==
  /\ due[o] = None
  /\ Obtainable(o) /\ Token <= MaxTokens
  /\ lease' = [owner |-> o, token |-> Token, live |-> TRUE]
  /\ due' = [due EXCEPT ![o] = [token |-> Token, occurrence |-> x]]
  /\ UNCHANGED <<action, worker, attempts, flying, shown, reachable, faults>>

LeaseExpires ==
  /\ lease # None /\ lease.live
  /\ lease' = [lease EXCEPT !.live = FALSE]
  /\ UNCHANGED <<due, action, worker, attempts, flying, shown, reachable, faults>>

\* Faulty: the fencing token is part of the key, and each trigger has its action.
FaultyRow(x, token) == [status |-> "pending", id |-> token, result |-> "none"]

\* The dispatcher creates the action of the key, or finds it there.
Row(x, token) ==
  IF action[x].status = "absent"
  THEN [status |-> "pending", id |-> token, result |-> "none"]
  ELSE action[x]

\* Nobody looks whether the token is still that of the lease.
Dispatch(o) ==
  LET x == due[o].occurrence IN
  /\ due[o] # None
  /\ action' = [action EXCEPT ![x] = Row(x, due[o].token)]
  /\ due' = [due EXCEPT ![o] = None]
  /\ UNCHANGED <<lease, worker, attempts, flying, shown, reachable, faults>>

-----------------------------------------------------------------------------
(* The action: confirmed, cancelled, retried.                              *)

Claim(x) ==
  /\ action' = [action EXCEPT ![x].status = "executing"]
  /\ worker' = [worker EXCEPT ![x].place = "claimed"]
  /\ UNCHANGED <<lease, due, attempts, flying, shown, reachable, faults>>

Confirm(x) == action[x].status = "pending" /\ Claim(x)

\* UnknownResolutionPolicy.RETRY_IDEMPOTENT.
RetryUnknown(x) ==
  action[x].status = "unknown" /\ attempts[x] < MaxAttempts /\ Claim(x)

\* Cancelled by the user, or expired.
Cancel(x) ==
  /\ action[x].status = "pending"
  /\ action' = [action EXCEPT ![x].status = "cancelled"]
  /\ UNCHANGED <<lease, due, worker, attempts, flying, shown, reachable, faults>>

\* The run of x is over, and `result` is what its action records.
Record(x, result) ==
  /\ action' = [action EXCEPT
       ![x] = [status |-> ActionStatusFor(TRUE, result), id |-> @.id, result |-> result]]
  /\ worker' = [worker EXCEPT ![x] = NoRun]
  /\ UNCHANGED <<lease, due, attempts, shown, reachable, faults>>

\* The claimed run does not come to its handler: versions or digest do not match,
\* authorization is denied, or reserving or auditing the run raises.
Refuse(x) ==
  /\ worker[x].place = "claimed"
  /\ \E result \in {"refused", "denied", "not_run"} : Record(x, result)
  /\ UNCHANGED flying

\* Faulty: the targets are numbered from zero.
FaultyFirst == 0

First == 1

\* The execution is reserved, or reopened, and the handler called.
Start(x) ==
  /\ worker[x].place = "claimed"
  /\ attempts' = [attempts EXCEPT ![x] = @ + 1]
  /\ worker' = [worker EXCEPT ![x] = [place |-> "before", next |-> First]]
  /\ UNCHANGED <<lease, due, action, flying, shown, reachable, faults>>

\* The handler ends with a result.  It is what the action records, unless saving
\* it in the execution, or auditing the end, raises: the exception is recorded as
\* a run that never came to its handler.
Settle(x, result) == \E recorded \in {result, "not_run"} : Record(x, recorded)

\* The confirming or retrying task is cancelled, or its last save of the action
\* raises: the action stays as it is.
Abandon(x) ==
  /\ worker[x].place # "none"
  /\ worker' = [worker EXCEPT ![x] = NoRun]
  /\ UNCHANGED <<lease, due, action, attempts, flying, shown, reachable, faults>>

-----------------------------------------------------------------------------
(* deliver_many.                                                           *)

Next_(x) == worker[x].next
Before(x) == worker[x].place = "before" /\ Next_(x) <= NTargets

\* The child request of a target is named after the action and the target's
\* place in the list, so that it has one name in all attempts.
RequestId(x) == action[x].id

Message(x) == [occurrence |-> x, target |-> Next_(x), id |-> RequestId(x)]
Request(x) == [message |-> Message(x), attempt |-> attempts[x]]

\* Faulty: an error is passed on as it is.
FaultyPartial(x, result) == result

\* An error that says "nothing happened" is not believed of the broadcast once
\* this run has delivered to some target.
Partial(x, result) == IF Next_(x) > 1 THEN "lost" ELSE result

\* Faulty: a target without a presenter is passed over.
FaultyUnreachable(x) ==
  /\ Before(x) /\ Next_(x) \notin reachable
  /\ worker' = [worker EXCEPT ![x].next = @ + 1]
  /\ UNCHANGED <<lease, due, action, attempts, flying, shown, reachable, faults>>

Unreachable(x) ==
  /\ Before(x) /\ Next_(x) \notin reachable
  /\ Settle(x, Partial(x, "not_sent")) /\ UNCHANGED flying

\* The presenter cannot connect.
NotSent(x) ==
  /\ Before(x) /\ Next_(x) \in reachable
  /\ Settle(x, Partial(x, "not_sent")) /\ UNCHANGED flying

Send(x) ==
  /\ Before(x) /\ Next_(x) \in reachable
  /\ flying' = flying \cup {Request(x)}
  /\ worker' = [worker EXCEPT ![x].place = "await"]
  /\ UNCHANGED <<lease, due, action, attempts, shown, reachable, faults>>

Awaits(x) == worker[x].place = "await"

Delivered(x) ==
  /\ Awaits(x) /\ Request(x) \notin flying
  /\ worker' = [worker EXCEPT ![x] = [place |-> "before", next |-> Next_(x) + 1]]
  /\ UNCHANGED <<lease, due, action, attempts, flying, shown, reachable, faults>>

\* The service refuses the request instead of showing the message.
Rejected(x) ==
  /\ Awaits(x) /\ Request(x) \in flying
  /\ flying' = flying \ {Request(x)}
  /\ Settle(x, Partial(x, "rejected"))

\* The answer does not come: the presenter cannot tell.
AnswerLost(x) ==
  /\ Awaits(x)
  /\ Settle(x, "lost") /\ UNCHANGED flying

\* The kernel's timeout, or an exception no presenter foresees, such as a
\* failure to get the bot's token.
GivenUp(x) ==
  /\ Awaits(x) \/ Before(x)
  /\ \E result \in {"timeout", "raised"} : Settle(x, result)
  /\ UNCHANGED flying

AllDelivered(x) ==
  /\ worker[x].place = "before" /\ Next_(x) > NTargets
  /\ Settle(x, "success") /\ UNCHANGED flying

-----------------------------------------------------------------------------
(* The messaging service, restarts.                                        *)

Shows(request) ==
  /\ request \in flying
  /\ flying' = flying \ {request}
  /\ shown' = shown \cup {request.message}
  /\ UNCHANGED <<lease, due, action, worker, attempts, reachable, faults>>

\* The next process may be deployed with other channels.
Restart ==
  /\ faults < MaxFaults /\ faults' = faults + 1
  /\ due' = [o \in Owners |-> None]
  /\ worker' = [x \in Occurrences |-> NoRun]
  /\ reachable' \in Deployments
  /\ UNCHANGED <<lease, action, attempts, flying, shown>>

Schedule(o) == (\E x \in Occurrences : ClaimLease(o, x)) \/ Dispatch(o)

Deliver(x) ==
  \/ Unreachable(x) \/ NotSent(x) \/ Send(x) \/ Delivered(x) \/ Rejected(x)
  \/ AnswerLost(x) \/ GivenUp(x) \/ AllDelivered(x)

Next ==
  \/ \E o \in Owners : Schedule(o)
  \/ LeaseExpires
  \/ \E x \in Occurrences :
       \/ Confirm(x) \/ Cancel(x) \/ RetryUnknown(x)
       \/ Refuse(x) \/ Start(x) \/ Deliver(x) \/ Abandon(x)
  \/ \E request \in flying : Shows(request)
  \/ Restart

Spec == Init /\ [][Next]_vars

-----------------------------------------------------------------------------
(* Properties.                                                             *)

\* The lease, the actions, the runs and the messages keep their shape.
TypeOK ==
  /\ lease \in Leases \cup {None}
  /\ due \in [Owners -> Claims \cup {None}]
  /\ action \in [Occurrences -> Actions]
  /\ worker \in [Occurrences -> Runs]
  /\ attempts \in [Occurrences -> 0 .. MaxAttempts]
  /\ flying \subseteq Requests
  /\ shown \subseteq Messages
  /\ reachable \in Deployments
  /\ faults \in 0 .. MaxFaults

ShownTo(x) == {m.target : m \in {n \in shown : n.occurrence = x}}

\* Triggers by several owners, one whose lease was taken over among them,
\* retries, and requests that get through late: no target sees the broadcast of
\* one occurrence twice.
OncePerTarget ==
  \A m, n \in shown :
    m.occurrence = n.occurrence /\ m.target = n.target => m = n

\* A broadcast whose handler reported the failure in its first run has reached
\* nobody, and will not.  A failure that only says the run was not recorded, or
\* was refused, is no such report.
FailureReachedNobody ==
  \A x \in Occurrences :
    action[x].status = "failed" /\ action[x].result \in HandlerOutcomes
      /\ attempts[x] = 1 =>
      /\ ShownTo(x) = {}
      /\ \A request \in flying : request.message.occurrence # x

ApprovalOf(status) ==
  CASE status = "absent" -> "none"
    [] status = "pending" -> "asked"
    [] status = "cancelled" -> "refused"
    [] OTHER -> "granted"

VerdictOf(x) ==
  IF attempts[x] > 0 /\ action[x].status \in {"succeeded", "failed", "unknown"}
  THEN action[x].status
  ELSE "none"

\* A broadcast is a write as ActionLedger has it, and takes effect when the last
\* target has its message.  An action that failed before any run has no verdict.
Ledger == INSTANCE ActionLedger WITH
  Slots <- Occurrences,
  approval <- [x \in Occurrences |-> ApprovalOf(action[x].status)],
  run <- [x \in Occurrences |-> IF attempts[x] = 0 THEN "none" ELSE "confirmed"],
  applied <- [x \in Occurrences |-> ShownTo(x) = Targets],
  verdict <- [x \in Occurrences |-> VerdictOf(x)]

\* In particular a broadcast that has succeeded has reached every target, and
\* one that was cancelled, nobody; and no verdict but an unknown one is replaced.
KeepsLedger == Ledger!Spec
=============================================================================
