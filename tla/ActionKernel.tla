---------------------------- MODULE ActionKernel ----------------------------
(***************************************************************************)
(* The confirmed-write kernel: IntentDispatcher, ActionService and the     *)
(* SQLite tables `actions` and `executions` they share.                    *)
(*                                                                         *)
(* A slot stands for one (tenant, principal, intent, idempotency key):     *)
(* the unique constraints of both tables give it at most one action row    *)
(* and one execution row.  A task is one coroutine serving one request; it *)
(* runs one database transaction, or one stretch between two awaits, per   *)
(* step.  The remote provider answers calls in its own time: a call whose  *)
(* caller timed out, was cancelled or died may still be applied.           *)
(***************************************************************************)
EXTENDS KernelPolicy

CONSTANTS
  Tasks,            \* request-serving coroutines
  Slots,            \* idempotency slots
  Principals,       \* identities: tenant, principal and auth provider
  Accounts,         \* (tenant, principal) pairs
  AccountOf,        \* the account of each principal
  OwnerOf,          \* the account each slot belongs to
  Args,             \* arguments and delivery targets a request may carry
  Versions,         \* intent version, module version and permission set
  Specs,            \* the registered intent specifications in play
  ConfirmModes,     \* values confirm_all_writes may be configured to
  AuthOutcomes,     \* what authorization may answer: "granted", "denied"
  LocalOutcomes,    \* how a handler may end without calling the provider
  ReconcileAnswers, \* what a reconcile handler may answer
  MaxCalls,         \* bound: provider calls per slot
  MaxFaults,        \* bound: exceptions, cancellations and restarts
  None

ASSUME KernelAssumption ==
  /\ AccountOf \in [Principals -> Accounts]
  /\ OwnerOf \in [Slots -> Accounts]
  /\ Specs \subseteq {sp \in IntentSpecs : Registrable(sp)}
  /\ ConfirmModes \subseteq BOOLEAN
  /\ AuthOutcomes \subseteq {"granted", "denied"}
  /\ LocalOutcomes \subseteq {"clarify", "failure", "not_sent", "timeout", "raised"}
  /\ ReconcileAnswers \subseteq {"found", "absent", "silent"}
  /\ MaxCalls \in Nat
  /\ MaxFaults \in Nat

VARIABLES
  actions,     \* the actions table, by slot
  executions,  \* the executions table, by slot
  pc,          \* where each task is
  job,         \* what each busy task works on
  call,        \* the number of the provider call a task awaits
  out,         \* the result a task carries
  calls,       \* by slot and number: the calls as the provider sees them
  catalog,     \* the intent specification behind each slot
  version,     \* the version deployed now
  confirmAll,  \* confirm_all_writes as configured now
  faults       \* exceptions, cancellations and restarts so far

rows == <<actions, executions>>
tasks == <<pc, job, call, out>>
deployment == <<catalog, version, confirmAll>>
vars == <<rows, tasks, calls, deployment, faults>>

-----------------------------------------------------------------------------
(* What the payload hash covers: two requests have equal hashes exactly    *)
(* when these fields are equal.                                            *)
Payloads == [version: Versions, by: Principals, args: Args]

ActionStatuses ==
  {"absent", "pending", "executing", "succeeded", "failed", "unknown",
   "cancelled", "expired"}
ActionRows ==
  [status: ActionStatuses, payload: Payloads \cup {None},
   confirmedBy: Principals \cup {None}, overdue: BOOLEAN,
   result: Results \cup {"none"}]
NoAction ==
  [status |-> "absent", payload |-> None, confirmedBy |-> None,
   overdue |-> FALSE, result |-> "none"]

\* `owner` tells the two forms of execution id apart: exec_<action id> for a
\* confirmed action, a fresh uuid for a request executed directly.
ExecutionStatuses == {"absent", "executing", "succeeded", "failed", "unknown"}
ExecutionRows ==
  [status: ExecutionStatuses, payload: Payloads \cup {None},
   result: Results \cup {"none"}, owner: {"none", "action", "direct"}]
NoExecution ==
  [status |-> "absent", payload |-> None, result |-> "none", owner |-> "none"]

Jobs ==
  [payload: Payloads, op: {"execute", "confirm", "retry", "reconcile"},
   slot: Slots, who: Principals]

CallStates == {"unsent", "flying", "applied", "refused"}

\* The places a task can stop at: "reserve" stands before the reservation
\* transaction, "finish" before the execution's finish, and so on.
Running == {"start", "handler", "await", "finish"}
Places ==
  {"idle", "authorize", "create", "reserve", "audit", "settle",
   "check", "query", "resolve_action", "resolve_execution", "reclaim"}
    \cup Running

Slot(t) == job[t].slot
Spec_(t) == catalog[Slot(t)]

\* The task works for an action it has moved to EXECUTING.
ClaimedPlaces == {"authorize", "reserve", "audit", "settle"} \cup Running
Claims(t) ==
  pc[t] \in ClaimedPlaces /\ job[t].op \in {"confirm", "retry"}

Runs(t, s) == pc[t] \in Running /\ Slot(t) = s

Init ==
  /\ actions = [s \in Slots |-> NoAction]
  /\ executions = [s \in Slots |-> NoExecution]
  /\ pc = [t \in Tasks |-> "idle"]
  /\ job = [t \in Tasks |-> None]
  /\ call = [t \in Tasks |-> 0]
  /\ out = [t \in Tasks |-> "none"]
  /\ calls = [s \in Slots |-> [n \in 1 .. MaxCalls |-> "unsent"]]
  /\ catalog \in [Slots -> Specs]
  /\ version \in Versions
  /\ confirmAll \in ConfirmModes
  /\ faults = 0

-----------------------------------------------------------------------------
(* Moves of a task.                                                        *)

Goto(t, place) ==
  /\ pc' = [pc EXCEPT ![t] = place]
  /\ UNCHANGED <<job, call, out>>

Begin(t, place, work) ==
  /\ pc[t] = "idle"
  /\ pc' = [pc EXCEPT ![t] = place]
  /\ job' = [job EXCEPT ![t] = work]
  /\ UNCHANGED <<call, out>>

Idle(t) ==
  /\ pc' = [pc EXCEPT ![t] = "idle"]
  /\ job' = [job EXCEPT ![t] = None]
  /\ call' = [call EXCEPT ![t] = 0]
  /\ out' = [out EXCEPT ![t] = "none"]

Carry(t, place, result) ==
  /\ pc' = [pc EXCEPT ![t] = place]
  /\ out' = [out EXCEPT ![t] = result]
  /\ call' = [call EXCEPT ![t] = 0]
  /\ UNCHANGED job

\* Faulty: a denied confirmation is answered without recording it.
FaultyReturnUnsettled(t, result) ==
  IF Claims(t) /\ result # "denied" THEN Carry(t, "settle", result) ELSE Idle(t)

\* IntentDispatcher._execute returns: a confirmed action goes on to record
\* the result, a direct request is over.
Return(t, result) ==
  IF Claims(t) THEN Carry(t, "settle", result) ELSE Idle(t)

-----------------------------------------------------------------------------
(* IntentDispatcher.                                                       *)

\* execute: the request's arguments have been validated.
Execute(t, s, p, a) ==
  /\ AccountOf[p] = OwnerOf[s]
  /\ Begin(t, "authorize",
           [payload |-> [version |-> version, by |-> p, args |-> a],
            op |-> "execute", slot |-> s, who |-> p])
  /\ UNCHANGED <<rows, calls, deployment, faults>>

\* Faulty: the versions and permissions are not compared.
FaultyValidAnyVersion(action, who) ==
  action.payload.by = who /\ action.confirmedBy = who

\* _validate_persisted_action, and the comparison with the payload hash that
\* the current version and permissions give.
Valid(action, who) ==
  /\ action.payload.by = who
  /\ action.confirmedBy = who
  /\ action.payload.version = version

\* Faulty: a write starts without a reservation.
FaultyRouteUnreserved(t) ==
  IF job[t].op = "execute" /\ RequiresConfirmation(Spec_(t), confirmAll)
  THEN "create" ELSE "start"

Route(t) ==
  CASE job[t].op = "execute" /\ RequiresConfirmation(Spec_(t), confirmAll) -> "create"
    [] IsWrite(Spec_(t)) -> "reserve"
    [] OTHER -> "start"

Authorize(t) ==
  /\ pc[t] = "authorize"
  /\ IF Claims(t) /\ ~Valid(actions[Slot(t)], job[t].who)
     THEN Return(t, "refused")
     ELSE \/ "denied" \in AuthOutcomes /\ Return(t, "denied")
          \/ "granted" \in AuthOutcomes /\ Goto(t, Route(t))
  /\ UNCHANGED <<rows, calls, deployment, faults>>

\* A row that exists is returned whatever its status when the hashes agree,
\* and raises when they do not: either way the table is left alone.
CreateAction(t) ==
  LET s == Slot(t) IN
  /\ pc[t] = "create"
  /\ actions' =
       IF actions[s].status = "absent"
       THEN [actions EXCEPT ![s] =
               [NoAction EXCEPT !.status = "pending", !.payload = job[t].payload]]
       ELSE actions
  /\ Idle(t)
  /\ UNCHANGED <<executions, calls, deployment, faults>>

\* Faulty: a row being executed is reserved once more.
FaultyReserveBusy(row, payload) ==
  CASE row.status \in {"absent", "executing"} -> "reserved"
    [] row.payload # payload -> "conflict"
    [] OTHER -> "replay"

\* Faulty: a row whose outcome is unknown is reserved once more.
FaultyReserveUnknown(row, payload) ==
  CASE row.status \in {"absent", "unknown"} -> "reserved"
    [] row.payload # payload -> "conflict"
    [] row.status = "executing" -> "in_progress"
    [] OTHER -> "replay"

\* The reservation transaction: insert the row, or look at the one there.
ReserveOutcome(row, payload) ==
  CASE row.status = "absent" -> "reserved"
    [] row.status # "absent" /\ row.payload # payload -> "conflict"
    [] row.status = "executing" /\ row.payload = payload -> "in_progress"
    [] OTHER -> "replay"

\* A claimed action with a result has run before: its own execution row is
\* reopened instead of reserved.
RunsAgain(t) == Claims(t) /\ actions[Slot(t)].result # "none"

Reserve(t) ==
  LET s == Slot(t)
      row == executions[s]
      outcome == ReserveOutcome(row, job[t].payload)
  IN
  /\ pc[t] = "reserve" /\ ~RunsAgain(t)
  /\ \/ /\ outcome = "reserved"
        /\ executions' = [executions EXCEPT ![s] =
             [status |-> "executing", payload |-> job[t].payload, result |-> "none",
              owner |-> IF Claims(t) THEN "action" ELSE "direct"]]
        /\ Goto(t, "start")
     \/ /\ outcome = "conflict"
        /\ Return(t, "key_conflict")
        /\ UNCHANGED executions
     \/ /\ outcome = "replay"
        /\ IF row.result = "none" THEN Goto(t, "start") ELSE Return(t, row.result)
        /\ UNCHANGED executions
  /\ UNCHANGED <<actions, calls, deployment, faults>>

\* "The same request is being executed."
AnswerInProgress(t) ==
  /\ pc[t] = "reserve" /\ ~RunsAgain(t)
  /\ ReserveOutcome(executions[Slot(t)], job[t].payload) = "in_progress"
  /\ Return(t, "in_progress")
  /\ UNCHANGED <<rows, calls, deployment, faults>>

\* Faulty: any row of the action is reopened, whatever its status.
FaultyReopenAny(row) == row.owner = "action"

CanReopen(row) == row.owner = "action" /\ row.status = "unknown"

Reopen(t) ==
  LET s == Slot(t) IN
  /\ pc[t] = "reserve" /\ RunsAgain(t)
  /\ IF CanReopen(executions[s])
     THEN /\ executions' = [executions EXCEPT ![s].status = "executing"]
          /\ Goto(t, "start")
     ELSE /\ Return(t, "retry_conflict")
          /\ UNCHANGED executions
  /\ UNCHANGED <<actions, calls, deployment, faults>>

\* The "started" audit entry is written and the contexts are assembled.
Start(t) ==
  /\ pc[t] = "start"
  /\ Goto(t, "handler")
  /\ UNCHANGED <<rows, calls, deployment, faults>>

AfterHandler(t) == IF IsWrite(Spec_(t)) THEN "finish" ELSE "audit"

HandlerEndsLocally(t, outcome) ==
  /\ pc[t] = "handler"
  /\ Carry(t, AfterHandler(t), outcome)
  /\ UNCHANGED <<rows, calls, deployment, faults>>

Unsent(s) == {n \in 1 .. MaxCalls : calls[s][n] = "unsent"}

Send(t, n) ==
  LET s == Slot(t) IN
  /\ pc[t] = "handler"
  /\ n \in Unsent(s)
  /\ \A m \in Unsent(s) : n <= m
  /\ calls' = [calls EXCEPT ![s][n] = "flying"]
  /\ pc' = [pc EXCEPT ![t] = "await"]
  /\ call' = [call EXCEPT ![t] = n]
  /\ UNCHANGED <<rows, job, out, deployment, faults>>

\* The handler's answer is as truthful as the provider's: success follows an
\* applied call, a rejection or a failure a refused one; the rest is vague.
Replies(callState) ==
  CASE callState = "applied" -> Uncertain \cup {"success"}
    [] callState = "refused" -> Vague \cup {"rejected", "failure"}
    [] OTHER -> Uncertain

Reply(t, outcome) ==
  /\ pc[t] = "await"
  /\ outcome \in Replies(calls[Slot(t)][call[t]])
  /\ Carry(t, AfterHandler(t), outcome)
  /\ UNCHANGED <<rows, calls, deployment, faults>>

\* An exception out of the dispatcher: ActionService turns it into a result,
\* a direct request passes it on to its caller.
Raise(t) == Return(t, "not_run")

FinishExecution(t) ==
  LET s == Slot(t) IN
  /\ pc[t] = "finish"
  /\ IF executions[s].status = "executing"
     THEN /\ executions' = [executions EXCEPT
               ![s].status = ExecutionStatusFor(out[t]), ![s].result = out[t]]
          /\ Goto(t, "audit")
     ELSE Raise(t) /\ UNCHANGED executions
  /\ UNCHANGED <<actions, calls, deployment, faults>>

AuditFinished(t) ==
  /\ pc[t] = "audit"
  /\ Return(t, out[t])
  /\ UNCHANGED <<rows, calls, deployment, faults>>

-----------------------------------------------------------------------------
(* ActionService: confirm, cancel, and the passing of an action's time.    *)

\* Faulty: an action that is being executed may be confirmed again.
FaultyClaimable(action) ==
  action.status \in {"pending", "executing"} /\ ~action.overdue

Claimable(action) == action.status = "pending" /\ ~action.overdue

Confirm(t, s, p) ==
  /\ Claimable(actions[s])
  /\ AccountOf[p] = OwnerOf[s]
  /\ actions' = [actions EXCEPT ![s].status = "executing", ![s].confirmedBy = p]
  /\ Begin(t, "authorize",
           [payload |-> actions[s].payload, op |-> "confirm", slot |-> s, who |-> p])
  /\ UNCHANGED <<executions, calls, deployment, faults>>

\* A confirmation that comes too late, whoever sends it, marks the action.
ConfirmTooLate(s) ==
  /\ actions[s].status = "pending" /\ actions[s].overdue
  /\ actions' = [actions EXCEPT ![s].status = "expired"]
  /\ UNCHANGED <<executions, tasks, calls, deployment, faults>>

Cancel(s, p) ==
  /\ Claimable(actions[s])
  /\ AccountOf[p] = OwnerOf[s]
  /\ actions' = [actions EXCEPT ![s].status = "cancelled"]
  /\ UNCHANGED <<executions, tasks, calls, deployment, faults>>

TimePasses(s) ==
  /\ Claimable(actions[s])
  /\ actions' = [actions EXCEPT ![s].overdue = TRUE]
  /\ UNCHANGED <<executions, tasks, calls, deployment, faults>>

Settle(t) ==
  LET s == Slot(t) IN
  /\ pc[t] = "settle"
  /\ actions' =
       IF actions[s].status = "executing"
       THEN [actions EXCEPT
               ![s].status = ActionStatusFor(IsWrite(Spec_(t)), out[t]),
               ![s].result = out[t]]
       ELSE actions
  /\ Idle(t)
  /\ UNCHANGED <<executions, calls, deployment, faults>>

-----------------------------------------------------------------------------
(* ActionService: reconcile and retry_unknown.                             *)

VisibleUnknown(s, p) ==
  actions[s].status = "unknown" /\ actions[s].payload.by = p

Reconcile(t, s, p) ==
  /\ VisibleUnknown(s, p)
  /\ Begin(t, "check",
           [payload |-> actions[s].payload, op |-> "reconcile", slot |-> s, who |-> p])
  /\ UNCHANGED <<rows, calls, deployment, faults>>

RetryUnknown(t, s, p) ==
  /\ VisibleUnknown(s, p)
  /\ catalog[s].policy \in RetryPolicies
  /\ Begin(t, IF catalog[s].policy = "reconcile_then_retry" THEN "check" ELSE "reclaim",
           [payload |-> actions[s].payload, op |-> "retry", slot |-> s, who |-> p])
  /\ UNCHANGED <<rows, calls, deployment, faults>>

\* reconcile() returns: to its caller, or to the retry that looks first.
AfterReconcile(t) == IF job[t].op = "retry" THEN Goto(t, "reclaim") ELSE Idle(t)

Reconciles(spec) == spec.reconcile /\ spec.policy # "none"

Reconcilable(s, who) ==
  /\ VisibleUnknown(s, who)
  /\ Valid(actions[s], who)
  /\ Reconciles(catalog[s])

Check(t) ==
  /\ pc[t] = "check"
  /\ IF Reconcilable(Slot(t), job[t].who) THEN Goto(t, "query") ELSE AfterReconcile(t)
  /\ UNCHANGED <<rows, calls, deployment, faults>>

Applied(s) == {n \in 1 .. MaxCalls : calls[s][n] = "applied"}

\* What the reconcile handler answers: a success ("found"), a failure
\* ("absent"), or nothing of use (None, a ProviderError, a timeout, any other
\* exception).  The answer is taken as it comes.  It is not tied to what was
\* applied: the calendar's handler reports a success for an event that is
\* unchanged, and for one that does not exist.
Query(t, answer) ==
  /\ pc[t] = "query"
  /\ \/ /\ answer \in {"found", "absent"}
        /\ Carry(t, "resolve_action", answer)
     \/ /\ answer = "silent"
        /\ AfterReconcile(t)
  /\ UNCHANGED <<rows, calls, deployment, faults>>

\* Faulty: the result's word is stored for the status.
FaultyVerdict(result) == result

Verdict(result) == IF result = "found" THEN "succeeded" ELSE "failed"

ResolveAction(t) ==
  LET s == Slot(t) IN
  /\ pc[t] = "resolve_action"
  /\ actions' =
       IF actions[s].status = "unknown"
       THEN [actions EXCEPT ![s].status = Verdict(out[t]), ![s].result = out[t]]
       ELSE actions
  /\ Goto(t, "resolve_execution")
  /\ UNCHANGED <<executions, calls, deployment, faults>>

\* Neither repository's answer is looked at: the execution row is resolved
\* whether or not the action was.
ResolveExecution(t) ==
  LET s == Slot(t) IN
  /\ pc[t] = "resolve_execution"
  /\ executions' =
       IF CanReopen(executions[s])
       THEN [executions EXCEPT ![s].status = Verdict(out[t]), ![s].result = out[t]]
       ELSE executions
  /\ IF job[t].op = "retry" THEN Carry(t, "reclaim", "none") ELSE Idle(t)
  /\ UNCHANGED <<actions, calls, deployment, faults>>

\* retry_unknown looks at the row again and claims it.
Reclaim(t) ==
  LET s == Slot(t) IN
  /\ pc[t] = "reclaim"
  /\ IF actions[s].status = "unknown" /\ AccountOf[job[t].who] = OwnerOf[s]
     THEN /\ actions' = [actions EXCEPT ![s].status = "executing"]
          /\ Goto(t, "authorize")
     ELSE /\ Idle(t)
          /\ UNCHANGED actions
  /\ UNCHANGED <<executions, calls, deployment, faults>>

-----------------------------------------------------------------------------
(* The provider, the faults and the operator.                              *)

ProviderApplies(s, n) ==
  /\ calls[s][n] = "flying"
  /\ calls' = [calls EXCEPT ![s][n] = "applied"]
  /\ UNCHANGED <<rows, tasks, deployment, faults>>

ProviderRefuses(s, n) ==
  /\ calls[s][n] = "flying"
  /\ calls' = [calls EXCEPT ![s][n] = "refused"]
  /\ UNCHANGED <<rows, tasks, deployment, faults>>

Fault == faults < MaxFaults /\ faults' = faults + 1

\* Where a database transaction, an authorization call or a context provider
\* may raise.  Under a claim the exception becomes a result; the exception of
\* the final actions.finish, like every other one, goes to the caller.
CanRaise ==
  {"authorize", "create", "reserve", "start", "finish", "audit", "settle",
   "check", "resolve_action", "resolve_execution", "reclaim"}

Fails(t) ==
  /\ Fault
  /\ pc[t] \in CanRaise
  /\ IF pc[t] = "settle" THEN Idle(t) ELSE Raise(t)
  /\ UNCHANGED <<rows, calls, deployment>>

\* CancelledError passes every handler: the agent's timeout cancels the
\* requests its tools make, closing the event channel those it dispatched.
CancelTask(t) ==
  /\ Fault
  /\ pc[t] # "idle" /\ job[t].op \in {"execute", "confirm"}
  /\ Idle(t)
  /\ UNCHANGED <<rows, calls, deployment>>

\* The process dies, or is stopped and started with another deployment.
Restart ==
  /\ Fault
  /\ pc' = [t \in Tasks |-> "idle"]
  /\ job' = [t \in Tasks |-> None]
  /\ call' = [t \in Tasks |-> 0]
  /\ out' = [t \in Tasks |-> "none"]
  /\ version' \in Versions
  /\ confirmAll' \in ConfirmModes
  /\ UNCHANGED <<rows, calls, catalog>>

-----------------------------------------------------------------------------
\* What a task does without waiting for a new request.
Step(t) ==
  \/ Authorize(t) \/ CreateAction(t)
  \/ Reserve(t) \/ AnswerInProgress(t) \/ Reopen(t)
  \/ Start(t)
  \/ \E o \in LocalOutcomes : HandlerEndsLocally(t, o)
  \/ \E n \in 1 .. MaxCalls : Send(t, n)
  \/ \E o \in HandlerOutcomes : Reply(t, o)
  \/ FinishExecution(t) \/ AuditFinished(t) \/ Settle(t)
  \/ Check(t)
  \/ \E a \in ReconcileAnswers : Query(t, a)
  \/ ResolveAction(t) \/ ResolveExecution(t) \/ Reclaim(t)

Request(t) ==
  \E s \in Slots, p \in Principals :
    \/ \E a \in Args : Execute(t, s, p, a)
    \/ Confirm(t, s, p)
    \/ Reconcile(t, s, p)
    \/ RetryUnknown(t, s, p)

ActionMoves(s) ==
  \/ ConfirmTooLate(s)
  \/ TimePasses(s)
  \/ \E p \in Principals : Cancel(s, p)

ProviderMoves(s) ==
  \E n \in 1 .. MaxCalls : ProviderApplies(s, n) \/ ProviderRefuses(s, n)

Next ==
  \/ \E t \in Tasks : Step(t) \/ Request(t) \/ Fails(t) \/ CancelTask(t)
  \/ \E s \in Slots : ActionMoves(s) \/ ProviderMoves(s)
  \/ Restart

Spec == Init /\ [][Next]_vars

\* asyncio runs every ready task, and a handler and a reconcile handler are
\* bounded by asyncio.timeout, so a task keeps moving whatever the provider
\* does.  Nobody has to send requests, and the provider may never answer.
Fairness == \A t \in Tasks : WF_vars(Step(t))

FairSpec == Spec /\ Fairness

-----------------------------------------------------------------------------
(* Properties.                                                             *)

\* The shapes of the two tables, of the tasks and of the provider's calls.
TypeOK ==
  /\ actions \in [Slots -> ActionRows]
  /\ \A s \in Slots : actions[s].status # "absent" => actions[s].payload \in Payloads
  /\ executions \in [Slots -> ExecutionRows]
  /\ pc \in [Tasks -> Places]
  /\ job \in [Tasks -> Jobs \cup {None}]
  /\ \A t \in Tasks : pc[t] # "idle" => job[t] \in Jobs
  /\ call \in [Tasks -> 0 .. MaxCalls]
  /\ \A t \in Tasks : pc[t] = "await" => call[t] # 0
  /\ out \in [Tasks -> Results \cup {"none"}]
  /\ calls \in [Slots -> [1 .. MaxCalls -> CallStates]]
  /\ catalog \in [Slots -> Specs]
  /\ version \in Versions
  /\ confirmAll \in ConfirmModes
  /\ faults \in 0 .. MaxFaults

\* Two coroutines never run the handler of one write under one idempotency
\* key at the same time, whichever mix of direct requests, confirmations,
\* retries, reconciliations, crashes and cancellations brought them there.
HandlerExclusive ==
  \A t, u \in Tasks : \A s \in Slots :
    Runs(t, s) /\ Runs(u, s) /\ IsWrite(catalog[s]) => t = u

\* A task that works for a claimed action is the only one to, and the row
\* stays EXECUTING until it settles it: actions.finish never raises "action
\* is not executing", and no cancel, expiry or reconcile slips in between.
ClaimExclusive ==
  \A t \in Tasks : Claims(t) =>
    /\ actions[Slot(t)].status = "executing"
    /\ \A u \in Tasks : Claims(u) /\ Slot(u) = Slot(t) => u = t

\* What runs under a claim is what the requester was shown and confirmed:
\* the same full identity asked and confirmed, and neither the version nor
\* the permissions changed since, across restarts and deployments.
RunsWhatWasConfirmed ==
  \A t \in Tasks : \A s \in Slots :
    Claims(t) /\ Runs(t, s) =>
      /\ job[t].payload = actions[s].payload
      /\ actions[s].payload.by = job[t].who /\ actions[s].confirmedBy = job[t].who
      /\ actions[s].payload.version = version

\* An action still pending, cancelled or expired has never been executed.
RejectedNeverRuns ==
  \A s \in Slots : actions[s].status \in {"pending", "cancelled", "expired"} =>
    /\ executions[s].owner # "action"
    /\ \A t \in Tasks : ~(Claims(t) /\ Slot(t) = s)

\* A write the tables report as succeeded was applied by the provider, also
\* when the report is a replay or the end of a retry, unless the success is a
\* reconcile handler's word for it; and that is only ever recorded of an intent
\* whose UNKNOWN policy has one asked.  (A handler may clarify: the execution,
\* not the action, then counts as succeeded.)
Vouched(s, row) == row.result = "found" /\ Reconciles(catalog[s])

SucceededIsApplied ==
  \A s \in Slots : IsWrite(catalog[s]) =>
    /\ actions[s].status = "succeeded" => Applied(s) # {} \/ Vouched(s, actions[s])
    /\ executions[s].status = "succeeded" /\ executions[s].result # "clarify" =>
         Applied(s) # {} \/ Vouched(s, executions[s])

Sent(s) == (1 .. MaxCalls) \ Unsent(s)

\* Under a policy that never retries, a failed execution changed nothing and
\* never will: no call of it was applied and none is still under way.
\* ("absent" is what a reconcile handler said, not what the handler saw.  A
\* retry can fail after an earlier call was applied: see README.)
FailedHadNoEffect ==
  \A s \in Slots :
    /\ IsWrite(catalog[s]) /\ catalog[s].policy \notin RetryPolicies
    /\ executions[s].status = "failed" /\ executions[s].result # "absent"
    => \A n \in Sent(s) : calls[s][n] = "refused"

\* The provider is called a second time for one idempotency key only if the
\* intent's UNKNOWN policy allows a retry.
NoBlindRetry ==
  \A s \in Slots :
    IsWrite(catalog[s]) /\ catalog[s].policy \notin RetryPolicies
      => \A m, n \in Sent(s) : m = n

\* A final status is final: a late reconcile answer, a retry, a repeated
\* request or a restart changes neither row once it is settled.
FinalAction(row) == row.status \in {"succeeded", "failed", "cancelled", "expired"}
FinalExecution(row) == row.status \in {"succeeded", "failed"}

VerdictStable ==
  [][\A s \in Slots :
       /\ FinalAction(actions[s]) => actions'[s] = actions[s]
       /\ FinalExecution(executions[s]) => executions'[s] = executions[s]]_vars

\* The kernel implements ActionLedger: the action row shows the approval, the
\* execution row the run and its verdict, the provider the effect.
Approval(row) ==
  CASE row.status = "absent" -> "none"
    [] row.status = "pending" -> "asked"
    [] row.status \in {"cancelled", "expired"} -> "refused"
    [] OTHER -> "granted"

RunOf(row) ==
  CASE row.owner = "direct" -> "direct"
    [] row.owner = "action" -> "confirmed"
    [] OTHER -> "none"

VerdictOf(row) ==
  CASE row.status \in {"absent", "executing"} -> "none"
    [] row.status = "succeeded" /\ row.result = "clarify" -> "declined"
    [] row.status = "succeeded" /\ row.result = "found" -> "reported"
    [] OTHER -> row.status

Ledger == INSTANCE ActionLedger WITH
  approval <- [s \in Slots |-> Approval(actions[s])],
  run <- [s \in Slots |-> RunOf(executions[s])],
  applied <- [s \in Slots |-> IsWrite(catalog[s]) /\ Applied(s) # {}],
  verdict <- [s \in Slots |-> VerdictOf(executions[s])]

LedgerSpec == Ledger!Spec

\* Without faults every claim is settled and every reserved execution concluded:
\* neither row stays EXECUTING, on whichever path the coroutine returns.
RowsSettle ==
  \A s \in Slots :
    /\ actions[s].status = "executing" ~> actions[s].status # "executing"
    /\ executions[s].status = "executing" ~> executions[s].status # "executing"

-----------------------------------------------------------------------------
(* What the repository says of the program, and the program does not do.   *)

\* "The confirmation failed, and the request did not reach the remote side."
NotRunReachedNobody ==
  \A s \in Slots : actions[s].result = "not_run" => Sent(s) = {}

\* A settled action and the execution it ran agree.
Busy(s) == \E t \in Tasks : pc[t] # "idle" /\ Slot(t) = s
SettledRecordsAgree ==
  \A s \in Slots :
    /\ actions[s].status \in {"succeeded", "failed", "unknown"}
    /\ executions[s].owner = "action"
    /\ ~Busy(s)
    => executions[s].status = actions[s].status

\* "The same request is being executed" is said only while it is.
InProgressIsTrue ==
  [][\A t \in Tasks :
       AnswerInProgress(t) => \E u \in Tasks : Runs(u, Slot(t))]_vars
=============================================================================
