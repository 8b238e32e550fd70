------------------------- MODULE ActionLedgerProofs -------------------------
(***************************************************************************)
(* ActionKernel implements ActionLedger; a final status is final; and      *)
(* where nothing is retried the provider is called once, so that a failure *)
(* changed nothing.  For every number of tasks, slots, identities and      *)
(* versions, every catalogue, and any number of faults.                    *)
(*                                                                         *)
(* A step changes one of the two tables, or a call, in one slot (Changes). *)
(* On top of IInv, the rows say whether anything was sent (RowFits), what  *)
(* a task works on says how it came there (WorkFits), and a slot that is   *)
(* not retried has one call, made by the task that holds its row (OneCall).*)
(***************************************************************************)
EXTENDS ActionKernelProofs

-----------------------------------------------------------------------------
(* The second invariant.                                                   *)

\* An execution row has an owner from its reservation on; nothing is sent for
\* a write before it.  An action that was not confirmed has no result.
RowFits(s) ==
  /\ executions[s].status = "absent" <=> executions[s].owner = "none"
  /\ IsWrite(catalog[s]) /\ Sent(s) # {} => executions[s].owner # "none"
  /\ actions[s].status \in {"absent", "pending"} => actions[s].result = "none"

\* Only writes have an execution to finish or to reconcile, and only intents
\* with a retry policy are retried.
WorkFits(t) ==
  /\ pc[t] \in {"finish", "query", "resolve_action", "resolve_execution"} =>
       IsWrite(Spec_(t))
  /\ pc[t] \in {"resolve_action", "resolve_execution"} => out[t] \in {"found", "absent"}
  /\ pc[t] = "finish" => out[t] \in HandlerOutcomes
  /\ pc[t] # "idle" /\ job[t].op = "retry" => Spec_(t).policy \in RetryPolicies

\* An action confirmed just now has not run before.
RunsFirst(t) == Claims(t) /\ job[t].op = "confirm" => actions[Slot(t)].result = "none"

Awaits(t) == pc[t] = "await" => calls[Slot(t)][call[t]] # "unsent"

NotRetried(s) == IsWrite(catalog[s]) /\ catalog[s].policy \notin RetryPolicies

AllRefused(s) == \A n \in Sent(s) : calls[s][n] = "refused"

\* What a task that runs the slot's handler knows of its calls.
RunnerKnows(t) ==
  /\ pc[t] \in {"start", "handler"} => Sent(Slot(t)) = {}
  /\ pc[t] = "finish" /\ ExecutionStatusFor(out[t]) = "failed" => AllRefused(Slot(t))

OneCall ==
  /\ \A t \in Tasks : pc[t] \in Running /\ NotRetried(Slot(t)) => RunnerKnows(t)
  /\ NoBlindRetry /\ FailedHadNoEffect

LInv ==
  /\ \A s \in Slots : RowFits(s)
  /\ \A t \in Tasks : WorkFits(t) /\ RunsFirst(t) /\ Awaits(t)
  /\ OneCall

-----------------------------------------------------------------------------
(* What a step changes.                                                    *)

\* The action of s is asked for, decided, run, settled or looked into.
Decides(s) ==
  /\ UNCHANGED <<executions, calls>>
  /\ \A x \in Slots \ {s} : actions'[x] = actions[x]
  /\ \/ /\ actions[s].status = "absent"
        /\ actions'[s].status = "pending" /\ actions'[s].result = "none"
     \/ /\ actions[s].status = "pending"
        /\ actions'[s].status \in {"pending", "executing", "expired", "cancelled"}
        /\ actions'[s].result = actions[s].result
     \/ /\ actions[s].status \in {"executing", "unknown"}
        /\ actions'[s].status \in {"executing", "succeeded", "failed", "unknown"}

OneRow(s) ==
  UNCHANGED <<actions, calls>> /\ \A x \in Slots \ {s} : executions'[x] = executions[x]

Takes(s) ==
  /\ OneRow(s)
  /\ executions[s].status = "absent" /\ executions'[s].status = "executing"
  /\ executions'[s].owner \in {"action", "direct"}
  /\ executions'[s].owner = "action" => actions[s].status = "executing"

Reopens(s) ==
  /\ OneRow(s)
  /\ executions[s].status = "unknown" /\ executions'[s].status = "executing"
  /\ executions[s].owner = "action" /\ executions'[s].owner = executions[s].owner

Concludes(s) ==
  /\ OneRow(s)
  /\ executions[s].status \in {"executing", "unknown"}
  /\ executions'[s].status \in {"succeeded", "failed", "unknown"}
  /\ executions'[s].owner = executions[s].owner
  /\ executions'[s].status = "succeeded" =>
       CASE executions'[s].result = "clarify" -> TRUE
         [] executions'[s].result = "found" -> CanReopen(executions[s])
         [] OTHER -> IsWrite(catalog[s]) /\ Applied(s) # {}
  /\ executions'[s].status = "failed" /\ NotRetried(s) =>
       executions'[s].result = "absent" \/ AllRefused(s)

OneCallOf(s, n) ==
  /\ UNCHANGED rows
  /\ \A x \in Slots \ {s} : calls'[x] = calls[x]
  /\ \A m \in (1 .. MaxCalls) \ {n} : calls'[s][m] = calls[s][m]

Sends(s, n) ==
  /\ OneCallOf(s, n)
  /\ calls[s][n] = "unsent" /\ calls'[s][n] = "flying"
  /\ IsWrite(catalog[s]) => executions[s].status = "executing"

Answers(s, n) ==
  /\ OneCallOf(s, n)
  /\ calls[s][n] = "flying" /\ calls'[s][n] \in {"applied", "refused"}

Rests == UNCHANGED <<rows, calls>>

Changes ==
  /\ UNCHANGED catalog
  /\ \/ Rests
     \/ \E s \in Slots : Decides(s) \/ Takes(s) \/ Reopens(s) \/ Concludes(s)
     \/ \E s \in Slots, n \in 1 .. MaxCalls : Sends(s, n) \/ Answers(s, n)

LEMMA StepChanges ==
  ASSUME IInv, LInv, NEW t \in Tasks, Step(t)
  PROVE  Changes
<1> USE DEF rows, deployment, Rests
<1>i. TypeOK /\ Placed /\ Handlers /\ Holders /\ Truth
  BY DEF IInv
<1>s. pc[t] # "idle" /\ Slot(t) \in Slots /\ UNCHANGED catalog
  BY <1>i DEF TypeOK, Slot, Jobs, Step, Authorize, CreateAction, Reserve, AnswerInProgress,
     Reopen, Start, HandlerEndsLocally, Send, Reply, FinishExecution, AuditFinished, Settle,
     Check, Query, ResolveAction, ResolveExecution, Reclaim
<1> DEFINE s == Slot(t)
<1>t. /\ actions \in [Slots -> ActionRows] /\ executions \in [Slots -> ExecutionRows]
      /\ calls \in [Slots -> [1 .. MaxCalls -> CallStates]]
      /\ out[t] \in Results \cup {"none"}
  BY <1>i DEF TypeOK
<1>1. CASE Authorize(t) \/ AnswerInProgress(t) \/ Start(t) \/ AuditFinished(t) \/ Check(t)
  BY <1>1, <1>s DEF Authorize, AnswerInProgress, Start, AuditFinished, Check, Changes
<1>2. CASE \/ \E o \in LocalOutcomes : HandlerEndsLocally(t, o)
           \/ \E o \in HandlerOutcomes : Reply(t, o)
           \/ \E a \in ReconcileAnswers : Query(t, a)
  BY <1>2, <1>s DEF HandlerEndsLocally, Reply, Query, Changes
<1>3. CASE CreateAction(t)
  <2>1. CASE actions[s].status = "absent"
    <3>1. actions'[s].status = "pending" /\ actions'[s].result = "none"
          /\ \A x \in Slots \ {s} : actions'[x] = actions[x]
      BY <1>3, <1>s, <1>t, <2>1 DEF CreateAction, NoAction
    <3> QED
      BY <1>3, <1>s, <2>1, <3>1 DEF CreateAction, Changes, Decides
  <2>2. CASE actions[s].status # "absent"
    BY <1>3, <1>s, <2>2 DEF CreateAction, Changes
  <2> QED
    BY <2>1, <2>2
<1>4. CASE Reserve(t)
  <2>1. CASE UNCHANGED executions
    BY <1>4, <1>s, <2>1 DEF Reserve, Changes
  <2>2. CASE ReserveOutcome(executions[s], job[t].payload) = "reserved"
             /\ executions' = [executions EXCEPT ![s] =
                  [status |-> "executing", payload |-> job[t].payload, result |-> "none",
                   owner |-> IF Claims(t) THEN "action" ELSE "direct"]]
    <3>1. executions[s].status = "absent"
      BY <2>2 DEF ReserveOutcome
    <3>2. /\ executions'[s].status = "executing"
          /\ executions'[s].owner = IF Claims(t) THEN "action" ELSE "direct"
          /\ \A x \in Slots \ {s} : executions'[x] = executions[x]
      BY <1>s, <1>t, <2>2
    <3>3. Claims(t) => actions[s].status = "executing"
      BY <1>i DEF Holders, ClaimExclusive
    <3>4. Takes(s)
      BY <1>4, <3>1, <3>2, <3>3 DEF Reserve, Takes, OneRow
    <3> QED
      BY <1>s, <3>4 DEF Changes
  <2> QED
    BY <1>4, <2>1, <2>2 DEF Reserve
<1>5. CASE Reopen(t)
  <2>1. CASE UNCHANGED executions
    BY <1>5, <1>s, <2>1 DEF Reopen, Changes
  <2>2. CASE CanReopen(executions[s])
             /\ executions' = [executions EXCEPT ![s].status = "executing"]
    <3>1. Reopens(s)
      BY <1>5, <1>s, <1>t, <2>2 DEF Reopen, CanReopen, Reopens, OneRow, ExecutionRows
    <3> QED
      BY <1>s, <3>1 DEF Changes
  <2> QED
    BY <1>5, <2>1, <2>2 DEF Reopen
<1>6. ASSUME NEW n \in 1 .. MaxCalls, Send(t, n)
      PROVE  Changes
  <2>1. calls[s][n] = "unsent" /\ calls' = [calls EXCEPT ![s][n] = "flying"]
    BY <1>6 DEF Send, Unsent
  <2>2. IsWrite(catalog[s]) => executions[s].status = "executing"
    BY <1>6, <1>i, <1>s DEF Send, Handlers, RunnerHoldsRow, Runs, Running
  <2>3. Sends(s, n)
    BY <1>6, <1>s, <1>t, <2>1, <2>2 DEF Send, Sends, OneCallOf
  <2> QED
    BY <1>s, <2>3 DEF Changes
<1>7. CASE FinishExecution(t)
  <2>1. CASE UNCHANGED executions
    BY <1>7, <1>s, <2>1 DEF FinishExecution, Changes
  <2>2. CASE executions[s].status = "executing" /\ executions' = [executions EXCEPT
               ![s].status = ExecutionStatusFor(out[t]), ![s].result = out[t]]
    <3>1. /\ pc[t] = "finish" /\ UNCHANGED <<actions, calls>> /\ IsWrite(catalog[s])
          /\ out[t] \in HandlerOutcomes
      BY <1>7 DEF FinishExecution, LInv, WorkFits, Spec_
    <3>2. /\ executions'[s].status = ExecutionStatusFor(out[t])
          /\ executions'[s].result = out[t] /\ executions'[s].owner = executions[s].owner
          /\ \A x \in Slots \ {s} : executions'[x] = executions[x]
      BY <1>s, <1>t, <2>2 DEF ExecutionRows
    <3>3. ExecutionStatusFor(out[t]) \in {"succeeded", "failed", "unknown"}
      BY DEF ExecutionStatusFor
    <3>4. ExecutionStatusFor(out[t]) = "succeeded" => out[t] \in {"success", "clarify"}
      BY DEF ExecutionStatusFor
    <3>5. out[t] # "found" /\ (out[t] = "success" => Applied(s) # {})
      BY <1>i, <3>1
      DEF Truth, CarriesTruth, Grounded, Successes, HandlerOutcomes, Uncertain, Vague
    <3>6. ExecutionStatusFor(out[t]) = "failed" /\ NotRetried(s) => AllRefused(s)
      BY <3>1 DEF LInv, OneCall, RunnerKnows, Running
    <3>7. Concludes(s)
      BY <2>2, <3>1, <3>2, <3>3, <3>4, <3>5, <3>6 DEF Concludes, OneRow
    <3> QED
      BY <1>s, <3>7 DEF Changes
  <2> QED
    BY <1>7, <2>1, <2>2 DEF FinishExecution
<1>8. CASE Settle(t)
  <2>1. CASE actions[s].status # "executing"
    BY <1>8, <1>s, <2>1 DEF Settle, Changes
  <2>2. CASE actions[s].status = "executing"
    <3>1. actions'[s].status = ActionStatusFor(IsWrite(Spec_(t)), out[t])
          /\ \A x \in Slots \ {s} : actions'[x] = actions[x]
      BY <1>8, <1>s, <1>t, <2>2 DEF Settle, ActionRows
    <3>2. ActionStatusFor(IsWrite(Spec_(t)), out[t]) \in {"succeeded", "failed", "unknown"}
      BY DEF ActionStatusFor
    <3>3. Decides(s)
      BY <1>8, <2>2, <3>1, <3>2 DEF Settle, Decides
    <3> QED
      BY <1>s, <3>3 DEF Changes
  <2> QED
    BY <2>1, <2>2
<1>9. CASE ResolveAction(t)
  <2>1. CASE actions[s].status # "unknown"
    BY <1>9, <1>s, <2>1 DEF ResolveAction, Changes
  <2>2. CASE actions[s].status = "unknown"
    <3>1. actions'[s].status = Verdict(out[t])
          /\ \A x \in Slots \ {s} : actions'[x] = actions[x]
      BY <1>9, <1>s, <1>t, <2>2 DEF ResolveAction, ActionRows
    <3>2. Decides(s)
      BY <1>9, <2>2, <3>1 DEF ResolveAction, Decides, Verdict
    <3> QED
      BY <1>s, <3>2 DEF Changes
  <2> QED
    BY <2>1, <2>2
<1>10. CASE ResolveExecution(t)
  <2>1. CASE ~CanReopen(executions[s])
    BY <1>10, <1>s, <2>1 DEF ResolveExecution, Changes
  <2>2. CASE CanReopen(executions[s])
    <3>1. /\ pc[t] = "resolve_execution" /\ UNCHANGED <<actions, calls>>
          /\ IsWrite(catalog[s]) /\ out[t] \in {"found", "absent"}
      BY <1>10 DEF ResolveExecution, LInv, WorkFits, Spec_
    <3>2. /\ executions'[s].status = Verdict(out[t])
          /\ executions'[s].result = out[t] /\ executions'[s].owner = executions[s].owner
          /\ \A x \in Slots \ {s} : executions'[x] = executions[x]
      BY <1>10, <1>s, <1>t, <2>2 DEF ResolveExecution, ExecutionRows
    <3>3. Concludes(s)
      BY <2>2, <3>1, <3>2 DEF Concludes, OneRow, CanReopen, Verdict
    <3> QED
      BY <1>s, <3>3 DEF Changes
  <2> QED
    BY <2>1, <2>2
<1>11. CASE Reclaim(t)
  <2>1. CASE UNCHANGED actions
    BY <1>11, <1>s, <2>1 DEF Reclaim, Changes
  <2>2. CASE actions[s].status = "unknown"
             /\ actions' = [actions EXCEPT ![s].status = "executing"]
    <3>1. Decides(s)
      BY <1>11, <1>s, <1>t, <2>2 DEF Reclaim, Decides, ActionRows
    <3> QED
      BY <1>s, <3>1 DEF Changes
  <2> QED
    BY <1>11, <2>1, <2>2 DEF Reclaim
<1> QED
  BY <1>1, <1>2, <1>3, <1>4, <1>5, <1>6, <1>7, <1>8, <1>9, <1>10, <1>11 DEF Step

LEMMA OtherChanges ==
  ASSUME IInv, OtherMoves
  PROVE  Changes
<1> USE DEF rows, deployment, Rests
<1>t. /\ actions \in [Slots -> ActionRows]
      /\ calls \in [Slots -> [1 .. MaxCalls -> CallStates]]
  BY DEF IInv, TypeOK
<1>1. ASSUME NEW t \in Tasks, Request(t)
      PROVE  Changes
  <2>1. PICK s \in Slots, p \in Principals :
           \/ \E a \in Args : Execute(t, s, p, a)
           \/ Confirm(t, s, p) \/ Reconcile(t, s, p) \/ RetryUnknown(t, s, p)
    BY <1>1 DEF Request
  <2>2. CASE (\E a \in Args : Execute(t, s, p, a)) \/ Reconcile(t, s, p) \/ RetryUnknown(t, s, p)
    BY <2>2 DEF Execute, Reconcile, RetryUnknown, Changes
  <2>3. CASE Confirm(t, s, p)
    <3>1. /\ actions'[s].status = "executing" /\ actions'[s].result = actions[s].result
          /\ \A x \in Slots \ {s} : actions'[x] = actions[x]
      BY <1>t, <2>3 DEF Confirm, ActionRows
    <3>2. Decides(s)
      BY <2>3, <3>1 DEF Confirm, Claimable, Decides
    <3> QED
      BY <2>3, <3>2 DEF Confirm, Changes
  <2> QED
    BY <2>1, <2>2, <2>3
<1>2. ASSUME NEW t \in Tasks, Fails(t) \/ CancelTask(t)
      PROVE  Changes
  BY <1>2 DEF Fails, CancelTask, Changes
<1>3. ASSUME NEW s \in Slots, ActionMoves(s)
      PROVE  Changes
  <2>1. actions[s].status = "pending" /\ UNCHANGED <<executions, calls, catalog>>
    BY <1>3 DEF ActionMoves, ConfirmTooLate, TimePasses, Cancel, Claimable
  <2>2. PICK row \in ActionRows :
          /\ actions' = [actions EXCEPT ![s] = row]
          /\ row.status \in {"pending", "expired", "cancelled"}
          /\ row.result = actions[s].result
    <3>1. \A st \in ActionStatuses : [actions[s] EXCEPT !.status = st] \in ActionRows
      BY <1>t DEF ActionRows
    <3>2. [actions[s] EXCEPT !.overdue = TRUE] \in ActionRows
      BY <1>t DEF ActionRows
    <3>3. CASE actions' = [actions EXCEPT ![s].status = "expired"]
      <4>1. actions' = [actions EXCEPT ![s] = [actions[s] EXCEPT !.status = "expired"]]
        BY <3>3
      <4>2. [actions[s] EXCEPT !.status = "expired"] \in ActionRows
        BY <3>1 DEF ActionStatuses
      <4> QED
        BY <1>t, <4>1, <4>2 DEF ActionRows
    <3>4. CASE TimePasses(s)
      BY <1>t, <2>1, <3>2, <3>4 DEF TimePasses, ActionRows
    <3>5. CASE actions' = [actions EXCEPT ![s].status = "cancelled"]
      <4>1. actions' = [actions EXCEPT ![s] = [actions[s] EXCEPT !.status = "cancelled"]]
        BY <3>5
      <4>2. [actions[s] EXCEPT !.status = "cancelled"] \in ActionRows
        BY <3>1 DEF ActionStatuses
      <4> QED
        BY <1>t, <4>1, <4>2 DEF ActionRows
    <3> QED
      BY <1>3, <3>3, <3>4, <3>5 DEF ActionMoves, ConfirmTooLate, Cancel
  <2>3. Decides(s)
    BY <1>t, <2>1, <2>2 DEF Decides
  <2> QED
    BY <2>1, <2>3 DEF Changes
<1>4. ASSUME NEW s \in Slots, ProviderMoves(s)
      PROVE  Changes
  <2>1. PICK n \in 1 .. MaxCalls, st \in {"applied", "refused"} :
          /\ calls[s][n] = "flying" /\ calls' = [calls EXCEPT ![s][n] = st]
          /\ UNCHANGED <<rows, catalog>>
    BY <1>4 DEF ProviderMoves, ProviderApplies, ProviderRefuses
  <2>2. Answers(s, n)
    BY <1>t, <2>1 DEF Answers, OneCallOf
  <2> QED
    BY <2>1, <2>2 DEF Changes
<1>5. CASE Restart
  BY <1>5 DEF Restart, Changes
<1> QED
  BY <1>1, <1>2, <1>3, <1>4, <1>5 DEF OtherMoves

LEMMA NextChanges ==
  ASSUME IInv, LInv, [Next]_vars
  PROVE  Changes
<1>1. CASE UNCHANGED vars
  BY <1>1 DEF vars, deployment, Changes, Rests
<1>2. CASE Next
  BY <1>2, StepChanges, OtherChanges DEF Next, OtherMoves
<1> QED
  BY <1>1, <1>2

-----------------------------------------------------------------------------
(* The rows and the calls.                                                 *)

LEMMA CallsStay ==
  ASSUME TypeOK, Changes
  PROVE  /\ \A s \in Slots, n \in 1 .. MaxCalls :
              calls[s][n] # "unsent" => calls'[s][n] # "unsent"
         /\ \A s \in Slots : Applied(s) # {} => Applied(s)' # {}
<1>1. \A s \in Slots, n \in 1 .. MaxCalls :
        /\ calls[s][n] # "unsent" => calls'[s][n] # "unsent"
        /\ calls[s][n] = "applied" => calls'[s][n] = "applied"
  <2>1. CASE UNCHANGED calls
    BY <2>1
  <2>2. ASSUME NEW s \in Slots, NEW n \in 1 .. MaxCalls, Sends(s, n) \/ Answers(s, n)
        PROVE  \A x \in Slots, m \in 1 .. MaxCalls :
                 /\ calls[x][m] # "unsent" => calls'[x][m] # "unsent"
                 /\ calls[x][m] = "applied" => calls'[x][m] = "applied"
    BY <2>2 DEF Sends, Answers, OneCallOf
  <2> QED
    BY <2>1, <2>2 DEF Changes, Rests, Decides, Takes, Reopens, Concludes, OneRow
<1> QED
  BY <1>1 DEF Applied

LEMMA RowsFit ==
  ASSUME TypeOK, Changes, \A s \in Slots : RowFits(s)
  PROVE  \A s \in Slots : RowFits(s)'
<1>0. UNCHANGED catalog
  BY DEF Changes
<1>1. CASE Rests
  BY <1>0, <1>1 DEF Rests, rows, RowFits, Sent, Unsent
<1>2. ASSUME NEW s \in Slots, Decides(s)
      PROVE  \A x \in Slots : RowFits(x)'
  <2>1. UNCHANGED <<executions, calls>> /\ \A x \in Slots \ {s} : actions'[x] = actions[x]
    BY <1>2 DEF Decides
  <2>2. actions'[s].status \in {"absent", "pending"} => actions'[s].result = "none"
    BY <1>2 DEF Decides, RowFits
  <2> QED
    BY <1>0, <2>1, <2>2 DEF RowFits, Sent, Unsent
<1>3. ASSUME NEW s \in Slots, Takes(s) \/ Reopens(s) \/ Concludes(s)
      PROVE  \A x \in Slots : RowFits(x)'
  <2>1. /\ UNCHANGED <<actions, calls>> /\ \A x \in Slots \ {s} : executions'[x] = executions[x]
        /\ executions'[s].status # "absent" /\ executions'[s].owner # "none"
    BY <1>3 DEF Takes, Reopens, Concludes, OneRow, RowFits
  <2> QED
    BY <1>0, <2>1 DEF RowFits, Sent, Unsent
<1>4. ASSUME NEW s \in Slots, NEW n \in 1 .. MaxCalls, Sends(s, n) \/ Answers(s, n)
      PROVE  \A x \in Slots : RowFits(x)'
  <2>1. /\ UNCHANGED <<actions, executions>>
        /\ \A x \in Slots \ {s} : calls'[x] = calls[x]
        /\ IsWrite(catalog[s]) => executions[s].owner # "none"
    <3>1. CASE Sends(s, n)
      BY <3>1 DEF Sends, OneCallOf, rows, RowFits
    <3>2. CASE Answers(s, n)
      <4>1. n \in Sent(s)
        BY <3>2 DEF Answers, Sent, Unsent
      <4> QED
        BY <3>2, <4>1 DEF Answers, OneCallOf, rows, RowFits
    <3> QED
      BY <1>4, <3>1, <3>2
  <2> QED
    BY <1>0, <2>1 DEF RowFits, Sent, Unsent
<1> QED
  BY <1>1, <1>2, <1>3, <1>4 DEF Changes

-----------------------------------------------------------------------------
(* What a task works on.                                                   *)

\* The other tasks stay, and so does what they work on.
LEMMA WorkFrame ==
  ASSUME TypeOK, Changes, \A u \in Tasks : WorkFits(u) /\ Awaits(u),
         NEW t \in Tasks, OthersStay(t), \A u \in Tasks \ {t} : call'[u] = call[u]
  PROVE  \A u \in Tasks \ {t} : WorkFits(u)' /\ Awaits(u)'
<1> SUFFICES ASSUME NEW u \in Tasks \ {t}
             PROVE  WorkFits(u)' /\ Awaits(u)'
  OBVIOUS
<1>1. pc'[u] = pc[u] /\ job'[u] = job[u] /\ out'[u] = out[u] /\ call'[u] = call[u]
      /\ UNCHANGED catalog
  BY DEF OthersStay, Changes
<1>2. WorkFits(u)'
  <2>1. WorkFits(u)
    OBVIOUS
  <2> QED
    BY <1>1, <2>1 DEF WorkFits, Spec_, Slot
<1>3. Awaits(u)'
  <2>1. ASSUME pc[u] = "await"
        PROVE  calls'[Slot(u)][call[u]] # "unsent"
    <3>1. Slot(u) \in Slots /\ call[u] \in 1 .. MaxCalls
      BY <2>1, KernelAssumption DEF TypeOK, Slot, Jobs
    <3> QED
      BY <2>1, <3>1, CallsStay DEF Awaits
  <2> QED
    BY <1>1, <2>1 DEF Awaits, Slot
<1> QED
  BY <1>2, <1>3

LEMMA WorkStep ==
  ASSUME TypeOK, Placed, Changes, \A u \in Tasks : WorkFits(u) /\ Awaits(u),
         NEW t \in Tasks, Step(t)
  PROVE  \A u \in Tasks : WorkFits(u)' /\ Awaits(u)'
<1> USE Movement
<1> USE DEF Moves, WorkFits, Awaits, Spec_, Slot
<1>c. UNCHANGED catalog
  BY DEF Changes
<1>p. WorkFits(t) /\ PlaceFits(t)
  BY DEF Placed
<1>f. SUFFICES /\ OthersStay(t) /\ (\A u \in Tasks \ {t} : call'[u] = call[u])
               /\ WorkFits(t)' /\ Awaits(t)'
  BY WorkFrame
<1>k. pc[t] # "idle" /\ Slot(t) \in Slots /\ catalog[Slot(t)] \in Specs
  BY DEF TypeOK, Jobs, Step, Authorize, CreateAction, Reserve, AnswerInProgress,
     Reopen, Start, HandlerEndsLocally, Send, Reply, FinishExecution, AuditFinished, Settle,
     Check, Query, ResolveAction, ResolveExecution, Reclaim
<1> DEFINE Fine == /\ OthersStay(t) /\ (\A u \in Tasks \ {t} : call'[u] = call[u])
                   /\ WorkFits(t)' /\ Awaits(t)'
           Special == {"finish", "query", "resolve_action", "resolve_execution", "await"}
<1>m. /\ call \in [Tasks -> 0 .. MaxCalls]
      /\ \A place : Goto(t, place) /\ place \notin Special => Fine
      /\ \A place, r : Carry(t, place, r) /\ place \notin Special => Fine
      /\ \A r : Return(t, r) => Fine
      /\ Idle(t) => Fine
  <2>1. call \in [Tasks -> 0 .. MaxCalls]
    BY DEF TypeOK
  <2>w. pc'[t] \notin Special /\ job'[t] = job[t] => WorkFits(t)' /\ Awaits(t)'
    BY <1>c, <1>p, <1>k
  <2>2. ASSUME NEW place, Goto(t, place), place \notin Special
        PROVE  Fine
    <3>1. pc'[t] = place /\ job'[t] = job[t] /\ OthersStay(t)
      BY <2>2
    <3>2. UNCHANGED call
      BY <2>2 DEF Goto
    <3> QED
      BY <2>2, <2>w, <3>1, <3>2
  <2>3. ASSUME NEW place, NEW r, Carry(t, place, r), place \notin Special
        PROVE  Fine
    <3>1. pc'[t] = place /\ job'[t] = job[t] /\ OthersStay(t)
      BY <2>3
    <3>2. \A u \in Tasks \ {t} : call'[u] = call[u]
      BY <2>1, <2>3 DEF Carry
    <3> QED
      BY <2>3, <2>w, <3>1, <3>2
  <2>4. Idle(t) => Fine
    BY <1>c, <2>1 DEF Idle
  <2>5. \A r : Return(t, r) => Fine
    BY <2>3, <2>4 DEF Return
  <2> QED
    BY <2>1, <2>2, <2>3, <2>4, <2>5
<1>1. CASE Authorize(t)
  BY <1>1, <1>m DEF Authorize, Route
<1>2. CASE CreateAction(t) \/ AnswerInProgress(t) \/ AuditFinished(t) \/ Settle(t)
  BY <1>2, <1>m DEF CreateAction, AnswerInProgress, AuditFinished, Settle
<1>3. CASE Reserve(t) \/ Reopen(t) \/ Start(t)
  BY <1>3, <1>m DEF Reserve, Reopen, Start
<1>4. ASSUME NEW o \in HandlerOutcomes, Carry(t, AfterHandler(t), o)
      PROVE  Fine
  <2>1. CASE IsWrite(Spec_(t))
    <3>1. Carry(t, "finish", o)
      BY <1>4, <2>1 DEF AfterHandler
    <3>2. call'[t] = 0 /\ \A u \in Tasks \ {t} : call'[u] = call[u]
      BY <1>m, <3>1 DEF Carry
    <3> QED
      BY <1>c, <1>p, <1>k, <2>1, <3>1, <3>2
  <2>2. CASE ~IsWrite(Spec_(t))
    BY <1>4, <1>m, <2>2 DEF AfterHandler
  <2> QED
    BY <2>1, <2>2
<1>5. CASE (\E o \in LocalOutcomes : HandlerEndsLocally(t, o))
           \/ (\E o \in HandlerOutcomes : Reply(t, o))
  <2>1. LocalOutcomes \subseteq HandlerOutcomes
    BY KernelAssumption DEF HandlerOutcomes, Uncertain, Vague
  <2> QED
    BY <1>4, <1>5, <2>1 DEF HandlerEndsLocally, Reply
<1>6. ASSUME NEW n \in 1 .. MaxCalls, Send(t, n)
      PROVE  Fine
  <2>1. /\ pc' = [pc EXCEPT ![t] = "await"] /\ UNCHANGED <<job, out>>
        /\ call' = [call EXCEPT ![t] = n]
        /\ calls' = [calls EXCEPT ![Slot(t)][n] = "flying"]
    BY <1>6 DEF Send
  <2>2. calls'[Slot(t)][n] = "flying"
    <3>1. calls \in [Slots -> [1 .. MaxCalls -> CallStates]] /\ job[t].slot \in Slots
      BY <1>k DEF TypeOK
    <3> QED
      BY <2>1, <3>1
  <2>3. pc'[t] = "await" /\ OthersStay(t) /\ call'[t] = n
        /\ \A u \in Tasks \ {t} : call'[u] = call[u]
    BY <1>m, <2>1 DEF TypeOK, OthersStay
  <2> QED
    BY <1>c, <1>p, <1>k, <2>1, <2>2, <2>3
<1>7. CASE FinishExecution(t)
  BY <1>7, <1>m DEF FinishExecution, Raise
<1>8. CASE Check(t)
  <2>1. CASE Reconcilable(Slot(t), job[t].who) /\ Goto(t, "query")
    <3>1. IsWrite(catalog[Slot(t)])
      BY <1>k, <2>1, KernelAssumption DEF Reconcilable, Reconciles, Registrable
    <3>2. pc'[t] = "query" /\ job'[t] = job[t] /\ OthersStay(t)
      BY <2>1
    <3>3. UNCHANGED call
      BY <2>1 DEF Goto
    <3> QED
      BY <1>c, <1>p, <1>k, <3>1, <3>2, <3>3
  <2>2. CASE AfterReconcile(t)
    BY <1>m, <2>2 DEF AfterReconcile
  <2> QED
    BY <1>8, <2>1, <2>2 DEF Check
<1>9. ASSUME NEW a \in ReconcileAnswers, Query(t, a)
      PROVE  Fine
  <2>1. CASE AfterReconcile(t)
    BY <1>m, <2>1 DEF AfterReconcile
  <2>2. ASSUME NEW r \in {"found", "absent"}, Carry(t, "resolve_action", r)
        PROVE  Fine
    <3>1. call'[t] = 0 /\ \A u \in Tasks \ {t} : call'[u] = call[u]
      BY <1>m, <2>2 DEF Carry
    <3> QED
      BY <1>9, <1>c, <1>p, <1>k, <2>2, <3>1 DEF Query
  <2> QED
    BY <1>9, <2>1, <2>2 DEF Query
<1>10. CASE ResolveAction(t)
  <2>1. pc[t] = "resolve_action" /\ Goto(t, "resolve_execution")
    BY <1>10 DEF ResolveAction
  <2>2. pc'[t] = "resolve_execution" /\ job'[t] = job[t] /\ out'[t] = out[t] /\ OthersStay(t)
    BY <2>1
  <2>3. UNCHANGED call
    BY <2>1 DEF Goto
  <2> QED
    BY <1>c, <1>p, <2>1, <2>2, <2>3
<1>11. CASE ResolveExecution(t)
  BY <1>11, <1>m DEF ResolveExecution
<1>12. CASE Reclaim(t)
  BY <1>12, <1>m DEF Reclaim
<1> QED
  BY <1>1, <1>2, <1>3, <1>5, <1>6, <1>7, <1>8, <1>9, <1>10, <1>11, <1>12 DEF Step

LEMMA WorkOther ==
  ASSUME TypeOK, Changes, \A u \in Tasks : WorkFits(u) /\ Awaits(u), OtherMoves
  PROVE  \A u \in Tasks : WorkFits(u)' /\ Awaits(u)'
<1> USE DEF WorkFits, Awaits, Spec_, Slot
<1>c. UNCHANGED catalog /\ call \in [Tasks -> 0 .. MaxCalls]
  BY DEF Changes, TypeOK
<1>1. ASSUME NEW t \in Tasks, Request(t)
      PROVE  \A u \in Tasks : WorkFits(u)' /\ Awaits(u)'
  <2>1. /\ OthersStay(t) /\ UNCHANGED call /\ pc'[t] \in {"authorize", "check", "reclaim"}
        /\ job'[t].op = "retry" => catalog[job'[t].slot].policy \in RetryPolicies
    <3>1. PICK s \in Slots, p \in Principals :
             \/ \E a \in Args : Execute(t, s, p, a)
             \/ Confirm(t, s, p) \/ Reconcile(t, s, p) \/ RetryUnknown(t, s, p)
      BY <1>1 DEF Request
    <3> DEFINE Fresh ==
           /\ OthersStay(t) /\ UNCHANGED call /\ pc'[t] \in {"authorize", "check", "reclaim"}
           /\ job'[t].op = "retry" => catalog[job'[t].slot].policy \in RetryPolicies
    <3>2. ASSUME NEW place \in {"authorize", "check", "reclaim"}, NEW work,
                 Begin(t, place, work),
                 work.op = "retry" => catalog[work.slot].policy \in RetryPolicies
          PROVE  Fresh
      <4>1. OthersStay(t) /\ pc'[t] = place /\ job'[t] = work
        BY <3>2, Movement
      <4> QED
        BY <3>2, <4>1 DEF Begin
    <3>3. CASE \E a \in Args : Execute(t, s, p, a)
      BY <3>2, <3>3 DEF Execute
    <3>4. CASE Confirm(t, s, p)
      BY <3>2, <3>4 DEF Confirm
    <3>5. CASE Reconcile(t, s, p)
      BY <3>2, <3>5 DEF Reconcile
    <3>6. CASE RetryUnknown(t, s, p)
      BY <3>2, <3>6 DEF RetryUnknown
    <3> QED
      BY <3>1, <3>3, <3>4, <3>5, <3>6
  <2>2. WorkFits(t)' /\ Awaits(t)'
    BY <1>c, <2>1
  <2> QED
    BY <2>1, <2>2, WorkFrame
<1>2. ASSUME NEW t \in Tasks, Fails(t) \/ CancelTask(t)
      PROVE  \A u \in Tasks : WorkFits(u)' /\ Awaits(u)'
  <2>1. Idle(t) \/ (Claims(t) /\ Carry(t, "settle", "not_run"))
    BY <1>2 DEF Fails, CancelTask, Raise, Return
  <2>2. OthersStay(t) /\ \A u \in Tasks \ {t} : call'[u] = call[u]
    BY <1>c, <2>1, Movement DEF Idle, Carry, Moves
  <2>3. WorkFits(t)' /\ Awaits(t)'
    <3>1. CASE Idle(t)
      BY <3>1, Movement
    <3>2. CASE Claims(t) /\ Carry(t, "settle", "not_run")
      <4>1. pc[t] # "idle" /\ pc'[t] = "settle" /\ job'[t] = job[t]
        BY <3>2, Movement DEF Moves, Claims, ClaimedPlaces, Running
      <4> QED
        BY <1>c, <4>1
    <3> QED
      BY <2>1, <3>1, <3>2
  <2> QED
    BY <2>2, <2>3, WorkFrame
<1>3. ASSUME NEW s \in Slots, ActionMoves(s) \/ ProviderMoves(s)
      PROVE  \A u \in Tasks : WorkFits(u)' /\ Awaits(u)'
  <2>1. UNCHANGED <<pc, job, call, out>>
    BY <1>3 DEF ActionMoves, ConfirmTooLate, TimePasses, Cancel, ProviderMoves,
       ProviderApplies, ProviderRefuses, tasks
  <2>2. ASSUME NEW u \in Tasks, pc[u] = "await"
        PROVE  calls'[job[u].slot][call[u]] # "unsent"
    <3>1. job[u].slot \in Slots /\ call[u] \in 1 .. MaxCalls
      BY <2>2, KernelAssumption DEF TypeOK, Jobs
    <3> QED
      BY <2>2, <3>1, CallsStay
  <2> QED
    BY <1>c, <2>1, <2>2
<1>4. CASE Restart
  BY <1>4 DEF Restart
<1> QED
  BY <1>1, <1>2, <1>3, <1>4 DEF OtherMoves

-----------------------------------------------------------------------------
(* A confirmed action runs for the first time.                             *)

\* A task's step is its own, and it begins to claim only by reclaiming.
LEMMA StepOthers ==
  ASSUME TypeOK, NEW t \in Tasks, Step(t)
  PROVE  /\ OthersStay(t)
         /\ \/ pc'[t] = "idle"
            \/ /\ job'[t] = job[t]
               /\ pc'[t] \in ClaimedPlaces => pc[t] \in ClaimedPlaces \cup {"reclaim"}
<1> USE Movement
<1> USE DEF Moves, ClaimedPlaces, Running
<1>r. ASSUME NEW r, Return(t, r)
      PROVE  OthersStay(t) /\ (pc'[t] = "idle" \/ (job'[t] = job[t] /\ pc[t] \in ClaimedPlaces))
  BY <1>r DEF Claims
<1>1. CASE Authorize(t) \/ CreateAction(t) \/ AnswerInProgress(t) \/ AuditFinished(t) \/ Settle(t)
  BY <1>1, <1>r DEF Authorize, CreateAction, AnswerInProgress, AuditFinished, Settle
<1>2. CASE Reserve(t) \/ Reopen(t) \/ Start(t)
  BY <1>2, <1>r DEF Reserve, Reopen, Start
<1>3. CASE (\E o \in LocalOutcomes : HandlerEndsLocally(t, o))
           \/ (\E o \in HandlerOutcomes : Reply(t, o))
  BY <1>3 DEF HandlerEndsLocally, Reply
<1>4. ASSUME NEW n \in 1 .. MaxCalls, Send(t, n)
      PROVE  OthersStay(t) /\ job'[t] = job[t] /\ pc[t] \in ClaimedPlaces
  BY <1>4 DEF Send, TypeOK, OthersStay
<1>5. CASE FinishExecution(t)
  BY <1>5, <1>r DEF FinishExecution, Raise
<1>6. CASE Check(t) \/ ResolveAction(t) \/ ResolveExecution(t) \/ Reclaim(t)
  BY <1>6 DEF Check, ResolveAction, ResolveExecution, Reclaim, AfterReconcile
<1>7. ASSUME NEW a \in ReconcileAnswers, Query(t, a)
      PROVE  OthersStay(t) /\ (pc'[t] = "idle" \/ (job'[t] = job[t] /\ pc'[t] \notin ClaimedPlaces))
  BY <1>7 DEF Query, AfterReconcile
<1> QED
  BY <1>1, <1>2, <1>3, <1>4, <1>5, <1>6, <1>7 DEF Step

LEMMA FirstStep ==
  ASSUME IInv, \A u \in Tasks : RunsFirst(u), NEW t \in Tasks, Step(t)
  PROVE  \A u \in Tasks : RunsFirst(u)'
<1> USE DEF Slot
<1>i. TypeOK /\ Placed /\ ClaimExclusive /\ PlaceFits(t)
  BY DEF IInv, Holders, Placed
<1> USE <1>i
<1>1. /\ OthersStay(t)
      /\ \/ pc'[t] = "idle"
         \/ /\ job'[t] = job[t]
            /\ pc'[t] \in ClaimedPlaces => pc[t] \in ClaimedPlaces \cup {"reclaim"}
  BY StepOthers
<1>2. \A s \in Slots : actions[s].status = "executing" /\ actions'[s] # actions[s] =>
        pc[t] = "settle" /\ job[t].slot = s /\ pc'[t] = "idle"
  <2> SUFFICES ASSUME NEW s \in Slots, actions[s].status = "executing", actions'[s] # actions[s]
               PROVE  pc[t] = "settle" /\ job[t].slot = s /\ pc'[t] = "idle"
    OBVIOUS
  <2>0. actions \in [Slots -> ActionRows]
    BY DEF TypeOK
  <2>1. CASE CreateAction(t) \/ ResolveAction(t) \/ Reclaim(t)
    BY <2>0, <2>1 DEF CreateAction, ResolveAction, Reclaim
  <2>2. CASE Settle(t)
    BY <2>0, <2>2, Movement DEF Settle
  <2>3. actions' # actions
    OBVIOUS
  <2> QED
    BY <2>1, <2>2, <2>3 DEF Step, Authorize, Reserve, AnswerInProgress, Reopen, Start,
       HandlerEndsLocally, Send, Reply, FinishExecution, AuditFinished, Check, Query,
       ResolveExecution, rows
<1>3. ASSUME NEW u \in Tasks, Claims(u)', job'[u].op = "confirm"
      PROVE  actions'[job'[u].slot].result = "none"
  <2>1. Claims(u) /\ job'[u] = job[u] /\ pc'[u] # "idle"
    <3>1. CASE u = t
      BY <1>1, <1>3, <3>1 DEF Claims, PlaceFits, ClaimedPlaces, Running
    <3>2. CASE u # t
      BY <1>1, <1>3, <3>2 DEF OthersStay, Claims, ClaimedPlaces, Running
    <3> QED
      BY <3>1, <3>2
  <2>2. actions[job[u].slot].status = "executing" /\ job[u].slot \in Slots
        /\ actions[job[u].slot].result = "none"
    BY <1>3, <2>1 DEF ClaimExclusive, RunsFirst, TypeOK, Jobs, Claims, ClaimedPlaces, Running
  <2>3. actions'[job[u].slot] = actions[job[u].slot]
    <3>1. pc[t] = "settle" /\ job[t].slot = job[u].slot => Claims(t)
      BY DEF PlaceFits, Claims, ClaimedPlaces
    <3>2. pc[t] = "settle" /\ job[t].slot = job[u].slot => u = t
      BY <2>1, <3>1 DEF ClaimExclusive
    <3> QED
      BY <1>2, <2>1, <2>2, <3>2
  <2> QED
    BY <2>1, <2>2, <2>3
<1> QED
  BY <1>3 DEF RunsFirst

LEMMA FirstOther ==
  ASSUME IInv, \A u \in Tasks : RunsFirst(u), \A s \in Slots : RowFits(s), OtherMoves
  PROVE  \A u \in Tasks : RunsFirst(u)'
<1> USE DEF Slot
<1>i. TypeOK /\ Placed /\ ClaimExclusive /\ actions \in [Slots -> ActionRows]
  BY DEF IInv, Holders, TypeOK
<1> USE <1>i
<1>c. \A u \in Tasks : Claims(u) =>
        job[u].slot \in Slots /\ actions[job[u].slot].status = "executing"
  BY DEF ClaimExclusive, Claims, ClaimedPlaces, Running, TypeOK, Jobs
<1>1. ASSUME NEW t \in Tasks, Request(t)
      PROVE  \A u \in Tasks : RunsFirst(u)'
  <2>1. PICK s \in Slots, p \in Principals :
           \/ \E a \in Args : Execute(t, s, p, a)
           \/ Confirm(t, s, p) \/ Reconcile(t, s, p) \/ RetryUnknown(t, s, p)
    BY <1>1 DEF Request
  <2>2. ASSUME NEW place, NEW work, Begin(t, place, work), UNCHANGED actions,
               work.op # "confirm"
        PROVE  \A u \in Tasks : RunsFirst(u)'
    <3>1. OthersStay(t) /\ job'[t] = work
      BY <2>2, Movement
    <3> QED
      BY <2>2, <3>1 DEF RunsFirst, Claims, OthersStay
  <2>3. CASE Confirm(t, s, p)
    <3>1. /\ OthersStay(t) /\ job'[t].slot = s /\ actions'[s].result = actions[s].result
          /\ \A x \in Slots \ {s} : actions'[x] = actions[x]
          /\ actions[s].status = "pending"
      BY <2>3, Movement DEF Confirm, Claimable, ActionRows
    <3>2. actions[s].result = "none"
      BY <3>1 DEF RowFits
    <3>3. \A u \in Tasks \ {t} : Claims(u) => job[u].slot # s
      BY <1>c, <3>1
    <3> QED
      BY <1>c, <3>1, <3>2, <3>3 DEF RunsFirst, Claims, OthersStay
  <2>4. CASE (\E a \in Args : Execute(t, s, p, a)) \/ Reconcile(t, s, p) \/ RetryUnknown(t, s, p)
    BY <2>2, <2>4 DEF Execute, Reconcile, RetryUnknown, rows
  <2> QED
    BY <2>1, <2>3, <2>4
<1>2. ASSUME NEW t \in Tasks, Fails(t) \/ CancelTask(t)
      PROVE  \A u \in Tasks : RunsFirst(u)'
  <2>1. Idle(t) \/ Return(t, "not_run")
    BY <1>2 DEF Fails, CancelTask, Raise
  <2>2. OthersStay(t) /\ (pc'[t] = "idle" \/ (Claims(t) /\ job'[t] = job[t]))
    BY <2>1, Movement DEF Moves
  <2>3. UNCHANGED actions
    BY <1>2 DEF Fails, CancelTask, rows
  <2> QED
    BY <2>2, <2>3 DEF RunsFirst, Claims, OthersStay, ClaimedPlaces, Running
<1>3. ASSUME NEW s \in Slots, ActionMoves(s) \/ ProviderMoves(s)
      PROVE  \A u \in Tasks : RunsFirst(u)'
  <2>1. UNCHANGED <<pc, job>>
        /\ \A x \in Slots : actions[x].status = "executing" => actions'[x] = actions[x]
    BY <1>3 DEF ActionMoves, ConfirmTooLate, TimePasses, Cancel, Claimable, ProviderMoves,
       ProviderApplies, ProviderRefuses, tasks, rows
  <2> QED
    BY <1>c, <2>1 DEF RunsFirst, Claims
<1>4. CASE Restart
  BY <1>4 DEF Restart, RunsFirst, Claims, ClaimedPlaces, Running
<1> QED
  BY <1>1, <1>2, <1>3, <1>4 DEF OtherMoves

-----------------------------------------------------------------------------
(* One call.                                                               *)

LEMMA FailuresStay ==
  ASSUME TypeOK, Changes, FailedHadNoEffect
  PROVE  FailedHadNoEffect'
<1> USE DEF Sent, Unsent
<1>1. SUFFICES ASSUME NEW s \in Slots, NotRetried(s), executions'[s].status = "failed",
                      executions'[s].result # "absent"
               PROVE  \A n \in Sent(s)' : calls'[s][n] = "refused"
  BY DEF FailedHadNoEffect, NotRetried, Changes
<1>2. CASE executions'[s] = executions[s]
  <2>1. \A n \in Sent(s) : calls[s][n] = "refused"
    BY <1>1, <1>2 DEF FailedHadNoEffect, NotRetried
  <2>2. calls'[s] = calls[s]
    <3>1. ASSUME NEW x \in Slots, NEW n \in 1 .. MaxCalls, Sends(x, n) \/ Answers(x, n)
          PROVE  calls'[s] = calls[s]
      BY <1>1, <1>2, <2>1, <3>1 DEF Sends, Answers, OneCallOf, NotRetried
    <3> QED
      BY <3>1 DEF Changes, Rests, Decides, Takes, Reopens, Concludes, OneRow
  <2> QED
    BY <2>1, <2>2
<1>3. CASE executions'[s] # executions[s]
  <2>1. Takes(s) \/ Reopens(s) \/ Concludes(s)
    BY <1>3 DEF Changes, Rests, rows, Decides, Takes, Reopens, Concludes, OneRow, Sends,
       Answers, OneCallOf
  <2>2. Concludes(s)
    BY <1>1, <2>1 DEF Takes, Reopens
  <2>3. AllRefused(s) /\ UNCHANGED calls
    BY <1>1, <2>2 DEF Concludes, OneRow
  <2> QED
    BY <2>3 DEF AllRefused
<1> QED
  BY <1>2, <1>3

\* What the task of a step knows of the calls of the slot it runs.
LEMMA RunnerStep ==
  ASSUME IInv, LInv, NEW t \in Tasks, Step(t), pc'[t] \in Running, NotRetried(Slot(t))'
  PROVE  RunnerKnows(t)'
<1> USE DEF Running
<1>i. TypeOK /\ Placed /\ Handlers /\ Holders /\ PlaceFits(t) /\ WorkFits(t) /\ RunsFirst(t)
  BY DEF IInv, Placed, LInv
<1> USE <1>i
<1>k. pc[t] # "idle" /\ Slot(t) \in Slots /\ UNCHANGED catalog
  BY DEF TypeOK, Slot, Jobs, Step, Authorize, CreateAction, Reserve, AnswerInProgress,
     Reopen, Start, HandlerEndsLocally, Send, Reply, FinishExecution, AuditFinished, Settle,
     Check, Query, ResolveAction, ResolveExecution, Reclaim, deployment
<1>r. \A r : ~Return(t, r) /\ ~Idle(t)
  BY Movement DEF Moves
<1>g. \A place : Goto(t, place) =>
        Slot(t)' = Slot(t) /\ pc'[t] = place /\ out'[t] = out[t] /\ NotRetried(Slot(t))
  BY <1>k, Movement DEF Moves, Slot, NotRetried
<1>c. \A place, o : Carry(t, place, o) =>
        Slot(t)' = Slot(t) /\ pc'[t] = place /\ out'[t] = o /\ NotRetried(Slot(t))
  BY <1>k, Movement DEF Moves, Slot, NotRetried
<1>w. RunnerKnows(t) \/ pc[t] \notin Running \/ ~NotRetried(Slot(t))
  BY DEF LInv, OneCall
<1>1. CASE Authorize(t)
  <2>1. Goto(t, Route(t)) /\ Route(t) \in {"create", "reserve", "start"}
    BY <1>1, <1>r DEF Authorize, Route
  <2>2. Route(t) = "start" => ~IsWrite(catalog[Slot(t)])
    BY DEF Route, Spec_
  <2> QED
    BY <1>g, <2>1, <2>2 DEF NotRetried
<1>2. CASE Reserve(t)
  <2>1. Goto(t, "start") /\ UNCHANGED calls
    BY <1>2, <1>r DEF Reserve
  <2>2. executions[Slot(t)].status = "absent"
    <3>1. ASSUME ReserveOutcome(executions[Slot(t)], job[t].payload) = "replay",
                 executions[Slot(t)].result = "none"
          PROVE  FALSE
      <4>1. executions[Slot(t)].status \notin {"absent", "executing"}
        BY <3>1 DEF ReserveOutcome
      <4> QED
        BY <1>k, <3>1, <4>1 DEF Handlers, ConcludedHasResult
    <3>2. ReserveOutcome(executions[Slot(t)], job[t].payload) = "reserved"
      BY <1>2, <1>r, <3>1 DEF Reserve
    <3> QED
      BY <3>2 DEF ReserveOutcome
  <2>3. Sent(Slot(t)) = {}
    BY <1>g, <1>k, <2>1, <2>2 DEF LInv, RowFits, NotRetried
  <2> QED
    BY <1>g, <2>1, <2>3 DEF RunnerKnows, Sent, Unsent
<1>3. CASE Reopen(t)
  <2>1. Goto(t, "start") /\ pc[t] = "reserve" /\ RunsAgain(t)
    BY <1>3, <1>r DEF Reopen
  <2>2. job[t].op \in {"confirm", "retry"}
    BY <2>1 DEF RunsAgain, Claims
  <2>3. job[t].op # "confirm"
    BY <2>1 DEF RunsAgain, RunsFirst
  <2>4. job[t].op # "retry"
    BY <1>g, <1>k, <2>1 DEF WorkFits, NotRetried, Spec_
  <2> QED
    BY <2>2, <2>3, <2>4
<1>4. CASE Start(t)
  <2>1. pc[t] = "start" /\ Goto(t, "handler") /\ UNCHANGED calls
    BY <1>4 DEF Start
  <2> QED
    BY <1>g, <1>w, <2>1 DEF RunnerKnows, Sent, Unsent
<1>5. ASSUME NEW o \in LocalOutcomes, HandlerEndsLocally(t, o)
      PROVE  RunnerKnows(t)'
  <2>1. pc[t] = "handler" /\ Carry(t, AfterHandler(t), o) /\ UNCHANGED calls
    BY <1>5 DEF HandlerEndsLocally
  <2>2. Sent(Slot(t)) = {} /\ pc'[t] = "finish"
    BY <1>c, <1>w, <2>1 DEF RunnerKnows, AfterHandler
  <2> QED
    BY <1>c, <2>1, <2>2 DEF RunnerKnows, AllRefused, Sent, Unsent
<1>6. CASE \E n \in 1 .. MaxCalls : Send(t, n)
  <2>1. pc'[t] = "await"
    BY <1>6 DEF Send, TypeOK
  <2> QED
    BY <2>1 DEF RunnerKnows
<1>7. ASSUME NEW o \in HandlerOutcomes, Reply(t, o)
      PROVE  RunnerKnows(t)'
  <2>1. /\ pc[t] = "await" /\ Carry(t, AfterHandler(t), o) /\ UNCHANGED calls
        /\ o \in Replies(calls[Slot(t)][call[t]])
    BY <1>7 DEF Reply
  <2>2. pc'[t] = "finish" /\ NotRetried(Slot(t))
    BY <1>c, <2>1 DEF AfterHandler
  <2>3. ASSUME ExecutionStatusFor(o) = "failed"
        PROVE  AllRefused(Slot(t))
    <3>1. calls[Slot(t)][call[t]] = "refused"
      <4>1. o \notin Uncertain /\ o # "success" /\ o # "clarify"
        BY <2>3 DEF ExecutionStatusFor
      <4> QED
        BY <2>1, <4>1 DEF Replies, Uncertain
    <3>2. call[t] \in 1 .. MaxCalls
      BY <2>1, KernelAssumption DEF TypeOK
    <3>3. call[t] \in Sent(Slot(t))
      BY <3>1, <3>2 DEF Sent, Unsent
    <3>4. \A n \in Sent(Slot(t)) : n = call[t]
      BY <1>k, <2>2, <3>3 DEF LInv, OneCall, NoBlindRetry, NotRetried
    <3> QED
      BY <3>1, <3>4 DEF AllRefused
  <2> QED
    BY <1>c, <2>1, <2>2, <2>3 DEF RunnerKnows, AllRefused, Sent, Unsent
<1>8. CASE FinishExecution(t) \/ AuditFinished(t) \/ Settle(t) \/ CreateAction(t)
           \/ AnswerInProgress(t)
  BY <1>8, <1>g, <1>r DEF FinishExecution, Raise, AuditFinished, Settle, CreateAction,
     AnswerInProgress
<1>9. CASE Check(t) \/ ResolveAction(t) \/ ResolveExecution(t) \/ Reclaim(t)
  BY <1>9, <1>g, <1>c, <1>r DEF Check, ResolveAction, ResolveExecution, Reclaim, AfterReconcile
<1>10. ASSUME NEW a \in ReconcileAnswers, Query(t, a)
       PROVE  RunnerKnows(t)'
  BY <1>10, <1>g, <1>c, <1>r DEF Query, AfterReconcile
<1> QED
  BY <1>1, <1>2, <1>3, <1>4, <1>5, <1>6, <1>7, <1>8, <1>9, <1>10 DEF Step

LEMMA OneCallStep ==
  ASSUME IInv, LInv, Changes, NEW t \in Tasks, Step(t)
  PROVE  OneCall'
<1> USE DEF Sent, Unsent
<1>i. TypeOK /\ HandlerExclusive /\ OneCall /\ UNCHANGED catalog
  BY DEF IInv, Handlers, LInv, Changes
<1>1. FailedHadNoEffect'
  BY <1>i, FailuresStay DEF OneCall
<1>2. pc'[t] \in Running /\ NotRetried(Slot(t))' => RunnerKnows(t)'
  BY RunnerStep
<1>3. OthersStay(t)
  BY <1>i, StepOthers
<1>4. CASE UNCHANGED calls
  <2>1. NoBlindRetry'
    BY <1>4, <1>i DEF OneCall, NoBlindRetry
  <2>2. ASSUME NEW u \in Tasks \ {t}, pc'[u] \in Running, NotRetried(Slot(u))'
        PROVE  RunnerKnows(u)'
    <3>1. pc'[u] = pc[u] /\ job'[u] = job[u] /\ out'[u] = out[u]
      BY <1>3 DEF OthersStay
    <3>2. RunnerKnows(u)
      BY <1>i, <2>2, <3>1 DEF OneCall, NotRetried, Slot
    <3> QED
      BY <1>4, <3>1, <3>2 DEF RunnerKnows, AllRefused, Slot
  <2> QED
    BY <1>1, <1>2, <2>1, <2>2 DEF OneCall
<1>5. ASSUME NEW n \in 1 .. MaxCalls, Send(t, n)
      PROVE  OneCall'
  <2> DEFINE s == Slot(t)
  <2>1. pc[t] = "handler" /\ pc[t] \in Running /\ calls' = [calls EXCEPT ![s][n] = "flying"]
    BY <1>5 DEF Send, Running
  <2>2. s \in Slots /\ calls \in [Slots -> [1 .. MaxCalls -> CallStates]]
    BY <1>i, <2>1 DEF TypeOK, Slot, Jobs
  <2>3. /\ \A x \in Slots \ {s} : calls'[x] = calls[x]
        /\ \A m \in (1 .. MaxCalls) \ {n} : calls'[s][m] = calls[s][m]
    BY <2>1, <2>2
  <2>4. NotRetried(s) => Sent(s) = {}
    BY <1>i, <2>1 DEF OneCall, RunnerKnows
  <2>5. NoBlindRetry'
    <3>1. ASSUME NEW x \in Slots, NotRetried(x), NEW m \in Sent(x)', NEW k \in Sent(x)'
          PROVE  m = k
      <4>1. CASE x = s
        BY <2>3, <2>4, <3>1, <4>1
      <4>2. CASE x # s
        BY <1>i, <2>3, <3>1, <4>2 DEF OneCall, NoBlindRetry, NotRetried
      <4> QED
        BY <4>1, <4>2
    <3> QED
      BY <1>i, <3>1 DEF NoBlindRetry, NotRetried
  <2>6. ASSUME NEW u \in Tasks \ {t}, pc'[u] \in Running, NotRetried(Slot(u))'
        PROVE  RunnerKnows(u)'
    <3>1. pc'[u] = pc[u] /\ job'[u] = job[u] /\ out'[u] = out[u]
      BY <1>3 DEF OthersStay
    <3>2. RunnerKnows(u) /\ NotRetried(Slot(u)) /\ pc[u] \in Running
      BY <1>i, <2>6, <3>1 DEF OneCall, NotRetried, Slot
    <3>3. Slot(u) \in Slots
      BY <1>i, <3>2 DEF TypeOK, Slot, Jobs, Running
    <3>4. Slot(u) # s
      BY <1>i, <2>1, <2>2, <3>2 DEF HandlerExclusive, Runs, NotRetried
    <3> QED
      BY <2>3, <3>1, <3>2, <3>3, <3>4 DEF RunnerKnows, AllRefused, Slot
  <2> QED
    BY <1>1, <1>2, <2>5, <2>6 DEF OneCall
<1> QED
  BY <1>4, <1>5 DEF Step, Authorize, CreateAction, Reserve, AnswerInProgress,
     Reopen, Start, HandlerEndsLocally, Reply, FinishExecution, AuditFinished, Settle,
     Check, Query, ResolveAction, ResolveExecution, Reclaim

LEMMA OneCallOther ==
  ASSUME IInv, LInv, Changes, OtherMoves
  PROVE  OneCall'
<1> USE DEF Sent, Unsent
<1>i. TypeOK /\ OneCall /\ UNCHANGED catalog
  BY DEF IInv, LInv, Changes
<1>1. FailedHadNoEffect'
  BY <1>i, FailuresStay DEF OneCall
<1>2. ASSUME NEW t \in Tasks, Request(t) \/ Fails(t) \/ CancelTask(t)
      PROVE  OneCall'
  <2>1. UNCHANGED calls /\ OthersStay(t) /\ pc'[t] \notin Running
    <3>1. CASE Request(t)
      <4>1. PICK s \in Slots, p \in Principals :
               \/ \E a \in Args : Execute(t, s, p, a)
               \/ Confirm(t, s, p) \/ Reconcile(t, s, p) \/ RetryUnknown(t, s, p)
        BY <3>1 DEF Request
      <4> DEFINE Begun == OthersStay(t) /\ pc'[t] \notin Running
      <4>2. ASSUME NEW place \in {"authorize", "check", "reclaim"}, NEW work,
                   Begin(t, place, work)
            PROVE  Begun
        BY <1>i, <4>2, Movement DEF Running
      <4>3. Begun
        BY <4>1, <4>2 DEF Execute, Confirm, Reconcile, RetryUnknown
      <4>4. UNCHANGED calls
        BY <4>1 DEF Execute, Confirm, Reconcile, RetryUnknown
      <4> QED
        BY <4>3, <4>4
    <3>2. CASE Fails(t) \/ CancelTask(t)
      <4>1. Idle(t) \/ Return(t, "not_run")
        BY <3>2 DEF Fails, CancelTask, Raise
      <4> QED
        BY <1>i, <3>2, <4>1, Movement DEF Moves, Running, Fails, CancelTask
    <3> QED
      BY <1>2, <3>1, <3>2
  <2>2. NoBlindRetry'
    BY <1>i, <2>1 DEF OneCall, NoBlindRetry
  <2>3. ASSUME NEW u \in Tasks, pc'[u] \in Running, NotRetried(Slot(u))'
        PROVE  RunnerKnows(u)'
    <3>1. pc'[u] = pc[u] /\ job'[u] = job[u] /\ out'[u] = out[u]
      BY <2>1, <2>3 DEF OthersStay
    <3>2. RunnerKnows(u)
      BY <1>i, <2>3, <3>1 DEF OneCall, NotRetried, Slot
    <3> QED
      BY <2>1, <3>1, <3>2 DEF RunnerKnows, AllRefused, Slot
  <2> QED
    BY <1>1, <2>2, <2>3 DEF OneCall
<1>3. ASSUME NEW s \in Slots, ActionMoves(s) \/ ProviderMoves(s)
      PROVE  OneCall'
  <2>1. UNCHANGED <<pc, job, out>>
    BY <1>3 DEF ActionMoves, ConfirmTooLate, TimePasses, Cancel, ProviderMoves,
       ProviderApplies, ProviderRefuses, tasks
  <2>2. \A x \in Slots, n \in 1 .. MaxCalls :
          /\ calls[x][n] = "unsent" <=> calls'[x][n] = "unsent"
          /\ calls[x][n] = "refused" => calls'[x][n] = "refused"
    <3>1. CASE ActionMoves(s)
      BY <3>1 DEF ActionMoves, ConfirmTooLate, TimePasses, Cancel
    <3>2. CASE ProviderMoves(s)
      <4>1. PICK n \in 1 .. MaxCalls, st \in {"applied", "refused"} :
              calls[s][n] = "flying" /\ calls' = [calls EXCEPT ![s][n] = st]
        BY <3>2 DEF ProviderMoves, ProviderApplies, ProviderRefuses
      <4>2. calls \in [Slots -> [1 .. MaxCalls -> CallStates]]
        BY <1>i DEF TypeOK
      <4> QED
        BY <4>1, <4>2
    <3> QED
      BY <1>3, <3>1, <3>2
  <2>3. \A x \in Slots : Sent(x)' = Sent(x) /\ (AllRefused(x) => AllRefused(x)')
    BY <2>2 DEF AllRefused
  <2>4. NoBlindRetry'
    BY <1>i, <2>3 DEF OneCall, NoBlindRetry
  <2>5. ASSUME NEW u \in Tasks, pc[u] \in Running, NotRetried(Slot(u))'
        PROVE  RunnerKnows(u)'
    <3>1. RunnerKnows(u) /\ Slot(u) \in Slots /\ Slot(u)' = Slot(u)
      BY <1>i, <2>1, <2>5 DEF OneCall, NotRetried, Slot, TypeOK, Jobs, Running
    <3>2. PICK x \in Slots : x = Slot(u)
      BY <3>1
    <3>3. Sent(x)' = Sent(x) /\ (AllRefused(x) => AllRefused(x)')
      BY <2>3
    <3> QED
      BY <2>1, <3>1, <3>2, <3>3 DEF RunnerKnows, AllRefused
  <2> QED
    BY <1>1, <2>1, <2>4, <2>5 DEF OneCall
<1>4. CASE Restart
  <2>1. UNCHANGED calls /\ \A t \in Tasks : pc'[t] = "idle"
    BY <1>4 DEF Restart
  <2>2. NoBlindRetry'
    BY <1>i, <2>1 DEF OneCall, NoBlindRetry
  <2> QED
    BY <1>1, <2>1, <2>2 DEF OneCall, Running
<1> QED
  BY <1>2, <1>3, <1>4 DEF OtherMoves

-----------------------------------------------------------------------------
(* The second invariant holds.                                             *)

LEMMA InitLInv == Init => LInv
<1> SUFFICES ASSUME Init PROVE LInv
  OBVIOUS
<1>1. \A s \in Slots : Sent(s) = {}
  BY DEF Init, Sent, Unsent
<1>2. \A t \in Tasks : pc[t] = "idle"
  BY DEF Init
<1>3. \A s \in Slots : actions[s] = NoAction /\ executions[s] = NoExecution
  BY DEF Init
<1>4. \A s \in Slots : RowFits(s)
  BY <1>1, <1>3 DEF RowFits, NoAction, NoExecution
<1>5. \A t \in Tasks : WorkFits(t) /\ RunsFirst(t) /\ Awaits(t)
  BY <1>2 DEF WorkFits, RunsFirst, Awaits, Claims, ClaimedPlaces, Running
<1>6. OneCall
  BY <1>1, <1>2 DEF OneCall, NoBlindRetry, FailedHadNoEffect, Running
<1> QED
  BY <1>4, <1>5, <1>6 DEF LInv

LEMMA NextLInv == IInv /\ LInv /\ [Next]_vars => LInv'
<1> SUFFICES ASSUME IInv, LInv, [Next]_vars PROVE LInv'
  OBVIOUS
<1>1. /\ TypeOK /\ Placed /\ Changes /\ \A s \in Slots : RowFits(s)
      /\ \A t \in Tasks : WorkFits(t) /\ RunsFirst(t) /\ Awaits(t)
  BY NextChanges DEF IInv, LInv
<1>2. \A s \in Slots : RowFits(s)'
  BY <1>1, RowsFit
<1>3. CASE \E t \in Tasks : Step(t)
  BY <1>1, <1>2, <1>3, WorkStep, FirstStep, OneCallStep DEF LInv
<1>4. CASE OtherMoves
  BY <1>1, <1>2, <1>4, WorkOther, FirstOther, OneCallOther DEF LInv
<1>5. CASE UNCHANGED vars
  <2>1. UNCHANGED <<actions, executions, pc, job, call, out, calls, catalog>>
    BY <1>5 DEF vars, rows, tasks, deployment
  <2>2. \A t \in Tasks : WorkFits(t)' /\ RunsFirst(t)' /\ Awaits(t)'
    BY <1>1, <2>1 DEF WorkFits, RunsFirst, Awaits, Claims, Spec_, Slot
  <2>3. OneCall'
    <3>1. OneCall
      BY DEF LInv
    <3> QED
      BY <2>1, <3>1 DEF OneCall, RunnerKnows, NotRetried, AllRefused, NoBlindRetry,
         FailedHadNoEffect, Sent, Unsent, Slot
  <2> QED
    BY <1>2, <2>2, <2>3 DEF LInv
<1> QED
  BY <1>3, <1>4, <1>5 DEF Next, OtherMoves

LEMMA Invariance2 == Spec => [](IInv /\ LInv)
  BY InitIInv, NextIInv, InitLInv, NextLInv, PTL DEF Spec

\* NoBlindRetry: the provider is called twice for one idempotency key only
\* where the intent's UNKNOWN policy allows a retry.
THEOREM CalledOnce == Spec => []NoBlindRetry
<1>1. LInv => NoBlindRetry
  BY DEF LInv, OneCall
<1> QED
  BY <1>1, Invariance2, PTL

\* FailedHadNoEffect: under a policy that never retries, a failed execution
\* changed nothing and never will.
THEOREM FailureIsTrue == Spec => []FailedHadNoEffect
<1>1. LInv => FailedHadNoEffect
  BY DEF LInv, OneCall
<1> QED
  BY <1>1, Invariance2, PTL

\* VerdictStable: a late reconcile answer, a retry, a repeated request or a
\* restart changes neither row of a slot once it is settled.
THEOREM VerdictsAreFinal == Spec => VerdictStable
<1> DEFINE Stable(s) ==
      /\ FinalAction(actions[s]) => actions'[s] = actions[s]
      /\ FinalExecution(executions[s]) => executions'[s] = executions[s]
<1>1. ASSUME Changes, NEW s \in Slots
      PROVE  Stable(s)
  <2>1. ASSUME NEW x \in Slots, Decides(x) \/ Takes(x) \/ Reopens(x) \/ Concludes(x)
        PROVE  Stable(s)
    BY <2>1 DEF Decides, Takes, Reopens, Concludes, OneRow, FinalAction, FinalExecution
  <2>2. ASSUME UNCHANGED rows
        PROVE  Stable(s)
    BY <2>2 DEF rows
  <2> QED
    BY <1>1, <2>1, <2>2 DEF Changes, Rests, Sends, Answers, OneCallOf
<1>2. IInv /\ LInv /\ [Next]_vars => [\A s \in Slots : Stable(s)]_vars
  BY <1>1, NextChanges
<1> QED
  BY <1>2, Invariance2, PTL DEF Spec, VerdictStable

-----------------------------------------------------------------------------
(* The kernel implements ActionLedger.                                     *)

Effect(s) == IsWrite(catalog[s]) /\ Applied(s) # {}

SameApproval(s) == Approval(actions[s])' = Approval(actions[s])
SameRow(s) ==
  /\ RunOf(executions[s])' = RunOf(executions[s])
  /\ VerdictOf(executions[s])' = VerdictOf(executions[s])
SameEffect(s) == Effect(s)' = Effect(s)
Same(s) == SameApproval(s) /\ SameRow(s) /\ SameEffect(s)

LEMMA LedgerStutters ==
  ASSUME \A s \in Slots : Same(s)
  PROVE  UNCHANGED Ledger!vars
BY DEF Ledger!vars, Same, SameApproval, SameRow, SameEffect, Effect

LEMMA LedgerDecides ==
  ASSUME NEW s \in Slots, \A x \in Slots \ {s} : Same(x), SameRow(s), SameEffect(s),
         NEW from, NEW to, Approval(actions[s]) = from, Approval(actions[s])' = to
  PROVE  Ledger!Decide(s, from, to)
BY DEF Ledger!Decide, Same, SameApproval, SameRow, SameEffect, Effect

LEMMA LedgerBegins ==
  ASSUME NEW s \in Slots, \A x \in Slots \ {s} : Same(x), SameApproval(s), SameEffect(s),
         VerdictOf(executions[s])' = VerdictOf(executions[s]),
         RunOf(executions[s]) = "none", RunOf(executions[s])' \in {"direct", "confirmed"},
         RunOf(executions[s])' = "confirmed" => Approval(actions[s]) = "granted"
  PROVE  Ledger!Begin(s)
BY DEF Ledger!Begin, Same, SameApproval, SameRow, SameEffect, Effect

LEMMA LedgerTakesEffect ==
  ASSUME NEW s \in Slots, \A x \in Slots \ {s} : Same(x), SameApproval(s), SameRow(s),
         RunOf(executions[s]) # "none", Effect(s)'
  PROVE  Ledger!TakeEffect(s)
BY DEF Ledger!TakeEffect, Same, SameApproval, SameRow, SameEffect, Effect

LEMMA LedgerConcludes ==
  ASSUME NEW s \in Slots, \A x \in Slots \ {s} : Same(x), SameApproval(s), SameEffect(s),
         RunOf(executions[s])' = RunOf(executions[s]), RunOf(executions[s]) # "none",
         VerdictOf(executions[s]) \in {"none", "unknown"},
         VerdictOf(executions[s])' \in Ledger!Verdicts,
         VerdictOf(executions[s])' = "succeeded" => Effect(s),
         VerdictOf(executions[s])' = "reported" =>
           RunOf(executions[s]) = "confirmed" /\ VerdictOf(executions[s]) = "unknown"
  PROVE  Ledger!Conclude(s)
BY DEF Ledger!Conclude, Same, SameApproval, SameRow, SameEffect, Effect

LEMMA LedgerRetries ==
  ASSUME NEW s \in Slots, \A x \in Slots \ {s} : Same(x), SameApproval(s), SameEffect(s),
         RunOf(executions[s])' = RunOf(executions[s]), RunOf(executions[s]) = "confirmed",
         VerdictOf(executions[s]) = "unknown", VerdictOf(executions[s])' = "none"
  PROVE  Ledger!Retry(s)
BY DEF Ledger!Retry, Same, SameApproval, SameRow, SameEffect, Effect

LEMMA InitMaps == Init => Ledger!Init
<1> SUFFICES ASSUME Init PROVE Ledger!Init
  OBVIOUS
<1>1. \A s \in Slots : Applied(s) = {}
  BY DEF Init, Applied
<1>2. /\ \A s \in Slots : actions[s] = NoAction /\ executions[s] = NoExecution
      /\ Approval(NoAction) = "none" /\ RunOf(NoExecution) = "none"
      /\ VerdictOf(NoExecution) = "none"
  BY DEF Init, Approval, RunOf, VerdictOf, NoAction, NoExecution
<1> QED
  BY <1>1, <1>2 DEF Ledger!Init

\* A slot whose rows and calls stay is the same to the ledger.
LEMMA Untouched ==
  ASSUME UNCHANGED catalog, NEW s \in Slots
  PROVE  /\ actions'[s] = actions[s] => SameApproval(s)
         /\ executions'[s] = executions[s] => SameRow(s)
         /\ calls'[s] = calls[s] => SameEffect(s)
BY DEF SameApproval, SameRow, SameEffect, Effect, Applied

LEMMA ActionMaps ==
  ASSUME UNCHANGED catalog, NEW s \in Slots, Decides(s)
  PROVE  [Ledger!Next]_(Ledger!vars)
<1>1. SameRow(s) /\ SameEffect(s) /\ \A x \in Slots \ {s} : Same(x)
  BY Untouched DEF Decides, Same
<1>2. CASE SameApproval(s)
  BY <1>1, <1>2, LedgerStutters DEF Same
<1>3. CASE ~SameApproval(s)
  <2>1. \/ Approval(actions[s]) = "none" /\ Approval(actions[s])' = "asked"
        \/ Approval(actions[s]) = "asked" /\ Approval(actions[s])' \in {"granted", "refused"}
    BY <1>3 DEF SameApproval, Decides, Approval
  <2>2. Ledger!Ask(s) \/ Ledger!Grant(s) \/ Ledger!Refuse(s)
    BY <1>1, <2>1, LedgerDecides DEF Ledger!Ask, Ledger!Grant, Ledger!Refuse
  <2> QED
    BY <2>2 DEF Ledger!Next
<1> QED
  BY <1>2, <1>3

LEMMA ExecutionMaps ==
  ASSUME TypeOK, LInv, UNCHANGED catalog, NEW s \in Slots,
         Takes(s) \/ Reopens(s) \/ Concludes(s)
  PROVE  [Ledger!Next]_(Ledger!vars)
<1> USE DEF Ledger!Next
<1>1. SameApproval(s) /\ SameEffect(s) /\ \A x \in Slots \ {s} : Same(x)
  BY Untouched DEF Takes, Reopens, Concludes, OneRow, Same
<1>2. RowFits(s) /\ executions[s] \in ExecutionRows
  BY DEF LInv, TypeOK
<1>3. CASE Takes(s)
  <2>1. /\ RunOf(executions[s]) = "none" /\ RunOf(executions[s])' \in {"direct", "confirmed"}
        /\ VerdictOf(executions[s])' = VerdictOf(executions[s])
        /\ RunOf(executions[s])' = "confirmed" => Approval(actions[s]) = "granted"
    BY <1>2, <1>3 DEF Takes, RowFits, RunOf, VerdictOf, Approval
  <2>2. Ledger!Begin(s)
    BY <1>1, <2>1, LedgerBegins
  <2> QED
    BY <2>2
<1>4. CASE Reopens(s)
  <2>1. /\ RunOf(executions[s])' = RunOf(executions[s]) /\ RunOf(executions[s]) = "confirmed"
        /\ VerdictOf(executions[s]) = "unknown" /\ VerdictOf(executions[s])' = "none"
    BY <1>4 DEF Reopens, RunOf, VerdictOf
  <2>2. Ledger!Retry(s)
    BY <1>1, <2>1, LedgerRetries
  <2> QED
    BY <2>2
<1>5. CASE Concludes(s)
  <2>1. executions[s].owner \in {"action", "direct"}
    BY <1>2, <1>5 DEF Concludes, RowFits, ExecutionRows
  <2>2. RunOf(executions[s])' = RunOf(executions[s]) /\ RunOf(executions[s]) # "none"
    BY <1>5, <2>1 DEF Concludes, RunOf
  <2>3. /\ VerdictOf(executions[s]) \in {"none", "unknown"}
        /\ VerdictOf(executions[s])' \in Ledger!Verdicts
        /\ VerdictOf(executions[s])' = "succeeded" => Effect(s)
        /\ VerdictOf(executions[s])' = "reported" =>
             RunOf(executions[s]) = "confirmed" /\ VerdictOf(executions[s]) = "unknown"
    BY <1>5 DEF Concludes, VerdictOf, RunOf, CanReopen, Ledger!Verdicts, Effect
  <2>4. Ledger!Conclude(s)
    BY <1>1, <2>2, <2>3, LedgerConcludes
  <2> QED
    BY <2>4
<1> QED
  BY <1>3, <1>4, <1>5

LEMMA CallMaps ==
  ASSUME TypeOK, LInv, UNCHANGED catalog, NEW s \in Slots, NEW n \in 1 .. MaxCalls,
         Sends(s, n) \/ Answers(s, n)
  PROVE  [Ledger!Next]_(Ledger!vars)
<1>1. SameApproval(s) /\ SameRow(s) /\ \A x \in Slots \ {s} : Same(x)
  BY Untouched DEF Sends, Answers, OneCallOf, rows, Same
<1>2. CASE SameEffect(s)
  BY <1>1, <1>2, LedgerStutters DEF Same
<1>3. CASE ~SameEffect(s)
  <2>1. IsWrite(catalog[s])
    BY <1>3 DEF SameEffect, Effect
  <2>2. \A m \in 1 .. MaxCalls : calls[s][m] = "applied" => calls'[s][m] = "applied"
    BY DEF Sends, Answers, OneCallOf
  <2>3. ~Effect(s) /\ Effect(s)'
    BY <1>3, <2>1, <2>2 DEF SameEffect, Effect, Applied
  <2>4. n \in Sent(s)
    <3>1. ~Sends(s, n)
      BY <2>3 DEF Sends, OneCallOf, Effect, Applied
    <3> QED
      BY <3>1 DEF Answers, Sent, Unsent
  <2>5. RunOf(executions[s]) # "none"
    BY <2>1, <2>4 DEF LInv, RowFits, RunOf, TypeOK, ExecutionRows
  <2>6. Ledger!TakeEffect(s)
    BY <1>1, <2>3, <2>5, LedgerTakesEffect
  <2> QED
    BY <2>6 DEF Ledger!Next
<1> QED
  BY <1>2, <1>3

LEMMA NextMaps == IInv /\ LInv /\ [Next]_vars => [Ledger!Next]_(Ledger!vars)
<1> SUFFICES ASSUME IInv, LInv, [Next]_vars PROVE [Ledger!Next]_(Ledger!vars)
  OBVIOUS
<1>1. Changes /\ TypeOK /\ UNCHANGED catalog
  BY NextChanges DEF IInv, Changes
<1>2. CASE Rests
  BY <1>1, <1>2, Untouched, LedgerStutters DEF Rests, rows, Same
<1> QED
  BY <1>1, <1>2, ActionMaps, ExecutionMaps, CallMaps DEF Changes

\* LedgerSpec: for every number of requests, retries, faults and late answers,
\* dispatcher, action service and tables keep ActionLedger's promise: a write
\* takes effect only in a run begun for it, an action runs only after it was
\* confirmed, and a success is recorded only of what took effect.
THEOREM KernelIsALedger == Spec => LedgerSpec
<1>1. IInv /\ LInv /\ [Next]_vars => [Ledger!Next]_(Ledger!vars)
  BY NextMaps
<1> QED
  BY <1>1, InitMaps, Invariance2, PTL DEF Spec, LedgerSpec, Ledger!Spec
=============================================================================
