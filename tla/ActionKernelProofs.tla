------------------------- MODULE ActionKernelProofs -------------------------
(***************************************************************************)
(* Safety of ActionKernel for every number of tasks, slots, identities and *)
(* versions, every catalogue, and any number of faults: first the shape of *)
(* its variables (TypeOK), then the inductive invariant.                   *)
(*                                                                         *)
(* IInv is proved group by group: where a task may be (Placed), who runs   *)
(* handlers (Handlers), who holds an action (Holders), and what a success  *)
(* means (Truth).  For each group a frame lemma covers the steps that      *)
(* leave the group's tables alone.                                         *)
(***************************************************************************)
EXTENDS ActionKernel, TLAPS

-----------------------------------------------------------------------------
(* Types.                                                                  *)

\* The statuses a result is recorded as are statuses of the tables.
LEMMA StatusTypes ==
  ASSUME NEW w \in BOOLEAN, NEW r \in Results \cup {"none"}
  PROVE  /\ ExecutionStatusFor(r) \in ExecutionStatuses \ {"absent", "executing"}
         /\ ActionStatusFor(w, r) \in {"succeeded", "failed", "unknown"}
         /\ Verdict(r) \in {"succeeded", "failed"}
  BY DEF ExecutionStatusFor, ActionStatusFor, Verdict, ExecutionStatuses, ActionStatuses

\* The moves of a task keep the shape of its variables.
TaskTypes ==
  /\ pc \in [Tasks -> Places]
  /\ job \in [Tasks -> Jobs \cup {None}]
  /\ \A t \in Tasks : pc[t] # "idle" => job[t] \in Jobs
  /\ call \in [Tasks -> 0 .. MaxCalls]
  /\ \A t \in Tasks : pc[t] = "await" => call[t] # 0
  /\ out \in [Tasks -> Results \cup {"none"}]

LEMMA MovesKeepTypes ==
  ASSUME TaskTypes, NEW t \in Tasks
  PROVE  /\ \A place \in Places \ {"await"} :
              pc[t] # "idle" /\ Goto(t, place) => TaskTypes'
         /\ \A place \in Places \ {"await", "idle"} : \A work \in Jobs :
              Begin(t, place, work) => TaskTypes'
         /\ Idle(t) => TaskTypes'
         /\ \A place \in Places \ {"await"} : \A r \in Results \cup {"none"} :
              pc[t] # "idle" /\ Carry(t, place, r) => TaskTypes'
         /\ \A r \in Results \cup {"none"} :
              pc[t] # "idle" /\ Return(t, r) => TaskTypes'
<1> MaxCalls \in Nat
  BY KernelAssumption
<1>1. ASSUME NEW place \in Places \ {"await"}, pc[t] # "idle", Goto(t, place)
      PROVE  TaskTypes'
  BY <1>1 DEF TaskTypes, Goto
<1>2. ASSUME NEW place \in Places \ {"await", "idle"}, NEW work \in Jobs,
             Begin(t, place, work)
      PROVE  TaskTypes'
  BY <1>2 DEF TaskTypes, Begin
<1>3. ASSUME Idle(t)
      PROVE  TaskTypes'
  BY <1>3 DEF TaskTypes, Idle, Places
<1>4. ASSUME NEW place \in Places \ {"await"}, NEW r \in Results \cup {"none"},
             pc[t] # "idle", Carry(t, place, r)
      PROVE  TaskTypes'
  BY <1>4 DEF TaskTypes, Carry
<1>5. ASSUME NEW r \in Results \cup {"none"}, pc[t] # "idle", Return(t, r)
      PROVE  TaskTypes'
  BY <1>3, <1>4, <1>5 DEF Return, Places
<1> QED
  BY <1>1, <1>2, <1>3, <1>4, <1>5

ActionsFit(table) ==
  /\ table \in [Slots -> ActionRows]
  /\ \A s \in Slots : table[s].status # "absent" => table[s].payload \in Payloads

RowTypes ==
  /\ ActionsFit(actions)
  /\ executions \in [Slots -> ExecutionRows]
  /\ calls \in [Slots -> [1 .. MaxCalls -> CallStates]]

RestTypes ==
  /\ catalog \in [Slots -> Specs]
  /\ version \in Versions
  /\ confirmAll \in ConfirmModes
  /\ faults \in 0 .. MaxFaults

LEMMA TypeParts == TypeOK <=> TaskTypes /\ RowTypes /\ RestTypes
  BY DEF TypeOK, TaskTypes, RowTypes, ActionsFit, RestTypes

\* Recording a status and a result gives a table of the same shape.
LEMMA ExecutionUpdate ==
  ASSUME NEW table \in [Slots -> ExecutionRows], NEW s \in Slots,
         NEW st \in ExecutionStatuses, NEW r \in Results \cup {"none"}
  PROVE  [table EXCEPT ![s].status = st, ![s].result = r] \in [Slots -> ExecutionRows]
  BY DEF ExecutionRows

LEMMA ExecutionStatusUpdate ==
  ASSUME NEW table \in [Slots -> ExecutionRows], NEW s \in Slots, NEW st \in ExecutionStatuses
  PROVE  [table EXCEPT ![s].status = st] \in [Slots -> ExecutionRows]
  BY DEF ExecutionRows

LEMMA ActionStatusUpdate ==
  ASSUME NEW table, ActionsFit(table), NEW s \in Slots, table[s].status # "absent",
         NEW st \in ActionStatuses
  PROVE  ActionsFit([table EXCEPT ![s].status = st])
<1> DEFINE new == [table EXCEPT ![s].status = st]
<1>1. new \in [Slots -> ActionRows]
  BY DEF ActionsFit, ActionRows
<1>2. \A x \in Slots : new[x].status # "absent" => new[x].payload \in Payloads
  BY DEF ActionsFit, ActionRows
<1> QED
  BY <1>1, <1>2 DEF ActionsFit

LEMMA ActionUpdate ==
  ASSUME NEW table, ActionsFit(table), NEW s \in Slots, table[s].status # "absent",
         NEW st \in ActionStatuses, NEW r \in Results \cup {"none"}
  PROVE  ActionsFit([table EXCEPT ![s].status = st, ![s].result = r])
<1> DEFINE new == [table EXCEPT ![s].status = st, ![s].result = r]
<1>1. new \in [Slots -> ActionRows]
  BY DEF ActionsFit, ActionRows
<1>2. \A x \in Slots : new[x].status # "absent" => new[x].payload \in Payloads
  BY DEF ActionsFit, ActionRows
<1> QED
  BY <1>1, <1>2 DEF ActionsFit

LEMMA InitType == Init => TypeOK
<1> SUFFICES ASSUME Init PROVE TypeOK
  OBVIOUS
<1> MaxCalls \in Nat /\ MaxFaults \in Nat
  BY KernelAssumption
<1> QED
  BY DEF Init, TypeOK, ActionRows, NoAction, ActionStatuses, ExecutionRows,
         NoExecution, ExecutionStatuses, Places, CallStates

\* A step of a task keeps the types.
LEMMA StepType ==
  ASSUME TypeOK, NEW t \in Tasks, Step(t)
  PROVE  TypeOK'
<1> USE DEF Running, Places
<1> TaskTypes /\ RowTypes /\ RestTypes
  BY TypeParts
<1> SUFFICES TaskTypes' /\ RowTypes' /\ RestTypes'
  BY TypeParts DEF TypeOK, TaskTypes, RowTypes, ActionsFit, RestTypes
<1>s. pc[t] # "idle" => Slot(t) \in Slots /\ job[t] \in Jobs
  BY DEF TaskTypes, Slot, Jobs
<1>1. ASSUME Authorize(t) PROVE TaskTypes' /\ RowTypes' /\ RestTypes'
  <2>1. Route(t) \in Places \ {"await"}
    BY DEF Route
  <2>2. TaskTypes'
    BY <1>1, <2>1, MovesKeepTypes DEF Authorize, Results, KernelAnswers
  <2> QED
    BY <1>1, <2>2 DEF Authorize, rows, deployment, RowTypes, ActionsFit, RestTypes
<1>2. ASSUME CreateAction(t) PROVE TaskTypes' /\ RowTypes' /\ RestTypes'
  <2>1. TaskTypes'
    BY <1>2, MovesKeepTypes DEF CreateAction
  <2>2. RowTypes'
    BY <1>2, <1>s DEF CreateAction, RowTypes, ActionsFit, ActionRows, NoAction, ActionStatuses, Jobs
  <2> QED
    BY <1>2, <2>1, <2>2 DEF CreateAction, deployment, RestTypes
<1>3. ASSUME Reserve(t) PROVE TaskTypes' /\ RowTypes' /\ RestTypes'
  <2>1. executions[Slot(t)].result \in Results \cup {"none"}
    BY <1>3, <1>s DEF Reserve, RowTypes, ExecutionRows
  <2>2. TaskTypes'
    BY <1>3, <2>1, MovesKeepTypes DEF Reserve, Results, KernelAnswers
  <2>3. RowTypes'
    BY <1>3, <1>s DEF Reserve, RowTypes, ExecutionRows, ExecutionStatuses, Jobs
  <2> QED
    BY <1>3, <2>2, <2>3 DEF Reserve, deployment, RestTypes
<1>4. ASSUME AnswerInProgress(t) PROVE TaskTypes' /\ RowTypes' /\ RestTypes'
  <2>1. TaskTypes'
    BY <1>4, MovesKeepTypes DEF AnswerInProgress, Results, KernelAnswers
  <2> QED
    BY <1>4, <2>1 DEF AnswerInProgress, rows, deployment, RowTypes, ActionsFit, RestTypes
<1>5. ASSUME Reopen(t) PROVE TaskTypes' /\ RowTypes' /\ RestTypes'
  <2>1. TaskTypes'
    BY <1>5, MovesKeepTypes DEF Reopen, Results, KernelAnswers
  <2>2. executions' \in [Slots -> ExecutionRows]
    <3>1. CASE executions' = executions
      BY <3>1 DEF RowTypes
    <3>2. CASE executions' = [executions EXCEPT ![Slot(t)].status = "executing"]
      <4>1. Slot(t) \in Slots /\ "executing" \in ExecutionStatuses
        BY <1>5, <1>s DEF Reopen, ExecutionStatuses
      <4> QED
        BY <3>2, <4>1, ExecutionStatusUpdate DEF RowTypes
    <3> QED
      BY <1>5, <3>1, <3>2 DEF Reopen
  <2> QED
    BY <1>5, <2>1, <2>2 DEF Reopen, deployment, RowTypes, RestTypes
<1>6. ASSUME Start(t) PROVE TaskTypes' /\ RowTypes' /\ RestTypes'
  <2>1. TaskTypes'
    BY <1>6, MovesKeepTypes DEF Start
  <2> QED
    BY <1>6, <2>1 DEF Start, rows, deployment, RowTypes, ActionsFit, RestTypes
<1>7. ASSUME NEW o \in LocalOutcomes, HandlerEndsLocally(t, o)
      PROVE  TaskTypes' /\ RowTypes' /\ RestTypes'
  <2>1. o \in Results
    BY KernelAssumption DEF Results, HandlerOutcomes, Uncertain, Vague
  <2>2. TaskTypes'
    BY <1>7, <2>1, MovesKeepTypes DEF HandlerEndsLocally, AfterHandler
  <2> QED
    BY <1>7, <2>2 DEF HandlerEndsLocally, rows, deployment, RowTypes, ActionsFit, RestTypes
<1>8. ASSUME NEW n \in 1 .. MaxCalls, Send(t, n)
      PROVE  TaskTypes' /\ RowTypes' /\ RestTypes'
  <2>0. MaxCalls \in Nat
    BY KernelAssumption
  <2>1. TaskTypes'
    BY <1>8, <1>s, <2>0 DEF Send, TaskTypes
  <2>2. RowTypes'
    BY <1>8, <1>s DEF Send, rows, RowTypes, ActionsFit, CallStates
  <2> QED
    BY <1>8, <2>1, <2>2 DEF Send, deployment, RestTypes
<1>9. ASSUME NEW o \in HandlerOutcomes, Reply(t, o)
      PROVE  TaskTypes' /\ RowTypes' /\ RestTypes'
  <2>1. TaskTypes'
    BY <1>9, MovesKeepTypes DEF Reply, AfterHandler, Results
  <2> QED
    BY <1>9, <2>1 DEF Reply, rows, deployment, RowTypes, ActionsFit, RestTypes
<1>10. ASSUME FinishExecution(t) PROVE TaskTypes' /\ RowTypes' /\ RestTypes'
  <2>1. TaskTypes'
    BY <1>10, MovesKeepTypes DEF FinishExecution, Raise, Results, KernelAnswers
  <2>2. out[t] \in Results \cup {"none"}
    BY DEF TaskTypes
  <2>3. ExecutionStatusFor(out[t]) \in ExecutionStatuses
    BY <2>2, StatusTypes
  <2>4. executions' \in [Slots -> ExecutionRows]
    <3>1. CASE executions[Slot(t)].status = "executing"
      <4>1. Slot(t) \in Slots
        BY <1>10, <1>s DEF FinishExecution
      <4>2. executions' = [executions EXCEPT
                             ![Slot(t)].status = ExecutionStatusFor(out[t]),
                             ![Slot(t)].result = out[t]]
        BY <1>10, <3>1 DEF FinishExecution
      <4>3. executions \in [Slots -> ExecutionRows]
        BY DEF RowTypes
      <4> HIDE DEF Running, Places
      <4> QED
        BY <2>2, <2>3, <4>1, <4>2, <4>3, ExecutionUpdate
    <3>2. CASE executions[Slot(t)].status # "executing"
      BY <1>10, <3>2 DEF FinishExecution, RowTypes
    <3> QED
      BY <3>1, <3>2
  <2> QED
    BY <1>10, <2>1, <2>4 DEF FinishExecution, deployment, RowTypes, RestTypes
<1>11. ASSUME AuditFinished(t) PROVE TaskTypes' /\ RowTypes' /\ RestTypes'
  <2>1. TaskTypes'
    BY <1>11, MovesKeepTypes DEF AuditFinished, TaskTypes
  <2> QED
    BY <1>11, <2>1 DEF AuditFinished, rows, deployment, RowTypes, ActionsFit, RestTypes
<1>12. ASSUME Settle(t) PROVE TaskTypes' /\ RowTypes' /\ RestTypes'
  <2>1. TaskTypes'
    BY <1>12, MovesKeepTypes DEF Settle
  <2>2. out[t] \in Results \cup {"none"}
    BY DEF TaskTypes
  <2>3. IsWrite(Spec_(t)) \in BOOLEAN
    BY DEF IsWrite
  <2>4. ActionStatusFor(IsWrite(Spec_(t)), out[t]) \in ActionStatuses
    BY <2>2, <2>3, StatusTypes DEF ActionStatuses
  <2>5. ActionsFit(actions)'
    <3>1. CASE actions' = actions
      BY <3>1 DEF RowTypes, ActionsFit
    <3>2. CASE /\ actions[Slot(t)].status = "executing"
               /\ actions' = [actions EXCEPT
                  ![Slot(t)].status = ActionStatusFor(IsWrite(Spec_(t)), out[t]),
                  ![Slot(t)].result = out[t]]
      <4>1. Slot(t) \in Slots
        BY <1>12, <1>s DEF Settle
      <4> HIDE DEF Running, Places
      <4>2. ActionsFit([actions EXCEPT
                  ![Slot(t)].status = ActionStatusFor(IsWrite(Spec_(t)), out[t]),
                  ![Slot(t)].result = out[t]])
        BY <3>2, <4>1, <2>2, <2>4, ActionUpdate DEF RowTypes
      <4> QED
        BY <3>2, <4>2
    <3> QED
      BY <1>12, <3>1, <3>2 DEF Settle
  <2> QED
    BY <1>12, <2>1, <2>5 DEF Settle, deployment, RowTypes, RestTypes
<1>13. ASSUME Check(t) PROVE TaskTypes' /\ RowTypes' /\ RestTypes'
  <2>1. TaskTypes'
    BY <1>13, MovesKeepTypes DEF Check, AfterReconcile
  <2> QED
    BY <1>13, <2>1 DEF Check, rows, deployment, RowTypes, ActionsFit, RestTypes
<1>14. ASSUME NEW a \in ReconcileAnswers, Query(t, a)
       PROVE  TaskTypes' /\ RowTypes' /\ RestTypes'
  <2>1. TaskTypes'
    BY <1>14, MovesKeepTypes
    DEF Query, AfterReconcile, Results, KernelAnswers, HandlerOutcomes
  <2> QED
    BY <1>14, <2>1 DEF Query, rows, deployment, RowTypes, ActionsFit, RestTypes
<1>15. ASSUME ResolveAction(t) PROVE TaskTypes' /\ RowTypes' /\ RestTypes'
  <2>1. TaskTypes'
    BY <1>15, MovesKeepTypes DEF ResolveAction
  <2>2. out[t] \in Results \cup {"none"} /\ Verdict(out[t]) \in ActionStatuses
    BY StatusTypes DEF TaskTypes, ActionStatuses
  <2>3. ActionsFit(actions)'
    <3>1. CASE actions' = actions
      BY <3>1 DEF RowTypes, ActionsFit
    <3>2. CASE /\ actions[Slot(t)].status = "unknown"
               /\ actions' = [actions EXCEPT
                  ![Slot(t)].status = Verdict(out[t]), ![Slot(t)].result = out[t]]
      <4>1. Slot(t) \in Slots
        BY <1>15, <1>s DEF ResolveAction
      <4> HIDE DEF Running, Places
      <4>2. ActionsFit([actions EXCEPT
                  ![Slot(t)].status = Verdict(out[t]), ![Slot(t)].result = out[t]])
        BY <3>2, <4>1, <2>2, ActionUpdate DEF RowTypes
      <4> QED
        BY <3>2, <4>2
    <3> QED
      BY <1>15, <3>1, <3>2 DEF ResolveAction
  <2> QED
    BY <1>15, <2>1, <2>3 DEF ResolveAction, deployment, RowTypes, RestTypes
<1>16. ASSUME ResolveExecution(t) PROVE TaskTypes' /\ RowTypes' /\ RestTypes'
  <2>1. TaskTypes'
    BY <1>16, MovesKeepTypes DEF ResolveExecution
  <2>2. out[t] \in Results \cup {"none"} /\ Verdict(out[t]) \in ExecutionStatuses
    BY StatusTypes DEF TaskTypes, ExecutionStatuses
  <2>3. RowTypes'
    BY <1>16, <1>s, <2>2 DEF ResolveExecution, RowTypes, ExecutionRows
  <2> QED
    BY <1>16, <2>1, <2>3 DEF ResolveExecution, deployment, RestTypes
<1>17. ASSUME Reclaim(t) PROVE TaskTypes' /\ RowTypes' /\ RestTypes'
  <2>1. TaskTypes'
    BY <1>17, MovesKeepTypes DEF Reclaim
  <2>0. "executing" \in ActionStatuses
    BY DEF ActionStatuses
  <2>2. ActionsFit(actions)'
    <3>1. CASE actions' = actions
      BY <3>1 DEF RowTypes, ActionsFit
    <3>2. CASE /\ actions[Slot(t)].status = "unknown"
               /\ actions' = [actions EXCEPT ![Slot(t)].status = "executing"]
      <4>1. Slot(t) \in Slots
        BY <1>17, <1>s DEF Reclaim
      <4> HIDE DEF Running, Places
      <4>2. ActionsFit([actions EXCEPT ![Slot(t)].status = "executing"])
        BY <3>2, <4>1, <2>0, ActionStatusUpdate DEF RowTypes
      <4> QED
        BY <3>2, <4>2
    <3> QED
      BY <1>17, <3>1, <3>2 DEF Reclaim
  <2> QED
    BY <1>17, <2>1, <2>2 DEF Reclaim, deployment, RowTypes, RestTypes
<1> QED
  BY <1>1, <1>2, <1>3, <1>4, <1>5, <1>6, <1>7, <1>8, <1>9, <1>10, <1>11, <1>12,
     <1>13, <1>14, <1>15, <1>16, <1>17 DEF Step

\* The claim of an action, which SqliteActionRepository.claim makes, keeps the
\* table's shape.
LEMMA ClaimUpdate ==
  ASSUME NEW table \in [Slots -> ActionRows], NEW s \in Slots, NEW p \in Principals
  PROVE  [table EXCEPT ![s].status = "executing", ![s].confirmedBy = p]
           \in [Slots -> ActionRows]
<1>1. [[table[s] EXCEPT !.status = "executing"] EXCEPT !.confirmedBy = p] \in ActionRows
  BY DEF ActionRows, ActionStatuses
<1>2. [table EXCEPT ![s].status = "executing", ![s].confirmedBy = p]
        = [table EXCEPT ![s] =
             [[table[s] EXCEPT !.status = "executing"] EXCEPT !.confirmedBy = p]]
  BY DEF ActionRows
<1> QED
  BY <1>1, <1>2

\* Requests, faults, the provider, time and restarts keep the types.
LEMMA OtherType ==
  ASSUME TypeOK,
         \/ \E t \in Tasks : Request(t) \/ Fails(t) \/ CancelTask(t)
         \/ \E s \in Slots : ActionMoves(s) \/ ProviderMoves(s)
         \/ Restart
  PROVE  TypeOK'
<1> TaskTypes /\ RowTypes /\ RestTypes
  BY TypeParts
<1> SUFFICES TaskTypes' /\ RowTypes' /\ RestTypes'
  BY TypeParts DEF TypeOK, TaskTypes, RowTypes, ActionsFit, RestTypes
<1>1. ASSUME NEW t \in Tasks, NEW s \in Slots, NEW p \in Principals, NEW a \in Args,
             Execute(t, s, p, a)
      PROVE  TaskTypes' /\ RowTypes' /\ RestTypes'
  <2>1. [payload |-> [version |-> version, by |-> p, args |-> a],
         op |-> "execute", slot |-> s, who |-> p] \in Jobs
    BY DEF Jobs, Payloads, RestTypes
  <2>2. TaskTypes'
    BY <1>1, <2>1, MovesKeepTypes DEF Execute, Places, Running
  <2> QED
    BY <1>1, <2>2 DEF Execute, rows, deployment, RowTypes, ActionsFit, RestTypes
<1>j. ASSUME NEW s \in Slots, NEW p \in Principals, actions[s].status # "absent",
             NEW op \in {"confirm", "retry", "reconcile"}
      PROVE  [payload |-> actions[s].payload, op |-> op, slot |-> s, who |-> p] \in Jobs
  BY <1>j DEF Jobs, RowTypes, ActionsFit
<1>2. ASSUME NEW t \in Tasks, NEW s \in Slots, NEW p \in Principals, Confirm(t, s, p)
      PROVE  TaskTypes' /\ RowTypes' /\ RestTypes'
  <2>1. [payload |-> actions[s].payload, op |-> "confirm", slot |-> s, who |-> p] \in Jobs
    BY <1>2, <1>j DEF Confirm, Claimable
  <2>2. TaskTypes'
    BY <1>2, <2>1, MovesKeepTypes DEF Confirm, Places, Running
  <2>3. actions' \in [Slots -> ActionRows]
    <3>1. actions' = [actions EXCEPT ![s].status = "executing", ![s].confirmedBy = p]
      BY <1>2 DEF Confirm
    <3>2. actions \in [Slots -> ActionRows]
      BY DEF RowTypes, ActionsFit
    <3> QED
      BY <3>1, <3>2, ClaimUpdate
  <2>4. \A x \in Slots : actions'[x].status # "absent" => actions'[x].payload \in Payloads
    BY <1>2 DEF Confirm, Claimable, RowTypes, ActionsFit, ActionRows
  <2> QED
    BY <1>2, <2>2, <2>3, <2>4 DEF Confirm, deployment, RowTypes, ActionsFit, RestTypes
<1>3. ASSUME NEW t \in Tasks, NEW s \in Slots, NEW p \in Principals, Reconcile(t, s, p)
      PROVE  TaskTypes' /\ RowTypes' /\ RestTypes'
  <2>1. [payload |-> actions[s].payload, op |-> "reconcile", slot |-> s, who |-> p] \in Jobs
    BY <1>3, <1>j DEF Reconcile, VisibleUnknown
  <2>2. TaskTypes'
    BY <1>3, <2>1, MovesKeepTypes DEF Reconcile, Places, Running
  <2> QED
    BY <1>3, <2>2 DEF Reconcile, rows, deployment, RowTypes, ActionsFit, RestTypes
<1>4. ASSUME NEW t \in Tasks, NEW s \in Slots, NEW p \in Principals, RetryUnknown(t, s, p)
      PROVE  TaskTypes' /\ RowTypes' /\ RestTypes'
  <2>1. [payload |-> actions[s].payload, op |-> "retry", slot |-> s, who |-> p] \in Jobs
    BY <1>4, <1>j DEF RetryUnknown, VisibleUnknown
  <2>2. TaskTypes'
    BY <1>4, <2>1, MovesKeepTypes DEF RetryUnknown, Places, Running
  <2> QED
    BY <1>4, <2>2 DEF RetryUnknown, rows, deployment, RowTypes, ActionsFit, RestTypes
<1>5. ASSUME NEW t \in Tasks, Fails(t)
      PROVE  TaskTypes' /\ RowTypes' /\ RestTypes'
  <2>1. TaskTypes'
    BY <1>5, MovesKeepTypes DEF Fails, Raise, CanRaise, Results, KernelAnswers
  <2> QED
    BY <1>5, <2>1, KernelAssumption
    DEF Fails, Fault, rows, deployment, RowTypes, ActionsFit, RestTypes
<1>6. ASSUME NEW t \in Tasks, CancelTask(t)
      PROVE  TaskTypes' /\ RowTypes' /\ RestTypes'
  <2>1. TaskTypes'
    BY <1>6, MovesKeepTypes DEF CancelTask
  <2> QED
    BY <1>6, <2>1, KernelAssumption
    DEF CancelTask, Fault, rows, deployment, RowTypes, ActionsFit, RestTypes
<1>7. ASSUME NEW s \in Slots, ActionMoves(s)
      PROVE  TaskTypes' /\ RowTypes' /\ RestTypes'
  <2>1. ASSUME NEW st \in {"expired", "cancelled"}, actions[s].status = "pending",
               actions' = [actions EXCEPT ![s].status = st]
        PROVE  ActionsFit(actions)'
    <3>1. st \in ActionStatuses
      BY DEF ActionStatuses
    <3>2. ActionsFit([actions EXCEPT ![s].status = st])
      BY <2>1, <3>1, ActionStatusUpdate DEF RowTypes
    <3> QED
      BY <2>1, <3>2
  <2>2. ASSUME TimePasses(s)
        PROVE  ActionsFit(actions)'
    <3>1. actions' \in [Slots -> ActionRows]
      BY <2>2 DEF TimePasses, RowTypes, ActionsFit, ActionRows
    <3>2. \A x \in Slots : actions'[x].status # "absent" => actions'[x].payload \in Payloads
      BY <2>2 DEF TimePasses, RowTypes, ActionsFit, ActionRows
    <3> QED
      BY <3>1, <3>2 DEF ActionsFit
  <2>3. ActionsFit(actions)'
    BY <1>7, <2>1, <2>2 DEF ActionMoves, ConfirmTooLate, Cancel, Claimable
  <2>4. UNCHANGED <<executions, tasks, calls, deployment, faults>>
    BY <1>7 DEF ActionMoves, ConfirmTooLate, TimePasses, Cancel
  <2> QED
    BY <2>3, <2>4 DEF tasks, deployment, RowTypes, TaskTypes, RestTypes
<1>8. ASSUME NEW s \in Slots, ProviderMoves(s)
      PROVE  TaskTypes' /\ RowTypes' /\ RestTypes'
  <2>1. calls' \in [Slots -> [1 .. MaxCalls -> CallStates]]
    <3>1. PICK n \in 1 .. MaxCalls, st \in {"applied", "refused"} :
             calls' = [calls EXCEPT ![s][n] = st]
      BY <1>8 DEF ProviderMoves, ProviderApplies, ProviderRefuses
    <3>2. st \in CallStates /\ calls \in [Slots -> [1 .. MaxCalls -> CallStates]]
      BY DEF CallStates, RowTypes
    <3> QED
      BY <3>1, <3>2
  <2>2. UNCHANGED <<rows, tasks, deployment, faults>>
    BY <1>8 DEF ProviderMoves, ProviderApplies, ProviderRefuses
  <2> QED
    BY <2>1, <2>2 DEF rows, tasks, deployment, RowTypes, ActionsFit, TaskTypes, RestTypes
<1>9. ASSUME Restart
      PROVE  TaskTypes' /\ RowTypes' /\ RestTypes'
  <2>1. MaxCalls \in Nat /\ MaxFaults \in Nat
    BY KernelAssumption
  <2>2. TaskTypes'
    BY <1>9, <2>1 DEF Restart, TaskTypes, Places
  <2> QED
    BY <1>9, <2>1, <2>2 DEF Restart, Fault, rows, RowTypes, ActionsFit, RestTypes
<1> QED
  BY <1>1, <1>2, <1>3, <1>4, <1>5, <1>6, <1>7, <1>8, <1>9 DEF Request

LEMMA StutterType == TypeOK /\ UNCHANGED vars => TypeOK'
  BY DEF TypeOK, vars, rows, tasks, deployment

\* TypeOK: every state the kernel reaches has the declared shape.
THEOREM TypeCorrect == Spec => []TypeOK
<1>1. TypeOK /\ [Next]_vars => TypeOK'
  BY StepType, OtherType, StutterType DEF Next
<1> QED
  BY InitType, <1>1, PTL DEF Spec

-----------------------------------------------------------------------------
(* The inductive invariant.                                                *)

\* Which requests come to which place, and where a task carries a result.
ResultPlaces == {"finish", "audit", "settle", "resolve_action", "resolve_execution"}
LookPlaces == {"check", "query", "resolve_action", "resolve_execution"}

PlaceFits(t) ==
  /\ pc[t] = "create" => job[t].op = "execute"
  /\ pc[t] = "settle" => job[t].op \in {"confirm", "retry"}
  /\ pc[t] \in LookPlaces => job[t].op \in {"reconcile", "retry"}
  /\ pc[t] = "reclaim" => job[t].op = "retry"
  /\ pc[t] \in ClaimedPlaces => job[t].op # "reconcile"
  /\ pc[t] \in ResultPlaces => out[t] # "none"

Placed == \A t \in Tasks : PlaceFits(t)

\* A task that runs the handler of a write holds the execution row, and the
\* row says for whom it runs.
RunnerHoldsRow ==
  \A t \in Tasks : \A s \in Slots :
    Runs(t, s) /\ IsWrite(catalog[s]) =>
      /\ executions[s].status = "executing"
      /\ executions[s].owner = (IF Claims(t) THEN "action" ELSE "direct")

\* A concluded execution has a result to replay.
ConcludedHasResult ==
  \A s \in Slots :
    executions[s].status \notin {"absent", "executing"} => executions[s].result # "none"

Handlers == RunnerHoldsRow /\ HandlerExclusive /\ ConcludedHasResult

\* No execution by the action without a confirmation.
UnconfirmedNeverRuns ==
  \A s \in Slots :
    actions[s].status \in {"absent", "pending", "cancelled", "expired"} =>
      executions[s].owner # "action"

\* Every later request works on the action it names; past its validation a
\* claim works on what was confirmed.
WorksOnTheAction ==
  \A t \in Tasks :
    /\ pc[t] # "idle" /\ job[t].op # "execute" =>
         /\ actions[Slot(t)].status # "absent"
         /\ job[t].payload = actions[Slot(t)].payload
    /\ Claims(t) /\ pc[t] \in Running \cup {"reserve"} =>
         Valid(actions[Slot(t)], job[t].who)

Holders == ClaimExclusive /\ UnconfirmedNeverRuns /\ WorksOnTheAction

\* What stands behind a result r about s: an applied call behind a handler's
\* success, the policy of the intent behind a reconcile handler's.
Successes == {"success", "found"}
Grounded(s, r) ==
  IsWrite(catalog[s]) =>
    /\ r = "success" => Applied(s) # {}
    /\ r = "found" => Reconciles(catalog[s])

TrueAction(s, row) ==
  Grounded(s, row.result) /\ (row.status = "succeeded" => row.result \in Successes)
TrueExecution(s, row) ==
  /\ Grounded(s, row.result)
  /\ row.status = "succeeded" => row.result \in Successes \cup {"clarify"}

CarriesTruth ==
  \A t \in Tasks : out[t] \in Successes => pc[t] # "idle" /\ Grounded(Slot(t), out[t])

TrueRecords ==
  \A s \in Slots : TrueAction(s, actions[s]) /\ TrueExecution(s, executions[s])

\* A reconcile handler is asked for an intent that has one.
AsksWhereItMay == \A t \in Tasks : pc[t] = "query" => Reconciles(Spec_(t))

Truth == CarriesTruth /\ TrueRecords /\ AsksWhereItMay

IInv == TypeOK /\ Placed /\ Handlers /\ Holders /\ Truth

-----------------------------------------------------------------------------
(* What the moves of a task do, point by point.                            *)

OthersStay(t) ==
  \A u \in Tasks \ {t} : pc'[u] = pc[u] /\ job'[u] = job[u] /\ out'[u] = out[u]

Moves(t, place) == pc'[t] = place /\ job'[t] = job[t] /\ OthersStay(t)

LEMMA Movement ==
  ASSUME TypeOK, NEW t \in Tasks
  PROVE  /\ \A place : Goto(t, place) => Moves(t, place) /\ out'[t] = out[t]
         /\ \A place, work : Begin(t, place, work) =>
              /\ pc[t] = "idle" /\ pc'[t] = place /\ job'[t] = work
              /\ out'[t] = out[t] /\ OthersStay(t)
         /\ Idle(t) => pc'[t] = "idle" /\ out'[t] = "none" /\ OthersStay(t)
         /\ \A place, r : Carry(t, place, r) => Moves(t, place) /\ out'[t] = r
         /\ \A r : Return(t, r) =>
              \/ pc'[t] = "idle" /\ out'[t] = "none" /\ OthersStay(t)
              \/ Claims(t) /\ Moves(t, "settle") /\ out'[t] = r
<1>1. pc \in [Tasks -> Places] /\ job \in [Tasks -> Jobs \cup {None}]
      /\ out \in [Tasks -> Results \cup {"none"}]
  BY DEF TypeOK
<1>2. Idle(t) => pc'[t] = "idle" /\ out'[t] = "none" /\ OthersStay(t)
  BY <1>1 DEF Idle, OthersStay
<1>3. \A place, r : Carry(t, place, r) => Moves(t, place) /\ out'[t] = r
  BY <1>1 DEF Carry, Moves, OthersStay
<1>4. \A place : Goto(t, place) => Moves(t, place) /\ out'[t] = out[t]
  BY <1>1 DEF Goto, Moves, OthersStay
<1>5. \A place, work : Begin(t, place, work) =>
        /\ pc[t] = "idle" /\ pc'[t] = place /\ job'[t] = work
        /\ out'[t] = out[t] /\ OthersStay(t)
  BY <1>1 DEF Begin, OthersStay
<1> QED
  BY <1>2, <1>3, <1>4, <1>5 DEF Return

-----------------------------------------------------------------------------
(* Places.                                                                 *)

LEMMA PlacesFrame ==
  ASSUME Placed, NEW t \in Tasks, OthersStay(t), pc'[t] = "idle" \/ PlaceFits(t)'
  PROVE  Placed'
<1>1. pc'[t] = "idle" => PlaceFits(t)'
  BY DEF PlaceFits, LookPlaces, ResultPlaces, ClaimedPlaces, Running
<1>2. \A u \in Tasks \ {t} : PlaceFits(u)'
  BY DEF Placed, PlaceFits, OthersStay
<1> QED
  BY <1>1, <1>2 DEF Placed

LEMMA PlacesStep ==
  ASSUME TypeOK, Placed, ConcludedHasResult, NEW t \in Tasks, Step(t)
  PROVE  Placed'
<1> USE Movement
<1> USE DEF Moves, PlaceFits, LookPlaces, ResultPlaces, ClaimedPlaces, Running
<1>p. PlaceFits(t)
  BY DEF Placed
<1>s. pc[t] # "idle" => Slot(t) \in Slots
  BY DEF TypeOK, Slot, Jobs
<1>f. SUFFICES OthersStay(t) /\ (pc'[t] = "idle" \/ PlaceFits(t)')
  BY PlacesFrame
<1>r. ASSUME NEW r, r # "none", Return(t, r)
      PROVE  OthersStay(t) /\ (pc'[t] = "idle" \/ PlaceFits(t)')
  BY <1>r DEF Claims
<1>1. CASE Authorize(t)
  <2>1. CASE Goto(t, Route(t))
    BY <1>1, <1>p, <2>1 DEF Authorize, Route
  <2>2. CASE Return(t, "refused") \/ Return(t, "denied")
    BY <1>r, <2>2
  <2> QED
    BY <1>1, <2>1, <2>2 DEF Authorize
<1>2. CASE CreateAction(t)
  BY <1>2 DEF CreateAction
<1>3. CASE Reserve(t)
  <2>1. CASE Goto(t, "start")
    BY <1>3, <1>p, <2>1 DEF Reserve
  <2>2. CASE Return(t, "key_conflict")
    BY <1>r, <2>2
  <2>3. CASE Return(t, executions[Slot(t)].result) /\ executions[Slot(t)].result # "none"
    BY <1>r, <2>3
  <2> QED
    BY <1>3, <2>1, <2>2, <2>3 DEF Reserve
<1>4. CASE AnswerInProgress(t)
  BY <1>4, <1>r DEF AnswerInProgress
<1>5. CASE Reopen(t)
  <2>1. CASE Goto(t, "start")
    BY <1>5, <1>p, <2>1 DEF Reopen
  <2> QED
    BY <1>5, <1>r, <2>1 DEF Reopen
<1>6. CASE Start(t)
  BY <1>6, <1>p DEF Start
<1>7. ASSUME NEW o \in LocalOutcomes, HandlerEndsLocally(t, o)
      PROVE  OthersStay(t) /\ (pc'[t] = "idle" \/ PlaceFits(t)')
  <2>1. o # "none"
    BY KernelAssumption
  <2> QED
    BY <1>7, <1>p, <2>1 DEF HandlerEndsLocally, AfterHandler
<1>8. ASSUME NEW n \in 1 .. MaxCalls, Send(t, n)
      PROVE  OthersStay(t) /\ (pc'[t] = "idle" \/ PlaceFits(t)')
  <2>1. pc'[t] = "await" /\ OthersStay(t) /\ job' = job /\ pc[t] = "handler"
    BY <1>8 DEF Send, TypeOK, OthersStay
  <2> QED
    BY <1>p, <2>1
<1>9. ASSUME NEW o \in HandlerOutcomes, Reply(t, o)
      PROVE  OthersStay(t) /\ (pc'[t] = "idle" \/ PlaceFits(t)')
  <2>1. o # "none"
    BY DEF HandlerOutcomes, Uncertain, Vague
  <2> QED
    BY <1>9, <1>p, <2>1 DEF Reply, AfterHandler
<1>10. CASE FinishExecution(t)
  <2>1. CASE Goto(t, "audit")
    BY <1>10, <1>p, <2>1 DEF FinishExecution
  <2> QED
    BY <1>10, <1>r, <2>1 DEF FinishExecution, Raise
<1>11. CASE AuditFinished(t)
  BY <1>11, <1>p, <1>r DEF AuditFinished
<1>12. CASE Settle(t)
  BY <1>12 DEF Settle
<1>13. CASE Check(t)
  BY <1>13, <1>p DEF Check, AfterReconcile
<1>14. ASSUME NEW a \in ReconcileAnswers, Query(t, a)
       PROVE  OthersStay(t) /\ (pc'[t] = "idle" \/ PlaceFits(t)')
  BY <1>14, <1>p DEF Query, AfterReconcile
<1>15. CASE ResolveAction(t)
  BY <1>15, <1>p DEF ResolveAction
<1>16. CASE ResolveExecution(t)
  BY <1>16, <1>p DEF ResolveExecution
<1>17. CASE Reclaim(t)
  BY <1>17, <1>p DEF Reclaim
<1> QED
  BY <1>1, <1>2, <1>3, <1>4, <1>5, <1>6, <1>7, <1>8, <1>9, <1>10, <1>11, <1>12,
     <1>13, <1>14, <1>15, <1>16, <1>17 DEF Step

\* A step that is no task's own: a request, a fault, the provider, time.
OtherMoves ==
  \/ \E t \in Tasks : Request(t) \/ Fails(t) \/ CancelTask(t)
  \/ \E s \in Slots : ActionMoves(s) \/ ProviderMoves(s)
  \/ Restart

LEMMA PlacesOther ==
  ASSUME TypeOK, Placed, OtherMoves
  PROVE  Placed'
<1> USE DEF PlaceFits, LookPlaces, ResultPlaces, ClaimedPlaces, Running
<1>1. ASSUME NEW t \in Tasks, Request(t) PROVE Placed'
  <2>1. /\ OthersStay(t)
        /\ \/ pc'[t] = "authorize" /\ job'[t].op \in {"execute", "confirm"}
           \/ pc'[t] = "check" /\ job'[t].op \in {"reconcile", "retry"}
           \/ pc'[t] = "reclaim" /\ job'[t].op = "retry"
    <3>1. PICK s \in Slots, p \in Principals :
             \/ \E a \in Args : Execute(t, s, p, a)
             \/ Confirm(t, s, p) \/ Reconcile(t, s, p) \/ RetryUnknown(t, s, p)
      BY <1>1 DEF Request
    <3>2. CASE \E a \in Args : Execute(t, s, p, a)
      BY <3>2, Movement DEF Execute
    <3>3. CASE Confirm(t, s, p)
      BY <3>3, Movement DEF Confirm
    <3>4. CASE Reconcile(t, s, p)
      BY <3>4, Movement DEF Reconcile
    <3>5. CASE RetryUnknown(t, s, p)
      BY <3>5, Movement DEF RetryUnknown
    <3> QED
      BY <3>1, <3>2, <3>3, <3>4, <3>5
  <2> QED
    BY <2>1, PlacesFrame
<1>2. ASSUME NEW t \in Tasks, Fails(t) PROVE Placed'
  <2>1. OthersStay(t) /\ (pc'[t] = "idle" \/ PlaceFits(t)')
    <3>1. CASE Return(t, "not_run")
      BY <3>1, Movement DEF Claims, Moves
    <3>2. CASE Idle(t)
      BY <3>2, Movement
    <3> QED
      BY <1>2, <3>1, <3>2 DEF Fails, Raise
  <2> QED
    BY <2>1, PlacesFrame
<1>3. ASSUME NEW t \in Tasks, CancelTask(t) PROVE Placed'
  BY <1>3, Movement, PlacesFrame DEF CancelTask
<1>4. ASSUME NEW s \in Slots, ActionMoves(s) \/ ProviderMoves(s) PROVE Placed'
  BY <1>4
  DEF ActionMoves, ConfirmTooLate, TimePasses, Cancel, ProviderMoves, ProviderApplies,
      ProviderRefuses, tasks, Placed
<1>5. ASSUME Restart PROVE Placed'
  BY <1>5 DEF Restart, Placed
<1> QED
  BY <1>1, <1>2, <1>3, <1>4, <1>5 DEF OtherMoves

-----------------------------------------------------------------------------
(* Handlers: a write is run by one task at a time, and that task holds the *)
(* execution row.                                                          *)

\* The executions table stays, and t does not begin to run a write.
LEMMA HandlersFrame ==
  ASSUME Handlers, NEW t \in Tasks, OthersStay(t), UNCHANGED <<executions, catalog>>,
         \/ pc'[t] \notin Running
         \/ job'[t] = job[t] /\ pc[t] \in Running
         \/ job'[t] = job[t] /\ ~IsWrite(catalog[Slot(t)])
  PROVE  Handlers'
<1>1. ASSUME NEW u \in Tasks, NEW s \in Slots, Runs(u, s)', IsWrite(catalog[s])
      PROVE  Runs(u, s) /\ Claims(u)' = Claims(u)
  <2>1. CASE u = t
    BY <1>1, <2>1 DEF Runs, Claims, Slot, ClaimedPlaces
  <2>2. CASE u # t
    BY <1>1, <2>2 DEF OthersStay, Runs, Claims, Slot
  <2> QED
    BY <2>1, <2>2
<1>2. RunnerHoldsRow'
  BY <1>1 DEF Handlers, RunnerHoldsRow
<1>3. HandlerExclusive'
  BY <1>1 DEF Handlers, HandlerExclusive
<1>4. ConcludedHasResult'
  BY DEF Handlers, ConcludedHasResult
<1> QED
  BY <1>2, <1>3, <1>4 DEF Handlers

\* The row of s, which nobody but t runs, changes; t does not run it after.
LEMMA HandlersRelease ==
  ASSUME Handlers, NEW t \in Tasks, NEW s \in Slots, OthersStay(t), UNCHANGED catalog,
         \A x \in Slots \ {s} : executions'[x] = executions[x],
         executions'[s].status \notin {"absent", "executing"} => executions'[s].result # "none",
         pc'[t] \notin Running,
         \A u \in Tasks \ {t} : ~(Runs(u, s) /\ IsWrite(catalog[s]))
  PROVE  Handlers'
<1>1. ASSUME NEW u \in Tasks, NEW x \in Slots, Runs(u, x)', IsWrite(catalog[x])
      PROVE  u # t /\ x # s /\ Runs(u, x) /\ Claims(u)' = Claims(u)
  BY <1>1 DEF OthersStay, Runs, Claims, Slot
<1>2. RunnerHoldsRow'
  BY <1>1 DEF Handlers, RunnerHoldsRow
<1>3. HandlerExclusive'
  BY <1>1 DEF Handlers, HandlerExclusive
<1>4. ConcludedHasResult'
  BY DEF Handlers, ConcludedHasResult
<1> QED
  BY <1>2, <1>3, <1>4 DEF Handlers

\* t takes the row of its slot, which nobody was executing, and runs it.
LEMMA HandlersTake ==
  ASSUME Handlers, NEW t \in Tasks, Slot(t) \in Slots, Moves(t, "start"), UNCHANGED catalog,
         \A x \in Slots \ {Slot(t)} : executions'[x] = executions[x],
         executions[Slot(t)].status # "executing",
         executions'[Slot(t)].status = "executing",
         executions'[Slot(t)].owner = (IF Claims(t) THEN "action" ELSE "direct"),
         pc[t] = "reserve"
  PROVE  Handlers'
<1>1. ASSUME NEW u \in Tasks \ {t}, NEW x \in Slots, Runs(u, x)', IsWrite(catalog[x])
      PROVE  x # Slot(t) /\ Runs(u, x) /\ Claims(u)' = Claims(u)
  BY <1>1 DEF Moves, OthersStay, Runs, Claims, Slot, Handlers, RunnerHoldsRow
<1>2. Claims(t)' = Claims(t) /\ Slot(t)' = Slot(t)
  BY DEF Moves, Claims, ClaimedPlaces, Running, Slot
<1>3. RunnerHoldsRow'
  BY <1>1, <1>2 DEF Handlers, RunnerHoldsRow, Runs
<1>4. HandlerExclusive'
  BY <1>1, <1>2 DEF Handlers, HandlerExclusive, Runs
<1>5. ConcludedHasResult'
  BY DEF Handlers, ConcludedHasResult
<1> QED
  BY <1>3, <1>4, <1>5 DEF Handlers

LEMMA HandlersStep ==
  ASSUME TypeOK, Placed, Handlers, NEW t \in Tasks, Step(t)
  PROVE  Handlers'
<1> USE Movement
<1> USE DEF Running, deployment, rows
<1>s. pc[t] # "idle" => Slot(t) \in Slots
  BY DEF TypeOK, Slot, Jobs
<1>e. executions \in [Slots -> ExecutionRows]
  BY DEF TypeOK
<1>r. ASSUME NEW r, Return(t, r) PROVE OthersStay(t) /\ pc'[t] \notin Running
  BY <1>r DEF Moves
<1>1. CASE Authorize(t)
  <2>1. CASE Goto(t, Route(t))
    <3>1. Route(t) = "start" => ~IsWrite(catalog[Slot(t)])
      BY DEF Route, Spec_
    <3>2. Route(t) \in Running => Route(t) = "start"
      BY DEF Route
    <3> QED
      BY <1>1, <2>1, <3>1, <3>2, HandlersFrame DEF Authorize, Moves
  <2>2. CASE Return(t, "refused") \/ Return(t, "denied")
    BY <1>1, <2>2, <1>r, HandlersFrame DEF Authorize
  <2> QED
    BY <1>1, <2>1, <2>2 DEF Authorize
<1>2. CASE CreateAction(t)
  BY <1>2, HandlersFrame DEF CreateAction
<1>3. CASE Reserve(t)
  <2>1. CASE ReserveOutcome(executions[Slot(t)], job[t].payload) = "reserved"
    <3>1. executions[Slot(t)].status = "absent"
      BY <2>1 DEF ReserveOutcome
    <3>2. /\ Goto(t, "start")
          /\ executions' = [executions EXCEPT ![Slot(t)] =
               [status |-> "executing", payload |-> job[t].payload, result |-> "none",
                owner |-> IF Claims(t) THEN "action" ELSE "direct"]]
      BY <1>3, <2>1 DEF Reserve
    <3>3. Slot(t) \in Slots
      BY <1>3, <1>s DEF Reserve
    <3>4. \A x \in Slots \ {Slot(t)} : executions'[x] = executions[x]
      BY <1>e, <3>2, <3>3
    <3>5. /\ executions'[Slot(t)].status = "executing"
          /\ executions'[Slot(t)].owner = (IF Claims(t) THEN "action" ELSE "direct")
      BY <1>e, <3>2, <3>3
    <3> QED
      BY <1>3, <3>1, <3>2, <3>3, <3>4, <3>5, HandlersTake DEF Reserve
  <2>2. CASE Return(t, "key_conflict") /\ UNCHANGED executions
    BY <1>3, <2>2, <1>r, HandlersFrame DEF Reserve
  <2>3. CASE ReserveOutcome(executions[Slot(t)], job[t].payload) = "replay"
    <3>1. executions[Slot(t)].status \notin {"absent", "executing"}
      BY <2>3 DEF ReserveOutcome
    <3>2. executions[Slot(t)].result # "none"
      BY <1>3, <1>s, <3>1 DEF Reserve, Handlers, ConcludedHasResult
    <3> QED
      BY <1>3, <2>3, <3>2, <1>r, HandlersFrame DEF Reserve
  <2> QED
    BY <1>3, <2>1, <2>2, <2>3 DEF Reserve
<1>4. CASE AnswerInProgress(t)
  BY <1>4, <1>r, HandlersFrame DEF AnswerInProgress
<1>5. CASE Reopen(t)
  <2>1. CASE CanReopen(executions[Slot(t)])
    <3>1. Goto(t, "start") /\ executions' = [executions EXCEPT ![Slot(t)].status = "executing"]
      BY <1>5, <2>1 DEF Reopen
    <3>2. Slot(t) \in Slots
      BY <1>5, <1>s DEF Reopen
    <3>3. \A x \in Slots \ {Slot(t)} : executions'[x] = executions[x]
      BY <1>e, <3>1, <3>2
    <3>4. /\ executions'[Slot(t)].status = "executing"
          /\ executions'[Slot(t)].owner = executions[Slot(t)].owner
      BY <1>e, <3>1, <3>2 DEF ExecutionRows
    <3>5. Claims(t) /\ executions[Slot(t)].owner = "action"
          /\ executions[Slot(t)].status # "executing"
      BY <1>5, <2>1 DEF Reopen, RunsAgain, CanReopen
    <3> QED
      BY <1>5, <3>1, <3>2, <3>3, <3>4, <3>5, HandlersTake DEF Reopen
  <2>2. CASE ~CanReopen(executions[Slot(t)])
    BY <1>5, <2>2, <1>r, HandlersFrame DEF Reopen
  <2> QED
    BY <2>1, <2>2
<1>6. CASE Start(t)
  BY <1>6, HandlersFrame DEF Start, Moves
<1>7. ASSUME NEW o \in LocalOutcomes, HandlerEndsLocally(t, o) PROVE Handlers'
  BY <1>7, HandlersFrame DEF HandlerEndsLocally, Moves
<1>8. ASSUME NEW n \in 1 .. MaxCalls, Send(t, n) PROVE Handlers'
  <2>1. OthersStay(t) /\ job' = job /\ pc[t] = "handler"
    BY <1>8 DEF Send, TypeOK, OthersStay
  <2> QED
    BY <1>8, <2>1, HandlersFrame DEF Send
<1>9. ASSUME NEW o \in HandlerOutcomes, Reply(t, o) PROVE Handlers'
  BY <1>9, HandlersFrame DEF Reply, Moves
<1>10. CASE FinishExecution(t)
  <2>1. CASE executions[Slot(t)].status = "executing"
    <3>1. /\ Goto(t, "audit")
          /\ executions' = [executions EXCEPT
               ![Slot(t)].status = ExecutionStatusFor(out[t]), ![Slot(t)].result = out[t]]
      BY <1>10, <2>1 DEF FinishExecution
    <3>2. Slot(t) \in Slots /\ Runs(t, Slot(t)) /\ out[t] # "none"
      BY <1>10, <1>s DEF FinishExecution, Runs, Placed, PlaceFits, ResultPlaces
    <3>3. \A x \in Slots \ {Slot(t)} : executions'[x] = executions[x]
      BY <1>e, <3>1, <3>2
    <3>4. executions'[Slot(t)].result = out[t]
      BY <1>e, <3>1, <3>2 DEF ExecutionRows
    <3>5. \A u \in Tasks \ {t} : ~(Runs(u, Slot(t)) /\ IsWrite(catalog[Slot(t)]))
      BY <3>2 DEF Handlers, HandlerExclusive
    <3>6. pc'[t] \notin Running /\ OthersStay(t) /\ UNCHANGED catalog
      BY <1>10, <3>1 DEF Moves, FinishExecution
    <3> HIDE DEF Running
    <3> QED
      BY <3>2, <3>3, <3>4, <3>5, <3>6, HandlersRelease
  <2>2. CASE executions[Slot(t)].status # "executing"
    BY <1>10, <2>2, <1>r, HandlersFrame DEF FinishExecution, Raise
  <2> QED
    BY <2>1, <2>2
<1>11. CASE AuditFinished(t)
  BY <1>11, <1>r, HandlersFrame DEF AuditFinished
<1>12. CASE Settle(t)
  BY <1>12, HandlersFrame DEF Settle
<1>13. CASE Check(t)
  BY <1>13, HandlersFrame DEF Check, AfterReconcile, Moves
<1>14. ASSUME NEW a \in ReconcileAnswers, Query(t, a) PROVE Handlers'
  BY <1>14, HandlersFrame DEF Query, AfterReconcile, Moves
<1>15. CASE ResolveAction(t)
  BY <1>15, HandlersFrame DEF ResolveAction, Moves
<1>16. CASE ResolveExecution(t)
  <2>0. pc'[t] \notin Running /\ OthersStay(t) /\ UNCHANGED catalog
    BY <1>16 DEF ResolveExecution, Moves
  <2>1. CASE CanReopen(executions[Slot(t)])
    <3>1. executions' = [executions EXCEPT
               ![Slot(t)].status = Verdict(out[t]), ![Slot(t)].result = out[t]]
      BY <1>16, <2>1 DEF ResolveExecution
    <3>2. Slot(t) \in Slots /\ out[t] # "none"
      BY <1>16, <1>s DEF ResolveExecution, Placed, PlaceFits, ResultPlaces
    <3>3. \A x \in Slots \ {Slot(t)} : executions'[x] = executions[x]
      BY <1>e, <3>1, <3>2
    <3>4. executions'[Slot(t)].result = out[t]
      BY <1>e, <3>1, <3>2 DEF ExecutionRows
    <3>5. \A u \in Tasks \ {t} : ~(Runs(u, Slot(t)) /\ IsWrite(catalog[Slot(t)]))
      BY <2>1, <3>2 DEF Handlers, RunnerHoldsRow, CanReopen
    <3> HIDE DEF Running
    <3> QED
      BY <2>0, <3>2, <3>3, <3>4, <3>5, HandlersRelease
  <2>2. CASE ~CanReopen(executions[Slot(t)])
    BY <1>16, <2>0, <2>2, HandlersFrame DEF ResolveExecution
  <2> QED
    BY <2>1, <2>2
<1>17. CASE Reclaim(t)
  BY <1>17, HandlersFrame DEF Reclaim, Moves
<1> QED
  BY <1>1, <1>2, <1>3, <1>4, <1>5, <1>6, <1>7, <1>8, <1>9, <1>10, <1>11, <1>12,
     <1>13, <1>14, <1>15, <1>16, <1>17 DEF Step

LEMMA HandlersOther ==
  ASSUME TypeOK, Handlers, OtherMoves
  PROVE  Handlers'
<1> USE DEF rows, deployment
<1>1. ASSUME NEW t \in Tasks, Request(t) PROVE Handlers'
  <2>1. /\ OthersStay(t) /\ UNCHANGED <<executions, catalog>>
        /\ pc'[t] \in {"authorize", "check", "reclaim"}
    <3>1. PICK s \in Slots, p \in Principals :
             \/ \E a \in Args : Execute(t, s, p, a)
             \/ Confirm(t, s, p) \/ Reconcile(t, s, p) \/ RetryUnknown(t, s, p)
      BY <1>1 DEF Request
    <3> QED
      BY <3>1, Movement DEF Execute, Confirm, Reconcile, RetryUnknown
  <2> QED
    BY <2>1, HandlersFrame DEF Running
<1>2. ASSUME NEW t \in Tasks, Fails(t) PROVE Handlers'
  <2>1. OthersStay(t) /\ UNCHANGED <<executions, catalog>> /\ pc'[t] \in {"idle", "settle"}
    BY <1>2, Movement DEF Fails, Raise, Moves
  <2> QED
    BY <2>1, HandlersFrame DEF Running
<1>3. ASSUME NEW t \in Tasks, CancelTask(t) PROVE Handlers'
  BY <1>3, Movement, HandlersFrame DEF CancelTask, Running
<1>4. ASSUME NEW s \in Slots, ActionMoves(s) \/ ProviderMoves(s) PROVE Handlers'
  BY <1>4
  DEF ActionMoves, ConfirmTooLate, TimePasses, Cancel, ProviderMoves, ProviderApplies,
      ProviderRefuses, tasks, Handlers, RunnerHoldsRow, HandlerExclusive,
      ConcludedHasResult, Runs, Claims, Slot
<1>5. ASSUME Restart PROVE Handlers'
  BY <1>5
  DEF Restart, Handlers, RunnerHoldsRow, HandlerExclusive, ConcludedHasResult, Runs, Running
<1> QED
  BY <1>1, <1>2, <1>3, <1>4, <1>5 DEF OtherMoves

-----------------------------------------------------------------------------
(* Holders: who works for an action, and on what.                          *)

Validated == Running \cup {"reserve"}

\* The task takes no action over; a claim enters its run validated.
Calm(t) ==
  \/ pc'[t] = "idle"
  \/ /\ pc[t] # "idle" /\ job'[t] = job[t]
     /\ Claims(t)' => Claims(t)
     /\ Claims(t)' /\ pc'[t] \in Validated =>
          pc[t] \in Validated \/ Valid(actions[Slot(t)], job[t].who)

LEMMA OthersCalm ==
  ASSUME NEW t \in Tasks, OthersStay(t), Calm(t)
  PROVE  \A u \in Tasks : Calm(u)
  BY DEF OthersStay, Calm, Claims

\* Only a task that works for an action marks the execution as the action's.
OwnersFit ==
  \A s \in Slots : executions'[s].owner = "action" =>
    executions[s].owner = "action" \/ actions[s].status = "executing"

LEMMA HoldersFrame ==
  ASSUME Holders, UNCHANGED <<actions, version>>, OwnersFit, \A u \in Tasks : Calm(u)
  PROVE  Holders'
<1>1. \A u \in Tasks : Claims(u)' => Claims(u) /\ Slot(u)' = Slot(u)
  BY DEF Calm, Claims, ClaimedPlaces, Running, Slot
<1>2. ClaimExclusive'
  BY <1>1 DEF Holders, ClaimExclusive
<1>3. UnconfirmedNeverRuns'
  BY DEF Holders, UnconfirmedNeverRuns, OwnersFit
<1>4. ASSUME NEW u \in Tasks, pc'[u] # "idle", job'[u].op # "execute"
      PROVE  /\ actions'[Slot(u)'].status # "absent"
             /\ job'[u].payload = actions'[Slot(u)'].payload
  BY <1>4 DEF Calm, Holders, WorksOnTheAction, Slot
<1>5. ASSUME NEW u \in Tasks, Claims(u)', pc'[u] \in Validated
      PROVE  Valid(actions[Slot(u)], job[u].who)' /\ Slot(u)' = Slot(u)
  <2>1. Claims(u) /\ job'[u] = job[u] /\ Slot(u)' = Slot(u)
    BY <1>5, <1>1 DEF Calm, Validated, Running
  <2>2. Valid(actions[Slot(u)], job[u].who)
    BY <1>5, <2>1 DEF Calm, Holders, WorksOnTheAction, Validated, Running
  <2> QED
    BY <2>1, <2>2 DEF Valid
<1>6. WorksOnTheAction'
  BY <1>4, <1>5 DEF WorksOnTheAction, Validated
<1> QED
  BY <1>2, <1>3, <1>6 DEF Holders

\* The row of s changes while nobody works for it any more.
LEMMA HoldersRelease ==
  ASSUME Holders, UNCHANGED <<executions, version>>, \A u \in Tasks : Calm(u),
         NEW s \in Slots, \A x \in Slots \ {s} : actions'[x] = actions[x],
         \A u \in Tasks : pc[u] # "idle" => Slot(u) \in Slots,
         \A u \in Tasks : Claims(u)' => Slot(u) # s,
         actions'[s].status # "absent",
         actions[s].status # "absent" => actions'[s].payload = actions[s].payload,
         actions'[s].status \in {"pending", "cancelled", "expired"} =>
           actions[s].status \in {"absent", "pending", "cancelled", "expired"}
  PROVE  Holders'
<1>1. \A u \in Tasks : Claims(u)' =>
        Claims(u) /\ Slot(u)' = Slot(u) /\ Slot(u) \in Slots \ {s}
  BY DEF Calm, Claims, ClaimedPlaces, Running, Slot
<1>2. ClaimExclusive'
  BY <1>1 DEF Holders, ClaimExclusive
<1>3. UnconfirmedNeverRuns'
  BY DEF Holders, UnconfirmedNeverRuns
<1>4. ASSUME NEW u \in Tasks, pc'[u] # "idle", job'[u].op # "execute"
      PROVE  /\ actions'[Slot(u)'].status # "absent"
             /\ job'[u].payload = actions'[Slot(u)'].payload
  <2>1. pc[u] # "idle" /\ job'[u] = job[u] /\ Slot(u)' = Slot(u) /\ Slot(u) \in Slots
    BY <1>4 DEF Calm, Slot
  <2>2. /\ actions[Slot(u)].status # "absent"
        /\ job[u].payload = actions[Slot(u)].payload
    BY <1>4, <2>1 DEF Holders, WorksOnTheAction
  <2> QED
    BY <2>1, <2>2
<1>5. ASSUME NEW u \in Tasks, Claims(u)', pc'[u] \in Validated
      PROVE  Valid(actions[Slot(u)], job[u].who)' /\ Slot(u)' = Slot(u)
  <2>1. Claims(u) /\ job'[u] = job[u] /\ Slot(u)' = Slot(u) /\ Slot(u) \in Slots \ {s}
    BY <1>5, <1>1 DEF Calm, Validated, Running
  <2>2. Valid(actions[Slot(u)], job[u].who)
    BY <1>5, <2>1 DEF Calm, Holders, WorksOnTheAction, Validated, Running
  <2> QED
    BY <2>1, <2>2 DEF Valid
<1>6. WorksOnTheAction'
  BY <1>4, <1>5 DEF WorksOnTheAction, Validated
<1> QED
  BY <1>2, <1>3, <1>6 DEF Holders

\* t takes over the action of s, for which nobody worked.
LEMMA HoldersTake ==
  ASSUME Holders, UNCHANGED <<executions, version>>, NEW t \in Tasks, OthersStay(t),
         NEW s \in Slots, \A x \in Slots \ {s} : actions'[x] = actions[x],
         \A u \in Tasks : pc[u] # "idle" => Slot(u) \in Slots,
         actions[s].status \notin {"absent", "executing"},
         actions'[s].status = "executing",
         actions'[s].payload = actions[s].payload,
         pc'[t] = "authorize", job'[t].slot = s, job'[t].payload = actions[s].payload
  PROVE  Holders'
<1>1. ASSUME NEW u \in Tasks \ {t}, Claims(u)'
      PROVE  Claims(u) /\ Slot(u)' = Slot(u) /\ Slot(u) \in Slots \ {s}
  <2>1. Claims(u) /\ Slot(u)' = Slot(u) /\ Slot(u) \in Slots
    BY <1>1 DEF OthersStay, Claims, ClaimedPlaces, Running, Slot
  <2> QED
    BY <2>1 DEF Holders, ClaimExclusive
<1>2. Slot(t)' = s
  BY DEF Slot
<1>3. ClaimExclusive'
  BY <1>1, <1>2 DEF Holders, ClaimExclusive
<1>4. UnconfirmedNeverRuns'
  BY DEF Holders, UnconfirmedNeverRuns
<1>5. ASSUME NEW u \in Tasks, pc'[u] # "idle", job'[u].op # "execute"
      PROVE  /\ actions'[Slot(u)'].status # "absent"
             /\ job'[u].payload = actions'[Slot(u)'].payload
  <2>1. CASE u = t
    BY <1>2, <2>1
  <2>2. CASE u # t
    <3>1. pc[u] # "idle" /\ job'[u] = job[u] /\ Slot(u)' = Slot(u) /\ Slot(u) \in Slots
      BY <1>5, <2>2 DEF OthersStay, Slot
    <3>2. /\ actions[Slot(u)].status # "absent"
          /\ job[u].payload = actions[Slot(u)].payload
      BY <1>5, <3>1 DEF Holders, WorksOnTheAction
    <3> QED
      BY <3>1, <3>2
  <2> QED
    BY <2>1, <2>2
<1>6. ASSUME NEW u \in Tasks, Claims(u)', pc'[u] \in Validated
      PROVE  Valid(actions[Slot(u)], job[u].who)' /\ Slot(u)' = Slot(u)
  <2>0. u # t
    BY <1>6 DEF Validated, Running
  <2>1. Claims(u) /\ Slot(u)' = Slot(u) /\ Slot(u) \in Slots \ {s}
        /\ job'[u] = job[u] /\ pc'[u] = pc[u]
    BY <1>6, <1>1, <2>0 DEF OthersStay
  <2>2. Valid(actions[Slot(u)], job[u].who)
    BY <1>6, <2>1 DEF Holders, WorksOnTheAction, Validated
  <2> QED
    BY <2>1, <2>2 DEF Valid
<1>7. WorksOnTheAction'
  BY <1>5, <1>6 DEF WorksOnTheAction, Validated
<1> QED
  BY <1>3, <1>4, <1>7 DEF Holders

LEMMA HoldersStep ==
  ASSUME TypeOK, Placed, Holders, NEW t \in Tasks, Step(t)
  PROVE  Holders'
<1> USE Movement
<1> USE DEF deployment, rows
<1>s. \A u \in Tasks : pc[u] # "idle" => Slot(u) \in Slots
  BY DEF TypeOK, Slot, Jobs
<1>e. executions \in [Slots -> ExecutionRows] /\ actions \in [Slots -> ActionRows]
  BY DEF TypeOK
<1>q. UNCHANGED executions => OwnersFit
  BY DEF OwnersFit
<1>r. ASSUME NEW r, Return(t, r), pc[t] # "idle" PROVE \A u \in Tasks : Calm(u)
  <2>1. OthersStay(t) /\ Calm(t)
    BY <1>r DEF Moves, Calm, Validated, Running
  <2> QED
    BY <2>1, OthersCalm
<1>g. ASSUME NEW place, Moves(t, place), pc[t] # "idle",
             place \in ClaimedPlaces => pc[t] \in ClaimedPlaces,
             place \in Validated /\ Claims(t) =>
               pc[t] \in Validated \/ Valid(actions[Slot(t)], job[t].who)
      PROVE  \A u \in Tasks : Calm(u)
  <2>1. OthersStay(t) /\ Calm(t)
    BY <1>g DEF Moves, Calm, Claims
  <2> QED
    BY <2>1, OthersCalm
<1>1. CASE Authorize(t)
  <2>1. \A u \in Tasks : Calm(u)
    <3>1. CASE Return(t, "refused") \/ Return(t, "denied")
      BY <1>1, <3>1, <1>r DEF Authorize
    <3>2. CASE Goto(t, Route(t)) /\ (Claims(t) => Valid(actions[Slot(t)], job[t].who))
      BY <1>1, <3>2, <1>g DEF Authorize, ClaimedPlaces
    <3> QED
      BY <1>1, <3>1, <3>2 DEF Authorize
  <2> QED
    BY <1>1, <2>1, <1>q, HoldersFrame DEF Authorize
<1>2. CASE CreateAction(t)
  <2>0. Idle(t)
    BY <1>2 DEF CreateAction
  <2>1. \A u \in Tasks : Calm(u)
    BY <2>0, OthersCalm DEF Calm
  <2>2. CASE actions[Slot(t)].status = "absent"
    <3>1. Slot(t) \in Slots
      BY <1>2, <1>s DEF CreateAction
    <3>2. actions' = [actions EXCEPT ![Slot(t)] =
            [NoAction EXCEPT !.status = "pending", !.payload = job[t].payload]]
      BY <1>2, <2>2 DEF CreateAction
    <3>3. \A x \in Slots \ {Slot(t)} : actions'[x] = actions[x]
      BY <1>e, <3>1, <3>2
    <3>4. actions'[Slot(t)].status = "pending"
      BY <1>e, <3>1, <3>2 DEF NoAction
    <3>5. \A u \in Tasks : Claims(u)' => Slot(u) # Slot(t)
      BY <2>1, <2>2 DEF Holders, ClaimExclusive, Calm, Claims, ClaimedPlaces, Running
    <3>6. UNCHANGED <<executions, version>>
      BY <1>2 DEF CreateAction
    <3> QED
      BY <1>s, <2>1, <2>2, <3>1, <3>3, <3>4, <3>5, <3>6, HoldersRelease
  <2>3. CASE actions[Slot(t)].status # "absent"
    BY <1>2, <2>1, <2>3, <1>q, HoldersFrame DEF CreateAction
  <2> QED
    BY <2>2, <2>3
<1>3. CASE Reserve(t)
  <2>0. pc[t] = "reserve" /\ UNCHANGED <<actions, version>> /\ Slot(t) \in Slots
    BY <1>3, <1>s DEF Reserve
  <2>1. \A u \in Tasks : Calm(u)
    <3>1. CASE Goto(t, "start")
      BY <2>0, <3>1, <1>g DEF Validated, ClaimedPlaces
    <3>2. CASE Return(t, "key_conflict") \/ Return(t, executions[Slot(t)].result)
      BY <2>0, <3>2, <1>r
    <3> QED
      BY <1>3, <3>1, <3>2 DEF Reserve
  <2>2. OwnersFit
    <3>1. CASE executions' = [executions EXCEPT ![Slot(t)] =
               [status |-> "executing", payload |-> job[t].payload, result |-> "none",
                owner |-> IF Claims(t) THEN "action" ELSE "direct"]]
      <4>1. /\ \A x \in Slots \ {Slot(t)} : executions'[x] = executions[x]
            /\ executions'[Slot(t)].owner = (IF Claims(t) THEN "action" ELSE "direct")
        BY <1>e, <2>0, <3>1
      <4> QED
        BY <4>1 DEF OwnersFit, Holders, ClaimExclusive
    <3>2. CASE UNCHANGED executions
      BY <1>q, <3>2
    <3> QED
      BY <1>3, <3>1, <3>2 DEF Reserve
  <2> QED
    BY <2>0, <2>1, <2>2, HoldersFrame
<1>4. CASE AnswerInProgress(t)
  BY <1>4, <1>r, <1>q, HoldersFrame DEF AnswerInProgress
<1>5. CASE Reopen(t)
  <2>1. \A u \in Tasks : Calm(u)
    <3>1. CASE Goto(t, "start")
      BY <1>5, <3>1, <1>g DEF Reopen, Validated, ClaimedPlaces
    <3>2. CASE Return(t, "retry_conflict")
      BY <1>5, <3>2, <1>r DEF Reopen
    <3> QED
      BY <1>5, <3>1, <3>2 DEF Reopen
  <2>2. OwnersFit
    BY <1>5, <1>e, <1>s DEF Reopen, OwnersFit, ExecutionRows
  <2> QED
    BY <1>5, <2>1, <2>2, HoldersFrame DEF Reopen
<1>6. CASE Start(t)
  BY <1>6, <1>g, <1>q, HoldersFrame DEF Start, Validated, ClaimedPlaces, Running
<1>7. ASSUME NEW o \in LocalOutcomes, HandlerEndsLocally(t, o) PROVE Holders'
  BY <1>7, <1>g, <1>q, HoldersFrame
  DEF HandlerEndsLocally, AfterHandler, Validated, ClaimedPlaces, Running
<1>8. ASSUME NEW n \in 1 .. MaxCalls, Send(t, n) PROVE Holders'
  <2>1. Moves(t, "await") /\ pc[t] = "handler"
    BY <1>8 DEF Send, TypeOK, Moves, OthersStay
  <2>2. \A u \in Tasks : Calm(u)
    BY <2>1, <1>g DEF Validated, ClaimedPlaces, Running
  <2> QED
    BY <1>8, <2>2, <1>q, HoldersFrame DEF Send
<1>9. ASSUME NEW o \in HandlerOutcomes, Reply(t, o) PROVE Holders'
  BY <1>9, <1>g, <1>q, HoldersFrame
  DEF Reply, AfterHandler, Validated, ClaimedPlaces, Running
<1>10. CASE FinishExecution(t)
  <2>1. \A u \in Tasks : Calm(u)
    <3>1. CASE Goto(t, "audit")
      BY <1>10, <3>1, <1>g DEF FinishExecution, Validated, ClaimedPlaces, Running
    <3>2. CASE Return(t, "not_run")
      BY <1>10, <3>2, <1>r DEF FinishExecution
    <3> QED
      BY <1>10, <3>1, <3>2 DEF FinishExecution, Raise
  <2>2. OwnersFit
    BY <1>10, <1>e, <1>s DEF FinishExecution, OwnersFit, ExecutionRows
  <2> QED
    BY <1>10, <2>1, <2>2, HoldersFrame DEF FinishExecution
<1>11. CASE AuditFinished(t)
  BY <1>11, <1>r, <1>q, HoldersFrame DEF AuditFinished
<1>12. CASE Settle(t)
  <2>0. Idle(t) /\ pc[t] = "settle" /\ Slot(t) \in Slots /\ UNCHANGED <<executions, version>>
    BY <1>12, <1>s DEF Settle
  <2>1. \A u \in Tasks : Calm(u)
    BY <2>0, OthersCalm DEF Calm
  <2>2. CASE actions' = [actions EXCEPT
               ![Slot(t)].status = ActionStatusFor(IsWrite(Spec_(t)), out[t]),
               ![Slot(t)].result = out[t]]
    <3>1. \A x \in Slots \ {Slot(t)} : actions'[x] = actions[x]
      BY <1>e, <2>0, <2>2
    <3>2. /\ actions'[Slot(t)].status = ActionStatusFor(IsWrite(Spec_(t)), out[t])
          /\ actions'[Slot(t)].payload = actions[Slot(t)].payload
      BY <1>e, <2>0, <2>2 DEF ActionRows
    <3>3. ActionStatusFor(IsWrite(Spec_(t)), out[t]) \in {"succeeded", "failed", "unknown"}
      BY StatusTypes DEF TypeOK, IsWrite
    <3>4. Claims(t)
      BY <2>0 DEF Claims, ClaimedPlaces, Placed, PlaceFits
    <3>5. \A u \in Tasks : Claims(u)' => Slot(u) # Slot(t)
      BY <2>0, <2>1, <3>4
      DEF Holders, ClaimExclusive, Calm, Claims, ClaimedPlaces, Running
    <3> QED
      BY <1>s, <2>0, <2>1, <3>1, <3>2, <3>3, <3>5, HoldersRelease
  <2>3. CASE actions' = actions
    BY <2>0, <2>1, <2>3, <1>q, HoldersFrame
  <2> QED
    BY <1>12, <2>2, <2>3 DEF Settle
<1>13. CASE Check(t)
  BY <1>13, <1>g, <1>q, HoldersFrame, OthersCalm
  DEF Check, AfterReconcile, Validated, ClaimedPlaces, Running, Calm
<1>14. ASSUME NEW a \in ReconcileAnswers, Query(t, a) PROVE Holders'
  BY <1>14, <1>g, <1>q, HoldersFrame, OthersCalm
  DEF Query, AfterReconcile, Validated, ClaimedPlaces, Running, Calm
<1>15. CASE ResolveAction(t)
  <2>0. /\ Moves(t, "resolve_execution") /\ pc[t] = "resolve_action" /\ Slot(t) \in Slots
        /\ UNCHANGED <<executions, version>>
    BY <1>15, <1>s DEF ResolveAction
  <2>1. \A u \in Tasks : Calm(u)
    BY <2>0, <1>g DEF Validated, ClaimedPlaces, Running
  <2>2. CASE actions[Slot(t)].status = "unknown"
    <3>0. actions' = [actions EXCEPT
               ![Slot(t)].status = Verdict(out[t]), ![Slot(t)].result = out[t]]
      BY <1>15, <2>2 DEF ResolveAction
    <3>1. \A x \in Slots \ {Slot(t)} : actions'[x] = actions[x]
      BY <1>e, <2>0, <3>0
    <3>2. /\ actions'[Slot(t)].status = Verdict(out[t])
          /\ actions'[Slot(t)].payload = actions[Slot(t)].payload
      BY <1>e, <2>0, <3>0 DEF ActionRows
    <3>3. Verdict(out[t]) \in {"succeeded", "failed"}
      BY DEF Verdict
    <3>5. \A u \in Tasks : Claims(u)' => Slot(u) # Slot(t)
      BY <2>1, <2>2 DEF Holders, ClaimExclusive, Calm, Claims, ClaimedPlaces, Running
    <3> QED
      BY <1>s, <2>0, <2>1, <3>1, <3>2, <3>3, <3>5, HoldersRelease
  <2>3. CASE actions[Slot(t)].status # "unknown"
    BY <1>15, <2>0, <2>1, <2>3, <1>q, HoldersFrame DEF ResolveAction
  <2> QED
    BY <2>2, <2>3
<1>16. CASE ResolveExecution(t)
  <2>1. \A u \in Tasks : Calm(u)
    BY <1>16, <1>g, OthersCalm
    DEF ResolveExecution, Validated, ClaimedPlaces, Running, Calm
  <2>2. OwnersFit
    BY <1>16, <1>e, <1>s DEF ResolveExecution, OwnersFit, ExecutionRows
  <2> QED
    BY <1>16, <2>1, <2>2, HoldersFrame DEF ResolveExecution
<1>17. CASE Reclaim(t)
  <2>0. pc[t] = "reclaim" /\ Slot(t) \in Slots /\ UNCHANGED <<executions, version>>
    BY <1>17, <1>s DEF Reclaim
  <2>1. CASE Goto(t, "authorize")
    <3>0. actions' = [actions EXCEPT ![Slot(t)].status = "executing"]
          /\ actions[Slot(t)].status = "unknown"
      BY <1>17, <2>1, Movement DEF Reclaim, Moves
    <3>1. \A x \in Slots \ {Slot(t)} : actions'[x] = actions[x]
      BY <1>e, <2>0, <3>0
    <3>2. /\ actions'[Slot(t)].status = "executing"
          /\ actions'[Slot(t)].payload = actions[Slot(t)].payload
      BY <1>e, <2>0, <3>0 DEF ActionRows
    <3>3. job[t].op = "retry"
      BY <2>0 DEF Placed, PlaceFits
    <3>4. job[t].payload = actions[Slot(t)].payload
      BY <2>0, <3>3 DEF Holders, WorksOnTheAction
    <3>5. /\ OthersStay(t) /\ pc'[t] = "authorize"
          /\ job'[t].slot = Slot(t) /\ job'[t].payload = actions[Slot(t)].payload
      BY <2>1, <3>4 DEF Moves, Slot
    <3> QED
      BY <1>s, <2>0, <3>0, <3>1, <3>2, <3>5, HoldersTake
  <2>2. CASE Idle(t) /\ UNCHANGED actions
    BY <2>0, <2>2, <1>q, HoldersFrame, OthersCalm DEF Calm
  <2> QED
    BY <1>17, <2>1, <2>2 DEF Reclaim
<1> QED
  BY <1>1, <1>2, <1>3, <1>4, <1>5, <1>6, <1>7, <1>8, <1>9, <1>10, <1>11, <1>12,
     <1>13, <1>14, <1>15, <1>16, <1>17 DEF Step

\* A new request claims nothing, and names an action that exists.
LEMMA HoldersBegin ==
  ASSUME Holders, UNCHANGED <<actions, executions, version>>, NEW t \in Tasks, OthersStay(t),
         \/ job'[t].op = "execute"
         \/ /\ pc'[t] \notin ClaimedPlaces
            /\ actions[job'[t].slot].status # "absent"
            /\ job'[t].payload = actions[job'[t].slot].payload
  PROVE  Holders'
<1>1. ASSUME NEW u \in Tasks, Claims(u)'
      PROVE  /\ u # t /\ Claims(u) /\ Slot(u)' = Slot(u)
             /\ job'[u] = job[u] /\ pc'[u] = pc[u]
  BY <1>1 DEF OthersStay, Claims, Slot
<1>2. ClaimExclusive'
  BY <1>1 DEF Holders, ClaimExclusive
<1>3. UnconfirmedNeverRuns'
  BY DEF Holders, UnconfirmedNeverRuns
<1>4. ASSUME NEW u \in Tasks, pc'[u] # "idle", job'[u].op # "execute"
      PROVE  /\ actions'[Slot(u)'].status # "absent"
             /\ job'[u].payload = actions'[Slot(u)'].payload
  <2>1. CASE u = t
    BY <1>4, <2>1 DEF Slot
  <2>2. CASE u # t
    BY <1>4, <2>2 DEF OthersStay, Slot, Holders, WorksOnTheAction
  <2> QED
    BY <2>1, <2>2
<1>5. ASSUME NEW u \in Tasks, Claims(u)', pc'[u] \in Validated
      PROVE  Valid(actions[Slot(u)], job[u].who)'
  <2>1. Valid(actions[Slot(u)], job[u].who)
    BY <1>1, <1>5 DEF Holders, WorksOnTheAction, Validated
  <2> QED
    BY <1>1, <1>5, <2>1 DEF Valid
<1>6. WorksOnTheAction'
  BY <1>4, <1>5 DEF WorksOnTheAction, Validated
<1> QED
  BY <1>2, <1>3, <1>6 DEF Holders

LEMMA HoldersOther ==
  ASSUME TypeOK, Placed, Holders, OtherMoves
  PROVE  Holders'
<1> USE Movement
<1> USE DEF deployment, rows
<1>s. \A u \in Tasks : pc[u] # "idle" => Slot(u) \in Slots
  BY DEF TypeOK, Slot, Jobs
<1>e. actions \in [Slots -> ActionRows]
  BY DEF TypeOK
<1>q. UNCHANGED executions => OwnersFit
  BY DEF OwnersFit
<1>1. ASSUME NEW t \in Tasks, NEW s \in Slots, NEW p \in Principals, NEW a \in Args,
             Execute(t, s, p, a)
      PROVE  Holders'
  BY <1>1, HoldersBegin DEF Execute
<1>2. ASSUME NEW t \in Tasks, NEW s \in Slots, NEW p \in Principals, Confirm(t, s, p)
      PROVE  Holders'
  <2>1. /\ OthersStay(t) /\ pc'[t] = "authorize" /\ job'[t].slot = s
        /\ job'[t].payload = actions[s].payload
        /\ UNCHANGED <<executions, version>> /\ actions[s].status = "pending"
    BY <1>2 DEF Confirm, Claimable
  <2>2. actions' = [actions EXCEPT ![s].status = "executing", ![s].confirmedBy = p]
    BY <1>2 DEF Confirm
  <2>3. \A x \in Slots \ {s} : actions'[x] = actions[x]
    BY <1>e, <2>2
  <2>4. actions'[s].status = "executing" /\ actions'[s].payload = actions[s].payload
    BY <1>e, <2>2 DEF ActionRows
  <2> QED
    BY <1>s, <2>1, <2>3, <2>4, HoldersTake
<1>3. ASSUME NEW t \in Tasks, NEW s \in Slots, NEW p \in Principals,
             Reconcile(t, s, p) \/ RetryUnknown(t, s, p)
      PROVE  Holders'
  <2>1. CASE Reconcile(t, s, p)
    BY <2>1, HoldersBegin DEF Reconcile, VisibleUnknown, ClaimedPlaces, Running
  <2>2. CASE RetryUnknown(t, s, p)
    BY <2>2, HoldersBegin DEF RetryUnknown, VisibleUnknown, ClaimedPlaces, Running
  <2> QED
    BY <1>3, <2>1, <2>2
<1>4. ASSUME NEW t \in Tasks, Fails(t) \/ CancelTask(t) PROVE Holders'
  <2>1. OthersStay(t) /\ Calm(t)
    <3>1. CASE Return(t, "not_run") /\ pc[t] # "idle"
      BY <3>1 DEF Moves, Calm, Validated, Running
    <3>2. CASE Idle(t)
      BY <3>2 DEF Calm
    <3> QED
      BY <1>4, <3>1, <3>2 DEF Fails, Raise, CanRaise, CancelTask
  <2> QED
    BY <1>4, <1>q, <2>1, OthersCalm, HoldersFrame DEF Fails, CancelTask
<1>5. ASSUME NEW s \in Slots, ActionMoves(s) PROVE Holders'
  <2>0. actions[s].status = "pending" /\ UNCHANGED <<executions, pc, job, version>>
    BY <1>5 DEF ActionMoves, ConfirmTooLate, TimePasses, Cancel, Claimable, tasks
  <2>1. \A u \in Tasks : Calm(u)
    BY <2>0 DEF Calm, Claims
  <2>2. /\ \A x \in Slots \ {s} : actions'[x] = actions[x]
        /\ actions'[s].status \in {"pending", "expired", "cancelled"}
        /\ actions'[s].payload = actions[s].payload
    <3>1. CASE ConfirmTooLate(s)
      BY <1>e, <3>1 DEF ConfirmTooLate, ActionRows
    <3>2. CASE TimePasses(s)
      BY <1>e, <2>0, <3>2 DEF TimePasses, ActionRows
    <3>3. CASE \E p \in Principals : Cancel(s, p)
      BY <1>e, <3>3 DEF Cancel, ActionRows
    <3> QED
      BY <1>5, <3>1, <3>2, <3>3 DEF ActionMoves
  <2>5. \A u \in Tasks : Claims(u)' => Slot(u) # s
    BY <2>0 DEF Holders, ClaimExclusive, Claims
  <2> QED
    BY <1>s, <2>0, <2>1, <2>2, <2>5, HoldersRelease
<1>6. ASSUME NEW s \in Slots, ProviderMoves(s) PROVE Holders'
  <2>1. UNCHANGED <<actions, executions, pc, job, version>>
    BY <1>6 DEF ProviderMoves, ProviderApplies, ProviderRefuses, tasks
  <2>2. \A u \in Tasks : Calm(u)
    BY <2>1 DEF Calm, Claims
  <2> QED
    BY <1>q, <2>1, <2>2, HoldersFrame
<1>7. ASSUME Restart PROVE Holders'
  <2>1. \A u \in Tasks : pc'[u] = "idle"
    BY <1>7 DEF Restart
  <2> QED
    BY <1>7, <2>1
    DEF Restart, Holders, ClaimExclusive, UnconfirmedNeverRuns, WorksOnTheAction, Claims,
        ClaimedPlaces, Running
<1> QED
  BY <1>1, <1>2, <1>3, <1>4, <1>5, <1>6, <1>7 DEF OtherMoves, Request

-----------------------------------------------------------------------------
(* Truth: a success recorded has what it takes behind it.                  *)

\* Nothing ungrounded is written or taken along.
HonestOut(t) ==
  /\ out'[t] \in Successes =>
       /\ pc'[t] # "idle" /\ pc[t] # "idle" /\ job'[t] = job[t]
       /\ Grounded(Slot(t), out'[t])
  /\ pc'[t] = "query" => pc[t] # "idle" /\ job'[t] = job[t] /\ Reconciles(Spec_(t))

HonestRows ==
  \A s \in Slots : TrueAction(s, actions'[s]) /\ TrueExecution(s, executions'[s])

Keeps == UNCHANGED catalog /\ \A s \in Slots : \A r : Grounded(s, r) => Grounded(s, r)'

LEMMA TruthFrame ==
  ASSUME TypeOK, Truth, NEW t \in Tasks, OthersStay(t), HonestOut(t), HonestRows, Keeps
  PROVE  Truth'
<1>1. \A u \in Tasks : pc[u] # "idle" => Slot(u) \in Slots
  BY DEF TypeOK, Slot, Jobs
<1>2. ASSUME NEW u \in Tasks, out'[u] \in Successes
      PROVE  pc'[u] # "idle" /\ Grounded(Slot(u), out[u])'
  <2>1. /\ pc'[u] # "idle" /\ pc[u] # "idle" /\ job'[u] = job[u]
        /\ Grounded(Slot(u), out'[u])
    <3>1. CASE u = t
      BY <1>2, <3>1 DEF HonestOut
    <3>2. CASE u # t
      BY <1>2, <3>2 DEF OthersStay, Truth, CarriesTruth
    <3> QED
      BY <3>1, <3>2
  <2>2. Slot(u)' = Slot(u) /\ Slot(u) \in Slots
    BY <1>1, <2>1 DEF Slot
  <2>3. Grounded(Slot(u), out[u])'
    BY <2>1, <2>2 DEF Keeps
  <2> QED
    BY <2>1, <2>3
<1>3. CarriesTruth'
  BY <1>2 DEF CarriesTruth, Successes
<1>4. TrueRecords'
  BY DEF HonestRows, TrueRecords, TrueAction, TrueExecution, Keeps
<1>5. ASSUME NEW u \in Tasks, pc'[u] = "query"
      PROVE  Reconciles(Spec_(u))'
  <2>1. pc[u] # "idle" /\ job'[u] = job[u] /\ Reconciles(Spec_(u))
    <3>1. CASE u = t
      BY <1>5, <3>1 DEF HonestOut
    <3>2. CASE u # t
      BY <1>5, <3>2 DEF OthersStay, Truth, AsksWhereItMay
    <3> QED
      BY <3>1, <3>2
  <2>2. Slot(u)' = Slot(u) /\ catalog' = catalog
    BY <2>1 DEF Slot, Keeps
  <2> QED
    BY <2>1, <2>2 DEF Spec_, Reconciles
<1> QED
  BY <1>3, <1>4, <1>5 DEF Truth, AsksWhereItMay

LEMMA TruthStep ==
  ASSUME TypeOK, Truth, NEW t \in Tasks, Step(t)
  PROVE  Truth'
<1> USE Movement
<1> USE DEF deployment, rows
<1>s. pc[t] # "idle" => Slot(t) \in Slots
  BY DEF TypeOK, Slot, Jobs
<1>e. executions \in [Slots -> ExecutionRows] /\ actions \in [Slots -> ActionRows]
  BY DEF TypeOK
<1>c. out[t] \in Successes => pc[t] # "idle" /\ Grounded(Slot(t), out[t])
  BY DEF Truth, CarriesTruth
<1>o. ASSUME NEW s \in Slots, NEW r, r \notin Successes
      PROVE  Grounded(s, r)
  BY <1>o DEF Grounded, Successes
<1>k. UNCHANGED <<calls, catalog>> => Keeps
  BY DEF Keeps, Grounded, Applied
<1>h. UNCHANGED <<actions, executions>> => HonestRows
  BY DEF HonestRows, Truth, TrueRecords
<1>n. ASSUME UNCHANGED executions, NEW s \in Slots,
             \A x \in Slots \ {s} : actions'[x] = actions[x], TrueAction(s, actions'[s])
      PROVE  HonestRows
  BY <1>n DEF HonestRows, Truth, TrueRecords
<1>x. ASSUME UNCHANGED actions, NEW s \in Slots,
             \A x \in Slots \ {s} : executions'[x] = executions[x],
             TrueExecution(s, executions'[s])
      PROVE  HonestRows
  BY <1>x DEF HonestRows, Truth, TrueRecords
<1>r. ASSUME NEW r, Return(t, r), pc[t] # "idle", r \in Successes => Grounded(Slot(t), r)
      PROVE  OthersStay(t) /\ HonestOut(t)
  BY <1>r DEF Moves, HonestOut, Successes
<1>g. ASSUME NEW place, place \notin {"idle", "query"}, Goto(t, place), pc[t] # "idle"
      PROVE  OthersStay(t) /\ HonestOut(t)
  BY <1>g, <1>c DEF Moves, HonestOut
<1>i. ASSUME Idle(t)
      PROVE  OthersStay(t) /\ HonestOut(t)
  BY <1>i DEF HonestOut, Successes
<1>y. ASSUME NEW place, place \notin {"idle", "query"}, NEW r, Carry(t, place, r),
             pc[t] # "idle", r \in Successes => Grounded(Slot(t), r)
      PROVE  OthersStay(t) /\ HonestOut(t)
  BY <1>y DEF Moves, HonestOut
<1>1. CASE Authorize(t)
  <2>1. Route(t) \notin {"idle", "query"}
    BY DEF Route
  <2>2. OthersStay(t) /\ HonestOut(t)
    BY <1>1, <2>1, <1>r, <1>g DEF Authorize, Successes
  <2> QED
    BY <1>1, <2>2, <1>h, <1>k, TruthFrame DEF Authorize
<1>2. CASE CreateAction(t)
  <2>0. pc[t] = "create" /\ Slot(t) \in Slots /\ UNCHANGED <<executions, calls, catalog>>
    BY <1>2, <1>s DEF CreateAction
  <2>1. TrueAction(Slot(t), actions[Slot(t)])
    BY <2>0 DEF Truth, TrueRecords
  <2>2. HonestRows
    <3>1. CASE actions[Slot(t)].status = "absent"
      <4>1. /\ actions'[Slot(t)].status = "pending" /\ actions'[Slot(t)].result = "none"
            /\ \A x \in Slots \ {Slot(t)} : actions'[x] = actions[x]
        BY <1>2, <1>e, <2>0, <3>1 DEF CreateAction, NoAction
      <4>2. TrueAction(Slot(t), actions'[Slot(t)])
        BY <4>1, <2>0 DEF TrueAction, Grounded
      <4> QED
        BY <4>1, <4>2, <2>0, <1>n
    <3>2. CASE actions[Slot(t)].status # "absent"
      BY <1>2, <1>h, <2>0, <3>2 DEF CreateAction
    <3> QED
      BY <3>1, <3>2
  <2>3. Idle(t)
    BY <1>2 DEF CreateAction
  <2> QED
    BY <2>0, <2>2, <2>3, <1>i, <1>k, TruthFrame
<1>3. CASE Reserve(t)
  <2>0. pc[t] = "reserve" /\ Slot(t) \in Slots /\ UNCHANGED <<actions, calls, catalog>>
    BY <1>3, <1>s DEF Reserve
  <2>1. CASE Goto(t, "start") /\ UNCHANGED executions
    BY <2>0, <2>1, <1>g, <1>h, <1>k, TruthFrame
  <2>2. CASE Goto(t, "start") /\ executions' = [executions EXCEPT ![Slot(t)] =
               [status |-> "executing", payload |-> job[t].payload, result |-> "none",
                owner |-> IF Claims(t) THEN "action" ELSE "direct"]]
    <3>1. /\ executions'[Slot(t)].status = "executing" /\ executions'[Slot(t)].result = "none"
          /\ \A x \in Slots \ {Slot(t)} : executions'[x] = executions[x]
      BY <1>e, <2>0, <2>2
    <3>2. TrueExecution(Slot(t), executions'[Slot(t)])
      BY <3>1, <2>0 DEF TrueExecution, Grounded
    <3>3. HonestRows
      BY <2>0, <3>1, <3>2, <1>x
    <3> QED
      BY <2>0, <2>2, <3>3, <1>g, <1>k, TruthFrame
  <2>3. CASE Return(t, "key_conflict") /\ UNCHANGED executions
    BY <2>0, <2>3, <1>k, <1>h, <1>r, TruthFrame DEF Successes
  <2>4. CASE Return(t, executions[Slot(t)].result) /\ UNCHANGED executions
    <3>1. Grounded(Slot(t), executions[Slot(t)].result)
      BY <2>0 DEF Truth, TrueRecords, TrueExecution
    <3> QED
      BY <2>0, <2>4, <3>1, <1>k, <1>h, <1>r, TruthFrame
  <2> QED
    BY <1>3, <2>1, <2>2, <2>3, <2>4 DEF Reserve
<1>4. CASE AnswerInProgress(t)
  BY <1>4, <1>k, <1>h, <1>r, TruthFrame DEF AnswerInProgress, Successes
<1>5. CASE Reopen(t)
  <2>0. pc[t] = "reserve" /\ Slot(t) \in Slots /\ UNCHANGED <<actions, calls, catalog>>
    BY <1>5, <1>s DEF Reopen
  <2>1. CASE Goto(t, "start") /\ executions' = [executions EXCEPT ![Slot(t)].status = "executing"]
    <3>1. /\ executions'[Slot(t)].status = "executing"
          /\ executions'[Slot(t)].result = executions[Slot(t)].result
          /\ \A x \in Slots \ {Slot(t)} : executions'[x] = executions[x]
      BY <1>e, <2>0, <2>1 DEF ExecutionRows
    <3>2. TrueExecution(Slot(t), executions'[Slot(t)])
      BY <3>1, <2>0 DEF TrueExecution, Truth, TrueRecords
    <3>3. HonestRows
      BY <2>0, <3>1, <3>2, <1>x
    <3> QED
      BY <2>0, <2>1, <3>3, <1>g, <1>k, TruthFrame
  <2>2. CASE Return(t, "retry_conflict") /\ UNCHANGED executions
    BY <2>0, <2>2, <1>k, <1>h, <1>r, TruthFrame DEF Successes
  <2> QED
    BY <1>5, <2>1, <2>2 DEF Reopen
<1>6. CASE Start(t)
  BY <1>6, <1>k, <1>h, <1>g, TruthFrame DEF Start
<1>7. ASSUME NEW o \in LocalOutcomes, HandlerEndsLocally(t, o) PROVE Truth'
  <2>1. o \notin Successes
    BY KernelAssumption DEF Successes
  <2>2. AfterHandler(t) \notin {"idle", "query"}
    BY DEF AfterHandler
  <2> QED
    BY <1>7, <2>1, <2>2, <1>k, <1>h, <1>y, TruthFrame DEF HandlerEndsLocally
<1>8. ASSUME NEW n \in 1 .. MaxCalls, Send(t, n) PROVE Truth'
  <2>1. /\ OthersStay(t) /\ pc'[t] = "await" /\ pc[t] # "idle" /\ job' = job /\ out' = out
        /\ UNCHANGED <<actions, executions, catalog>>
    BY <1>8 DEF Send, TypeOK, OthersStay
  <2>2. HonestOut(t)
    BY <2>1, <1>c DEF HonestOut
  <2>3. ASSUME NEW s \in Slots PROVE Applied(s) \subseteq Applied(s)'
    BY <1>8, <1>s DEF Send, Unsent, Applied, TypeOK
  <2>4. Keeps
    BY <2>1, <2>3 DEF Keeps, Grounded
  <2> QED
    BY <2>1, <2>2, <2>4, <1>h, TruthFrame
<1>9. ASSUME NEW o \in HandlerOutcomes, Reply(t, o) PROVE Truth'
  <2>1. call[t] \in 1 .. MaxCalls
    BY <1>9 DEF Reply, TypeOK
  <2>2. o # "found" /\ (o = "success" => calls[Slot(t)][call[t]] = "applied")
    BY <1>9 DEF Reply, Replies, Uncertain, Vague
  <2>3. Grounded(Slot(t), o)
    BY <2>1, <2>2 DEF Grounded, Applied
  <2>4. AfterHandler(t) \notin {"idle", "query"}
    BY DEF AfterHandler
  <2> QED
    BY <1>9, <2>3, <2>4, <1>k, <1>h, <1>y, TruthFrame DEF Reply
<1>10. CASE FinishExecution(t)
  <2>0. pc[t] = "finish" /\ Slot(t) \in Slots /\ UNCHANGED <<actions, calls, catalog>>
    BY <1>10, <1>s DEF FinishExecution
  <2>1. CASE Goto(t, "audit") /\ executions' = [executions EXCEPT
               ![Slot(t)].status = ExecutionStatusFor(out[t]), ![Slot(t)].result = out[t]]
    <3>1. /\ executions'[Slot(t)].status = ExecutionStatusFor(out[t])
          /\ executions'[Slot(t)].result = out[t]
          /\ \A x \in Slots \ {Slot(t)} : executions'[x] = executions[x]
      BY <1>e, <2>0, <2>1 DEF ExecutionRows
    <3>2. ExecutionStatusFor(out[t]) = "succeeded" => out[t] \in Successes \cup {"clarify"}
      BY DEF ExecutionStatusFor, Successes
    <3>3. Grounded(Slot(t), out[t])
      BY <1>c, <1>o, <2>0
    <3>4. TrueExecution(Slot(t), executions'[Slot(t)])
      BY <3>1, <3>2, <3>3 DEF TrueExecution
    <3>5. HonestRows
      BY <2>0, <3>1, <3>4, <1>x
    <3> QED
      BY <2>0, <2>1, <3>5, <1>g, <1>k, TruthFrame
  <2>2. CASE Return(t, "not_run") /\ UNCHANGED executions
    BY <2>0, <2>2, <1>k, <1>h, <1>r, TruthFrame DEF Successes
  <2> QED
    BY <1>10, <2>1, <2>2 DEF FinishExecution, Raise
<1>11. CASE AuditFinished(t)
  BY <1>11, <1>c, <1>k, <1>h, <1>r, TruthFrame DEF AuditFinished
<1>12. CASE Settle(t)
  <2>0. /\ pc[t] = "settle" /\ Slot(t) \in Slots /\ UNCHANGED <<executions, calls, catalog>>
        /\ Idle(t)
    BY <1>12, <1>s DEF Settle
  <2>1. HonestRows
    <3>1. CASE actions[Slot(t)].status # "executing"
      BY <1>12, <1>h, <2>0, <3>1 DEF Settle
    <3>2. CASE actions[Slot(t)].status = "executing"
      <4>1. /\ actions'[Slot(t)].status = ActionStatusFor(IsWrite(Spec_(t)), out[t])
            /\ actions'[Slot(t)].result = out[t]
            /\ \A x \in Slots \ {Slot(t)} : actions'[x] = actions[x]
        BY <1>12, <1>e, <2>0, <3>2 DEF Settle, ActionRows
      <4>2. ActionStatusFor(IsWrite(Spec_(t)), out[t]) = "succeeded" => out[t] \in Successes
        BY DEF ActionStatusFor, Successes
      <4>3. Grounded(Slot(t), out[t])
        BY <1>c, <1>o, <2>0
      <4>4. TrueAction(Slot(t), actions'[Slot(t)])
        BY <4>1, <4>2, <4>3 DEF TrueAction
      <4> QED
        BY <2>0, <4>1, <4>4, <1>n
    <3> QED
      BY <3>1, <3>2
  <2> QED
    BY <2>0, <2>1, <1>i, <1>k, TruthFrame
<1>13. CASE Check(t)
  <2>0. pc[t] = "check" /\ UNCHANGED <<actions, executions, calls, catalog>>
    BY <1>13 DEF Check
  <2>1. CASE Reconcilable(Slot(t), job[t].who) /\ Goto(t, "query")
    <3>1. OthersStay(t) /\ HonestOut(t)
      BY <2>0, <2>1, <1>c DEF Moves, HonestOut, Reconcilable, Spec_
    <3> QED
      BY <2>0, <3>1, <1>h, <1>k, TruthFrame
  <2>2. CASE AfterReconcile(t)
    BY <2>0, <2>2, <1>g, <1>i, <1>h, <1>k, TruthFrame DEF AfterReconcile
  <2> QED
    BY <1>13, <2>1, <2>2 DEF Check
<1>14. ASSUME NEW a \in ReconcileAnswers, Query(t, a) PROVE Truth'
  <2>0. pc[t] = "query" /\ UNCHANGED <<actions, executions, calls, catalog>>
    BY <1>14 DEF Query
  <2>1. Grounded(Slot(t), "found") /\ Grounded(Slot(t), "absent")
    BY <2>0 DEF Grounded, Truth, AsksWhereItMay, Spec_
  <2>2. CASE a \in {"found", "absent"} /\ Carry(t, "resolve_action", a)
    BY <2>0, <2>1, <2>2, <1>y, <1>h, <1>k, TruthFrame
  <2>3. CASE AfterReconcile(t)
    BY <2>0, <2>3, <1>g, <1>i, <1>h, <1>k, TruthFrame DEF AfterReconcile
  <2> QED
    BY <1>14, <2>2, <2>3 DEF Query
<1>15. CASE ResolveAction(t)
  <2>0. /\ pc[t] = "resolve_action" /\ Slot(t) \in Slots
        /\ UNCHANGED <<executions, calls, catalog>> /\ Goto(t, "resolve_execution")
    BY <1>15, <1>s DEF ResolveAction
  <2>1. HonestRows
    <3>1. CASE actions[Slot(t)].status # "unknown"
      BY <1>15, <1>h, <2>0, <3>1 DEF ResolveAction
    <3>2. CASE actions[Slot(t)].status = "unknown"
      <4>1. /\ actions'[Slot(t)].status = Verdict(out[t])
            /\ actions'[Slot(t)].result = out[t]
            /\ \A x \in Slots \ {Slot(t)} : actions'[x] = actions[x]
        BY <1>15, <1>e, <2>0, <3>2 DEF ResolveAction, ActionRows
      <4>2. Verdict(out[t]) = "succeeded" => out[t] \in Successes
        BY DEF Verdict, Successes
      <4>3. Grounded(Slot(t), out[t])
        BY <1>c, <1>o, <2>0
      <4>4. TrueAction(Slot(t), actions'[Slot(t)])
        BY <4>1, <4>2, <4>3 DEF TrueAction
      <4> QED
        BY <2>0, <4>1, <4>4, <1>n
    <3> QED
      BY <3>1, <3>2
  <2> QED
    BY <2>0, <2>1, <1>g, <1>k, TruthFrame
<1>16. CASE ResolveExecution(t)
  <2>0. pc[t] = "resolve_execution" /\ Slot(t) \in Slots /\ UNCHANGED <<actions, calls, catalog>>
    BY <1>16, <1>s DEF ResolveExecution
  <2>1. HonestRows
    <3>1. CASE ~CanReopen(executions[Slot(t)])
      BY <1>16, <1>h, <2>0, <3>1 DEF ResolveExecution
    <3>2. CASE CanReopen(executions[Slot(t)])
      <4>1. /\ executions'[Slot(t)].status = Verdict(out[t])
            /\ executions'[Slot(t)].result = out[t]
            /\ \A x \in Slots \ {Slot(t)} : executions'[x] = executions[x]
        BY <1>16, <1>e, <2>0, <3>2 DEF ResolveExecution, ExecutionRows
      <4>2. Verdict(out[t]) = "succeeded" => out[t] \in Successes
        BY DEF Verdict, Successes
      <4>3. Grounded(Slot(t), out[t])
        BY <1>c, <1>o, <2>0
      <4>4. TrueExecution(Slot(t), executions'[Slot(t)])
        BY <4>1, <4>2, <4>3 DEF TrueExecution
      <4> QED
        BY <2>0, <4>1, <4>4, <1>x
    <3> QED
      BY <3>1, <3>2
  <2>2. CASE Carry(t, "reclaim", "none")
    BY <2>0, <2>1, <2>2, <1>y, <1>k, TruthFrame DEF Successes
  <2>3. CASE Idle(t)
    BY <2>0, <2>1, <2>3, <1>i, <1>k, TruthFrame
  <2> QED
    BY <1>16, <2>2, <2>3 DEF ResolveExecution
<1>17. CASE Reclaim(t)
  <2>0. pc[t] = "reclaim" /\ Slot(t) \in Slots /\ UNCHANGED <<executions, calls, catalog>>
    BY <1>17, <1>s DEF Reclaim
  <2>1. CASE Goto(t, "authorize") /\ actions' = [actions EXCEPT ![Slot(t)].status = "executing"]
    <3>1. /\ actions'[Slot(t)].status = "executing"
          /\ actions'[Slot(t)].result = actions[Slot(t)].result
          /\ \A x \in Slots \ {Slot(t)} : actions'[x] = actions[x]
      BY <1>e, <2>0, <2>1 DEF ActionRows
    <3>2. TrueAction(Slot(t), actions'[Slot(t)])
      BY <3>1, <2>0 DEF TrueAction, Truth, TrueRecords
    <3>3. HonestRows
      BY <2>0, <3>1, <3>2, <1>n
    <3> QED
      BY <2>0, <2>1, <3>3, <1>g, <1>k, TruthFrame
  <2>2. CASE Idle(t) /\ UNCHANGED actions
    BY <2>0, <2>2, <1>i, <1>h, <1>k, TruthFrame
  <2> QED
    BY <1>17, <2>1, <2>2 DEF Reclaim
<1> QED
  BY <1>1, <1>2, <1>3, <1>4, <1>5, <1>6, <1>7, <1>8, <1>9, <1>10, <1>11, <1>12,
     <1>13, <1>14, <1>15, <1>16, <1>17 DEF Step

LEMMA TruthOther ==
  ASSUME TypeOK, Truth, OtherMoves
  PROVE  Truth'
<1> USE Movement
<1> USE DEF deployment, rows
<1>e. actions \in [Slots -> ActionRows]
  BY DEF TypeOK
<1>k. UNCHANGED <<calls, catalog>> => Keeps
  BY DEF Keeps, Grounded, Applied
<1>h. UNCHANGED <<actions, executions>> => HonestRows
  BY DEF HonestRows, Truth, TrueRecords
<1>n. ASSUME UNCHANGED executions, NEW s \in Slots,
             \A x \in Slots \ {s} : actions'[x] = actions[x],
             actions'[s].status # "succeeded", actions'[s].result = actions[s].result
      PROVE  HonestRows
  BY <1>n DEF HonestRows, Truth, TrueRecords, TrueAction
<1>1. ASSUME NEW t \in Tasks, NEW s \in Slots, NEW p \in Principals,
             \/ \E a \in Args : Execute(t, s, p, a)
             \/ Confirm(t, s, p) \/ Reconcile(t, s, p) \/ RetryUnknown(t, s, p)
      PROVE  Truth'
  <2>0. PICK place \in {"authorize", "check", "reclaim"} : \E work : Begin(t, place, work)
    BY <1>1 DEF Execute, Confirm, Reconcile, RetryUnknown
  <2>1. /\ pc[t] = "idle" /\ pc'[t] # "query" /\ out'[t] = out[t] /\ OthersStay(t)
        /\ UNCHANGED <<executions, calls, catalog>>
    <3>0. PICK work : Begin(t, place, work)
      BY <2>0
    <3>1. pc[t] = "idle" /\ pc'[t] # "query" /\ out'[t] = out[t] /\ OthersStay(t)
      BY <3>0
    <3> QED
      BY <1>1, <3>1 DEF Execute, Confirm, Reconcile, RetryUnknown
  <2>2. HonestRows
    <3>1. CASE Confirm(t, s, p)
      <4>1. /\ \A x \in Slots \ {s} : actions'[x] = actions[x]
            /\ actions'[s].status = "executing" /\ actions'[s].result = actions[s].result
        BY <1>e, <3>1 DEF Confirm, ActionRows
      <4> QED
        BY <2>1, <4>1, <1>n
    <3>2. CASE UNCHANGED actions
      BY <2>1, <3>2, <1>h
    <3> QED
      BY <1>1, <3>1, <3>2 DEF Execute, Reconcile, RetryUnknown
  <2>3. HonestOut(t)
    BY <2>1 DEF HonestOut, Truth, CarriesTruth
  <2> QED
    BY <2>1, <2>2, <2>3, <1>k, TruthFrame
<1>2. ASSUME NEW t \in Tasks, Fails(t) \/ CancelTask(t) PROVE Truth'
  <2>1. OthersStay(t) /\ out'[t] \notin Successes /\ pc'[t] # "query"
    BY <1>2 DEF Fails, Raise, CancelTask, Moves, Successes
  <2>2. UNCHANGED <<actions, executions, calls, catalog>>
    BY <1>2 DEF Fails, CancelTask
  <2>3. HonestOut(t)
    BY <2>1 DEF HonestOut
  <2> QED
    BY <2>1, <2>2, <2>3, <1>h, <1>k, TruthFrame
<1>3. ASSUME NEW s \in Slots, ActionMoves(s) PROVE Truth'
  <2>1. UNCHANGED <<executions, pc, job, out, calls, catalog>>
    BY <1>3 DEF ActionMoves, ConfirmTooLate, TimePasses, Cancel, tasks
  <2>2. /\ \A x \in Slots \ {s} : actions'[x] = actions[x]
        /\ actions'[s].status # "succeeded" /\ actions'[s].result = actions[s].result
    <3>1. CASE ConfirmTooLate(s)
      BY <1>e, <3>1 DEF ConfirmTooLate, ActionRows
    <3>2. CASE TimePasses(s)
      BY <1>e, <3>2 DEF TimePasses, Claimable, ActionRows
    <3>3. CASE \E p \in Principals : Cancel(s, p)
      BY <1>e, <3>3 DEF Cancel, ActionRows
    <3> QED
      BY <1>3, <3>1, <3>2, <3>3 DEF ActionMoves
  <2>3. HonestRows
    BY <2>1, <2>2, <1>n
  <2>4. TrueRecords'
    BY <2>1, <2>3, <1>k DEF HonestRows, TrueRecords, TrueAction, TrueExecution, Keeps
  <2>5. CarriesTruth' /\ AsksWhereItMay'
    BY <2>1 DEF Truth, CarriesTruth, AsksWhereItMay, Grounded, Applied, Slot, Spec_
  <2> QED
    BY <2>4, <2>5 DEF Truth
<1>4. ASSUME NEW s \in Slots, ProviderMoves(s) PROVE Truth'
  <2>1. UNCHANGED <<actions, executions, pc, job, out, catalog>>
    BY <1>4 DEF ProviderMoves, ProviderApplies, ProviderRefuses, tasks
  <2>2. PICK n \in 1 .. MaxCalls, st \in {"applied", "refused"} :
          calls[s][n] = "flying" /\ calls' = [calls EXCEPT ![s][n] = st]
    BY <1>4 DEF ProviderMoves, ProviderApplies, ProviderRefuses
  <2>3. calls \in [Slots -> [1 .. MaxCalls -> CallStates]]
    BY DEF TypeOK
  <2>4. ASSUME NEW x \in Slots PROVE Applied(x) \subseteq Applied(x)'
    BY <2>2, <2>3 DEF Applied
  <2>5. Keeps
    BY <2>1, <2>4 DEF Keeps, Grounded
  <2>6. \A u \in Tasks : pc[u] # "idle" => Slot(u) \in Slots
    BY DEF TypeOK, Slot, Jobs
  <2>7. \A u \in Tasks : Slot(u)' = Slot(u)
    BY <2>1 DEF Slot
  <2>8. CarriesTruth'
    <3>1. ASSUME NEW u \in Tasks, out'[u] \in Successes
          PROVE  pc'[u] # "idle" /\ Grounded(Slot(u), out[u])'
      <4>1. pc[u] # "idle" /\ Grounded(Slot(u), out[u]) /\ Slot(u) \in Slots
        BY <2>1, <2>6, <3>1 DEF Truth, CarriesTruth
      <4>2. Grounded(Slot(u), out[u])'
        BY <2>1, <4>1, <2>5, <2>7 DEF Keeps
      <4> QED
        BY <2>1, <4>1, <4>2
    <3> QED
      BY <3>1 DEF CarriesTruth, Successes
  <2>9. TrueRecords' /\ AsksWhereItMay'
    BY <2>1, <2>5, <2>7
    DEF Truth, TrueRecords, TrueAction, TrueExecution, Keeps, AsksWhereItMay, Spec_
  <2> QED
    BY <2>8, <2>9 DEF Truth
<1>5. ASSUME Restart PROVE Truth'
  <2>1. \A u \in Tasks : pc'[u] = "idle" /\ out'[u] = "none"
    BY <1>5 DEF Restart
  <2>2. TrueRecords'
    BY <1>5, <1>h, <1>k
    DEF Restart, HonestRows, TrueRecords, TrueAction, TrueExecution, Keeps
  <2> QED
    BY <2>1, <2>2 DEF Truth, CarriesTruth, AsksWhereItMay, Successes
<1> QED
  BY <1>1, <1>2, <1>3, <1>4, <1>5 DEF OtherMoves, Request

-----------------------------------------------------------------------------
(* The inductive invariant, and what follows from it.                      *)

LEMMA InitIInv == Init => IInv
<1> SUFFICES ASSUME Init PROVE IInv
  OBVIOUS
<1>1. Placed
  BY DEF Init, Placed, PlaceFits, LookPlaces, ResultPlaces, ClaimedPlaces, Running
<1>2. Handlers
  BY DEF Init, Handlers, RunnerHoldsRow, HandlerExclusive, ConcludedHasResult, Runs,
         Running, NoExecution
<1>3. Holders
  BY DEF Init, Holders, ClaimExclusive, UnconfirmedNeverRuns, WorksOnTheAction, Claims,
         ClaimedPlaces, Running, NoExecution
<1>4. Truth
  BY DEF Init, Truth, CarriesTruth, TrueRecords, TrueAction, TrueExecution, Grounded,
         AsksWhereItMay, Successes, NoAction, NoExecution
<1> QED
  BY InitType, <1>1, <1>2, <1>3, <1>4 DEF IInv

LEMMA NextIInv == IInv /\ [Next]_vars => IInv'
<1> SUFFICES ASSUME IInv, [Next]_vars PROVE IInv'
  OBVIOUS
<1>i. TypeOK /\ Placed /\ Handlers /\ ConcludedHasResult /\ Holders /\ Truth
  BY DEF IInv, Handlers
<1>1. ASSUME NEW t \in Tasks, Step(t) PROVE IInv'
  BY <1>i, <1>1, StepType, PlacesStep, HandlersStep, HoldersStep, TruthStep DEF IInv
<1>2. ASSUME OtherMoves PROVE IInv'
  BY <1>i, <1>2, OtherType, PlacesOther, HandlersOther, HoldersOther, TruthOther
  DEF IInv, OtherMoves
<1>3. ASSUME UNCHANGED vars PROVE IInv'
  <2>1. UNCHANGED <<actions, executions, pc, job, call, out, calls, catalog, version>>
    BY <1>3 DEF vars, rows, tasks, deployment
  <2>2. TypeOK' /\ Placed'
    BY <1>i, <1>3, <2>1, StutterType DEF Placed, PlaceFits
  <2>3. Handlers'
    BY <1>i, <2>1
    DEF Handlers, RunnerHoldsRow, HandlerExclusive, ConcludedHasResult, Runs, Claims, Slot
  <2>4. Holders'
    BY <1>i, <2>1
    DEF Holders, ClaimExclusive, UnconfirmedNeverRuns, WorksOnTheAction, Claims, Slot, Valid
  <2>5. Truth'
    BY <1>i, <2>1
    DEF Truth, CarriesTruth, TrueRecords, TrueAction, TrueExecution, AsksWhereItMay,
        Grounded, Applied, Slot, Spec_
  <2> QED
    BY <2>2, <2>3, <2>4, <2>5 DEF IInv
<1> QED
  BY <1>1, <1>2, <1>3 DEF Next, OtherMoves

LEMMA Invariance == Spec => []IInv
  BY InitIInv, NextIInv, PTL DEF Spec

\* HandlerExclusive: no two coroutines run the handler of one write under one
\* idempotency key at once.
THEOREM HandlersExclude == Spec => []HandlerExclusive
<1>1. IInv => HandlerExclusive
  BY DEF IInv, Handlers
<1> QED
  BY <1>1, Invariance, PTL

\* ClaimExclusive: a claimed action is worked on by one task, and stays
\* EXECUTING until that task settles it.
THEOREM ClaimsExclude == Spec => []ClaimExclusive
<1>1. IInv => ClaimExclusive
  BY DEF IInv, Holders
<1> QED
  BY <1>1, Invariance, PTL

\* RunsWhatWasConfirmed: what runs under a claim is what was confirmed.
THEOREM ConfirmedIsRun == Spec => []RunsWhatWasConfirmed
<1>1. IInv => RunsWhatWasConfirmed
  <2> SUFFICES ASSUME IInv, NEW t \in Tasks, NEW s \in Slots, Claims(t), Runs(t, s)
               PROVE  /\ job[t].payload = actions[s].payload
                      /\ Valid(actions[s], job[t].who)
    BY DEF RunsWhatWasConfirmed, Valid
  <2>1. pc[t] # "idle" /\ job[t].op # "execute" /\ pc[t] \in Running \cup {"reserve"}
    BY DEF Claims, Runs, Running
  <2> QED
    BY <2>1 DEF IInv, Holders, WorksOnTheAction, Runs
<1> QED
  BY <1>1, Invariance, PTL

\* RejectedNeverRuns: pending, cancelled and expired actions were never run.
THEOREM RejectedStaysUnrun == Spec => []RejectedNeverRuns
<1>1. IInv => RejectedNeverRuns
  BY DEF IInv, Holders, UnconfirmedNeverRuns, ClaimExclusive, RejectedNeverRuns
<1> QED
  BY <1>1, Invariance, PTL

\* SucceededIsApplied: a write recorded as succeeded was applied, unless all
\* that speaks for it is the reconcile handler its policy asks for.
THEOREM SuccessIsTrue == Spec => []SucceededIsApplied
<1>1. IInv => SucceededIsApplied
  BY DEF IInv, Truth, TrueRecords, TrueAction, TrueExecution, Grounded, Successes,
         SucceededIsApplied, Vouched
<1> QED
  BY <1>1, Invariance, PTL
=============================================================================
