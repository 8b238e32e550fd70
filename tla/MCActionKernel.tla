--------------------------- MODULE MCActionKernel ---------------------------
(* Small instances of ActionKernel: one account with two identities (the   *)
(* Feishu and the API-key one), a stranger, and one slot whose intent is   *)
(* drawn from Specs in the initial state.                                  *)
EXTENDS ActionKernel, TLC

CONSTANTS feishu, apikey, stranger, ours, theirs

MCAccountOf == [p \in Principals |-> IF p = stranger THEN theirs ELSE ours]
MCOwnerOf == [s \in Slots |-> ours]

Intent(kind, risk, confirm, policy, reconcile) ==
  [kind |-> kind, risk |-> risk, confirm |-> confirm, policy |-> policy,
   reconcile |-> reconcile]

\* plan.save, plan.delete, calendar.delete, delivery.broadcast, a confirmed
\* read, and an intent that can only be reconciled.
PlanSave == Intent("update", Medium, FALSE, "none", FALSE)
PlanDelete == Intent("delete", High, TRUE, "none", FALSE)
CalendarDelete == Intent("delete", High, TRUE, "reconcile_then_retry", TRUE)
Broadcast == Intent("bulk", High, TRUE, "retry_idempotent", FALSE)
ConfirmedRead == Intent("read", Low, TRUE, "none", FALSE)
ReconcileOnly == Intent("create", Low, TRUE, "reconcile", TRUE)

AllIntents ==
  {PlanSave, PlanDelete, CalendarDelete, Broadcast, ConfirmedRead, ReconcileOnly}
RetriedIntent == {CalendarDelete}
DirectIntent == {PlanSave}

Symmetry == Permutations(Tasks) \cup Permutations(Versions)
=============================================================================
