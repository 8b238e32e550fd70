---------------------------- MODULE KernelPolicy ----------------------------
(***************************************************************************)
(* The pure decisions of the Intent kernel: which intents are writes,      *)
(* which need a confirmation, which specifications the catalogue accepts,  *)
(* and how the outcome of one handler run becomes the status of its        *)
(* execution row and of the action that asked for it.                      *)
(***************************************************************************)
EXTENDS Naturals

OperationKinds == {"read", "create", "update", "delete", "overwrite", "bulk"}

\* LOW, MEDIUM and HIGH in the order risk.py gives them.
Low == 0
Medium == 1
High == 2
RiskLevels == Low .. High

ResolutionPolicies ==
  {"none", "reconcile", "retry_idempotent", "reconcile_then_retry"}

RetryPolicies == {"retry_idempotent", "reconcile_then_retry"}

\* An IntentSpec, reduced to what the kernel branches on.
IntentSpecs ==
  [kind: OperationKinds, risk: RiskLevels, confirm: BOOLEAN,
   policy: ResolutionPolicies, reconcile: BOOLEAN]

IsWrite(spec) == spec.kind # "read"

\* What IntentCatalog.register accepts of the fields kept here.
Registrable(spec) ==
  /\ spec.kind \in {"delete", "overwrite", "bulk"} => spec.risk = High
  /\ spec.policy \in {"reconcile", "reconcile_then_retry"} => spec.reconcile
  /\ ~IsWrite(spec) => spec.policy = "none"

MinimumRisk ==
  [read |-> Low, create |-> Low, update |-> Medium,
   delete |-> High, overwrite |-> High, bulk |-> High]

EffectiveRisk(spec) ==
  IF spec.risk >= MinimumRisk[spec.kind] THEN spec.risk
                                         ELSE MinimumRisk[spec.kind]

RequiresConfirmation(spec, confirmAllWrites) ==
  \/ confirmAllWrites /\ IsWrite(spec)
  \/ spec.confirm
  \/ EffectiveRisk(spec) = High

-----------------------------------------------------------------------------
(***************************************************************************)
(* Results.  A handler run ends in one of HandlerOutcomes: what it         *)
(* returned (success, clarify, failure), the delivery state of the         *)
(* ProviderError it raised (not_sent, rejected, accepted, lost), the       *)
(* kernel's timeout, or any other exception (raised).  KernelAnswers are   *)
(* results no handler gave.                                                *)
(***************************************************************************)

Vague == {"lost", "timeout", "raised"}
Uncertain == Vague \cup {"accepted"}

HandlerOutcomes ==
  Uncertain \cup {"success", "clarify", "failure", "not_sent", "rejected"}

KernelAnswers ==
  {"refused",        \* _validate_persisted_action or changed semantics
   "denied",         \* authorization_required
   "key_conflict",   \* execution.idempotency_conflict
   "in_progress",    \* execution.in_progress
   "retry_conflict", \* action.retry_execution_conflict
   "not_run",        \* action.confirmed_execution_failed
   "found",          \* a reconcile handler reports success
   "absent"}         \* a reconcile handler reports that nothing was done

Results == HandlerOutcomes \cup KernelAnswers

\* Faulty: a timeout is taken for a failure that changed nothing.
FaultyTimeoutFails(outcome) ==
  CASE outcome \in Uncertain \ {"timeout"} -> "unknown"
    [] outcome \in {"success", "clarify"} -> "succeeded"
    [] OTHER -> "failed"

\* The status IntentDispatcher._execute gives the execution row of a write.
ExecutionStatusFor(outcome) ==
  CASE outcome \in Uncertain -> "unknown"
    [] outcome \in {"success", "clarify"} -> "succeeded"
    [] OTHER -> "failed"

\* Faulty: a request the provider has accepted is taken for done.
FaultyAcceptedIsDone(write, result) ==
  CASE result = "lost" \/ (write /\ result \in {"timeout", "raised"}) -> "unknown"
    [] result \in {"success", "found", "accepted"} -> "succeeded"
    [] OTHER -> "failed"

\* _action_status_for_result.  The delivery state of a ProviderError counts
\* for reads too; a timeout and an exception carry "unknown" in their code
\* only when the intent is a write.
ActionStatusFor(write, result) ==
  CASE \/ result \in {"lost", "accepted"}
       \/ write /\ result \in {"timeout", "raised"} -> "unknown"
    [] result \in {"success", "found"} -> "succeeded"
    [] OTHER -> "failed"
=============================================================================
