---------------------------- MODULE ActionLedger ----------------------------
(***************************************************************************)
(* What the kernel promises for each idempotency slot, without tasks,      *)
(* results or faults: a write takes effect only inside a run that was      *)
(* begun for it, a run of an action begins only after its confirmation, a  *)
(* refused action is never run, and a verdict of success is given only for *)
(* a write that took effect, once, and is never taken back.  "Reported" is *)
(* somebody else's word for a success, taken only where a confirmed run    *)
(* was left unknown, and no promise of an effect.                          *)
(***************************************************************************)
CONSTANTS Slots

VARIABLES
  approval,  \* what became of the request for confirmation
  run,       \* whether and how the slot's write was begun
  applied,   \* whether the write took effect
  verdict    \* what is recorded about the run

vars == <<approval, run, applied, verdict>>

Verdicts == {"succeeded", "reported", "failed", "declined", "unknown"}

Init ==
  /\ approval = [s \in Slots |-> "none"]
  /\ run = [s \in Slots |-> "none"]
  /\ applied = [s \in Slots |-> FALSE]
  /\ verdict = [s \in Slots |-> "none"]

Decide(s, from, to) ==
  /\ approval[s] = from
  /\ approval' = [approval EXCEPT ![s] = to]
  /\ UNCHANGED <<run, applied, verdict>>

Ask(s) == Decide(s, "none", "asked")
Grant(s) == Decide(s, "asked", "granted")
Refuse(s) == Decide(s, "asked", "refused")

Begin(s) ==
  /\ run[s] = "none"
  /\ \E how \in {"direct", "confirmed"} :
       /\ how = "confirmed" => approval[s] = "granted"
       /\ run' = [run EXCEPT ![s] = how]
  /\ UNCHANGED <<approval, applied, verdict>>

\* The effect may come late, when the run has long been given up.
TakeEffect(s) ==
  /\ run[s] # "none"
  /\ applied' = [applied EXCEPT ![s] = TRUE]
  /\ UNCHANGED <<approval, run, verdict>>

Conclude(s) ==
  /\ run[s] # "none"
  /\ verdict[s] \in {"none", "unknown"}
  /\ \E v \in Verdicts :
       /\ v = "succeeded" => applied[s]
       /\ v = "reported" => run[s] = "confirmed" /\ verdict[s] = "unknown"
       /\ verdict' = [verdict EXCEPT ![s] = v]
  /\ UNCHANGED <<approval, run, applied>>

\* Only the unknown outcome of a confirmed run is looked into again.
Retry(s) ==
  /\ run[s] = "confirmed" /\ verdict[s] = "unknown"
  /\ verdict' = [verdict EXCEPT ![s] = "none"]
  /\ UNCHANGED <<approval, run, applied>>

Next ==
  \E s \in Slots :
    \/ Ask(s) \/ Grant(s) \/ Refuse(s)
    \/ Begin(s) \/ TakeEffect(s) \/ Conclude(s) \/ Retry(s)

Spec == Init /\ [][Next]_vars
=============================================================================
