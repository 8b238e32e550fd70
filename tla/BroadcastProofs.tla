---------------------------- MODULE BroadcastProofs ----------------------------
(***************************************************************************)
(* Safety of Broadcast, for every set of owners, instants and offsets, any *)
(* number of targets, leases, runs and restarts, and every set of          *)
(* deployments; and that a broadcast is a write as ActionLedger has it.    *)
(*                                                                         *)
(* Everything is about one broadcast at a time (Fits): no step for one     *)
(* changes what is known of another (OthersFit).  How a run stands with    *)
(* the service is said by Progress, which bears the refinement, and, of a  *)
(* first run before its second target, by FirstRun.                        *)
(***************************************************************************)
EXTENDS Broadcast, TLAPS

-----------------------------------------------------------------------------
(* The inductive invariant.                                                *)

Running(x) == worker[x].place \in {"before", "await"}

\* Where a broadcast can be, by the status of its action.
Placed(x) ==
  /\ action[x].status # "absent" => action[x].id \in 1 .. MaxTokens
  /\ worker[x].place # "none" => action[x].status = "executing"
  /\ worker[x].place = "claimed" => attempts[x] < MaxAttempts
  /\ Running(x) => attempts[x] > 0
  /\ Awaits(x) => Next_(x) \in Targets
  /\ action[x].status \in {"absent", "pending", "cancelled"} => attempts[x] = 0
  /\ action[x].status \in {"succeeded", "unknown"} => attempts[x] > 0

Named(x, n) == [occurrence |-> x, target |-> n, id |-> action[x].id]

\* What has been delivered has been shown; what is awaited may still be on its way.
Progress(x) ==
  /\ Running(x) => \A n \in 1 .. Next_(x) - 1 : Named(x, n) \in shown
  /\ Awaits(x) => Request(x) \in flying \/ Named(x, Next_(x)) \in shown

Unseen(x) == \A m \in shown : m.occurrence # x
Untouched(x) == Unseen(x) /\ \A r \in flying : r.message.occurrence # x

\* A broadcast that was not run, or whose first run is at its first target.
FirstRun(x) ==
  /\ attempts[x] = 0 => Untouched(x)
  /\ attempts[x] = 1 =>
       /\ action[x].status = "failed" /\ action[x].result \in HandlerOutcomes =>
            Untouched(x)
       /\ worker[x].place = "before" /\ Next_(x) = 1 => Untouched(x)
       /\ Awaits(x) /\ Next_(x) = 1 =>
            /\ \A r \in flying : r.message.occurrence = x => r = Request(x)
            /\ Request(x) \in flying => Unseen(x)

Fits(x) == Placed(x) /\ Progress(x) /\ FirstRun(x)

\* A message has the name of the one action its key ever had.
OneName ==
  /\ \A m \in shown : m.id = action[m.occurrence].id
  /\ \A r \in flying : r.message.id = action[r.message.occurrence].id

IInv == TypeOK /\ OneName /\ \A x \in Occurrences : Fits(x)

-----------------------------------------------------------------------------
(* One broadcast at a time.                                                *)

\* What concerns broadcast x is as it was.
Stays(x) ==
  /\ action'[x] = action[x] /\ worker'[x] = worker[x] /\ attempts'[x] = attempts[x]
  /\ \A m : m.occurrence = x => (m \in shown' <=> m \in shown)
  /\ \A r : r.message.occurrence = x => (r \in flying' <=> r \in flying)

LEMMA OthersFit ==
  ASSUME NEW x \in Occurrences, Fits(x), Stays(x)
  PROVE  Fits(x)'
<1> USE DEF Stays, Running, Awaits, Next_
<1>1. Placed(x)'
  BY DEF Fits, Placed
<1>2. /\ Request(x)' = Request(x) /\ Request(x).message.occurrence = x
      /\ \A n : Named(x, n).occurrence = x /\ Named(x, n)' = Named(x, n)
  BY DEF Request, Message, RequestId, Named
<1>3. Progress(x)'
  BY <1>2 DEF Fits, Progress
<1>4. Untouched(x)' <=> Untouched(x)
  BY DEF Untouched, Unseen
<1>5. Unseen(x)' <=> Unseen(x)
  BY DEF Unseen
<1>6. FirstRun(x)'
  BY <1>2, <1>4, <1>5 DEF Fits, FirstRun
<1> QED
  BY <1>1, <1>3, <1>6 DEF Fits

\* A restart, or the expiry of a lease, takes runs away but shows and hides nothing.
LEMMA Stopped ==
  ASSUME NEW x \in Occurrences, Fits(x),
         action'[x] = action[x], attempts'[x] = attempts[x],
         worker'[x] = worker[x] \/ worker'[x] = NoRun,
         UNCHANGED <<flying, shown>>
  PROVE  Fits(x)'
<1>1. CASE worker'[x] = worker[x]
  BY <1>1, OthersFit DEF Stays
<1>2. CASE worker'[x] = NoRun
  BY <1>2 DEF Fits, NoRun, Placed, Progress, FirstRun, Running, Awaits, Untouched, Unseen
<1> QED
  BY <1>1, <1>2

\* What a result is recorded as.
LEMMA Outcomes ==
  /\ \A r \in {"not_sent", "rejected"} : ActionStatusFor(TRUE, r) = "failed"
  /\ \A r \in {"lost", "timeout", "raised"} : ActionStatusFor(TRUE, r) = "unknown"
  /\ \A r \in {"refused", "denied", "not_run"} :
       ActionStatusFor(TRUE, r) = "failed" /\ r \notin HandlerOutcomes
  /\ ActionStatusFor(TRUE, "success") = "succeeded"
BY DEF ActionStatusFor, HandlerOutcomes, Uncertain, Vague

LEMMA Known ==
  {"not_sent", "rejected", "lost", "timeout", "raised", "success", "refused", "denied",
   "not_run"} \subseteq Results
BY DEF Results, HandlerOutcomes, KernelAnswers, Uncertain, Vague

\* What the end of a run of x records.
LEMMA Recorded ==
  ASSUME TypeOK, NEW x \in Occurrences, NEW result \in Results, Record(x, result)
  PROVE  /\ action'[x].status = ActionStatusFor(TRUE, result)
         /\ action'[x].status \in {"succeeded", "failed", "unknown"}
         /\ action'[x].id = action[x].id /\ action'[x].result = result
         /\ worker'[x] = NoRun
         /\ UNCHANGED <<lease, due, attempts, shown, reachable, faults>>
         /\ action' \in [Occurrences -> Actions] /\ worker' \in [Occurrences -> Runs]
         /\ \A y \in Occurrences \ {x} : action'[y] = action[y] /\ worker'[y] = worker[y]
<1>1. NoRun \in Runs
  BY BroadcastAssumption DEF NoRun, Runs
<1>2. ActionStatusFor(TRUE, result) \in {"succeeded", "failed", "unknown"}
  BY DEF ActionStatusFor
<1>3. /\ action[x] \in Actions /\ action \in [Occurrences -> Actions]
      /\ worker \in [Occurrences -> Runs]
  BY DEF TypeOK
<1>4. [status |-> ActionStatusFor(TRUE, result), id |-> action[x].id, result |-> result]
        \in Actions
  BY <1>2, <1>3 DEF Actions, Statuses
<1> QED
  BY <1>1, <1>2, <1>3, <1>4 DEF Record

Ends(x) ==
  Unreachable(x) \/ NotSent(x) \/ Rejected(x) \/ AnswerLost(x) \/ GivenUp(x)
    \/ AllDelivered(x)

\* What a run of x ends with is one of these, or is not recorded.
LEMMA Reported ==
  ASSUME TypeOK, NEW x \in Occurrences, Ends(x)
  PROVE  /\ Running(x)
         /\ flying' = flying \/ flying' = flying \ {Request(x)}
         /\ \E result \in Results :
              /\ Record(x, result)
              /\ result \in HandlerOutcomes /\ ActionStatusFor(TRUE, result) = "failed" =>
                   /\ Next_(x) = 1
                   /\ \/ worker[x].place = "before" /\ flying' = flying
                      \/ /\ Awaits(x) /\ Request(x) \in flying
                         /\ flying' = flying \ {Request(x)}
              /\ ActionStatusFor(TRUE, result) = "succeeded" => AllDelivered(x)
<1> USE DEF Running, Before, Awaits
<1>1. worker[x].next \in Nat \ {0}
  BY BroadcastAssumption DEF TypeOK, Runs
<1>2. \A r : Partial(x, r) = "lost" \/ (Next_(x) = 1 /\ Partial(x, r) = r)
  BY <1>1 DEF Partial, Next_
<1>3. CASE Unreachable(x) \/ NotSent(x)
  <2>1. /\ worker[x].place = "before" /\ Settle(x, Partial(x, "not_sent"))
        /\ flying' = flying
    BY <1>3 DEF Unreachable, NotSent
  <2>2. PICK r \in {Partial(x, "not_sent"), "not_run"} : Record(x, r)
    BY <2>1 DEF Settle
  <2> QED
    BY <1>2, <2>1, <2>2, Outcomes, Known
<1>4. CASE Rejected(x)
  <2>1. /\ Settle(x, Partial(x, "rejected")) /\ Awaits(x) /\ Request(x) \in flying
        /\ flying' = flying \ {Request(x)}
    BY <1>4 DEF Rejected
  <2>2. PICK r \in {Partial(x, "rejected"), "not_run"} : Record(x, r)
    BY <2>1 DEF Settle
  <2> QED
    BY <1>2, <2>1, <2>2, Outcomes, Known
<1>5. CASE AnswerLost(x) \/ GivenUp(x)
  <2>1. PICK r \in {"lost", "timeout", "raised"} :
          Settle(x, r) /\ flying' = flying /\ Running(x)
    BY <1>5 DEF AnswerLost, GivenUp
  <2>2. PICK q \in {r, "not_run"} : Record(x, q)
    BY <2>1 DEF Settle
  <2> QED
    BY <2>1, <2>2, Outcomes, Known
<1>6. CASE AllDelivered(x)
  <2>1. Settle(x, "success") /\ flying' = flying /\ Running(x)
    BY <1>6 DEF AllDelivered
  <2>2. PICK r \in {"success", "not_run"} : Record(x, r)
    BY <2>1 DEF Settle
  <2> QED
    BY <1>6, <2>1, <2>2, Outcomes, Known
<1> QED
  BY <1>3, <1>4, <1>5, <1>6 DEF Ends

\* What each way of ending a run comes to.
LEMMA Ended ==
  ASSUME TypeOK, NEW x \in Occurrences, Ends(x)
  PROVE  /\ Running(x) /\ worker'[x] = NoRun
         /\ flying' = flying \/ flying' = flying \ {Request(x)}
         /\ UNCHANGED <<lease, due, attempts, shown, reachable, faults>>
         /\ action' \in [Occurrences -> Actions] /\ worker' \in [Occurrences -> Runs]
         /\ \A y \in Occurrences \ {x} : action'[y] = action[y] /\ worker'[y] = worker[y]
         /\ action'[x].id = action[x].id
         /\ action'[x].status \in {"succeeded", "failed", "unknown"}
         /\ action'[x].status = "failed" /\ action'[x].result \in HandlerOutcomes =>
              /\ Next_(x) = 1
              /\ \/ worker[x].place = "before" /\ flying' = flying
                 \/ Awaits(x) /\ Request(x) \in flying /\ flying' = flying \ {Request(x)}
         /\ action'[x].status = "succeeded" => AllDelivered(x)
<1>1. PICK result \in Results :
        /\ Record(x, result)
        /\ result \in HandlerOutcomes /\ ActionStatusFor(TRUE, result) = "failed" =>
             /\ Next_(x) = 1
             /\ \/ worker[x].place = "before" /\ flying' = flying
                \/ Awaits(x) /\ Request(x) \in flying /\ flying' = flying \ {Request(x)}
        /\ ActionStatusFor(TRUE, result) = "succeeded" => AllDelivered(x)
  BY Reported
<1>2. Running(x) /\ (flying' = flying \/ flying' = flying \ {Request(x)})
  BY Reported
<1> HIDE DEF AllDelivered, Record
<1> QED
  BY <1>1, <1>2, Recorded

\* A claimed run that does not come to its handler.
LEMMA Refused ==
  ASSUME TypeOK, NEW x \in Occurrences, Refuse(x)
  PROVE  /\ worker[x].place = "claimed" /\ worker'[x] = NoRun
         /\ UNCHANGED <<lease, due, attempts, flying, shown, reachable, faults>>
         /\ action' \in [Occurrences -> Actions] /\ worker' \in [Occurrences -> Runs]
         /\ \A y \in Occurrences \ {x} : action'[y] = action[y] /\ worker'[y] = worker[y]
         /\ action'[x].id = action[x].id
         /\ action'[x].status = "failed" /\ action'[x].result \notin HandlerOutcomes
<1>1. PICK result \in {"refused", "denied", "not_run"} : Record(x, result)
  BY DEF Refuse
<1>2. result \in Results /\ ActionStatusFor(TRUE, result) = "failed"
      /\ result \notin HandlerOutcomes
  BY Outcomes, Known
<1>3. worker[x].place = "claimed" /\ UNCHANGED flying
  BY DEF Refuse
<1> QED
  BY <1>1, <1>2, <1>3, Recorded

\* The request of a run that is at a target.
LEMMA RequestType ==
  ASSUME TypeOK, NEW x \in Occurrences, attempts[x] > 0, Next_(x) \in Targets,
         action[x].id \in 1 .. MaxTokens
  PROVE  Request(x) \in Requests /\ Message(x) = Named(x, Next_(x))
<1>1. attempts[x] \in 1 .. MaxAttempts
  BY BroadcastAssumption DEF TypeOK
<1>2. Message(x) \in Messages
  BY BroadcastAssumption DEF Messages, Message, RequestId
<1> QED
  BY <1>1, <1>2 DEF Requests, Request, Message, Named, RequestId

LEMMA TypeNext == IInv /\ [Next]_vars => TypeOK'
<1> SUFFICES ASSUME IInv, [Next]_vars PROVE TypeOK'
  OBVIOUS
<1> USE BroadcastAssumption DEF IInv
<1>1. ASSUME NEW o \in Owners, NEW x \in Occurrences, ClaimLease(o, x)
      PROVE  TypeOK'
  <2>1. Token \in 1 .. MaxTokens
    BY <1>1 DEF ClaimLease, Token, TypeOK, Leases
  <2> QED
    BY <1>1, <2>1 DEF ClaimLease, TypeOK, Leases, Claims
<1>2. ASSUME NEW o \in Owners, Dispatch(o)
      PROVE  TypeOK'
  <2>1. PICK x \in Occurrences, t \in 1 .. MaxTokens :
          due[o].occurrence = x /\ due[o].token = t
    BY <1>2 DEF Dispatch, TypeOK, Claims
  <2>2. Row(x, t) \in Actions
    BY <2>1 DEF Row, TypeOK, Actions, Statuses
  <2> QED
    BY <1>2, <2>1, <2>2 DEF Dispatch, TypeOK
<1>3. CASE LeaseExpires
  BY <1>3 DEF LeaseExpires, TypeOK, Leases
<1>4. ASSUME NEW x \in Occurrences, Confirm(x) \/ RetryUnknown(x)
      PROVE  TypeOK'
  <2>1. Claim(x) /\ action[x] \in Actions /\ worker[x] \in Runs
    BY <1>4 DEF Confirm, RetryUnknown, TypeOK
  <2>2. /\ [action[x] EXCEPT !.status = "executing"] \in Actions
        /\ [worker[x] EXCEPT !.place = "claimed"] \in Runs
    BY <2>1 DEF Actions, Statuses, Runs
  <2> QED
    BY <2>1, <2>2 DEF Claim, TypeOK
<1>5. ASSUME NEW x \in Occurrences, Cancel(x)
      PROVE  TypeOK'
  BY <1>5 DEF Cancel, TypeOK, Actions, Statuses
<1>6. ASSUME NEW x \in Occurrences, Start(x)
      PROVE  TypeOK'
  <2>1. attempts[x] + 1 \in 0 .. MaxAttempts
    BY <1>6 DEF Start, TypeOK, Fits, Placed
  <2>2. [place |-> "before", next |-> First] \in Runs
    BY DEF Runs, First
  <2> QED
    BY <1>6, <2>1, <2>2 DEF Start, TypeOK
<1>7. ASSUME NEW x \in Occurrences, Ends(x)
      PROVE  TypeOK'
  BY <1>7, Ended DEF TypeOK
<1>8. ASSUME NEW x \in Occurrences, Send(x)
      PROVE  TypeOK'
  <2>1. worker[x].next \in 1 .. NTargets + 1 /\ worker[x].place = "before"
    BY <1>8 DEF Send, Before, TypeOK, Runs
  <2>2. attempts[x] > 0 /\ Next_(x) \in Targets /\ action[x].id \in 1 .. MaxTokens
    BY <1>8, <2>1 DEF Send, Before, Fits, Placed, Running, Next_, Targets
  <2> QED
    BY <1>8, <2>2, RequestType DEF Send, TypeOK, Runs
<1>9. ASSUME NEW x \in Occurrences, Delivered(x)
      PROVE  TypeOK'
  <2>1. [place |-> "before", next |-> Next_(x) + 1] \in Runs
    BY <1>9 DEF Delivered, Fits, Placed, Targets, Runs
  <2> QED
    BY <1>9, <2>1 DEF Delivered, TypeOK
<1>10. ASSUME NEW request \in flying, Shows(request)
       PROVE  TypeOK'
  BY <1>10 DEF Shows, TypeOK, Requests
<1>11. CASE Restart
  <2>1. NoRun \in Runs
    BY DEF NoRun, Runs
  <2> QED
    BY <1>11, <2>1 DEF Restart, TypeOK
<1>12. CASE UNCHANGED vars
  BY <1>12 DEF vars, TypeOK
<1>13. ASSUME NEW x \in Occurrences, Refuse(x)
       PROVE  TypeOK'
  BY <1>13, Refused DEF TypeOK
<1>14. ASSUME NEW x \in Occurrences, Abandon(x)
       PROVE  TypeOK'
  BY <1>14 DEF Abandon, TypeOK, NoRun, Runs
<1> QED
  BY <1>1, <1>2, <1>3, <1>4, <1>5, <1>6, <1>7, <1>8, <1>9, <1>10, <1>11, <1>12,
     <1>13, <1>14
  DEF Next, Schedule, Deliver, Ends

-----------------------------------------------------------------------------
(* Names, places, progress.                                                *)

\* A broadcast keeps its action; before it has one, nothing bears its name.
LEMMA ActionKept ==
  ASSUME IInv, [Next]_vars, NEW y \in Occurrences
  PROVE  \/ action'[y].id = action[y].id
         \/ Untouched(y) /\ UNCHANGED <<flying, shown>>
<1> USE DEF IInv
<1>1. ASSUME NEW o \in Owners, Dispatch(o)
      PROVE  \/ action'[y].id = action[y].id
             \/ Untouched(y) /\ UNCHANGED <<flying, shown>>
  <2>1. action[y].status = "absent" => Untouched(y)
    BY DEF Fits, Placed, FirstRun
  <2>2. action[y].status # "absent" => action'[y] = action[y]
    BY <1>1 DEF Dispatch, Row, TypeOK, Claims
  <2> QED
    BY <1>1, <2>1, <2>2 DEF Dispatch
<1>2. ASSUME NEW x \in Occurrences, Confirm(x) \/ Cancel(x) \/ RetryUnknown(x)
      PROVE  action'[y].id = action[y].id
  BY <1>2 DEF Confirm, Cancel, RetryUnknown, Claim, TypeOK, Actions
<1>3. ASSUME NEW x \in Occurrences, Ends(x) \/ Refuse(x)
      PROVE  action'[y].id = action[y].id
  BY <1>3, Ended, Refused
<1>4. CASE UNCHANGED action
  BY <1>4
<1> QED
  BY <1>1, <1>2, <1>3, <1>4
  DEF Next, Schedule, Deliver, Ends, ClaimLease, LeaseExpires, Start, Abandon, Send,
      Delivered, Shows, Restart, vars

LEMMA OneNameNext == IInv /\ [Next]_vars => OneName'
<1> SUFFICES ASSUME IInv, [Next]_vars PROVE OneName'
  OBVIOUS
<1>1. CASE shown' = shown /\ flying' \subseteq flying
  <2>1. ASSUME NEW m \in shown'
        PROVE  m.id = action'[m.occurrence].id
    <3>1. m.occurrence \in Occurrences /\ m \in shown
      BY <1>1 DEF IInv, TypeOK, Messages
    <3>2. ~Untouched(m.occurrence)
      BY <3>1 DEF Untouched, Unseen
    <3> QED
      BY <3>1, <3>2, ActionKept DEF IInv, OneName
  <2>2. ASSUME NEW q \in flying'
        PROVE  q.message.id = action'[q.message.occurrence].id
    <3>1. q.message.occurrence \in Occurrences /\ q \in flying
      BY <1>1 DEF IInv, TypeOK, Requests, Messages
    <3>2. ~Untouched(q.message.occurrence)
      BY <3>1 DEF Untouched, Unseen
    <3> QED
      BY <3>1, <3>2, ActionKept DEF IInv, OneName
  <2> QED
    BY <2>1, <2>2 DEF OneName
<1>2. ASSUME NEW x \in Occurrences, Send(x)
      PROVE  OneName'
  <2>1. /\ Request(x).message.id = action[x].id /\ Request(x).message.occurrence = x
        /\ flying' = flying \cup {Request(x)} /\ UNCHANGED <<action, shown>>
    BY <1>2 DEF Send, Request, Message, RequestId
  <2> QED
    BY <2>1 DEF IInv, OneName
<1>3. ASSUME NEW request \in flying, Shows(request)
      PROVE  OneName'
  BY <1>3 DEF Shows, IInv, OneName
<1>4. ASSUME NEW x \in Occurrences, Ends(x) \/ Refuse(x)
      PROVE  shown' = shown /\ flying' \subseteq flying
  BY <1>4, Ended, Refused DEF IInv
<1>5. ASSUME NEW x \in Occurrences,
             Confirm(x) \/ Cancel(x) \/ Start(x) \/ RetryUnknown(x) \/ Abandon(x)
               \/ Delivered(x)
      PROVE  shown' = shown /\ flying' \subseteq flying
  BY <1>5 DEF Confirm, Cancel, Start, RetryUnknown, Claim, Abandon, Delivered
<1>6. CASE LeaseExpires \/ Restart \/ UNCHANGED vars \/ \E o \in Owners : Schedule(o)
  BY <1>1, <1>6 DEF LeaseExpires, Restart, vars, Schedule, ClaimLease, Dispatch
<1> QED
  BY <1>1, <1>2, <1>3, <1>4, <1>5, <1>6 DEF Next, Deliver, Ends

\* The kernel's steps show nothing and send nothing.
LEMMA KernelFits ==
  ASSUME IInv, NEW x \in Occurrences,
         Confirm(x) \/ Cancel(x) \/ Start(x) \/ RetryUnknown(x) \/ Refuse(x)
  PROVE  Fits(x)' /\ \A y \in Occurrences \ {x} : Stays(y)
<1> USE DEF IInv, Running, Awaits, Next_
<1>1. Fits(x) /\ TypeOK /\ action[x] \in Actions /\ worker[x] \in Runs
      /\ attempts[x] \in 0 .. MaxAttempts
  BY DEF TypeOK
<1>2. UNCHANGED <<flying, shown>>
  BY DEF Confirm, Cancel, Start, RetryUnknown, Claim, Refuse, Record
<1>3. Untouched(x)' <=> Untouched(x)
  BY <1>2 DEF Untouched, Unseen
<1>4. CASE Confirm(x) \/ Cancel(x) \/ RetryUnknown(x)
  <2>1. /\ UNCHANGED attempts /\ action'[x].status \in {"executing", "cancelled"}
        /\ action'[x].id = action[x].id /\ action[x].status # "absent"
        /\ worker'[x].place \in {"none", "claimed"}
        /\ worker'[x].place = "claimed" => action'[x].status = "executing"
        /\ \A y \in Occurrences \ {x} : action'[y] = action[y] /\ worker'[y] = worker[y]
    <3>1. worker[x].place = "none"
      BY <1>1, <1>4 DEF Confirm, Cancel, RetryUnknown, Fits, Placed
    <3> QED
      BY <1>1, <1>4, <3>1 DEF Confirm, Cancel, RetryUnknown, Claim, TypeOK, Actions, Runs
  <2>2. worker'[x].place = "claimed" => attempts[x] < MaxAttempts
    BY <1>1, <1>4, <2>1, BroadcastAssumption
    DEF Confirm, Cancel, RetryUnknown, Claim, Fits, Placed, TypeOK
  <2>3. action'[x].status = "cancelled" => attempts[x] = 0
    BY <1>1, <1>4 DEF Confirm, Cancel, RetryUnknown, Claim, Fits, Placed, TypeOK, Actions
  <2>4. Placed(x)' /\ Progress(x)'
    BY <1>1, <2>1, <2>2, <2>3 DEF Fits, Placed, Progress
  <2>5. FirstRun(x)'
    BY <1>1, <1>3, <2>1 DEF Fits, FirstRun
  <2>6. \A y \in Occurrences \ {x} : Stays(y)
    BY <1>2, <2>1 DEF Stays
  <2> QED
    BY <2>4, <2>5, <2>6 DEF Fits
<1>5. CASE Start(x)
  <2>1. /\ attempts'[x] = attempts[x] + 1 /\ attempts[x] \in Nat
        /\ worker'[x] = [place |-> "before", next |-> 1] /\ UNCHANGED action
        /\ \A y \in Occurrences \ {x} : worker'[y] = worker[y] /\ attempts'[y] = attempts[y]
    BY <1>1, <1>5 DEF Start, First, TypeOK
  <2>2. action[x].status = "executing"
    BY <1>1, <1>5 DEF Start, Fits, Placed
  <2>3. Placed(x)' /\ Progress(x)'
    BY <1>1, <2>1, <2>2 DEF Fits, Placed, Progress
  <2>4. FirstRun(x)'
    BY <1>1, <1>3, <2>1, <2>2 DEF Fits, FirstRun
  <2>5. \A y \in Occurrences \ {x} : Stays(y)
    BY <1>2, <2>1 DEF Stays
  <2> QED
    BY <2>3, <2>4, <2>5 DEF Fits
<1>6. CASE Refuse(x)
  <2>1. /\ worker[x].place = "claimed" /\ worker'[x].place = "none"
        /\ UNCHANGED <<attempts, flying, shown>>
        /\ action'[x].id = action[x].id /\ action'[x].status = "failed"
        /\ action'[x].result \notin HandlerOutcomes
        /\ \A y \in Occurrences \ {x} : action'[y] = action[y] /\ worker'[y] = worker[y]
    BY <1>1, <1>6, Refused DEF NoRun
  <2>2. action[x].status = "executing"
    BY <1>1, <2>1 DEF Fits, Placed
  <2>3. Placed(x)' /\ Progress(x)'
    BY <1>1, <2>1, <2>2 DEF Fits, Placed, Progress
  <2>4. FirstRun(x)'
    BY <1>1, <1>3, <2>1 DEF Fits, FirstRun
  <2>5. \A y \in Occurrences \ {x} : Stays(y)
    BY <2>1 DEF Stays
  <2> QED
    BY <2>3, <2>4, <2>5 DEF Fits
<1> QED
  BY <1>4, <1>5, <1>6

LEMMA EndsFit ==
  ASSUME IInv, NEW x \in Occurrences, Ends(x)
  PROVE  Fits(x)' /\ \A y \in Occurrences \ {x} : Stays(y)
<1> USE DEF IInv
<1>1. Request(x).message.occurrence = x
  BY DEF Request, Message
<1>2. \A y \in Occurrences \ {x} : Stays(y)
  BY <1>1, Ended DEF Stays
<1>3. Placed(x)' /\ Progress(x)'
  BY Ended DEF Fits, Placed, Progress, Running, Awaits, NoRun
<1>4. attempts'[x] = attempts[x] /\ attempts[x] > 0
  BY Ended DEF Fits, Placed
<1>5. ASSUME attempts[x] = 1, action'[x].status = "failed",
             action'[x].result \in HandlerOutcomes
      PROVE  Untouched(x)'
  <2>1. shown' = shown /\ Next_(x) = 1
    BY <1>5, Ended
  <2>2. CASE worker[x].place = "before" /\ flying' = flying
    BY <1>5, <2>1, <2>2 DEF Fits, FirstRun, Untouched, Unseen
  <2>3. CASE Awaits(x) /\ Request(x) \in flying /\ flying' = flying \ {Request(x)}
    BY <1>5, <2>1, <2>3 DEF Fits, FirstRun, Untouched, Unseen
  <2> QED
    BY <1>5, <2>2, <2>3, Ended
<1>6. FirstRun(x)'
  BY <1>4, <1>5, Ended DEF FirstRun, Awaits, NoRun, TypeOK
<1> QED
  BY <1>2, <1>3, <1>6 DEF Fits

LEMMA SendFits ==
  ASSUME IInv, NEW x \in Occurrences, Send(x)
  PROVE  Fits(x)' /\ \A y \in Occurrences \ {x} : Stays(y)
<1> USE DEF IInv, TypeOK, Running, Awaits, Next_
<1>1. /\ worker[x].place = "before" /\ worker'[x].place = "await"
      /\ worker'[x].next = worker[x].next /\ worker[x].next \in Targets
      /\ flying' = flying \cup {Request(x)} /\ UNCHANGED <<action, attempts, shown>>
  BY DEF Send, Before, Runs, Targets
<1>2. Request(x)' = Request(x) /\ Request(x).message.occurrence = x
  BY <1>1 DEF Request, Message, RequestId
<1>3. \A y \in Occurrences \ {x} : Stays(y)
  BY <1>2 DEF Send, Stays
<1>4. Placed(x)' /\ Progress(x)'
  <2>1. \A n : Named(x, n)' = Named(x, n)
    BY <1>1 DEF Named
  <2> QED
    BY <1>1, <1>2, <2>1 DEF Fits, Placed, Progress
<1>5. FirstRun(x)'
  BY <1>1, <1>2 DEF Fits, Placed, FirstRun, Untouched, Unseen
<1> QED
  BY <1>3, <1>4, <1>5 DEF Fits

LEMMA DeliveredFits ==
  ASSUME IInv, NEW x \in Occurrences, Delivered(x)
  PROVE  Fits(x)' /\ \A y \in Occurrences \ {x} : Stays(y)
<1> USE DEF IInv, TypeOK, Running, Awaits, Next_
<1>1. /\ worker[x].place = "await" /\ Request(x) \notin flying /\ worker[x].next \in Targets
      /\ worker'[x] = [place |-> "before", next |-> worker[x].next + 1]
      /\ UNCHANGED <<action, attempts, shown, flying>>
  BY DEF Delivered, Fits, Placed
<1>2. \A y \in Occurrences \ {x} : Stays(y)
  BY DEF Delivered, Stays
<1>3. Placed(x)'
  BY <1>1 DEF Fits, Placed
<1>4. \A n \in 1 .. worker[x].next : Named(x, n) \in shown
  BY <1>1, BroadcastAssumption DEF Fits, Progress, Targets
<1>5. Progress(x)' /\ FirstRun(x)'
  <2>1. \A n : Named(x, n)' = Named(x, n)
    BY <1>1 DEF Named
  <2> QED
    BY <1>1, <1>4, <2>1, BroadcastAssumption DEF Progress, Fits, Placed, FirstRun, Targets
<1> QED
  BY <1>2, <1>3, <1>5 DEF Fits

LEMMA ShowsFits ==
  ASSUME IInv, NEW request \in flying, Shows(request), NEW x \in Occurrences
  PROVE  Fits(x)'
<1> USE DEF IInv, Running, Awaits, Next_
<1>1. /\ UNCHANGED <<action, worker, attempts>> /\ flying' = flying \ {request}
      /\ shown' = shown \cup {request.message}
  BY DEF Shows
<1>2. CASE request.message.occurrence # x
  BY <1>1, <1>2, OthersFit DEF Stays
<1>3. CASE request.message.occurrence = x
  <2>1. attempts[x] # 0
    BY <1>3 DEF Fits, FirstRun, Untouched
  <2>2. Placed(x)'
    BY <1>1 DEF Fits, Placed
  <2>3. Request(x)' = Request(x)
    BY <1>1 DEF Request, Message, RequestId
  <2>4. Awaits(x) => Request(x).message = Named(x, Next_(x))
    BY DEF Request, Message, RequestId, Named
  <2>5. \A n : Named(x, n)' = Named(x, n)
    BY <1>1 DEF Named
  <2>8. Progress(x)'
    BY <1>1, <2>3, <2>4, <2>5 DEF Fits, Progress
  <2>6. ~Untouched(x)
    BY <1>3 DEF Untouched
  <2>7. FirstRun(x)'
    BY <1>1, <1>3, <2>1, <2>3, <2>6 DEF Fits, FirstRun
  <2> QED
    BY <2>2, <2>7, <2>8 DEF Fits
<1> QED
  BY <1>2, <1>3

LEMMA FitsNext == IInv /\ [Next]_vars => \A x \in Occurrences : Fits(x)'
<1> SUFFICES ASSUME IInv, [Next]_vars, NEW y \in Occurrences PROVE Fits(y)'
  OBVIOUS
<1>1. Fits(y)
  BY DEF IInv
<1>2. ASSUME NEW x \in Occurrences,
             Confirm(x) \/ Cancel(x) \/ Start(x) \/ RetryUnknown(x) \/ Refuse(x)
               \/ Deliver(x)
      PROVE  Fits(y)'
  <2>1. Fits(x)' /\ \A z \in Occurrences \ {x} : Stays(z)
    BY <1>2, KernelFits, EndsFit, SendFits, DeliveredFits DEF Deliver, Ends
  <2> QED
    BY <1>1, <2>1, OthersFit
<1>3. ASSUME NEW o \in Owners, Dispatch(o)
      PROVE  Fits(y)'
  <2>1. PICK x \in Occurrences, t \in 1 .. MaxTokens :
          due[o].occurrence = x /\ due[o].token = t
    BY <1>3 DEF Dispatch, IInv, TypeOK, Claims
  <2>2. UNCHANGED <<worker, attempts, flying, shown>>
    BY <1>3 DEF Dispatch
  <2>3. CASE action[y].status = "absent"
    <3>1. action'[y] = action[y] \/ action'[y] = [status |-> "pending", id |-> t, result |-> "none"]
      BY <1>3, <2>1, <2>3 DEF Dispatch, Row, IInv, TypeOK
    <3>2. CASE action'[y] = action[y]
      BY <1>1, <2>2, <3>2, OthersFit DEF Stays
    <3>3. CASE action'[y] = [status |-> "pending", id |-> t, result |-> "none"]
      <4>1. worker[y].place = "none" /\ attempts[y] = 0
        BY <1>1, <2>3 DEF Fits, Placed
      <4> QED
        BY <1>1, <2>2, <3>3, <4>1
        DEF Fits, Placed, Progress, FirstRun, Running, Awaits, Untouched, Unseen
    <3> QED
      BY <3>1, <3>2, <3>3
  <2>4. CASE action[y].status # "absent"
    <3>1. action'[y] = action[y]
      BY <1>3, <2>1, <2>4 DEF Dispatch, Row, IInv, TypeOK
    <3> QED
      BY <1>1, <2>2, <3>1, OthersFit DEF Stays
  <2> QED
    BY <2>3, <2>4
<1>4. CASE \/ LeaseExpires \/ Restart \/ UNCHANGED vars
           \/ \E o \in Owners, x \in Occurrences : ClaimLease(o, x)
           \/ \E x \in Occurrences : Abandon(x)
  <2>1. /\ UNCHANGED <<action, attempts, flying, shown>>
        /\ worker'[y] = worker[y] \/ worker'[y] = NoRun
    BY <1>4 DEF LeaseExpires, Restart, vars, ClaimLease, Abandon, IInv, TypeOK
  <2> QED
    BY <1>1, <2>1, Stopped
<1>5. ASSUME NEW request \in flying, Shows(request)
      PROVE  Fits(y)'
  BY <1>5, ShowsFits
<1> QED
  BY <1>2, <1>3, <1>4, <1>5 DEF Next, Schedule

LEMMA InitIInv == Init => IInv
<1> SUFFICES ASSUME Init PROVE IInv
  OBVIOUS
<1>1. TypeOK
  BY BroadcastAssumption DEF Init, TypeOK, Actions, Statuses, NoAction, Runs, NoRun
<1>2. OneName
  BY DEF Init, OneName
<1>3. \A x \in Occurrences : Fits(x)
  BY DEF Init, NoRun, NoAction, Fits, Placed, Progress, FirstRun, Running, Awaits, Untouched, Unseen
<1> QED
  BY <1>1, <1>2, <1>3 DEF IInv

LEMMA Invariance == Spec => []IInv
<1>1. IInv /\ [Next]_vars => IInv'
  BY TypeNext, OneNameNext, FitsNext DEF IInv
<1> QED
  BY InitIInv, <1>1, PTL DEF Spec

-----------------------------------------------------------------------------
(* A broadcast is a write.                                                 *)

Run(x) == IF attempts[x] = 0 THEN "none" ELSE "confirmed"
Applied(x) == ShownTo(x) = Targets

\* What ActionLedger sees of broadcast x, apart from its approval, is as it was.
SameRun(x) ==
  Run(x)' = Run(x) /\ Applied(x)' = Applied(x) /\ VerdictOf(x)' = VerdictOf(x)
Approval(x) == ApprovalOf(action[x].status)
Same(x) == Approval(x)' = Approval(x) /\ SameRun(x)

LEMMA LedgerStutters ==
  ASSUME \A x \in Occurrences : Same(x)
  PROVE  UNCHANGED Ledger!vars
BY DEF Ledger!vars, Approval, Same, SameRun, Run, Applied, VerdictOf

LEMMA LedgerDecides ==
  ASSUME NEW x \in Occurrences, \A y \in Occurrences \ {x} : Same(y), SameRun(x),
         NEW from, NEW to, Approval(x) = from, Approval(x)' = to
  PROVE  Ledger!Decide(x, from, to)
BY DEF Ledger!Decide, Approval, Same, SameRun, Run, Applied, VerdictOf

LEMMA LedgerBegins ==
  ASSUME NEW x \in Occurrences, \A y \in Occurrences \ {x} : Same(y),
         UNCHANGED <<action, shown>>, action[x].status = "executing",
         Run(x) = "none", Run(x)' = "confirmed"
  PROVE  Ledger!Begin(x)
BY DEF Ledger!Begin, Approval, ApprovalOf, Same, SameRun, Run, Applied,
       VerdictOf, ShownTo

LEMMA LedgerTakesEffect ==
  ASSUME NEW x \in Occurrences, \A y \in Occurrences \ {x} : Same(y),
         UNCHANGED <<action, attempts>>, Run(x) # "none", Applied(x)'
  PROVE  Ledger!TakeEffect(x)
BY DEF Ledger!TakeEffect, Approval, Same, SameRun, Run, Applied, VerdictOf

LEMMA LedgerConcludes ==
  ASSUME NEW x \in Occurrences, \A y \in Occurrences \ {x} : Same(y),
         UNCHANGED <<attempts, shown>>, Approval(x)' = Approval(x),
         Run(x) # "none", VerdictOf(x) = "none",
         VerdictOf(x)' \in {"succeeded", "failed", "unknown"},
         VerdictOf(x)' = "succeeded" => Applied(x)
  PROVE  Ledger!Conclude(x)
BY DEF Ledger!Conclude, Ledger!Verdicts, Approval, Same, SameRun, Run, Applied, VerdictOf,
       ShownTo

LEMMA LedgerRetries ==
  ASSUME NEW x \in Occurrences, \A y \in Occurrences \ {x} : Same(y),
         UNCHANGED <<attempts, shown>>, Approval(x)' = Approval(x),
         Run(x) = "confirmed", VerdictOf(x) = "unknown", VerdictOf(x)' = "none"
  PROVE  Ledger!Retry(x)
BY DEF Ledger!Retry, Approval, Same, SameRun, Run, Applied, VerdictOf, ShownTo

\* Messages of other broadcasts do not count.
LEMMA OthersSame ==
  ASSUME NEW x \in Occurrences, Stays(x)
  PROVE  Same(x)
BY DEF Stays, Approval, Same, SameRun, Run, Applied, VerdictOf, ShownTo

\* When a run comes to its end, every target has been shown its message.
LEMMA AllShown ==
  ASSUME IInv, NEW x \in Occurrences, AllDelivered(x)
  PROVE  Applied(x)
<1>1. \A n \in Targets : Named(x, n) \in shown
  BY BroadcastAssumption
  DEF IInv, Fits, Progress, Running, AllDelivered, TypeOK, Runs, Next_, Targets
<1>2. ShownTo(x) \subseteq Targets
  BY DEF ShownTo, IInv, TypeOK, Messages
<1>3. ASSUME NEW n \in Targets
      PROVE  n \in ShownTo(x)
  <2>1. /\ Named(x, n).occurrence = x /\ Named(x, n).target = n
        /\ Named(x, n) \in shown
    BY <1>1 DEF Named
  <2>2. Named(x, n) \in {m \in shown : m.occurrence = x}
    BY <2>1
  <2> QED
    BY <2>1, <2>2 DEF ShownTo
<1> QED
  BY <1>2, <1>3 DEF Applied

LEMMA RunMaps ==
  ASSUME IInv, NEW x \in Occurrences,
         Confirm(x) \/ Cancel(x) \/ Start(x) \/ RetryUnknown(x) \/ Refuse(x)
           \/ Deliver(x)
  PROVE  [Ledger!Next]_(Ledger!vars)
<1> USE DEF Ledger!Next
<1>1. \A y \in Occurrences \ {x} : Same(y)
  BY OthersSame, KernelFits, EndsFit, SendFits, DeliveredFits DEF Deliver, Ends
<1>2. /\ Placed(x) /\ attempts[x] \in Nat /\ TypeOK
      /\ action \in [Occurrences -> Actions] /\ action[x] \in Actions
  BY DEF IInv, Fits, TypeOK
<1>3. CASE Confirm(x) \/ Cancel(x)
  <2>1. /\ action[x].status = "pending" /\ UNCHANGED <<attempts, shown>>
        /\ action'[x].status = "executing" \/ action'[x].status = "cancelled"
    BY <1>2, <1>3 DEF Confirm, Cancel, Claim, Actions
  <2>2. SameRun(x)
    BY <2>1 DEF SameRun, Run, Applied, VerdictOf, ShownTo
  <2>3. /\ Approval(x) = "asked"
        /\ Approval(x)' = "granted" \/ Approval(x)' = "refused"
    BY <2>1 DEF Approval, ApprovalOf
  <2> QED
    BY <1>1, <2>2, <2>3, LedgerDecides DEF Ledger!Grant, Ledger!Refuse
<1>4. CASE Start(x)
  <2>1. /\ action[x].status = "executing" /\ UNCHANGED <<action, shown>>
        /\ attempts'[x] = attempts[x] + 1
    BY <1>2, <1>4 DEF Start, Placed, IInv, TypeOK
  <2>2. CASE attempts[x] = 0
    BY <1>1, <2>1, <2>2, LedgerBegins DEF Run
  <2>3. CASE attempts[x] # 0
    <3>1. Same(x)
      BY <1>2, <2>1, <2>3 DEF Approval, Same, SameRun, Run, Applied, VerdictOf, ShownTo
    <3> QED
      BY <1>1, <3>1, LedgerStutters
  <2> QED
    BY <2>2, <2>3
<1>5. CASE RetryUnknown(x)
  <2>1. /\ action[x].status = "unknown" /\ action'[x].status = "executing"
        /\ attempts[x] > 0 /\ UNCHANGED <<attempts, shown>>
    BY <1>2, <1>5 DEF RetryUnknown, Claim, Placed, Actions
  <2>2. Approval(x)' = Approval(x)
    BY <2>1 DEF Approval, ApprovalOf
  <2> QED
    BY <1>1, <1>2, <2>1, <2>2, LedgerRetries DEF Run, VerdictOf
<1>6. CASE Send(x) \/ Delivered(x)
  <2>1. UNCHANGED <<action, attempts, shown>>
    BY <1>6 DEF Send, Delivered
  <2> QED
    BY <2>1, LedgerStutters DEF Approval, Same, SameRun, Run, Applied, VerdictOf, ShownTo
<1>7. CASE Ends(x)
  <2>1. /\ action[x].status = "executing" /\ attempts[x] > 0
        /\ UNCHANGED <<attempts, shown>>
        /\ action'[x].status \in {"succeeded", "failed", "unknown"}
        /\ action'[x].status = "succeeded" => AllDelivered(x)
    BY <1>2, <1>7, Ended DEF Placed, Running
  <2>2. Approval(x)' = Approval(x)
    BY <2>1 DEF Approval, ApprovalOf
  <2> QED
    BY <1>1, <1>2, <2>1, <2>2, AllShown, LedgerConcludes DEF Run, VerdictOf
<1>8. CASE Refuse(x)
  <2>1. /\ action[x].status = "executing" /\ UNCHANGED <<attempts, shown>>
        /\ action'[x].status = "failed"
    BY <1>2, <1>8, Refused DEF Placed
  <2>2. Approval(x)' = Approval(x)
    BY <2>1 DEF Approval, ApprovalOf
  <2>3. CASE attempts[x] = 0
    <3>1. Same(x)
      BY <2>1, <2>2, <2>3 DEF Same, SameRun, Run, Applied, VerdictOf, ShownTo
    <3> QED
      BY <1>1, <3>1, LedgerStutters
  <2>4. CASE attempts[x] # 0
    BY <1>1, <1>2, <2>1, <2>2, <2>4, LedgerConcludes DEF Run, VerdictOf
  <2> QED
    BY <2>3, <2>4
<1> QED
  BY <1>3, <1>4, <1>5, <1>6, <1>7, <1>8 DEF Deliver, Ends

LEMMA ShowsMaps ==
  ASSUME IInv, NEW request \in flying, Shows(request)
  PROVE  [Ledger!Next]_(Ledger!vars)
<1> DEFINE x == request.message.occurrence
<1>1. x \in Occurrences
  BY DEF IInv, TypeOK, Requests, Messages
<1>2. UNCHANGED <<action, attempts>> /\ \A y \in Occurrences \ {x} : Stays(y)
  BY DEF Shows, Stays
<1>3. Run(x) # "none"
  BY <1>1 DEF IInv, Fits, FirstRun, Untouched, Run
<1>4. CASE Applied(x)'
  <2>1. Ledger!TakeEffect(x)
    BY <1>1, <1>2, <1>3, <1>4, OthersSame, LedgerTakesEffect
  <2> QED
    BY <1>1, <2>1 DEF Ledger!Next
<1>5. CASE ~Applied(x)'
  <2>1. ShownTo(x) \subseteq ShownTo(x)' /\ ShownTo(x)' \subseteq Targets
    BY TypeNext DEF Shows, ShownTo, TypeOK, Messages, Next
  <2>2. Applied(x)' = Applied(x)
    BY <1>5, <2>1 DEF Applied
  <2>3. Same(x)
    BY <1>2, <2>2 DEF Approval, Same, SameRun, Run, VerdictOf
  <2> QED
    BY <1>2, <2>3, OthersSame, LedgerStutters
<1> QED
  BY <1>4, <1>5

LEMMA NextMaps == IInv /\ [Next]_vars => [Ledger!Next]_(Ledger!vars)
<1> SUFFICES ASSUME IInv, [Next]_vars PROVE [Ledger!Next]_(Ledger!vars)
  OBVIOUS
<1>1. ASSUME NEW o \in Owners, Dispatch(o)
      PROVE  [Ledger!Next]_(Ledger!vars)
  <2>1. PICK x \in Occurrences, t \in 1 .. MaxTokens :
          due[o].occurrence = x /\ due[o].token = t
    BY <1>1 DEF Dispatch, IInv, TypeOK, Claims
  <2>2. /\ UNCHANGED <<attempts, shown>>
        /\ action' = [action EXCEPT ![x] = Row(x, t)]
        /\ action \in [Occurrences -> Actions]
    BY <1>1, <2>1 DEF Dispatch, IInv, TypeOK
  <2>3. \A y \in Occurrences \ {x} : Same(y)
    BY <2>2 DEF Approval, Same, SameRun, Run, Applied, VerdictOf, ShownTo
  <2>4. CASE action[x].status = "absent"
    <3>1. action'[x].status = "pending"
      BY <2>2, <2>4 DEF Row
    <3>2. SameRun(x)
      BY <2>2, <2>4, <3>1 DEF SameRun, Run, Applied, VerdictOf, ShownTo
    <3>3. Approval(x) = "none" /\ Approval(x)' = "asked"
      BY <2>4, <3>1 DEF Approval, ApprovalOf
    <3>4. Ledger!Ask(x)
      BY <2>3, <3>2, <3>3, LedgerDecides DEF Ledger!Ask
    <3> QED
      BY <3>4 DEF Ledger!Next
  <2>5. CASE action[x].status # "absent"
    <3>1. UNCHANGED action
      BY <2>2, <2>5 DEF Row
    <3> QED
      BY <2>2, <3>1, LedgerStutters DEF Approval, Same, SameRun, Run, Applied, VerdictOf, ShownTo
  <2> QED
    BY <2>4, <2>5
<1>2. CASE \/ LeaseExpires \/ Restart \/ UNCHANGED vars
           \/ \E o \in Owners, x \in Occurrences : ClaimLease(o, x)
           \/ \E x \in Occurrences : Abandon(x)
  <2>1. UNCHANGED <<action, attempts, shown>>
    BY <1>2 DEF LeaseExpires, Restart, vars, ClaimLease, Abandon
  <2> QED
    BY <2>1, LedgerStutters DEF Approval, Same, SameRun, Run, Applied, VerdictOf, ShownTo
<1> QED
  BY <1>1, <1>2, RunMaps, ShowsMaps DEF Next, Schedule

LEMMA InitMaps == Init => Ledger!Init
<1> SUFFICES ASSUME Init PROVE Ledger!Init
  OBVIOUS
<1>1. \A x \in Occurrences : ShownTo(x) # Targets
  BY BroadcastAssumption DEF Init, ShownTo, Targets
<1> QED
  BY <1>1 DEF Init, NoAction, Ledger!Init, ApprovalOf, VerdictOf

-----------------------------------------------------------------------------
(* The theorems.                                                           *)

\* For any set of occurrences and number of owners, targets and runs, the lease,
\* the actions, the runs of deliver_many and the messages keep their shape.
THEOREM TypeCorrect == Spec => []TypeOK
<1>1. IInv => TypeOK
  BY DEF IInv
<1> QED
  BY <1>1, Invariance, PTL

\* However many schedulers trigger an occurrence, stale ones among them, its key
\* gets one action for good, and the names deliver_many derives from that action
\* make every target see it once, however often it is retried and delivered late.
THEOREM TargetsSeeItOnce == Spec => []OncePerTarget
<1>1. IInv => OncePerTarget
  BY DEF IInv, OneName, OncePerTarget, TypeOK, Messages
<1> QED
  BY <1>1, Invariance, PTL

\* For any number of targets: a failure of a first run that is recorded as
\* deliver_many reported it has reached nobody and is not on its way, refusals and
\* results that could not be saved left aside.
THEOREM FailureIsTrue == Spec => []FailureReachedNobody
<1>1. IInv => FailureReachedNobody
  BY DEF IInv, Fits, FirstRun, Untouched, Unseen, FailureReachedNobody, ShownTo
<1> QED
  BY <1>1, Invariance, PTL

\* A broadcast of any number of targets, with what its action records, refusals
\* and results that could not be saved included, keeps the promise that the kernel
\* makes of a write.
THEOREM BroadcastIsAWrite == Spec => KeepsLedger
<1>1. IInv /\ [Next]_vars => [Ledger!Next]_(Ledger!vars)
  BY NextMaps
<1> QED
  BY <1>1, InitMaps, Invariance, PTL DEF Spec, KeepsLedger, Ledger!Spec
=============================================================================
