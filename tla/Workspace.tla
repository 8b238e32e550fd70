------------------------------- MODULE Workspace -------------------------------
(***************************************************************************)
(* The writes of the calendar, task, reminder and document modules, from   *)
(* the claimed action to the requests FeishuWorkspaceProvider sends to     *)
(* Feishu, their answers, and what ActionService does with an unknown one. *)
(*                                                                         *)
(* Every write is one idempotency key: the kernel runs its handler once at *)
(* a time (ActionKernel).  Retries are those of a confirmed action; with   *)
(* confirm_all_writes any write is one.                                    *)
(*                                                                         *)
(* Feishu is external.  It applies the requests of one idempotency key     *)
(* once, takes an attendee who is there already as added, and may apply a  *)
(* request after its sender has given up.                                  *)
(***************************************************************************)
EXTENDS KernelPolicy, Sequences

CONSTANTS
  Writes,       \* claimed actions
  Asked,        \* what the writes may ask for
  Principals,   \* who asks
  MaxAttempts,  \* bound: runs of one write
  None

Calendar == {"calendar.create", "calendar.update", "calendar.delete"}
Task == {"task.create", "task.update", "task.delete", "reminder.create"}
Document == {"document.create", "document.update", "document.delete"}
Creates == {"calendar.create", "task.create", "reminder.create", "document.create"}

\* `option` stands for the argument that changes what is sent: the attendees of
\* a new event, the calendar_id of a deletion, the content of a new document,
\* mode "replace" of an update.
Asks == [operation: Calendar \cup Task \cup Document, option: BOOLEAN]

ASSUME WorkspaceAssumption == Asked \subseteq Asks /\ MaxAttempts \in Nat \ {0}

VARIABLES
  ask,      \* what each write asks for
  by,       \* its principal
  binding,  \* "oauth", or the principal FEISHU_USER_ACCESS_TOKEN belongs to
  calendar, \* a calendar id is configured
  action,   \* what the row of each write's action says
  worker,   \* where the run of each write is, and at which request
  attempts, \* how often each write has been run
  token,    \* the context variable feishu_access_token in each write's task
  flying,   \* requests Feishu has not looked at yet
  applied   \* changes Feishu has made, and with whose token

setting == <<ask, by, binding, calendar>>
vars == <<setting, action, worker, attempts, token, flying, applied>>

-----------------------------------------------------------------------------
(* The requests of a write, in order.                                      *)

Optionally(condition, request) == IF condition THEN <<request>> ELSE <<>>

\* Without a configured or given calendar id the primary one is looked up.
Lookup(a) ==
  Optionally(~calendar /\ ~(a.operation = "calendar.delete" /\ a.option), "lookup")

CreateEvent(a) == <<"keyed">> \o Optionally(a.option, "attendees")

ChangeEvent == <<"keyed">>

\* A reminder is a task with a due time.
TaskRequests == <<"keyed">>

DocumentRequests(a) ==
  IF a.operation = "document.update" THEN <<"append">>
  ELSE <<"keyed">> \o Optionally(a.operation = "document.create" /\ a.option, "append")

Requests(a) ==
  CASE a.operation = "calendar.create" -> Lookup(a) \o CreateEvent(a)
    [] a.operation \in Calendar \ Creates -> Lookup(a) \o ChangeEvent
    [] a.operation \in Document -> DocumentRequests(a)
    [] OTHER -> TaskRequests

\* Feishu documents cannot be replaced: nothing is sent.
Unsupported(a) == a.operation = "document.update" /\ a.option

Policy(a) ==
  IF a.operation \in Calendar THEN "reconcile_then_retry" ELSE "retry_idempotent"

Places == {"none", "claimed", "before", "await", "query"}
Runs == [place: Places, at: 1 .. 4]
NoRun == [place |-> "none", at |-> 1]

\* The result stored with the status names a resource, or not; and it is what the
\* handler reported, or the kernel's own word.
Actions ==
  [status: {"executing", "succeeded", "failed", "unknown"}, resource: BOOLEAN,
   reported: BOOLEAN]
Claimed == [status |-> "executing", resource |-> FALSE, reported |-> FALSE]

Parts == {"lookup", "keyed", "attendees", "append"}

\* Two changes are the same to Feishu when they have the same id.
Changes ==
  [write: Writes, part: Parts, id: 0 .. MaxAttempts, token: Principals]
Sendings == [change: Changes, attempt: 1 .. MaxAttempts]

Init ==
  /\ ask \in [Writes -> Asked]
  /\ by \in [Writes -> Principals]
  /\ binding \in {"oauth"} \cup Principals
  /\ calendar \in BOOLEAN
  /\ action = [w \in Writes |-> Claimed]
  /\ worker = [w \in Writes |-> [place |-> "claimed", at |-> 1]]
  /\ attempts = [w \in Writes |-> 0]
  /\ token = [w \in Writes |-> None]
  /\ flying = {}
  /\ applied = {}

-----------------------------------------------------------------------------
(* One run of the handler.                                                 *)

Part(w) == Requests(ask[w])[worker[w].at]
Finished(w) == worker[w].at > Len(Requests(ask[w]))
Place(w, place) == worker' = [worker EXCEPT ![w].place = place]

Ends(w, row) ==
  /\ action' = [action EXCEPT ![w] = row]
  /\ worker' = [worker EXCEPT ![w] = NoRun]

\* What _execute_claimed makes of any exception: a run that came to no handler.
NotRun ==
  [status |-> ActionStatusFor(TRUE, "not_run"), resource |-> FALSE, reported |-> FALSE]

\* The kernel makes the outcome the status of the action; the result carries a
\* resource id only if it is a success with one.  When saving the outcome in the
\* execution raises, or auditing the end, it is lost.
Report(w, outcome, resource) ==
  \/ Ends(w, [status |-> ActionStatusFor(TRUE, outcome), resource |-> resource,
              reported |-> TRUE])
  \/ Ends(w, NotRun)

Settle(w, outcome, resource) ==
  Report(w, outcome, resource) /\ UNCHANGED <<setting, attempts, token, applied>>

\* The claimed run does not come to its handler: versions or digest do not match,
\* authorization is denied, or reserving or auditing the run raises.
Refuse(w) ==
  /\ worker[w].place = "claimed"
  /\ Ends(w, NotRun)
  /\ UNCHANGED <<setting, attempts, token, flying, applied>>

\* The task is cancelled, its process ends, or the last save of the action raises.
Abandon(w) ==
  /\ worker[w].place # "none"
  /\ worker' = [worker EXCEPT ![w] = NoRun]
  /\ UNCHANGED <<setting, action, attempts, token, flying, applied>>

\* Faulty: the provider keeps one token for all.
FaultyActiveToken(w) == [v \in Writes |-> by[w]]

ActiveToken(w) == [token EXCEPT ![w] = by[w]]

Bound(w) == binding \in {"oauth", by[w]}

\* _check_principal, and the refusal to replace a document.
Start(w) ==
  /\ worker[w].place = "claimed" /\ Bound(w)
  /\ attempts' = [attempts EXCEPT ![w] = @ + 1]
  /\ token' = ActiveToken(w)
  /\ IF Unsupported(ask[w])
     THEN Report(w, "failure", FALSE)
     ELSE /\ worker' = [worker EXCEPT ![w] = [place |-> "before", at |-> 1]]
          /\ UNCHANGED action
  /\ UNCHANGED <<setting, flying, applied>>

\* No token for this principal: it is not the bound one, has not authorized the
\* application, or the token cannot be refreshed.
NoToken(w) ==
  /\ worker[w].place = "claimed"
  /\ binding \in Principals => ~Bound(w)
  /\ Report(w, "not_sent", FALSE)
  /\ attempts' = [attempts EXCEPT ![w] = @ + 1]
  /\ UNCHANGED <<setting, token, flying, applied>>

\* Faulty: a new key for every attempt.
FaultyRequestKey(w) == attempts[w]

\* A request has the write's key, which its retries repeat; a text to append
\* has none, and an attendee is added once anyway.
RequestKey(w) == IF Part(w) = "append" THEN attempts[w] ELSE 0

Change(w) ==
  [write |-> w, part |-> Part(w), id |-> RequestKey(w), token |-> token[w]]
Sending(w) == [change |-> Change(w), attempt |-> attempts[w]]

Before(w) == worker[w].place = "before" /\ ~Finished(w)
Awaits(w) == worker[w].place = "await"

\* The calendar is looked up: a read, which fails without having changed
\* anything, by this request at least.
LookUp(w) ==
  /\ Before(w) /\ Part(w) = "lookup"
  /\ \/ /\ worker' = [worker EXCEPT ![w].at = @ + 1]
        /\ UNCHANGED <<setting, action, attempts, token, applied>>
     \/ \E outcome \in {"not_sent", "rejected"} : Settle(w, outcome, FALSE)
  /\ UNCHANGED flying

\* ConnectError, ConnectTimeout.
NotSent(w) ==
  /\ Before(w) /\ Part(w) # "lookup"
  /\ Settle(w, "not_sent", FALSE) /\ UNCHANGED flying

Send(w) ==
  /\ Before(w) /\ Part(w) # "lookup"
  /\ flying' = flying \cup {Sending(w)}
  /\ Place(w, "await")
  /\ UNCHANGED <<setting, action, attempts, token, applied>>

\* Faulty: attendees are invited only if that works.
FaultyRefused(w) ==
  /\ Awaits(w) /\ Sending(w) \in flying
  /\ flying' = flying \ {Sending(w)}
  /\ IF Part(w) = "attendees" THEN Settle(w, "success", TRUE)
                              ELSE Settle(w, "rejected", FALSE)

\* A code other than 0 or an error status: Feishu has refused.
Refused(w) ==
  /\ Awaits(w) /\ Sending(w) \in flying
  /\ flying' = flying \ {Sending(w)}
  /\ Settle(w, "rejected", FALSE)

\* Faulty: what is not answered in time has not been sent.
FaultyAnswerLost(w) == Awaits(w) /\ Settle(w, "not_sent", FALSE) /\ UNCHANGED flying

\* ReadTimeout, RemoteProtocolError or a body that is no JSON.
AnswerLost(w) == Awaits(w) /\ Settle(w, "lost", FALSE) /\ UNCHANGED flying

\* The kernel's timeout, or an exception _request does not foresee.
GivenUp(w) ==
  /\ worker[w].place = "claimed" \/ Before(w) \/ Awaits(w)
  /\ \E outcome \in {"timeout", "raised"} : Settle(w, outcome, FALSE)
  /\ UNCHANGED flying

\* The answer to a creation may lack the id of what was created: the run then
\* ends here, successfully, without its second request.
Answered(w) ==
  /\ Awaits(w) /\ Sending(w) \notin flying
  /\ \/ /\ worker' = [worker EXCEPT ![w] = [place |-> "before", at |-> @.at + 1]]
        /\ UNCHANGED <<setting, action, attempts, token, applied>>
     \/ /\ ask[w].operation \in Creates /\ Part(w) = "keyed"
        /\ Settle(w, "success", FALSE)
  /\ UNCHANGED flying

Succeed(w) ==
  /\ worker[w].place = "before" /\ Finished(w)
  /\ Settle(w, "success", TRUE) /\ UNCHANGED flying

-----------------------------------------------------------------------------
(* An unknown outcome.                                                     *)

Unknown(w) == action[w].status = "unknown" /\ worker[w].place = "none"

Claim(w) ==
  /\ attempts[w] < MaxAttempts
  /\ action' = [action EXCEPT ![w].status = "executing"]
  /\ worker' = [worker EXCEPT ![w] = [place |-> "claimed", at |-> 1]]

RetryUnknown(w) ==
  /\ Unknown(w) /\ Policy(ask[w]) = "retry_idempotent"
  /\ Claim(w)
  /\ UNCHANGED <<setting, attempts, token, flying, applied>>

\* reconcile, asked for by itself or before a retry.
Reconcile(w) ==
  /\ Unknown(w) /\ Policy(ask[w]) = "reconcile_then_retry"
  /\ Place(w, "query")
  /\ UNCHANGED <<setting, action, attempts, token, flying, applied>>

\* Faulty: what was found is stored for the status.
FaultyFound(w) ==
  /\ worker[w].place = "query" /\ ask[w].operation \notin Creates /\ Bound(w)
  /\ token' = ActiveToken(w)
  /\ Ends(w, [status |-> "exists", resource |-> FALSE, reported |-> FALSE])
  /\ UNCHANGED <<setting, attempts, flying, applied>>

\* The event is asked for by its id.  That it is there, and that it is not, are
\* answers, and both are a success without a resource id.
Found(w) ==
  /\ worker[w].place = "query" /\ ask[w].operation \notin Creates /\ Bound(w)
  /\ token' = ActiveToken(w)
  /\ Ends(w, [status |-> "succeeded", resource |-> FALSE, reported |-> FALSE])
  /\ UNCHANGED <<setting, attempts, flying, applied>>

\* A creation has no id to ask for, or the question is not answered.  Then a
\* retry goes on.
NotFound(w) ==
  /\ worker[w].place = "query"
  /\ \/ Claim(w)
     \/ worker' = [worker EXCEPT ![w] = NoRun] /\ UNCHANGED action
  /\ UNCHANGED <<setting, attempts, token, flying, applied>>

-----------------------------------------------------------------------------
Applies(sending) ==
  /\ flying' = flying \ {sending}
  /\ applied' = applied \cup {sending.change}
  /\ UNCHANGED <<setting, action, worker, attempts, token>>

Run(w) ==
  \/ Start(w) \/ NoToken(w) \/ LookUp(w) \/ NotSent(w) \/ Send(w) \/ Refused(w)
  \/ AnswerLost(w) \/ GivenUp(w) \/ Answered(w) \/ Succeed(w)
  \/ Refuse(w) \/ Abandon(w)

Resolve(w) == RetryUnknown(w) \/ Reconcile(w) \/ Found(w) \/ NotFound(w)

Next ==
  \/ \E w \in Writes : Run(w) \/ Resolve(w)
  \/ \E sending \in flying : Applies(sending)

Spec == Init /\ [][Next]_vars

-----------------------------------------------------------------------------
(* Properties.                                                             *)

\* The actions, the runs and the changes keep their shape.
TypeOK ==
  /\ ask \in [Writes -> Asked]
  /\ by \in [Writes -> Principals]
  /\ binding \in {"oauth"} \cup Principals
  /\ calendar \in BOOLEAN
  /\ action \in [Writes -> Actions]
  /\ worker \in [Writes -> Runs]
  /\ attempts \in [Writes -> 0 .. MaxAttempts]
  /\ token \in [Writes -> Principals \cup {None}]
  /\ flying \subseteq Sendings
  /\ applied \subseteq Changes

Done(w, part) == \E c \in applied : c.write = w /\ c.part = part
UnderWay(w, part) ==
  \E s \in flying : s.change.write = w /\ s.change.part = part
Sent(w) == {part \in Parts : Done(w, part) \/ UnderWay(w, part)}

\* Tasks of several principals send at the same time, over one provider object:
\* each writes with the token of its own principal.
WritesAsItsPrincipal ==
  /\ \A c \in applied : c.token = by[c.write]
  /\ \A s \in flying : s.change.token = by[s.change.write]

\* Retries and late requests of one write: its keyed change is made once.
KeyedOnce ==
  \A c, d \in applied :
    c.part = "keyed" /\ c.write = d.write /\ c.part = d.part => c = d

\* A write whose result names a resource has been done whole, with its
\* attendees or its content, in this run or, in parts, by an earlier one.
NamedIsWhole ==
  \A w \in Writes : action[w].resource =>
    \A i \in DOMAIN Requests(ask[w]) :
      Requests(ask[w])[i] # "lookup" => Done(w, Requests(ask[w])[i])

\* A write whose handler reports the failure of its first run leaves at most what
\* comes before its last request: nothing at all if it has only one.  A failure
\* that only says the run was not recorded, or was refused, is no such report.
FailureStopsShort ==
  \A w \in Writes :
    action[w].status = "failed" /\ action[w].reported /\ attempts[w] = 1 =>
      LET requests == Requests(ask[w]) IN requests[Len(requests)] \notin Sent(w)

\* UNKNOWN is retried only where the provider has a stable idempotency key: no
\* text is appended twice.
AppendedOnce ==
  \A c, d \in applied :
    c.part = "append" /\ c.write = d.write /\ c.part = d.part => c = d
=============================================================================
