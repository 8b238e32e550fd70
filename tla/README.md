# Song Agent in TLA+

Song Agent answers chat messages and API requests, and acts on a user's
behalf in Feishu: it creates calendar entries, deletes documents, broadcasts
messages. What it does is decided by an *intent* and carried out by that
intent's handler; dangerous intents become *actions*, which a user has to
confirm first. The modules here model the parts of the program that keep state
over time. Paths are relative to the repository; `src/song_agent/` is left out
where it is clear.

## 1. Inventory

| Component | Code | State | Operations | Module |
|---|---|---|---|---|
| Intent policy | `kernel/intent.py`, `runtime/risk.py`, `runtime/catalog.py` | none | risk, confirmation and resolution policies, result-to-status tables; namespaces | `KernelPolicy`, `Assembly` |
| Dispatcher | `runtime/dispatcher.py` | tables `executions`, `actions` | execute, confirmed execution, creation of actions | `ActionKernel` |
| Action service | `runtime/actions.py` | the same tables | confirm, cancel, reconcile, retry_unknown | `ActionKernel` |
| Feishu OAuth | `adapters/feishu_oauth.py` | tables `oauth_tokens`, `oauth_states`, one refresh lock per account | ensure_authorized, access_token, callback | `FeishuOAuth` |
| Feishu channel | `adapters/feishu_channel.py` | table `processed_events`, the futures of the long connection | handle (webhook), on_event (long connection), close_websocket, present | `FeishuIngress` |
| Coordinator | `runtime/coordinator.py` | one lock per conversation | lock_for | `FeishuIngress`, `Requests` |
| Scheduler | `runtime/scheduler.py` | table `scheduler_leases` | trigger_broadcast | `Broadcast` |
| Channel registry | `runtime/channels.py`, `modules/system_module.py` | presenters by channel | deliver_many | `Broadcast` |
| Agent | `runtime/agent.py` | none across requests | decision loop, child requests | `Requests` |
| Router, contexts | `runtime/router.py`, `runtime/context.py` | none | route, assemble | `Requests` |
| Workspace provider | `adapters/feishu_workspace.py`, `modules/workspace.py` | a token per task; remote: calendar, tasks, documents | writes, reconcile, queries | `Workspace` |
| Records | modules conversation, plan, memory, delivery | a table each | append, put, delete, get | `Requests` (conversation, plan) |
| Rate limiter | `adapters/rate_limit.py` | counts per key and minute | allow | `Requests` |
| HTTP API | `adapters/http_api.py` | none | authenticates, counts, hands requests on | `Requests`, and the module of the component behind each endpoint |
| Module assembly | `runtime/modules.py`, `runtime/catalog.py`, `runtime/providers.py`, `runtime/context.py` | catalogue, providers, context providers, lifecycle | assemble, start, close | `Assembly` |
| Application lifecycle | `app.py`, `bootstrap/v1.py` | the object graph | build, start, serve, close | `Assembly`, `Service` |
| Attachments | `adapters/attachments.py` | a directory and a table | save, resolve_path | no |
| Model, search, cipher, settings, migrations | `adapters/openai_llm.py`, `config.py`, ... | none over time | input and output, parsing | no |

**Interactions.** A Feishu event or a chat request goes through deduplication
and the conversation's lock to the router, which asks a model for an intent, and
to the dispatcher. Explicit API requests go to the dispatcher, and clicks to the
action service, without that lock. The dispatcher authorizes (which may refresh
an OAuth token), and then either creates an action, or reserves an execution,
runs the handler, and records the outcome. The action service calls back into
the dispatcher for what was confirmed. The scheduler dispatches like any other
source.

Everything runs in coroutines of one event loop, except the thread of Feishu's
long connection. Coroutines share SQLite tables through short transactions, and
interleave at every `await`; `FeishuOAuth` and the coordinator add in-process
locks. A process can stop at any of these points, and a remote service may
carry out what its caller has given up waiting for.

**What is hard, and what makes each component correct:**

- *Kernel*: a write must not run twice under one key, whatever mixture of
  requests, confirmations, retries and restarts meets there; a refused action
  must not run; what runs must be what was confirmed; and what the tables say
  of the outcome must be true of the provider, and stay.
- *OAuth*: refresh tokens are good for one exchange, so refreshes must not race;
  the credential of an account must have been granted by that account, however
  links are passed on; the recorded scopes must be real.
- *Ingress*: events arrive twice by two ways, but are worked on once; work in
  one conversation is serial; shutting down waits for what is under way, within
  limits, and lets nothing in behind its back.
- *Broadcast*: several schedulers, retries and late deliveries must not write to
  anyone twice; a partial delivery must not be taken for none.
- *Workspace*: one provider object writes for many principals at once, each with
  their own token; a write of several requests can stop between them, be late,
  or be repeated by a retry, and what its result says must still be so.
- *Requests*: an answer belongs to the conversation its author has seen, though
  a plan, a conversation and a count are used by many tasks; and every request
  ends, whatever the language model decides.
- *Assembly*: modules written apart and listed in any order start after, and
  close before, what they depend on; a wrong deployment does not start.

## 2. Modules

```
KernelPolicy <-- ActionKernel --refines--> ActionLedger <--refines-- Broadcast
     ^               ^                                          ^
 Workspace   ActionKernelProofs                          BroadcastProofs
     ^               ^
WorkspaceProofs  ActionLedgerProofs

FeishuOAuth <-- FeishuOAuthProofs        FeishuIngress <-- FeishuIngressProofs

Assembly <-- AssemblyProofs <--+
   ^                           |
Service <---------------- ServiceProofs
   v
Requests

MCActionKernel, MCFeishuOAuth, MCFeishuIngress, MCBroadcast, MCWorkspace,
MCService: instances for TLC
```

`Broadcast` extends `KernelPolicy` too.

### KernelPolicy

The pure decisions. `IntentSpecs` has the fields of `IntentSpec` the kernel
branches on; `Registrable` is what `IntentCatalog.register` demands of them.
A handler's result is one of `HandlerOutcomes`, which says how the handler
ended; `ExecutionStatusFor` and `ActionStatusFor` are the two
tables by which the dispatcher and the action service turn it into a status.
They differ: a clarification is SUCCEEDED for the execution and FAILED for the
action.

### ActionKernel

A *slot* is one (tenant, principal, intent, idempotency key): the unique
constraints of both tables allow it one action and one execution row. A *task*
is a coroutine serving one request. Every action of the module is one
transaction, or one stretch between awaits, of `IntentDispatcher` or
`ActionService`:

| Code | Actions |
|---|---|
| `IntentDispatcher.execute`, `_execute`, `_execute_confirmed` | `Execute`, `Authorize`, `CreateAction`, `Reserve`, `AnswerInProgress`, `Reopen`, `Start`, `HandlerEndsLocally`, `Send`, `Reply`, `FinishExecution`, `AuditFinished` |
| `ActionService.confirm`, `_execute_claimed`, `cancel` | `Confirm`, `ConfirmTooLate`, `Cancel`, `Settle` |
| `ActionService.reconcile`, `retry_unknown` | `Reconcile`, `RetryUnknown`, `Check`, `Query`, `ResolveAction`, `ResolveExecution`, `Reclaim` |
| exceptions, cancellation, process end | `Fails`, `CancelTask`, `Restart` |
| provider (external) | `ProviderApplies`, `ProviderRefuses` |

`out` carries the result a task returns, `calls` the provider's view of each
call: *flying* calls may be applied at any later time. The payload hash is the
record of what it covers: version and permissions, identity, arguments. A
restart may come with another version and another `confirm_all_writes`, not with
another kind of intent. A handler that has called the provider is truthful:
"success" follows an applied call, "rejected" a refused one, and everything
vague tells nothing. A *reconcile* handler is not: `Query` takes its answer
("found", "absent" or "silent") as it comes, whatever was applied, because the
handlers of the repository report success for an event that is there as for one
that is not (`feishu_workspace.py:179-196`), and `actions.py:124-135` then
settles both rows. Rows expire lazily: `TimePasses` makes an action overdue and
only `ConfirmTooLate` marks it.

### ActionLedger

The abstract promise about one write: it takes effect only within a run begun
for it; the run of an action begins only after it was granted; a refused action
is never run; success is recorded only of what took effect, and is final; only
an unknown verdict is looked into again. A verdict of its own, "reported", is
somebody else's word for a success: it promises no effect, and is taken only of a
confirmed run that was left unknown. `ActionKernel` implements it with the
action row as approval, the execution row as run and verdict, and the provider
as effect (`LedgerSpec`). `Broadcast` implements it too, with "took effect"
meaning that every target has its message (`KeepsLedger`).

### FeishuOAuth

Credentials are identified by the *grant* they came with: grants are numbered as
Feishu issues them, and a refresh token is the number of the grant it came with.
`spent` are the refresh tokens Feishu has exchanged, `stale` and `lapsed` the
access and refresh tokens whose time is over. `ahead` is the asyncio lock of the
accounts, which serves its waiters in the order they came in: `ahead[t]` are the
tasks that came before `t` to the lock of `t`'s account and have not left it; `t`
holds the lock when it is empty. `Look`, `Recheck`, `Refresh` and `Save`
are `_valid_credential`; `Issue` is `create_authorization_url`; `Callback` to
`Store` are the callback, whose code belongs to whoever logged in. A refresh
reply may rotate the refresh token or not, and repeat the scopes or not.

### FeishuIngress

`Webhook` is a delivery by HTTP, `OnEvent` one by the thread of the long
connection, which reads `_ws_accepting` and adds to `_ws_futures` under the same
lock that `close_websocket` takes. `Claim` inserts into `processed_events`.
Messages then fetch their content, wait at the conversation's lock, work, and
present the answer after the lock is released; the lock is modelled by `ahead`,
as in `FeishuOAuth`. `CloseWebsocket`, `CloseTimeout`
and `Closed` are the stages of closing the application. Cancelling a future ends
the wait for it and asks for its coroutine to be cancelled, no more: `Told` is the
delivery of the cancellation in the loop, after which the coroutine does nothing
but clean up, and `Unwind` the end of that (a rollback, the closing of a
connection), which may come after closing has returned. The wait of
`close_websocket` ends behind the requests to cancel, which were queued first.

### Broadcast

`ClaimLease` and `Dispatch` are the two halves of `trigger_broadcast`, between
which a process may be delayed for as long as it likes. The key of a trigger is
the job and the `isoformat()` of the instant as it was given
(`scheduler.py:65`), so that an *occurrence* is an instant in an offset: the
request id is in UTC (`scheduler.py:51`), the key is not, and one instant given
in two offsets makes two actions and two broadcasts. `Row` is the dispatcher,
which creates the action of a key or finds the one that is there. `Confirm`,
`Cancel`, `Refuse`, `Start`, `RetryUnknown`, `Settle` and `Abandon` are the
kernel, taken at what `ActionKernel` shows of it: one action per key, one run at
a time; a claimed run may be refused before its handler; `Settle` records what
the handler returned, or, if saving or auditing that raises, that the run never
came to its handler; and a task that is cancelled leaves its action as it is.
`deliver_many` visits the targets in order; a request in `flying` may be shown,
or refused, at any time, also after the run was given up. The messaging service
shows one message per request id, which is what Feishu does with the `uuid` that
`present` sends; the id is made of the id of the action, which is made up when
its row is made.

### Workspace

A write of the calendar, task, reminder or document module is a *sequence of
requests* (`Requests`): an event may need its calendar looked up and has its
attendees added afterwards; a document has its content appended. The run of a
write walks through its sequence: `Start` is `_check_principal`, which puts the
token of the principal into a context variable of the task; `Send`, `Refused`,
`AnswerLost`, `Answered` and `NotSent` are `_request` and its classification of
errors; `Settle` is `_provider_result` and the kernel's table, or, if recording
the result raises, `NotRun`, whatever has been sent; `Refuse` and `Abandon` are
as in `Broadcast`. `reported` tells a failure the handler reported from the other
two. `flying` requests
are applied whenever Feishu likes, also after their run was given up. Which
changes Feishu takes for the same is the `id` in them: the same for a request
with the write's idempotency key, a new one for one without. `RetryUnknown`,
`Reconcile`, `Found` and `NotFound` are the action service and the handlers'
`reconcile`. Writes begin as claimed actions; that one run of a write happens at
a time is what `ActionKernel` shows.

### Requests

A task serves a chat, which waits for its conversation (`EnterConversation`), is
routed in at most two attempts, and executes an intent; or an explicit intent,
which does neither. `Allow` counts it first. `conversation.respond` appends a
question and an answer in two transactions; messages carry what is needed to say
whether the answer was given in context (`basis`). `agent.execute` decides again
and again (`Conclude`, `CallTool`, `ToolFails`, `Done`), and calls the intents
of the plan module, as explicit requests do. Agent writes that need a
confirmation end its run (`AskToDelete`); the confirmed deletion happens at any
later time (`Deletes`), in the state the plan is in by then. The kernel's own
transactions are not repeated here. `GiveUp` is the timeout, a denial or an
exception: it cuts a request off at any point of its handling.

### Assembly and Service

`Assembly` is one process from `build_runtime` on: `Check` and `Order` are
`_topological_modules`, `Declare` and `Contribute` the two passes of `assemble`,
each of which may refuse the deployment. What a module contributes is its
intents, which have to lie in a namespace of the module they *say* they are of
(`catalog.py:54-64`; nobody asks whether it is the one that adds them), and the
names it registers: the id of an intent or a context provider, port and id of a
provider, and the port of a default one; no name is registered twice. Ids are
taken without surrounding blanks. Then resources are started and, at the end,
closed in the reverse order. `End` is a process that ends at any of these
points, for whatever reason. `Service` composes it with `Requests`: requests are
served while the process serves; a process that dies takes its tasks, locks and
counts with it, and leaves the tables (`Die`). The web server closes the
application only when its requests are through (`MayClose`, external).

## 3. Runs

Passing runs:

| Run | Shows | Bounds |
|---|---|---|
| `kernel_safety` | The ten safety properties of the kernel, among them that it implements `ActionLedger`. | 2 tasks, 1 slot, 3 identities (two of the owner, one stranger), 2 versions, 6 kinds of intent, 2 provider calls, 1 fault |
| `kernel_liveness` | Without faults, each claim is settled and each execution concluded (`RowsSettle`), though the provider may never answer. | 2 tasks, 1 slot, a reconciled and retried intent, no fault |
| `oauth` | Credentials stay with their account, the scopes on record are real, states and refresh tokens are used once, and whoever asks for the refresh lock gets past it. | 2 tasks, 2 accounts, 1 scope, 1 followed link, 3 grants, 1 fault |
| `ingress` | Events are worked on once, conversations are serial, closing is quiet and ends. | 3 tasks, 2 messages of one conversation, 1 click, 1 fault and any number of orderly restarts |
| `broadcast` | No target is written to twice, a first run whose handler reported failure reached nobody, and a broadcast is a write in the sense of `ActionLedger`. | 2 owners, 1 instant in 2 offsets, 2 targets of which the last may lose its presenter, 2 leases, 2 runs, 1 restart |
| `workspace` | Each write uses its own principal's token; keyed changes are made once; a result that names a resource names a whole one; a first run whose handler reported failure has not sent its last request. | 2 writes of 1 or 2 principals, all sequences of requests, 2 runs each |
| `service` | Modules start in one order, however they are listed, or are refused for a reason; open resources lean on open ones; answers are given in context; limits hold under pruning; plans stay private; every request ends. | all dependence graphs of 3 modules, 16 deployments each with one thing that is wrong or looks so (12 are refused, 4 accepted), and the served one; 2 tasks, 2 principals, 1 conversation, 1 plan, 2 executions, 2 agent steps, 1 request per window and 2 windows |

Runs that find a disagreement between the code and what the repository says of it:

| Run | The repository says | The code |
|---|---|---|
| `kernel_not_run` | "confirmation failed, and the request did not reach the remote side" (`runtime/actions.py:187`) | Also says it when the handler has run and recording its outcome raised. |
| `kernel_records` | action and execution of an unresolved write are UNKNOWN together, and settled together (`src/README.md:30`, `tests/test_unknown_resolution.py:107`) | A reconcile and a retry at the same time leave the execution SUCCEEDED and the action FAILED. |
| `kernel_in_progress` | "the same request is being executed" (`runtime/dispatcher.py:252`) | Says it for ever of a row whose coroutine was cancelled or died. |
| `oauth_sticks` | "authorization succeeded" (`adapters/http_api.py:291`) | A refresh under way saves the older, narrower credential over the new one. |
| `workspace_append` | an unknown outcome is retried "only under a policy whose provider supports a stable idempotency key" (`src/README.md:30`) | `document.update` is retried under that policy and sends no key: the text is appended twice. |

### Why the bounds are enough

The conflicts are between *two* coroutines on *one* row, lock or event: the
third party, where it matters, is the provider, the clock or a fault, which are
actions of their own. Slots do not interact, so one is enough; two accounts are
needed only where something could be stored for the wrong one. `MaxCalls = 2`
gives a write its first call and a retry. A single fault puts a crash, exception
or cancellation between any two steps. `MaxGrants = 3` allows an authorization,
a refresh and a refresh or authorization after it. One link in `oauth` is
followed any number of times, by either account and by two callbacks at once;
that nothing depends on the number of links is proved. Three tasks in `ingress`
are a worker, a waiter and a click or duplicate; a message is redelivered any
number of times. `MaxTokens = 2` lets a lease be taken over and a broadcast be
triggered twice, under one key or two, and `MaxAttempts = 2` of `Broadcast` a
retry meet the late messages of the first run; of two targets, one comes first
and one after others. Two runs of a write in `workspace` are a first one and a
retry that meets its late requests; two writes share the provider object, and
nothing else. In `service`, three modules make every shape of a graph that
matters to an order (a chain, a fork, a join, a cycle, an optional edge to what
is there); two executions are one conversation turn after, or beside, another,
or a save between a request to delete a plan and the deletion; `Capacity = 1`
makes the limiter prune at once, and the second window is where a careless
pruning loses a count it needs. What is old enough to be dropped appears in a
third window, which is left to the proof (`LimitHolds`).

No bound stops a request half-way, so that no liveness property is broken or
kept by a bound alone: links beyond `StateIds` are created and never followed, a
server whose grants are used up refuses, a handler that has used up its calls
ends locally, and `MaxRuns` turns requests away before they begin.

Symmetry: tasks, and in the kernel versions, are interchangeable, and so are
owners and offsets of `Broadcast`, and writes and principals of `Workspace`;
symmetry is used only in runs without liveness properties.

Deadlock is checked except in the runs of `Broadcast` and `Workspace`, where
everything comes to an end: leases or runs are used up, and the outcome is
final.

### Fairness

`ActionKernel!FairSpec`: every busy task keeps moving. This is what asyncio
does, and the waits are bounded: a handler by `asyncio.timeout`, a transaction
by SQLite's busy timeout. No request has to arrive, and no provider has to
answer. `FeishuOAuth!FairSpec`: likewise, exchanges being bounded by httpx's
timeout. A coroutine waiting for the lock is only helped by the one holding it.
`FeishuIngress!FairSpec`: coroutines move except in `work` and `click`, where a
model, a handler or a confirmed action may take for ever; `Patience` is stated
accordingly. The timeout of `close_websocket` passes; a cancellation is delivered
(`Told`), the loop having it in its queue, and a cancelled coroutine ends
(`Unwind`), as all it awaits then is SQLite.
`Service!FairServiceSpec`: a task moves while the process serves: the model's
client and the kernel have timeouts, and a conversation is passed on by whoever
is in it. asyncio's lock is first come, first served; in the model any waiter
may be next, and since only `MaxRuns` requests come, that starves nobody. No
process has to be started, closed or restarted, and no plan to be deleted.

## 4. Proofs

Every invariant and every safety property of a step that a passing run checks is
proved, for every value of the constants: 35 theorems in eight modules. TLC
shows them on the small instances of section 3; a mutant of the code breaks
each.

| Module | Proves | For every |
|---|---|---|
| `ActionKernelProofs`, `ActionLedgerProofs` | the eight invariants of the kernel, that verdicts are final, and that it implements `ActionLedger` | catalogue of registrable intents, set of tasks, slots, identities and versions, number of provider calls and faults |
| `FeishuOAuthProofs` | five invariants | set of tasks, accounts, scopes and links, number of grants and faults |
| `FeishuIngressProofs` | four invariants | set of coroutines, messages, clicks and conversations, number of faults |
| `BroadcastProofs` | three invariants, and that it implements `ActionLedger` | set of owners, instants and offsets, number of targets, leases, runs and restarts, set of deployments |
| `WorkspaceProofs` | five invariants | set of writes and principals, everything a write may ask for, number of runs |
| `AssemblyProofs`, `ServiceProofs` | six invariants, and the property of a step (`PlansPrivate`) | set of deployments, number of tasks, principals, conversations, plans, executions and windows, every limit and capacity |

The only assumptions are those on the constants, which TLC evaluates in the runs
of these modules: `KernelAssumption`, `OAuthAssumption`, `IngressAssumption`,
`BroadcastAssumption`, `WorkspaceAssumption`, `RequestsAssumption` and
`AssemblyAssumption`. They give the constants their types, set `None` and
`NoModule` apart, make the tasks of the service finite in number, and demand one
target and one run of a broadcast and one run of a write.

Every proof has the same shape: a strengthened invariant (`IInv`, `ServiceInv`),
a lemma per action or per part that says the part is kept, `NextIInv` to put
them together, and a theorem for each property. The strengthened invariants were
checked by TLC before they were proved.

### The kernel

| Theorem | Property |
|---|---|
| `TypeCorrect` | `TypeOK` |
| `HandlersExclude` | `HandlerExclusive`: one handler at a time per write and key |
| `ClaimsExclude` | `ClaimExclusive`: a claim has one holder and keeps its row |
| `ConfirmedIsRun` | `RunsWhatWasConfirmed` |
| `RejectedStaysUnrun` | `RejectedNeverRuns` |
| `SuccessIsTrue` | `SucceededIsApplied`: what is recorded as a success was applied, unless a reconcile handler vouched for it |
| `CalledOnce` | `NoBlindRetry`: without a policy of retrying, one call per key |
| `FailureIsTrue` | `FailedHadNoEffect`: what failed, and is not retried, changed nothing |
| `VerdictsAreFinal` | `VerdictStable`: a settled row stays as it is |
| `KernelIsALedger` | `LedgerSpec`: the kernel implements `ActionLedger` |

The first six are in `ActionKernelProofs`. Their invariant is
`IInv == TypeOK /\ Placed /\ Handlers /\ Holders /\ Truth`. Each part is there
because a step needs it:

- `Placed` says what a task at each place may be doing. Without it, a task at
  "settle" might be a reconcile, and one past its handler might have no result.
- `Handlers`: exclusion follows because whoever runs the handler of a write
  holds its execution row (`RunnerHoldsRow`): the row is EXECUTING, and owned by
  the action exactly if the runner works under a claim. Entering takes a row
  that is not EXECUTING; and the replay of a row without a result, which the
  code would run again, never happens (`ConcludedHasResult`).
- `Holders`: a claim is exclusive because it is made from a status no claimed
  row has. That a reopened row is the action's own needs
  `UnconfirmedNeverRuns`; that the run is of what was confirmed needs
  `WorksOnTheAction`.
- `Truth`: a recorded success is true because the task that records it carried a
  true one (`CarriesTruth`), and applied calls stay applied; and only tasks that
  reconcile, and only where the intent's policy has one (`AsksWhereItMay`),
  carry a success that is vouched for and no more.

Each part is preserved by each action in a lemma of its own (`HandlersStep`,
`HoldersStep`, `TruthStep`, ...).

`ActionLedgerProofs` adds a second invariant, `LInv`, that stands on the first:

- `RowFits`: an execution row has an owner as soon as it is there, and nothing is
  sent for a write before; an action that was not confirmed has no result.
- `WorkFits` and `RunsFirst`: only writes have an execution to finish, only
  intents with a retry policy are retried, and what has just been confirmed has
  not run before. Hence a slot that is not retried is entered by a reservation
  only, and never through `Reopen`.
- `OneCall`: whoever is about to run the handler of such a slot has sent nothing
  yet, and whoever is about to record a failure has been refused everything it
  sent (`RunnerKnows`). That it is one task that knows this is
  `HandlerExclusive`.

Every step changes one of the two tables, or one call, in one slot: `Changes`
says in which ways (a row is decided, taken, reopened or concluded; a call is
sent or answered). `StepChanges` and `OtherChanges` show this of every action
once, and the rest of the proof is about these six. That verdicts are final can
be read off them. So can the refinement: a decision is `Ask`, `Grant`, `Refuse`
or nothing to the ledger; a row that is taken `Begin`s the run, under a claim
only of an action that is granted; reopening is `Retry`; concluding is
`Conclude`, with success only of what was applied and "reported" only of a
confirmed run left unknown; and an answer of the provider
is `TakeEffect` if it is the first that applies a write, which has a run by
`RowFits`.

### OAuth

| Theorem | Invariant |
|---|---|
| `TypeCorrect` | `TypeOK` |
| `CredentialsBelong` | `CredentialBelongs`: a credential was granted by the account it is stored for |
| `ScopesAreTrue` | `ScopesTruthful`: the scopes on record have been granted |
| `StatesConsumedOnce` | `StateConsumedOnce`: a state serves one callback |
| `TokensAreRefreshedOnce` | `RefreshedOnce`: no refresh token that another coroutine has exchanged is presented |

The inductive invariant is `IInv == TypeOK /\ Fits /\ StateConsumedOnce`. `Fits`
says what a task at each place carries: a credential under refresh belongs to
the account of its task, as the stored one did when it was read (`HeldFits`);
a callback behind `consume_state` works under a state that is gone (`JobFits`);
a credential about to be stored was issued to the account that the answer of
`_current_open_id` named. A step of one task leaves this true of the others,
because grants are only appended and a state that is gone stays gone (`Later`):
that is `TasksFit`. Each action then only has to show it of its own task
(`StaysFit`).

`RefreshedOnce` has a second invariant, `Refreshes == Line /\ Apart /\ Known /\
(faults = 0 => Unspent)`. `Line`: of two tasks at one account's lock one came
before the other, and nobody is before the one that refreshes, so that only one
does. `Unspent`: neither what is stored nor what a task has in hand has been
exchanged, except that a stored credential may be spent while the task that has
exchanged it is about to save its successor (`Replaced`); this is what the lock
is for. `Apart`: a callback has no lock, but the refresh token it brings is
nobody else's. `Known`: only numbers that have been issued are spent, so that a
new grant is unspent.

### The ingress

| Theorem | Invariant |
|---|---|
| `TypeCorrect` | `TypeOK` |
| `EventsAreWorkedOnce` | `WorkedOnce`: an event is worked on at most once |
| `ConversationsAreSerial` | `ConversationSerial`: one message of a conversation at a time |
| `ClosingIsQuiet` | `ClosedIsQuiet`: when closing returns, what is left of the long connection knows it is cancelled |

`IInv == TypeOK /\ Carried /\ WorkedOnce /\ Once /\ InLine /\ Tracking`. `Once`:
an event that nobody has claimed has not been worked on, and a claimed one has
at most one coroutine that still may. `InLine`: of two coroutines at one lock,
one came before the other, and nobody came before the one that works.
`Tracking`: every coroutine of the long connection is in `_ws_futures` or has
been asked to stop; after closing has begun there are no others, none is added,
and those that are there are waited for.

### The broadcast

| Theorem | Property |
|---|---|
| `TypeCorrect` | `TypeOK` |
| `TargetsSeeItOnce` | `OncePerTarget`: a target is shown a message once |
| `FailureIsTrue` | `FailureReachedNobody`: a first run whose handler reported failure reached nobody |
| `BroadcastIsAWrite` | `KeepsLedger`: a broadcast implements `ActionLedger` |

`IInv == TypeOK /\ OneName /\ \A x : Fits(x)`. `OneName`: a message, shown or on
its way, bears the id of the one action its key ever had, whoever triggered it,
and however often; this is why a target sees it once, and it needs that a row,
once there, is found and not made again. `Fits` is about one broadcast: `Placed`
says where its run can be by the status of its action; `Progress`, that every
target before the present one has its message, and that the message to the
present one is on its way or there; `FirstRun`, that before its first answer a
first run has reached nobody. For the refinement: the first `Start` is `Begin`
(a run refused before is nothing to the ledger, and without a verdict); the
message that completes the set of targets is `TakeEffect`; a run that ends is
`Conclude`, and if it ends in success every target has its message by `Progress`
(`AllShown`); everything else decides, retries, or is nothing to the ledger.
Messages of a run that was given up may arrive at any time, which the ledger
allows.

### The workspace

| Theorem | Invariant |
|---|---|
| `TypeCorrect` | `TypeOK` |
| `TokensDoNotMix` | `WritesAsItsPrincipal`: each write uses its own principal's token |
| `KeysAreUsedOnce` | `KeyedOnce`: a keyed change is made once |
| `NamedResourcesAreWhole` | `NamedIsWhole`: a result that names a resource names a whole one |
| `FailureComesBeforeTheEnd` | `FailureStopsShort`: a first run whose handler reported failure has not sent its last request |

`IInv == TypeOK /\ Signed /\ \A w : Fits(w)`. `Signed`: every change, made or on
its way, bears the token of its write's principal and, if it is keyed, the
write's key. `Progress`: what a run has been answered is done, and what it waits
for is done or on its way. `FirstRun`: of a first run nothing behind the present
request has been sent, and the present one only if it is waited for. Lemmas on
`Requests` say what the sequence of a write is, whatever it asks for: its parts
are different (so that a part sent is a position reached), and a lookup is
never its last.

### The service

| Theorem | Property |
|---|---|
| `ServiceTypes` | `ServiceTypeOK` |
| `AnswersKeepContext` | `AnswersInContext`: an answer follows the messages its model saw |
| `LimitHolds` | `WithinLimit`: no principal is admitted more often than the limit |
| `PlansStayPrivate` | `PlansPrivate`: plans are read and deleted by whom they belong to |
| `ListingDoesNotMatter` | `OrderedAlike`: modules are ordered alike however listed |
| `RefusalIsRight` | `RefusedIfUnsound`: unsound deployments, and only they, are refused |
| `OpenLeansOnOpen` | `LeansOnOpen`: a resource closes before those it depends on |

The inductive invariant is `ServiceInv == AssemblyInv /\ OrderInv /\ RequestsInv`.
The process is proved in `AssemblyProofs`, the requests in `ServiceProofs`, which
adds that a process that dies leaves every task outside its conversation and the
table of counts empty (`DieFits`).

- `RequestsInv == Shapes /\ Bounded /\ Context /\ Counts`. `Context`: whoever is
  inside a conversation is alone there (`Alone`), so the messages its model was
  given are all there are, but for the question (`Knows`). `Counts`: the table
  holds the count of every principal in the present window, because pruning
  drops only entries of windows before the last. `Bounded`: executions are kept
  for the requests that wait, so that their numbers stay within `MaxRuns`.
- `AssemblyInv`: what has been ordered respects the dependences (`InOrder`);
  resources are added in that order, so that each stands behind those it leans
  on (`Listed`); and what is open is always a beginning of the resources
  (`Opened`), while they are started one by one and while they are closed.
- `OrderInv`: every module was the smallest that was ready when it was taken
  (`Greedy`), so that any other order is later where it first differs; and if
  none is ready with modules left, the first module of an order that is missing
  would be. The registries hold the claims of exactly the modules that were
  declared or have contributed (`Registered`): a clash with a registry is one of
  two modules, and a deployment without a clash in the registries has none.

### Only model-checked

- Liveness: `RowsSettle`, `LockPassed`, `CloseReturns`, `Patience` and
  `EveryRequestEnds` stay with TLC: the prover handles neither fairness nor
  ENABLED.
- What the violation runs show is a behaviour, found by TLC.

There is no recursive operator in any module.

## 5. Limits

- The kernel believes a handler's result: "success" follows an applied call,
  "rejected" a refused one. `Workspace` shows what of this the workspace provider
  keeps. A write of one request whose handler reports failure has changed nothing
  (`FailureStopsShort`); one of two may have made its first change. A success
  that names a resource is whole (`NamedIsWhole`); a success of a creation whose
  answer lacks an id names none and promises nothing.
- A success that `reconcile` reports promises nothing either: it says that the
  event was asked for, not that it is as the action wanted it.
- FAILED is two things. It may be what the handler reported; then
  `FailedHadNoEffect`, `FailureReachedNobody` and `FailureStopsShort` say what it
  is worth. Or recording what the handler returned has raised
  (`actions.py:180-188`); then it says nothing of the provider, in any of the
  three modules, and `NotRunReachedNobody` is the claim that it did.
- The broadcasts of one instant given in two offsets are two, and a target sees
  both (`OncePerTarget` is about one key).
- An intent may be contributed by a module other than the one it says it is of,
  in whose namespace it then lies, although `src/README.md:18` says that a module
  can register only top-level namespaces it owns. The service is deployed so in
  one of the configurations of `service`, and starts.
- When closing returns, cancelled coroutines may still be rolling back or closing
  their connections (`database.py:51`, `database.py:59-60`), while modules and
  model are closed. They do nothing else by then (`ClosedIsQuiet`).
- An error status with a JSON body is taken as a refusal
  (`feishu_workspace.py:436`), also 5xx; in the model Feishu never refuses what
  it has applied.
- `FailedHadNoEffect` excludes intents that may be retried: a retry that is
  rejected is recorded FAILED although the first attempt may still be applied.
  `FailureReachedNobody` is restricted to the first run for the same reason.
- An event that fails is not worked on again: it was marked as seen before.
  `WorkedOnce` is at most once, by design of the code.
- A lost answer to a refresh leaves a spent refresh token behind. The model
  contains it (`ReplyLost`), and no property promises a recovery.
- The fencing token of the scheduler is checked nowhere (`scheduler.py:66`): a
  delayed owner dispatches under a lease that is no longer its own. What prevents
  a second broadcast is the idempotency key (`OncePerTarget`).
- Message ids are unique over all conversations: a request id that a client uses
  again is taken as a repetition, and its question is not stored. `Requests` has
  this; `AnswersInContext` is about answers.
- That a lone question stays behind when a turn is cut off between its two
  appends, and that a plan saved under somebody else's id replaces theirs, is
  what the code does and no property forbids.
- Signature checks, decryption and the layout of cards are left out, and so are
  audit rows, which nothing reads.

## 6. Not modelled

- *Attachments*: a download, a file, a row with an expiry, and a call to a
  model. The file is written before its row, and nothing removes one without the
  other; apart from that nothing interleaves.
- *Memories, summaries, delivery bindings*: upserts and deletes by owner, like
  those of plans, without a confirmation between.
- *Validation, response formats, streaming, card layout, signatures, encryption,
  settings, migrations, the clients of the language model and of search*: input
  and output, or pure functions, without behaviour over time.
- *Choice of adapters by settings* in `build_runtime`: sequential, runs once. The
  start and close of what it builds is in `Assembly`.

## 7. Plan

1. What liveness rests on and is not liveness: that a coroutine which waits for
   a lock has one before it that holds it (`FeishuOAuth`, `FeishuIngress`), and
   that the measure by which a request comes to its end goes down with every
   step (`Requests`). Both are invariants or properties of a step.
2. `Broadcast` and `Workspace` take one run at a time from the kernel
   (`HandlerExclusive`, `ClaimExclusive`), and repeat its ways to refuse a run and
   to lose a result. An abstract specification of one
   action's runs, which the kernel implements and both modules use, would state
   this once.
3. A statement for retried intents: what a FAILED after a retry still says of the
   first attempt.
