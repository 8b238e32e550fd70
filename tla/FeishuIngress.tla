----------------------------- MODULE FeishuIngress -----------------------------
(***************************************************************************)
(* FeishuChannelAdapter as an entrance: events of Feishu arrive by webhook *)
(* or over the long connection, are deduplicated through the table         *)
(* processed_events, and are worked on in coroutines of one event loop.    *)
(*                                                                         *)
(* Messages of one conversation are worked on under the lock that          *)
(* ExecutionCoordinator keeps for it; clicks on a card's buttons go to     *)
(* ActionService without it.  The long connection lives in a thread of its *)
(* own: it hands events to the loop as futures, which close_websocket      *)
(* waits for and, after a while, cancels.  A cancelled future is done at   *)
(* once; its coroutine is told later, and unwinds in its own time.         *)
(*                                                                         *)
(* Feishu is external.  It sends every event at least once, by either way, *)
(* and again as often as it likes.                                         *)
(***************************************************************************)
EXTENDS Naturals

CONSTANTS
  Tasks,           \* coroutines working on a delivery
  Messages,        \* events that carry a message
  Clicks,          \* events that carry a click on a card
  Conversations,
  ConversationOf,  \* the conversation of each message
  MaxFaults,       \* bound: exceptions and restarts
  None

Events == Messages \cup Clicks

ASSUME IngressAssumption ==
  /\ ConversationOf \in [Messages -> Conversations]
  /\ Messages \cap Clicks = {}
  /\ MaxFaults \in Nat

VARIABLES
  seen,       \* the table processed_events
  ahead,      \* who came before each coroutine to its conversation's lock
  pc,         \* where each coroutine is
  job,        \* the delivery it works on
  accepting,  \* _ws_accepting
  futures,    \* _ws_futures
  awaited,    \* the futures close_websocket waits for
  cancel,     \* whether each coroutine is to be cancelled, and knows it
  phase,      \* the application: "up", "closing" its connection, "closed"
  worked,     \* how often each event has reached the router or ActionService
  faults

closing == <<accepting, awaited, phase>>
vars == <<seen, ahead, pc, job, futures, cancel, closing, worked, faults>>

-----------------------------------------------------------------------------
Ways == {"http", "ws"}
Jobs == [event: Events, way: Ways]

\* "lock" stands before the conversation's lock, "work" is under it.
Places == {"idle", "claim", "content", "lock", "work", "present", "click"}

Busy(t) == pc[t] # "idle"
Conversation(t) == ConversationOf[job[t].event]

Init ==
  /\ seen = {}
  /\ ahead = [t \in Tasks |-> {}]
  /\ pc = [t \in Tasks |-> "idle"]
  /\ job = [t \in Tasks |-> None]
  /\ accepting = TRUE
  /\ futures = {}
  /\ awaited = {}
  /\ cancel = [t \in Tasks |-> "none"]
  /\ phase = "up"
  /\ worked = [e \in Events |-> 0]
  /\ faults = 0

Goto(t, place) == pc' = [pc EXCEPT ![t] = place] /\ UNCHANGED job

\* asyncio.Lock: first come, first served.  Whoever holds it is behind nobody.
AtLock(t) == pc[t] \in {"lock", "work"}
Enter(t) ==
  ahead' = [ahead EXCEPT ![t] =
    {u \in Tasks : AtLock(u) /\ Conversation(u) = Conversation(t)}]

\* Faulty: the conversation's lock is not given back.
FaultyLeave(t) == UNCHANGED ahead

\* `async with` gives the lock, or the place in its queue, back on every exit.
Leave(t) ==
  ahead' = [u \in Tasks |-> IF u = t THEN {} ELSE ahead[u] \ {t}]

\* The coroutine ends; _finish_ws_future forgets it.
End(t) ==
  /\ pc' = [pc EXCEPT ![t] = "idle"]
  /\ job' = [job EXCEPT ![t] = None]
  /\ cancel' = [cancel EXCEPT ![t] = "none"]
  /\ Leave(t)
  /\ futures' = futures \ {t}

\* Places where nothing is known to bound the wait: the model behind the
\* router, a handler, the action a click confirms.
Unbounded == {"work", "click"}

-----------------------------------------------------------------------------
(* Deliveries.                                                             *)

\* handle: the payload is decrypted and verified.
Webhook(t, e) ==
  /\ phase = "up"
  /\ ~Busy(t)
  /\ pc' = [pc EXCEPT ![t] = "claim"]
  /\ job' = [job EXCEPT ![t] = [event |-> e, way |-> "http"]]
  /\ UNCHANGED <<seen, ahead, futures, cancel, closing, worked, faults>>

\* Faulty: what is remembered is not the future.
FaultyTrackedEvent(t) == {job[t]}

\* Faulty: the future is not remembered.
FaultyTracked(t) == {}

Tracked(t) == {t}

\* on_event, in the connection's thread: the flag is read and the future
\* remembered under one lock, which close_websocket takes too.
OnEvent(t, e) ==
  /\ accepting
  /\ ~Busy(t)
  /\ pc' = [pc EXCEPT ![t] = "claim"]
  /\ job' = [job EXCEPT ![t] = [event |-> e, way |-> "ws"]]
  /\ futures' = futures \cup Tracked(t)
  /\ UNCHANGED <<seen, ahead, cancel, closing, worked, faults>>

\* Faulty: each way keeps events of its own apart.
FaultyIsNew(t) == job[t].event \notin seen \/ job[t].way = "ws"

\* EventDedupRepository.claim: the insert reports whether it added the row.
IsNew(t) == job[t].event \notin seen

Claim(t) ==
  /\ pc[t] = "claim"
  /\ seen' = seen \cup {job[t].event}
  /\ IF IsNew(t)
     THEN /\ Goto(t, IF job[t].event \in Clicks THEN "click" ELSE "content")
          /\ UNCHANGED <<ahead, futures, cancel>>
     ELSE End(t)
  /\ UNCHANGED <<closing, worked, faults>>

\* _content_parts: an attachment is downloaded and stored first.
Content(t) ==
  /\ pc[t] = "content"
  /\ Goto(t, "lock") /\ Enter(t)
  /\ UNCHANGED <<seen, futures, cancel, closing, worked, faults>>

\* Faulty: every request has a lock of its own.
FaultyMayWork(t) == TRUE

\* ExecutionCoordinator: one lock per conversation.
MayWork(t) == ahead[t] = {}

Work(t) ==
  /\ pc[t] = "lock" /\ MayWork(t)
  /\ worked' = [worked EXCEPT ![job[t].event] = @ + 1]
  /\ Goto(t, "work")
  /\ UNCHANGED <<seen, ahead, futures, cancel, closing, faults>>

\* The router and the dispatcher have answered; the lock is given back before
\* the answer is presented.
Worked(t) ==
  /\ pc[t] = "work"
  /\ Goto(t, "present") /\ Leave(t)
  /\ UNCHANGED <<seen, futures, cancel, closing, worked, faults>>

Present(t) ==
  /\ pc[t] = "present"
  /\ End(t)
  /\ UNCHANGED <<seen, closing, worked, faults>>

\* _handle_action: ActionService confirms or cancels.
Click(t) ==
  /\ pc[t] = "click"
  /\ worked' = [worked EXCEPT ![job[t].event] = @ + 1]
  /\ End(t)
  /\ UNCHANGED <<seen, closing, faults>>

-----------------------------------------------------------------------------
(* The end of the application.                                             *)

\* The server has answered the requests it had, and V1Runtime.close begins:
\* close_websocket stops accepting and lists what it has to wait for.
CloseWebsocket ==
  /\ phase = "up"
  /\ \A t \in Tasks : Busy(t) => job[t].way = "ws"
  /\ accepting' = FALSE
  /\ awaited' = futures
  /\ phase' = "closing"
  /\ UNCHANGED <<seen, ahead, pc, job, futures, cancel, worked, faults>>

\* Faulty: nothing is cancelled when the time is up.
FaultyCancelled == {}

Cancelled == awaited \cap futures

\* Thirty seconds have passed.  Cancelling a future marks it done, which ends
\* the wait for it, and puts a request to cancel its coroutine in the loop's
\* queue: until that is delivered the coroutine runs on.
CloseTimeout ==
  /\ phase = "closing"
  /\ Cancelled # {}
  /\ futures' = futures \ Cancelled
  /\ cancel' = [t \in Tasks |-> IF t \in Cancelled THEN "asked" ELSE cancel[t]]
  /\ UNCHANGED <<seen, ahead, pc, job, closing, worked, faults>>

\* The request is delivered: the coroutine's next step raises CancelledError.
Told(t) ==
  /\ cancel[t] = "asked"
  /\ cancel' = [cancel EXCEPT ![t] = "told"]
  /\ UNCHANGED <<seen, ahead, pc, job, futures, closing, worked, faults>>

\* Rollback and the closing of a connection are awaited on the way out, and
\* the lock is kept until then: this may be over long after the waiting is.
Unwind(t) ==
  /\ cancel[t] = "told"
  /\ End(t)
  /\ UNCHANGED <<seen, closing, worked, faults>>

\* close_websocket returns, and modules and model are closed.  Its gather ends
\* behind the requests to cancel, which were queued before it.
Closed ==
  /\ phase = "closing"
  /\ awaited \cap futures = {}
  /\ \A t \in Tasks : cancel[t] # "asked"
  /\ phase' = "closed"
  /\ UNCHANGED <<seen, ahead, pc, job, futures, cancel, accepting, awaited, worked, faults>>

-----------------------------------------------------------------------------
(* Faults.                                                                 *)

Fault == faults < MaxFaults /\ faults' = faults + 1

\* An exception: the webhook answers with an error, the long connection logs.
Fails(t) ==
  /\ Fault
  /\ pc[t] \notin {"idle", "lock"}
  /\ End(t)
  /\ UNCHANGED <<seen, closing, worked>>

\* A process dies at any moment, or has been closed, and another one starts.
Fresh ==
  /\ pc' = [t \in Tasks |-> "idle"]
  /\ job' = [t \in Tasks |-> None]
  /\ ahead' = [t \in Tasks |-> {}]
  /\ accepting' = TRUE
  /\ futures' = {}
  /\ awaited' = {}
  /\ cancel' = [t \in Tasks |-> "none"]
  /\ phase' = "up"
  /\ UNCHANGED <<seen, worked>>

Restart ==
  \/ Fault /\ Fresh
  \/ phase = "closed" /\ Fresh /\ UNCHANGED faults

-----------------------------------------------------------------------------
Step(t) ==
  /\ cancel[t] # "told"
  /\ \/ Claim(t) \/ Content(t) \/ Work(t) \/ Worked(t) \/ Present(t) \/ Click(t)

Next ==
  \/ \E t \in Tasks :
       \/ \E e \in Events : Webhook(t, e)
       \/ \E e \in Messages : OnEvent(t, e)
       \/ Step(t) \/ Fails(t) \/ Told(t) \/ Unwind(t)
  \/ CloseWebsocket \/ CloseTimeout \/ Closed
  \/ Restart

Spec == Init /\ [][Next]_vars

\* The loop runs what is ready, and the timeouts of asyncio.wait and httpx
\* expire; what is awaited while unwinding is SQLite, which answers.  A model,
\* a handler or an action may hang.
FairSpec ==
  /\ Spec
  /\ \A t \in Tasks :
       /\ WF_vars(pc[t] \notin Unbounded /\ Step(t))
       /\ WF_vars(Told(t)) /\ WF_vars(Unwind(t))
  /\ WF_vars(CloseTimeout) /\ WF_vars(Closed)

-----------------------------------------------------------------------------
(* Properties.                                                             *)

\* The table, the locks, the coroutines and the connection keep their shape.
TypeOK ==
  /\ seen \subseteq Events
  /\ ahead \in [Tasks -> SUBSET Tasks]
  /\ pc \in [Tasks -> Places]
  /\ job \in [Tasks -> Jobs \cup {None}]
  /\ accepting \in BOOLEAN
  /\ futures \subseteq Tasks /\ awaited \subseteq Tasks
  /\ cancel \in [Tasks -> {"none", "asked", "told"}]
  /\ phase \in {"up", "closing", "closed"}
  /\ worked \in [Events -> Nat]
  /\ faults \in 0 .. MaxFaults

\* Both ways, redeliveries, failures and restarts taken together, an event
\* reaches the router or ActionService at most once.
WorkedOnce == \A e \in Events : worked[e] <= 1

\* "Serialize natural-language and agent work per conversation."
ConversationSerial ==
  \A t, u \in Tasks :
    /\ pc[t] = "work" /\ pc[u] = "work" /\ Conversation(t) = Conversation(u)
    => t = u

\* Once close_websocket has returned and the modules are being closed, nothing
\* the connection has started claims, works on or presents anything any more:
\* whatever is left of it has been told to stop, and only unwinds.
ClosedIsQuiet == phase = "closed" => \A t \in Tasks : Busy(t) => cancel[t] = "told"

\* close_websocket returns, even when what it waits for hangs.
CloseReturns == phase = "closing" ~> phase # "closing"

\* A message waiting for its conversation is worked on, unless a message before
\* it hangs for good.
Patience ==
  \A t \in Tasks :
    pc[t] = "lock" ~> (pc[t] # "lock" \/ \E u \in Tasks : pc[u] = "work")
=============================================================================
