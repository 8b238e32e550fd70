-------------------------- MODULE FeishuIngressProofs --------------------------
(***************************************************************************)
(* Safety of FeishuIngress for every set of coroutines, messages, clicks   *)
(* and conversations, and every number of faults.                          *)
(*                                                                         *)
(* Its three parts do not need each other: an event has one coroutine that *)
(* may still work on it (Once); of two coroutines at one conversation's    *)
(* lock, one came before the other (InLine); and close_websocket knows, or *)
(* has cancelled, all that the long connection has started (Tracking).     *)
(***************************************************************************)
EXTENDS FeishuIngress, TLAPS

-----------------------------------------------------------------------------
(* The inductive invariant.                                                *)

\* A busy coroutine has a delivery.
Carried == \A t \in Tasks : Busy(t) => job[t] \in Jobs

\* A coroutine that has claimed its event and has not worked on it yet.
ToWork(t) == pc[t] \in {"content", "lock", "click"}

Once ==
  /\ \A e \in Events \ seen : worked[e] = 0
  /\ \A t \in Tasks : ToWork(t) => job[t].event \in seen /\ worked[job[t].event] = 0
  /\ \A t, u \in Tasks : ToWork(t) /\ ToWork(u) /\ job[t].event = job[u].event => t = u

InLine ==
  /\ \A t \in Tasks : pc[t] = "work" => ahead[t] = {}
  /\ \A t, u \in Tasks :
       AtLock(t) /\ AtLock(u) /\ Conversation(t) = Conversation(u) /\ t # u
       => t \in ahead[u] \/ u \in ahead[t]

Tracking ==
  /\ accepting <=> phase = "up"
  /\ \A t \in Tasks : Busy(t) /\ job[t].way = "ws" => t \in futures \/ cancel[t] # "none"
  /\ phase # "up" => \A t \in Tasks : Busy(t) => job[t].way = "ws"
  /\ phase # "up" => futures \subseteq awaited
  /\ ClosedIsQuiet

IInv == TypeOK /\ Carried /\ WorkedOnce /\ Once /\ InLine /\ Tracking

-----------------------------------------------------------------------------
(* Types.                                                                  *)

LEMMA EndType ==
  ASSUME TypeOK, NEW ended \in Tasks, End(ended)
  PROVE  /\ pc' \in [Tasks -> Places] /\ job' \in [Tasks -> Jobs \cup {None}]
         /\ ahead' \in [Tasks -> SUBSET Tasks] /\ futures' \subseteq Tasks
         /\ cancel' \in [Tasks -> {"none", "asked", "told"}]
         /\ \A t \in Tasks : Busy(t)' => Busy(t) /\ job'[t] = job[t]
  BY DEF Busy, TypeOK, End, Leave, Places

LEMMA FaultType == TypeOK /\ Fault => faults' \in 0 .. MaxFaults
  BY IngressAssumption DEF TypeOK, Fault

LEMMA InitIInv == Init => IInv
  BY IngressAssumption
  DEF Init, IInv, TypeOK, Carried, WorkedOnce, Once, ToWork, InLine, AtLock, Tracking,
      ClosedIsQuiet, Busy, Places

LEMMA StepType ==
  ASSUME TypeOK, Carried, NEW t \in Tasks, Step(t) \/ Fails(t) \/ Unwind(t)
  PROVE  TypeOK' /\ Carried'
<1>0. SUFFICES TypeOK' /\ (\A u \in Tasks : Busy(u)' => Busy(u) /\ job'[u] = job[u])
  BY DEF Carried
<1> USE DEF Step, Busy, closing
<1>1. CASE Claim(t)
  <2>1. job[t].event \in Events
    BY <1>1 DEF Claim, Carried, Busy, Jobs
  <2>2. CASE IsNew(t)
    BY <1>1, <2>1, <2>2 DEF Claim, TypeOK, Goto, Places
  <2>3. CASE ~IsNew(t)
    BY <1>1, <2>1, <2>3, EndType DEF Claim, TypeOK
  <2> QED
    BY <2>2, <2>3
<1>2. CASE Content(t)
  BY <1>2 DEF Content, Goto, Enter, TypeOK, Places
<1>3. CASE Work(t)
  <2>1. job[t].event \in Events
    BY <1>3 DEF Work, Carried, Busy, Jobs
  <2> QED
    BY <1>3, <2>1 DEF Work, Goto, TypeOK, Places
<1>4. CASE Worked(t)
  BY <1>4 DEF Worked, Goto, Leave, TypeOK, Places
<1>5. CASE Present(t)
  BY <1>5, EndType DEF Present, TypeOK
<1>6. CASE Click(t)
  <2>1. job[t].event \in Events
    BY <1>6 DEF Click, Carried, Busy, Jobs
  <2> QED
    BY <1>6, <2>1, EndType DEF Click, TypeOK
<1>7. CASE Fails(t)
  BY <1>7, EndType, FaultType DEF Fails, TypeOK
<1>8. CASE Unwind(t)
  BY <1>8, EndType DEF Unwind, TypeOK
<1> QED
  BY <1>1, <1>2, <1>3, <1>4, <1>5, <1>6, <1>7, <1>8

LEMMA TypeNext == TypeOK /\ Carried /\ [Next]_vars => TypeOK' /\ Carried'
<1> SUFFICES ASSUME TypeOK, Carried, [Next]_vars PROVE TypeOK' /\ Carried'
  OBVIOUS
<1> USE DEF closing
<1>1. ASSUME NEW t \in Tasks, NEW e \in Events,
             Webhook(t, e) \/ (e \in Messages /\ OnEvent(t, e))
      PROVE  TypeOK' /\ Carried'
  BY <1>1 DEF Webhook, OnEvent, Tracked, TypeOK, Carried, Busy, Jobs, Ways, Places, Events
<1>2. CASE CloseWebsocket \/ Closed
  BY <1>2 DEF CloseWebsocket, Closed, TypeOK, Carried, Busy
<1>3. CASE CloseTimeout \/ \E t \in Tasks : Told(t)
  BY <1>3 DEF CloseTimeout, Told, TypeOK, Carried, Busy
<1>4. CASE Restart
  <2>1. Fresh
    BY <1>4 DEF Restart
  <2>2. faults' \in 0 .. MaxFaults
    BY <1>4, FaultType DEF Restart, TypeOK
  <2> QED
    BY <2>1, <2>2 DEF Fresh, TypeOK, Carried, Busy, Places
<1>5. CASE UNCHANGED vars
  BY <1>5 DEF vars, TypeOK, Carried, Busy
<1> QED
  BY <1>1, <1>2, <1>3, <1>4, <1>5, StepType DEF Next, Events

-----------------------------------------------------------------------------
(* An event is worked on once.                                             *)

\* Nothing is worked on, and no coroutine claims an event.
LEMMA OnceKept ==
  ASSUME Once, WorkedOnce, UNCHANGED <<seen, worked>>,
         \A t \in Tasks : ToWork(t)' => ToWork(t) /\ job'[t] = job[t]
  PROVE  Once' /\ WorkedOnce'
BY DEF Once, WorkedOnce

LEMMA OnceNext ==
  TypeOK /\ Carried /\ WorkedOnce /\ Once /\ [Next]_vars => Once' /\ WorkedOnce'
<1> SUFFICES ASSUME TypeOK, Carried, WorkedOnce, Once, [Next]_vars
             PROVE  Once' /\ WorkedOnce'
  OBVIOUS
<1> USE DEF ToWork, closing
<1>1. ASSUME NEW t \in Tasks, NEW e \in Events, Webhook(t, e) \/ OnEvent(t, e)
      PROVE  Once' /\ WorkedOnce'
  BY <1>1, OnceKept DEF Webhook, OnEvent, TypeOK
<1>2. ASSUME NEW t \in Tasks, Claim(t)
      PROVE  Once' /\ WorkedOnce'
  <2>1. CASE IsNew(t)
    BY <1>2, <2>1 DEF Claim, IsNew, Goto, TypeOK, Carried, Busy, Jobs, Once, WorkedOnce
  <2>2. CASE ~IsNew(t)
    <3>1. seen' = seen
      BY <1>2, <2>2 DEF Claim, IsNew
    <3> QED
      BY <1>2, <2>2, <3>1, OnceKept DEF Claim, End, TypeOK
  <2> QED
    BY <2>1, <2>2
<1>3. ASSUME NEW t \in Tasks, Content(t)
      PROVE  Once' /\ WorkedOnce'
  BY <1>3, OnceKept DEF Content, Goto, TypeOK
<1>4. ASSUME NEW t \in Tasks, Work(t) \/ Click(t)
      PROVE  Once' /\ WorkedOnce'
  <2>1. /\ ToWork(t) /\ job[t].event \in Events
        /\ worked' = [worked EXCEPT ![job[t].event] = @ + 1] /\ seen' = seen
    BY <1>4 DEF Work, Click, Carried, Busy, Jobs
  <2>2. ~ToWork(t)'
    BY <1>4 DEF Work, Click, Goto, End, TypeOK
  <2>3. \A u \in Tasks \ {t} : ToWork(u)' => ToWork(u) /\ job'[u] = job[u]
    BY <1>4 DEF Work, Click, Goto, End, TypeOK
  <2>4. worked'[job[t].event] = 1 /\ job[t].event \in seen
    BY <2>1 DEF Once, TypeOK
  <2>5. \A e \in Events \ {job[t].event} : worked'[e] = worked[e]
    BY <2>1 DEF TypeOK
  <2>6. \A u \in Tasks \ {t} : ToWork(u)' => job[u].event \in Events \ {job[t].event}
    BY <2>1, <2>3, TypeNext DEF Once, Carried, Busy, Jobs
  <2> QED
    BY <2>1, <2>2, <2>3, <2>4, <2>5, <2>6 DEF Once, WorkedOnce
<1>5. ASSUME NEW t \in Tasks, Worked(t) \/ Present(t) \/ Fails(t) \/ Unwind(t)
      PROVE  Once' /\ WorkedOnce'
  BY <1>5, OnceKept DEF Worked, Present, Fails, Unwind, Goto, End, TypeOK
<1>6. CASE CloseTimeout \/ \E t \in Tasks : Told(t)
  BY <1>6, OnceKept DEF CloseTimeout, Told
<1>7. CASE CloseWebsocket \/ Closed \/ UNCHANGED vars
  BY <1>7, OnceKept DEF CloseWebsocket, Closed, vars
<1>8. CASE Restart
  BY <1>8, OnceKept DEF Restart, Fresh
<1> QED
  BY <1>1, <1>2, <1>3, <1>4, <1>5, <1>6, <1>7, <1>8 DEF Next, Step, Events

-----------------------------------------------------------------------------
(* Work in one conversation is serial.                                     *)

\* Whoever is at a lock was there, in the same place.
LEMMA InLineKept ==
  ASSUME InLine,
         \A t \in Tasks : AtLock(t)' =>
           AtLock(t) /\ job'[t] = job[t] /\ (pc'[t] = "work" => pc[t] = "work"),
         \A t, u \in Tasks : AtLock(t)' /\ AtLock(u)' => (u \in ahead'[t] <=> u \in ahead[t]),
         \A t \in Tasks : ahead'[t] \subseteq ahead[t]
  PROVE  InLine'
<1>1. ASSUME NEW t \in Tasks, pc'[t] = "work"
      PROVE  ahead'[t] = {}
  BY <1>1 DEF InLine, AtLock
<1>2. ASSUME NEW t \in Tasks, NEW u \in Tasks, t # u, AtLock(t)', AtLock(u)',
             Conversation(t)' = Conversation(u)'
      PROVE  t \in ahead'[u] \/ u \in ahead'[t]
  BY <1>2 DEF InLine, Conversation
<1> QED
  BY <1>1, <1>2 DEF InLine

LEMMA LeaveLine ==
  ASSUME TypeOK, InLine, NEW ended \in Tasks, Leave(ended),
         \A t \in Tasks : AtLock(t)' =>
           t # ended /\ pc'[t] = pc[t] /\ job'[t] = job[t]
  PROVE  InLine'
<1>1. \A t \in Tasks : ahead'[t] \subseteq ahead[t]
  BY DEF Leave
<1>2. \A t, u \in Tasks : AtLock(t)' /\ AtLock(u)' => (u \in ahead'[t] <=> u \in ahead[t])
  BY DEF Leave
<1> QED
  BY <1>1, <1>2, InLineKept DEF AtLock

LEMMA InLineNext == TypeOK /\ InLine /\ [Next]_vars => InLine'
<1> SUFFICES ASSUME TypeOK, InLine, [Next]_vars PROVE InLine'
  OBVIOUS
<1> USE DEF AtLock, closing
<1>1. ASSUME NEW t \in Tasks, NEW e \in Events, Webhook(t, e) \/ OnEvent(t, e)
      PROVE  InLine'
  BY <1>1, InLineKept DEF Webhook, OnEvent, TypeOK
<1>2. ASSUME NEW t \in Tasks, Claim(t)
      PROVE  InLine'
  <2>1. CASE IsNew(t)
    BY <1>2, <2>1, InLineKept DEF Claim, Goto, TypeOK
  <2>2. CASE ~IsNew(t)
    BY <1>2, <2>2, LeaveLine DEF Claim, End, TypeOK
  <2> QED
    BY <2>1, <2>2
<1>3. ASSUME NEW t \in Tasks, Content(t)
      PROVE  InLine'
  <2>1. \A u \in Tasks \ {t} : pc'[u] = pc[u] /\ job'[u] = job[u] /\ ahead'[u] = ahead[u]
    BY <1>3 DEF Content, Goto, Enter, TypeOK
  <2>2. /\ pc'[t] = "lock" /\ job' = job
        /\ ahead'[t] = {u \in Tasks : AtLock(u) /\ Conversation(u) = Conversation(t)}
    BY <1>3 DEF Content, Goto, Enter, TypeOK
  <2> QED
    BY <2>1, <2>2 DEF InLine, Conversation
<1>4. ASSUME NEW t \in Tasks, Work(t)
      PROVE  InLine'
  BY <1>4 DEF Work, Goto, MayWork, TypeOK, InLine, Conversation
<1>5. ASSUME NEW t \in Tasks,
             Worked(t) \/ Present(t) \/ Fails(t) \/ Click(t) \/ Unwind(t)
      PROVE  InLine'
  BY <1>5, LeaveLine DEF Worked, Present, Fails, Click, Unwind, Goto, End, TypeOK
<1>6. CASE CloseTimeout \/ \E t \in Tasks : Told(t)
  BY <1>6, InLineKept DEF CloseTimeout, Told
<1>7. CASE CloseWebsocket \/ Closed \/ UNCHANGED vars
  BY <1>7, InLineKept DEF CloseWebsocket, Closed, vars
<1>8. CASE Restart
  BY <1>8 DEF Restart, Fresh, InLine
<1> QED
  BY <1>1, <1>2, <1>3, <1>4, <1>5, <1>6, <1>7, <1>8 DEF Next, Step, Events

-----------------------------------------------------------------------------
(* Closing.                                                                *)

\* No coroutine starts, futures are forgotten with their coroutine only.
LEMMA TrackingKept ==
  ASSUME Tracking, UNCHANGED <<accepting, phase, awaited>>, futures' \subseteq futures,
         \A t \in Tasks : Busy(t)' =>
           /\ Busy(t) /\ job'[t] = job[t] /\ cancel'[t] = cancel[t]
           /\ t \in futures => t \in futures'
  PROVE  Tracking'
BY DEF Tracking, ClosedIsQuiet

LEMMA TrackingNext == TypeOK /\ Carried /\ Tracking /\ [Next]_vars => Tracking'
<1> SUFFICES ASSUME TypeOK, Carried, Tracking, [Next]_vars PROVE Tracking'
  OBVIOUS
<1> USE DEF Busy, closing
<1>1. ASSUME NEW t \in Tasks, NEW e \in Events, Webhook(t, e) \/ OnEvent(t, e)
      PROVE  Tracking'
  BY <1>1 DEF Webhook, OnEvent, Tracked, TypeOK, Tracking, ClosedIsQuiet
<1>2. ASSUME NEW t \in Tasks, Step(t) \/ Fails(t) \/ Unwind(t)
      PROVE  Tracking'
  <2>1. CASE End(t) /\ UNCHANGED closing
    <3>1. /\ UNCHANGED <<accepting, phase, awaited>> /\ futures' \subseteq futures
          /\ ~Busy(t)'
          /\ \A u \in Tasks \ {t} : /\ pc'[u] = pc[u] /\ job'[u] = job[u]
                                    /\ cancel'[u] = cancel[u]
                                    /\ u \in futures => u \in futures'
      BY <2>1 DEF End, TypeOK
    <3> QED
      BY <3>1, TrackingKept
  <2>2. CASE Busy(t) /\ (\E place : Goto(t, place)) /\ UNCHANGED <<closing, futures, cancel>>
    BY <2>2, TrackingKept DEF Goto, TypeOK
  <2> QED
    BY <1>2, <2>1, <2>2
    DEF Step, Claim, Content, Work, Worked, Present, Click, Fails, Unwind
<1>3. CASE CloseTimeout \/ \E t \in Tasks : Told(t)
  BY <1>3 DEF CloseTimeout, Cancelled, Told, Tracking, ClosedIsQuiet, TypeOK
<1>4. CASE CloseWebsocket
  BY <1>4 DEF CloseWebsocket, Tracking, ClosedIsQuiet
<1>5. CASE Closed
  BY <1>5 DEF Closed, Tracking, ClosedIsQuiet, TypeOK
<1>6. CASE Restart
  BY <1>6 DEF Restart, Fresh, Tracking, ClosedIsQuiet
<1>7. CASE UNCHANGED vars
  BY <1>7, TrackingKept DEF vars
<1> QED
  BY <1>1, <1>2, <1>3, <1>4, <1>5, <1>6, <1>7 DEF Next, Events

-----------------------------------------------------------------------------
(* The theorems.                                                           *)

LEMMA Invariance == Spec => []IInv
<1>1. IInv /\ [Next]_vars => IInv'
  BY TypeNext, OnceNext, InLineNext, TrackingNext DEF IInv
<1> QED
  BY InitIInv, <1>1, PTL DEF Spec

\* For any number of coroutines, events and restarts, the table, the locks, the
\* coroutines and the connection keep their shape.
THEOREM TypeCorrect == Spec => []TypeOK
<1>1. IInv => TypeOK
  BY DEF IInv
<1> QED
  BY <1>1, Invariance, PTL

\* For any number of redeliveries by either way, failures and restarts: the
\* insert into processed_events lets an event through to the router or to
\* ActionService at most once.
THEOREM EventsAreWorkedOnce == Spec => []WorkedOnce
<1>1. IInv => WorkedOnce
  BY DEF IInv
<1> QED
  BY <1>1, Invariance, PTL

\* For any number of coroutines and conversations: under ExecutionCoordinator's
\* lock, also when waiters fail or are cancelled, no two messages of one
\* conversation are worked on at once.
THEOREM ConversationsAreSerial == Spec => []ConversationSerial
<1>1. IInv => ConversationSerial
  BY DEF IInv, InLine, ConversationSerial, AtLock
<1> QED
  BY <1>1, Invariance, PTL

\* Whenever the thread of the long connection hands events over: those that
\* close_websocket does not wait for are not started, and those it gives up
\* have been told to stop before it returns.
THEOREM ClosingIsQuiet == Spec => []ClosedIsQuiet
<1>1. IInv => ClosedIsQuiet
  BY DEF IInv, Tracking
<1> QED
  BY <1>1, Invariance, PTL
=============================================================================
