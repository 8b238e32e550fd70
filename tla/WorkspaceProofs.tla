---------------------------- MODULE WorkspaceProofs ----------------------------
(***************************************************************************)
(* Safety of Workspace, for every set of writes and principals, whatever   *)
(* they ask for, and every number of runs.                                 *)
(*                                                                         *)
(* Everything but the names of changes (Signed) is about one write at a    *)
(* time (Fits): no step of one changes what is known of another            *)
(* (OthersFit).  Progress says how far a run has come through its          *)
(* requests, FirstRun what a first run cannot have sent yet.               *)
(***************************************************************************)
EXTENDS Workspace, TLAPS, SequenceTheorems

-----------------------------------------------------------------------------
(* The inductive invariant.                                                *)

Running(w) == worker[w].place \in {"before", "await"}
Steps(w) == Requests(ask[w])

\* Where a write can be, by the status of its action.
Placed(w) ==
  /\ worker[w].place = "claimed" => attempts[w] < MaxAttempts
  /\ worker[w].place = "claimed" \/ Running(w) => action[w].status = "executing"
  /\ Running(w) => attempts[w] > 0 /\ token[w] = by[w] /\ worker[w].at <= Len(Steps(w)) + 1
  /\ Awaits(w) => worker[w].at <= Len(Steps(w)) /\ Part(w) # "lookup"
  /\ worker[w].place = "query" => action[w].status = "unknown"
  /\ action[w].resource => action[w].status = "succeeded"

\* What a run has been answered is done; what it waits for may be on its way.
Progress(w) ==
  /\ Running(w) =>
       \A i \in 1 .. worker[w].at - 1 : Steps(w)[i] # "lookup" => Done(w, Steps(w)[i])
  /\ Awaits(w) => Sending(w) \in flying \/ Change(w) \in applied
  /\ action[w].resource =>
       \A i \in 1 .. Len(Steps(w)) : Steps(w)[i] # "lookup" => Done(w, Steps(w)[i])

\* A write that was not run, or was run once.
FirstRun(w) ==
  /\ attempts[w] = 0 => Sent(w) = {}
  /\ attempts[w] = 1 =>
       /\ action[w].status = "failed" /\ action[w].reported =>
            Steps(w)[Len(Steps(w))] \notin Sent(w)
       /\ Running(w) => \A i \in worker[w].at + 1 .. Len(Steps(w)) : Steps(w)[i] \notin Sent(w)
       /\ worker[w].place = "before" /\ ~Finished(w) => Part(w) \notin Sent(w)
       /\ Awaits(w) =>
            /\ \A s \in flying :
                 s.change.write = w /\ s.change.part = Part(w) => s = Sending(w)
            /\ Sending(w) \in flying => ~Done(w, Part(w))

Fits(w) == Placed(w) /\ Progress(w) /\ FirstRun(w)

\* Who a change is made for, and which name a keyed one has.
SignedChange(c) == c.token = by[c.write] /\ (c.part = "keyed" => c.id = 0)
Signed == (\A c \in applied : SignedChange(c)) /\ (\A s \in flying : SignedChange(s.change))

IInv == TypeOK /\ Signed /\ \A w \in Writes : Fits(w)

-----------------------------------------------------------------------------
(* The requests of a write.                                                *)

LEMMA Joined ==
  ASSUME NEW a \in Parts, NEW b \in Parts, NEW c \in Parts
  PROVE  <<a>> \o <<b>> = <<a, b>> /\ <<a>> \o <<b, c>> = <<a, b, c>>
<1>1. /\ <<a>> \in Seq(Parts) /\ <<b>> \in Seq(Parts) /\ <<a, b>> \in Seq(Parts)
      /\ <<b, c>> \in Seq(Parts) /\ <<a, b, c>> \in Seq(Parts)
  OBVIOUS
<1>2. /\ <<a>> \o <<b>> \in Seq(Parts) /\ Len(<<a>> \o <<b>>) = 2
      /\ (<<a>> \o <<b>>)[1] = a /\ (<<a>> \o <<b>>)[2] = b
  BY <1>1, ConcatProperties
<1>3. /\ <<a>> \o <<b, c>> \in Seq(Parts) /\ Len(<<a>> \o <<b, c>>) = 3
      /\ (<<a>> \o <<b, c>>)[1] = a /\ (<<a>> \o <<b, c>>)[2] = b
      /\ (<<a>> \o <<b, c>>)[3] = c
  BY <1>1, ConcatProperties
<1>4. <<a>> \o <<b>> = <<a, b>>
  <2>1. /\ Len(<<a>> \o <<b>>) = Len(<<a, b>>)
        /\ \A i \in 1 .. Len(<<a>> \o <<b>>) : (<<a>> \o <<b>>)[i] = <<a, b>>[i]
    BY <1>2
  <2> QED
    BY <1>1, <1>2, <2>1, SeqEqual, Zenon
<1>5. <<a>> \o <<b, c>> = <<a, b, c>>
  <2>1. /\ Len(<<a>> \o <<b, c>>) = Len(<<a, b, c>>)
        /\ \A i \in 1 .. Len(<<a>> \o <<b, c>>) : (<<a>> \o <<b, c>>)[i] = <<a, b, c>>[i]
    BY <1>3
  <2> QED
    BY <1>1, <1>3, <2>1, SeqEqual, Zenon
<1> QED
  BY <1>4, <1>5

LEMMA Shapes ==
  ASSUME calendar \in BOOLEAN, NEW a \in Asks
  PROVE  Requests(a) \in {<<"keyed">>, <<"lookup", "keyed">>, <<"keyed", "attendees">>,
                          <<"lookup", "keyed", "attendees">>, <<"append">>,
                          <<"keyed", "append">>}
<1>1. /\ "lookup" \in Parts /\ "keyed" \in Parts /\ "attendees" \in Parts /\ "append" \in Parts
      /\ <<"keyed">> \in Seq(Parts) /\ <<"keyed", "attendees">> \in Seq(Parts)
  BY DEF Parts
<1>2. Lookup(a) \in {<<>>, <<"lookup">>}
  BY DEF Lookup, Optionally
<1>3. CreateEvent(a) \in {<<"keyed">>, <<"keyed", "attendees">>}
  BY <1>1, Joined, ConcatEmptySeq DEF CreateEvent, Optionally
<1>4. DocumentRequests(a) \in {<<"keyed">>, <<"append">>, <<"keyed", "append">>}
  BY <1>1, Joined, ConcatEmptySeq DEF DocumentRequests, Optionally
<1>5. Lookup(a) \o CreateEvent(a) \in
        {<<"keyed">>, <<"lookup", "keyed">>, <<"keyed", "attendees">>,
         <<"lookup", "keyed", "attendees">>}
  <2>1. /\ <<"lookup">> \o <<"keyed">> = <<"lookup", "keyed">>
        /\ <<"lookup">> \o <<"keyed", "attendees">> = <<"lookup", "keyed", "attendees">>
    BY <1>1, Joined
  <2>2. CreateEvent(a) \in Seq(Parts)
    BY <1>1, <1>3
  <2>3. CASE Lookup(a) = <<>>
    BY <1>3, <2>2, <2>3, ConcatEmptySeq
  <2>4. CASE Lookup(a) = <<"lookup">>
    BY <1>3, <2>1, <2>4
  <2> QED
    BY <1>2, <2>3, <2>4
<1>6. Lookup(a) \o ChangeEvent \in {<<"keyed">>, <<"lookup", "keyed">>}
  BY <1>1, <1>2, Joined, ConcatEmptySeq DEF ChangeEvent
<1> QED
  BY <1>4, <1>5, <1>6 DEF Requests, TaskRequests

LEMMA StepsShape ==
  ASSUME TypeOK, NEW w \in Writes
  PROVE  /\ Len(Steps(w)) \in 1 .. 3 /\ DOMAIN Steps(w) = 1 .. Len(Steps(w))
         /\ \A i \in 1 .. Len(Steps(w)) : Steps(w)[i] \in Parts
         /\ Steps(w)[Len(Steps(w))] # "lookup"
         /\ \A i, j \in 1 .. Len(Steps(w)) : Steps(w)[i] = Steps(w)[j] => i = j
<1>1. ask[w] \in Asks /\ calendar \in BOOLEAN
  BY WorkspaceAssumption DEF TypeOK
<1>2. Steps(w) \in {<<"keyed">>, <<"lookup", "keyed">>, <<"keyed", "attendees">>,
                    <<"lookup", "keyed", "attendees">>, <<"append">>, <<"keyed", "append">>}
  BY <1>1, Shapes DEF Steps
<1>3. CASE Steps(w) = <<"keyed">> \/ Steps(w) = <<"append">>
  BY <1>3 DEF Parts
<1>4. CASE \/ Steps(w) = <<"lookup", "keyed">> \/ Steps(w) = <<"keyed", "attendees">>
           \/ Steps(w) = <<"keyed", "append">>
  BY <1>4 DEF Parts
<1>5. CASE Steps(w) = <<"lookup", "keyed", "attendees">>
  BY <1>5 DEF Parts
<1> QED
  BY <1>2, <1>3, <1>4, <1>5

\* The change a run is about to make.
LEMMA ChangeType ==
  ASSUME TypeOK, NEW w \in Writes, Running(w), Placed(w), ~Finished(w)
  PROVE  /\ worker[w].at \in 1 .. Len(Steps(w)) /\ Part(w) = Steps(w)[worker[w].at]
         /\ Part(w) \in Parts /\ Change(w) \in Changes /\ Sending(w) \in Sendings
         /\ Change(w).write = w /\ Change(w).part = Part(w)
         /\ Sending(w).change = Change(w)
         /\ SignedChange(Change(w))
<1>1. worker[w].at \in 1 .. Len(Steps(w)) /\ Part(w) = Steps(w)[worker[w].at]
  <2>1. Len(Steps(w)) \in 1 .. 3
    BY StepsShape
  <2>2. worker[w].at \in 1 .. 4
    BY DEF TypeOK, Runs
  <2> QED
    BY <2>1, <2>2 DEF Finished, Part, Steps
<1>2. Part(w) \in Parts
  BY <1>1, StepsShape
<1>3. attempts[w] \in 1 .. MaxAttempts /\ token[w] = by[w] /\ by[w] \in Principals
  BY WorkspaceAssumption DEF TypeOK, Placed
<1>4. RequestKey(w) \in 0 .. MaxAttempts /\ (Part(w) = "keyed" => RequestKey(w) = 0)
  BY <1>3, WorkspaceAssumption DEF RequestKey
<1>5. Change(w) \in Changes
  BY <1>2, <1>3, <1>4 DEF Changes, Change
<1>6. Sending(w) \in Sendings
  BY <1>3, <1>5 DEF Sendings, Sending
<1> QED
  BY <1>1, <1>2, <1>3, <1>4, <1>5, <1>6 DEF Change, Sending, SignedChange

-----------------------------------------------------------------------------
(* One write at a time.                                                    *)

\* What concerns write w is as it was.
Stays(w) ==
  /\ action'[w] = action[w] /\ worker'[w] = worker[w] /\ attempts'[w] = attempts[w]
  /\ token'[w] = token[w] /\ UNCHANGED setting
  /\ \A c : c.write = w => (c \in applied' <=> c \in applied)
  /\ \A s : s.change.write = w => (s \in flying' <=> s \in flying)

LEMMA OthersFit ==
  ASSUME NEW w \in Writes, Fits(w), Stays(w)
  PROVE  Fits(w)'
<1>1. Steps(w)' = Steps(w)
  BY DEF Stays, setting, Steps, Requests, Lookup, CreateEvent, DocumentRequests
<1>2. Part(w)' = Part(w) /\ Finished(w)' = Finished(w) /\ Running(w)' = Running(w)
      /\ Awaits(w)' = Awaits(w)
  BY <1>1 DEF Stays, Part, Finished, Steps, Running, Awaits
<1>3. Change(w)' = Change(w) /\ Sending(w)' = Sending(w) /\ Change(w).write = w
      /\ Sending(w).change.write = w
  BY <1>2 DEF Stays, Change, Sending, RequestKey
<1>4. \A part : (Done(w, part)' <=> Done(w, part)) /\ (UnderWay(w, part)' <=> UnderWay(w, part))
  BY DEF Stays, Done, UnderWay
<1>5. Sent(w)' = Sent(w)
  BY <1>4 DEF Sent
<1>6. Placed(w)'
  BY <1>1, <1>2 DEF Stays, setting, Fits, Placed
<1>7. Progress(w)'
  BY <1>1, <1>2, <1>3, <1>4 DEF Stays, Fits, Progress
<1>8. FirstRun(w)'
  BY <1>1, <1>2, <1>3, <1>4, <1>5 DEF Stays, Fits, FirstRun
<1> QED
  BY <1>6, <1>7, <1>8 DEF Fits

\* No step changes what a write asks for.
LEMMA SameSteps ==
  ASSUME UNCHANGED setting, NEW w \in Writes
  PROVE  Steps(w)' = Steps(w) /\ by'[w] = by[w]
BY DEF setting, Steps, Requests, Lookup, CreateEvent, DocumentRequests

\* Nothing is sent and nothing applied.
LEMMA SameSent ==
  ASSUME UNCHANGED <<flying, applied>>, NEW w \in Writes
  PROVE  Sent(w)' = Sent(w) /\ \A part : Done(w, part)' <=> Done(w, part)
BY DEF Sent, Done, UnderWay

LEMMA Outcomes ==
  /\ \A outcome \in {"not_sent", "rejected"} : ActionStatusFor(TRUE, outcome) = "failed"
  /\ \A outcome \in {"lost", "timeout", "raised"} : ActionStatusFor(TRUE, outcome) = "unknown"
  /\ ActionStatusFor(TRUE, "success") = "succeeded"
BY DEF ActionStatusFor

LEMMA Stopped ==
  /\ NoRun \in Runs /\ NoRun.place = "none"
  /\ NotRun = [status |-> "failed", resource |-> FALSE, reported |-> FALSE]
  /\ NotRun \in Actions
BY DEF NoRun, Runs, Places, NotRun, ActionStatusFor, Actions

\* What is recorded of a run with this outcome.
LEMMA Reported ==
  ASSUME TypeOK, NEW w \in Writes, NEW outcome, NEW resource \in BOOLEAN,
         Report(w, outcome, resource),
         NEW status \in {"succeeded", "failed", "unknown"},
         ActionStatusFor(TRUE, outcome) = status
  PROVE  /\ \/ action'[w] = [status |-> status, resource |-> resource, reported |-> TRUE]
            \/ action'[w] = NotRun
         /\ worker'[w] = NoRun /\ worker'[w].place = "none"
         /\ action' \in [Writes -> Actions] /\ worker' \in [Writes -> Runs]
         /\ \A v \in Writes \ {w} : action'[v] = action[v] /\ worker'[v] = worker[v]
<1>1. [status |-> status, resource |-> resource, reported |-> TRUE] \in Actions
  BY DEF Actions
<1>2. PICK row \in {[status |-> status, resource |-> resource, reported |-> TRUE], NotRun} :
        Ends(w, row)
  BY DEF Report
<1>3. row \in Actions
  BY <1>1, Stopped
<1> QED
  BY <1>2, <1>3, Stopped DEF TypeOK, Ends

LEMMA Settled ==
  ASSUME TypeOK, NEW w \in Writes, NEW outcome, NEW resource \in BOOLEAN,
         Settle(w, outcome, resource),
         NEW status \in {"succeeded", "failed", "unknown"},
         ActionStatusFor(TRUE, outcome) = status
  PROVE  /\ \/ action'[w] = [status |-> status, resource |-> resource, reported |-> TRUE]
            \/ action'[w] = NotRun
         /\ worker'[w] = NoRun /\ worker'[w].place = "none"
         /\ UNCHANGED <<setting, attempts, token, applied>>
         /\ action' \in [Writes -> Actions] /\ worker' \in [Writes -> Runs]
         /\ \A v \in Writes \ {w} : action'[v] = action[v] /\ worker'[v] = worker[v]
BY Reported DEF Settle

\* What each way of ending a run records.
Ending(w) ==
  \/ NotSent(w) \/ Refused(w) \/ AnswerLost(w) \/ GivenUp(w) \/ Succeed(w)
  \/ LookUp(w) /\ worker'[w].place = "none"
  \/ Answered(w) /\ worker'[w].place = "none"

LEMMA Ended ==
  ASSUME TypeOK, NEW w \in Writes, Ending(w)
  PROVE  /\ worker[w].place = "claimed" \/ Running(w)
         /\ worker'[w].place = "none" /\ UNCHANGED <<setting, attempts, token, applied>>
         /\ action' \in [Writes -> Actions] /\ worker' \in [Writes -> Runs]
         /\ \A v \in Writes \ {w} : action'[v] = action[v] /\ worker'[v] = worker[v]
         /\ flying' = flying \/ flying' = flying \ {Sending(w)}
         /\ \/ action'[w] = NotRun
            \/ /\ action'[w] = [status |-> "failed", resource |-> FALSE, reported |-> TRUE]
               /\ \/ Before(w) /\ flying' = flying
                  \/ Awaits(w) /\ Sending(w) \in flying /\ flying' = flying \ {Sending(w)}
            \/ \E status \in {"unknown", "succeeded"} :
                 action'[w] = [status |-> status, resource |-> FALSE, reported |-> TRUE]
            \/ /\ action'[w] = [status |-> "succeeded", resource |-> TRUE, reported |-> TRUE]
               /\ worker[w].place = "before" /\ Finished(w)
<1> USE DEF Running, Before, Awaits
<1>1. CASE NotSent(w)
  BY <1>1, Outcomes, Settled DEF NotSent
<1>2. CASE Refused(w)
  BY <1>2, Outcomes, Settled DEF Refused
<1>3. CASE AnswerLost(w)
  BY <1>3, Outcomes, Settled DEF AnswerLost
<1>4. CASE GivenUp(w)
  <2>1. PICK outcome \in {"timeout", "raised"} : Settle(w, outcome, FALSE)
    BY <1>4 DEF GivenUp
  <2>2. ActionStatusFor(TRUE, outcome) = "unknown"
    BY Outcomes
  <2> QED
    BY <1>4, <2>1, <2>2, Settled DEF GivenUp
<1>5. CASE Succeed(w)
  BY <1>5, Outcomes, Settled DEF Succeed
<1>6. CASE LookUp(w) /\ worker'[w].place = "none"
  <2>1. worker' # [worker EXCEPT ![w].at = @ + 1]
    BY <1>6 DEF LookUp, TypeOK, Runs
  <2>2. PICK outcome \in {"not_sent", "rejected"} : Settle(w, outcome, FALSE)
    BY <1>6, <2>1 DEF LookUp
  <2>3. ActionStatusFor(TRUE, outcome) = "failed"
    BY Outcomes
  <2> QED
    BY <1>6, <2>2, <2>3, Settled DEF LookUp
<1>7. CASE Answered(w) /\ worker'[w].place = "none"
  <2>1. worker' # [worker EXCEPT ![w] = [place |-> "before", at |-> @.at + 1]]
    BY <1>7 DEF Answered, TypeOK
  <2>2. Settle(w, "success", FALSE) /\ flying' = flying
    BY <1>7, <2>1 DEF Answered
  <2> QED
    BY <1>7, <2>2, Outcomes, Settled DEF Answered
<1> QED
  BY <1>1, <1>2, <1>3, <1>4, <1>5, <1>6, <1>7 DEF Ending

\* A run that goes on to its next request.
Advancing(w) == (LookUp(w) \/ Answered(w)) /\ worker'[w].place # "none"

LEMMA Advances ==
  ASSUME TypeOK, NEW w \in Writes, Placed(w), Advancing(w)
  PROVE  /\ Running(w) /\ ~Finished(w) /\ worker[w].at \in 1 .. 3
         /\ worker'[w] = [place |-> "before", at |-> worker[w].at + 1]
         /\ worker' \in [Writes -> Runs]
         /\ \A v \in Writes \ {w} : worker'[v] = worker[v]
         /\ UNCHANGED <<setting, action, attempts, token, flying, applied>>
         /\ \/ worker[w].place = "before" /\ Part(w) = "lookup"
            \/ Awaits(w) /\ Sending(w) \notin flying
<1>1. ASSUME NEW outcome, NEW resource, Settle(w, outcome, resource)
      PROVE  worker'[w].place = "none"
  <2>1. worker' = [worker EXCEPT ![w] = NoRun]
    BY <1>1 DEF Settle, Report, Ends
  <2> QED
    BY <2>1, Stopped DEF TypeOK
<1>2. worker[w].at \in 1 .. 4
  BY DEF TypeOK, Runs
<1>3. Running(w) /\ ~Finished(w)
  <2>1. CASE LookUp(w)
    BY <2>1 DEF LookUp, Before, Running
  <2>2. CASE Answered(w)
    <3>1. Len(Steps(w)) \in 1 .. 3
      BY StepsShape
    <3> QED
      BY <1>2, <2>2, <3>1 DEF Answered, Awaits, Running, Placed, Finished, Steps
  <2> QED
    BY <2>1, <2>2 DEF Advancing
<1>4. worker[w].at \in 1 .. 3
  <2>1. Len(Steps(w)) \in 1 .. 3
    BY StepsShape
  <2>2. worker[w].at <= Len(Steps(w))
    BY <1>2, <1>3, <2>1 DEF Finished, Steps
  <2>3. \A at \in 1 .. 4, len \in 1 .. 3 : at <= len => at \in 1 .. 3
    OBVIOUS
  <2> QED
    BY <1>2, <2>1, <2>2, <2>3, Zenon
<1>5. /\ worker' = [worker EXCEPT ![w] = [place |-> "before", at |-> worker[w].at + 1]]
      /\ UNCHANGED <<setting, action, attempts, token, flying, applied>>
      /\ \/ worker[w].place = "before" /\ Part(w) = "lookup"
         \/ Awaits(w) /\ Sending(w) \notin flying
  <2>1. CASE LookUp(w)
    <3>1. worker[w].place = "before" /\ Part(w) = "lookup"
      BY <2>1 DEF LookUp, Before
    <3>2. /\ worker' = [worker EXCEPT ![w].at = @ + 1]
          /\ UNCHANGED <<setting, action, attempts, token, flying, applied>>
      BY <1>1, <2>1 DEF LookUp, Advancing
    <3>3. [worker EXCEPT ![w].at = @ + 1]
            = [worker EXCEPT ![w] = [place |-> "before", at |-> worker[w].at + 1]]
      <4>1. [worker[w] EXCEPT !.at = @ + 1] = [place |-> "before", at |-> worker[w].at + 1]
        BY <3>1 DEF TypeOK, Runs
      <4> QED
        BY <4>1 DEF TypeOK
    <3> QED
      BY <3>1, <3>2, <3>3
  <2>2. CASE Answered(w)
    BY <1>1, <2>2 DEF Answered, Advancing
  <2> QED
    BY <2>1, <2>2 DEF Advancing
<1>6. [place |-> "before", at |-> worker[w].at + 1] \in Runs
  BY <1>4 DEF Runs, Places
<1> QED
  BY <1>3, <1>4, <1>5, <1>6 DEF TypeOK

\* A run comes to its first request, or ends with what the handler or the kernel says.
LEMMA Begun ==
  ASSUME TypeOK, NEW w \in Writes, Start(w) \/ NoToken(w)
  PROVE  \/ /\ Start(w) /\ UNCHANGED action
            /\ worker' = [worker EXCEPT ![w] = [place |-> "before", at |-> 1]]
         \/ /\ action'[w].status = "failed" /\ ~action'[w].resource
            /\ worker'[w].place = "none"
            /\ action' \in [Writes -> Actions] /\ worker' \in [Writes -> Runs]
            /\ \A v \in Writes \ {w} : action'[v] = action[v] /\ worker'[v] = worker[v]
<1>1. \A outcome \in {"failure", "not_sent"} : ActionStatusFor(TRUE, outcome) = "failed"
  BY DEF ActionStatusFor
<1>2. ASSUME NEW outcome \in {"failure", "not_sent"}, Report(w, outcome, FALSE)
      PROVE  /\ action'[w].status = "failed" /\ ~action'[w].resource
             /\ worker'[w].place = "none"
             /\ action' \in [Writes -> Actions] /\ worker' \in [Writes -> Runs]
             /\ \A v \in Writes \ {w} : action'[v] = action[v] /\ worker'[v] = worker[v]
  <2>1. ActionStatusFor(TRUE, outcome) = "failed"
    BY <1>1
  <2>2. "failed" \in {"succeeded", "failed", "unknown"} /\ FALSE \in BOOLEAN
    OBVIOUS
  <2>3. /\ \/ action'[w] = [status |-> "failed", resource |-> FALSE, reported |-> TRUE]
           \/ action'[w] = NotRun
        /\ worker'[w].place = "none"
        /\ action' \in [Writes -> Actions] /\ worker' \in [Writes -> Runs]
        /\ \A v \in Writes \ {w} : action'[v] = action[v] /\ worker'[v] = worker[v]
    BY <1>2, <2>1, <2>2, Reported
  <2> QED
    BY <2>3, Stopped
<1>3. CASE Start(w)
  BY <1>2, <1>3 DEF Start
<1>4. CASE NoToken(w)
  BY <1>2, <1>4 DEF NoToken
<1> QED
  BY <1>3, <1>4

LEMMA TypeNext == IInv /\ [Next]_vars => TypeOK'
<1> SUFFICES ASSUME IInv, [Next]_vars PROVE TypeOK'
  OBVIOUS
<1> USE DEF IInv
<1>1. ASSUME NEW w \in Writes, Start(w) \/ NoToken(w)
      PROVE  TypeOK'
  <2>1. attempts[w] + 1 \in 0 .. MaxAttempts
    <3>1. worker[w].place = "claimed"
      BY <1>1 DEF Start, NoToken
    <3> QED
      BY <3>1, WorkspaceAssumption DEF TypeOK, Fits, Placed
  <2>2. [place |-> "before", at |-> 1] \in Runs
    BY DEF Runs, Places
  <2>3. by[w] \in Principals
    BY DEF TypeOK
  <2>4. action' \in [Writes -> Actions] /\ worker' \in [Writes -> Runs]
    BY <1>1, <2>2, Begun DEF TypeOK
  <2> QED
    BY <1>1, <2>1, <2>3, <2>4 DEF Start, NoToken, TypeOK, setting, ActiveToken
<1>2. ASSUME NEW w \in Writes, Ending(w)
      PROVE  TypeOK'
  BY <1>2, Ended DEF TypeOK, setting
<1>3. ASSUME NEW w \in Writes, Advancing(w)
      PROVE  TypeOK'
  BY <1>3, Advances DEF Fits, TypeOK, setting
<1>4. ASSUME NEW w \in Writes, Send(w)
      PROVE  TypeOK'
  BY <1>4, ChangeType DEF Send, Before, Running, Fits, Place, TypeOK, setting, Runs, Places
<1>5. ASSUME NEW w \in Writes, RetryUnknown(w) \/ NotFound(w)
      PROVE  TypeOK'
  <2>1. NoRun \in Runs /\ [place |-> "claimed", at |-> 1] \in Runs
    BY DEF NoRun, Runs, Places
  <2>2. [action EXCEPT ![w].status = "executing"] \in [Writes -> Actions]
    BY DEF TypeOK, Actions
  <2> QED
    BY <1>5, <2>1, <2>2 DEF RetryUnknown, NotFound, Claim, TypeOK, setting
<1>6. ASSUME NEW w \in Writes, Reconcile(w) \/ Found(w)
      PROVE  TypeOK'
  <2>1. /\ NoRun \in Runs
        /\ [status |-> "succeeded", resource |-> FALSE, reported |-> FALSE] \in Actions
    BY DEF NoRun, Runs, Places, Actions
  <2>2. [worker EXCEPT ![w].place = "query"] \in [Writes -> Runs]
    BY DEF TypeOK, Runs, Places
  <2>3. by[w] \in Principals
    BY DEF TypeOK
  <2> QED
    BY <1>6, <2>1, <2>2, <2>3 DEF Reconcile, Found, Ends, Place, ActiveToken, TypeOK, setting
<1>7. ASSUME NEW sending \in flying, Applies(sending)
      PROVE  TypeOK'
  BY <1>7 DEF Applies, TypeOK, setting, Sendings
<1>8. CASE UNCHANGED vars
  BY <1>8 DEF vars, TypeOK, setting
<1>9. ASSUME NEW w \in Writes, Refuse(w) \/ Abandon(w)
      PROVE  TypeOK'
  BY <1>9, Stopped DEF Refuse, Abandon, Ends, TypeOK, setting
<1> QED
  BY <1>1, <1>2, <1>3, <1>4, <1>5, <1>6, <1>7, <1>8, <1>9 DEF Next, Run, Resolve, Ending, Advancing

-----------------------------------------------------------------------------
(* Names, places, progress.                                                *)

\* What the kernel and the questions do: nothing is sent, nothing comes in.
Quiet(w) == Start(w) \/ NoToken(w) \/ Refuse(w) \/ Abandon(w) \/ Resolve(w)

LEMMA QuietSends ==
  ASSUME NEW w \in Writes, Quiet(w)
  PROVE  UNCHANGED <<setting, flying, applied>>
BY DEF Quiet, Start, NoToken, Refuse, Abandon, Resolve, RetryUnknown, Reconcile, Found,
       NotFound, Claim, Place

\* The step of one write, as far as others see it.
LEMMA OthersStay ==
  ASSUME IInv, NEW w \in Writes, Run(w) \/ Resolve(w)
  PROVE  /\ UNCHANGED <<setting, applied>>
         /\ \A v \in Writes \ {w} : Stays(v)
<1> USE DEF IInv
<1>1. CASE Quiet(w)
  <2>1. \A v \in Writes \ {w} :
          /\ action'[v] = action[v] /\ worker'[v] = worker[v]
          /\ attempts'[v] = attempts[v] /\ token'[v] = token[v]
    <3>1. CASE Start(w) \/ NoToken(w)
      <4>1. \A v \in Writes \ {w} : attempts'[v] = attempts[v] /\ token'[v] = token[v]
        BY <3>1 DEF Start, NoToken, ActiveToken, TypeOK
      <4>2. \A v \in Writes \ {w} : action'[v] = action[v] /\ worker'[v] = worker[v]
        BY <3>1, Begun DEF TypeOK
      <4> QED
        BY <4>1, <4>2
    <3>2. CASE Refuse(w) \/ Abandon(w) \/ Resolve(w)
      BY <3>2 DEF Refuse, Abandon, Ends, Resolve, RetryUnknown, Reconcile, Found, NotFound,
                  Claim, Place, ActiveToken, TypeOK
    <3> QED
      BY <1>1, <3>1, <3>2 DEF Quiet
  <2> QED
    BY <1>1, <2>1, QuietSends DEF Stays
<1>2. Sending(w).change.write = w
  BY DEF Sending, Change
<1>3. CASE Ending(w)
  BY <1>2, <1>3, Ended DEF Stays
<1>4. CASE Advancing(w)
  BY <1>4, Advances DEF Fits, Stays
<1>5. CASE Send(w)
  BY <1>2, <1>5 DEF Send, Place, Stays, TypeOK
<1> QED
  BY <1>1, <1>3, <1>4, <1>5 DEF Run, Quiet, Ending, Advancing

LEMMA SignedNext == IInv /\ [Next]_vars => Signed'
<1> SUFFICES ASSUME IInv, [Next]_vars PROVE Signed'
  OBVIOUS
<1>1. UNCHANGED setting
  BY OthersStay DEF Next, Applies, vars
<1>2. \A c : SignedChange(c)' <=> SignedChange(c)
  BY <1>1 DEF SignedChange, setting
<1>3. CASE applied' \subseteq applied /\ flying' \subseteq flying
  BY <1>2, <1>3 DEF IInv, Signed
<1>4. ASSUME NEW w \in Writes, Send(w)
      PROVE  Signed'
  <2>1. SignedChange(Sending(w).change)
    BY <1>4, ChangeType DEF Send, Before, Running, IInv, Fits
  <2> QED
    BY <1>2, <1>4, <2>1 DEF Send, IInv, Signed
<1>5. ASSUME NEW sending \in flying, Applies(sending)
      PROVE  Signed'
  BY <1>2, <1>5 DEF Applies, IInv, Signed
<1>6. ASSUME NEW w \in Writes, Quiet(w) \/ Ending(w) \/ Advancing(w)
      PROVE  applied' \subseteq applied /\ flying' \subseteq flying
  BY <1>6, QuietSends, Ended, Advances DEF IInv, Fits
<1>7. CASE UNCHANGED vars
  BY <1>3, <1>7 DEF vars
<1> QED
  BY <1>3, <1>4, <1>5, <1>6, <1>7 DEF Next, Run, Quiet, Ending, Advancing

LEMMA QuietFits ==
  ASSUME IInv, NEW w \in Writes, Quiet(w)
  PROVE  Fits(w)'
<1> USE DEF IInv, Running, Awaits, Finished
<1>1. /\ Steps(w)' = Steps(w) /\ by'[w] = by[w] /\ Sent(w)' = Sent(w)
      /\ \A part : Done(w, part)' <=> Done(w, part)
  BY QuietSends, SameSteps, SameSent
<1>2. Len(Steps(w)) \in 1 .. 3 /\ attempts[w] \in Nat
  BY StepsShape DEF TypeOK
<1>3. CASE Start(w) \/ NoToken(w)
  <2>1. /\ attempts'[w] = attempts[w] + 1 /\ attempts[w] < MaxAttempts
        /\ ~action[w].resource /\ action[w].status = "executing"
    BY <1>3 DEF Start, NoToken, Fits, Placed, TypeOK
  <2>2. Sent(w) = {} \/ attempts'[w] # 1
    BY <1>2, <2>1 DEF Fits, FirstRun
  <2>3. CASE worker'[w].place = "before"
    <3>1. /\ worker'[w] = [place |-> "before", at |-> 1] /\ token'[w] = by[w]
          /\ action' = action
      BY <1>3, <2>3, Begun DEF Start, ActiveToken, TypeOK
    <3>2. Placed(w)' /\ Progress(w)'
      BY <1>1, <1>2, <2>1, <3>1 DEF Placed, Progress
    <3>3. FirstRun(w)'
      BY <1>1, <1>2, <2>1, <2>2, <3>1 DEF FirstRun
    <3> QED
      BY <3>2, <3>3 DEF Fits
  <2>4. CASE worker'[w].place # "before"
    <3>1. /\ worker'[w].place = "none" /\ action'[w].status = "failed"
          /\ ~action'[w].resource
      BY <1>3, <2>4, Begun DEF TypeOK
    <3>2. Placed(w)' /\ Progress(w)'
      BY <1>1, <2>1, <3>1 DEF Placed, Progress
    <3>3. FirstRun(w)'
      BY <1>1, <1>2, <2>1, <2>2, <3>1 DEF FirstRun
    <3> QED
      BY <3>2, <3>3 DEF Fits
  <2> QED
    BY <2>3, <2>4
<1>4. CASE Resolve(w)
  <2>0. action[w].status = "unknown" /\ ~action[w].resource
    BY <1>4 DEF Resolve, RetryUnknown, Reconcile, Found, NotFound, Unknown, Fits, Placed
  <2>1. /\ attempts' = attempts /\ worker'[w].place \in {"none", "claimed", "query"}
        /\ ~action'[w].resource
    BY <1>4, <2>0 DEF Resolve, RetryUnknown, Reconcile, Found, NotFound, Ends, Claim, Place,
                      NoRun, TypeOK, Actions, Runs
  <2>2. /\ action'[w].status \in {"unknown", "executing", "succeeded"}
        /\ worker'[w].place = "claimed" =>
             action'[w].status = "executing" /\ attempts[w] < MaxAttempts
        /\ worker'[w].place = "query" => action'[w].status = "unknown"
    BY <1>4, <2>0 DEF Resolve, RetryUnknown, Reconcile, Found, NotFound, Unknown, Ends, Claim,
                      Place, NoRun, TypeOK, Actions, Runs
  <2>3. Placed(w)' /\ Progress(w)' /\ FirstRun(w)'
    BY <1>1, <2>0, <2>1, <2>2 DEF Placed, Progress, Fits, FirstRun
  <2> QED
    BY <2>3 DEF Fits
<1>5. CASE Refuse(w) \/ Abandon(w)
  <2>1. /\ attempts' = attempts /\ worker'[w].place = "none"
        /\ \/ action'[w] = [status |-> "failed", resource |-> FALSE, reported |-> FALSE]
           \/ action'[w] = action[w]
    BY <1>5, Stopped DEF Refuse, Abandon, Ends, TypeOK
  <2>2. Placed(w)' /\ Progress(w)' /\ FirstRun(w)'
    BY <1>1, <1>2, <2>1 DEF Fits, Placed, Progress, FirstRun
  <2> QED
    BY <2>2 DEF Fits
<1> QED
  BY <1>3, <1>4, <1>5 DEF Quiet

LEMMA EndsFit ==
  ASSUME IInv, NEW w \in Writes, Ending(w)
  PROVE  Fits(w)'
<1> USE DEF IInv
<1>1. /\ worker'[w].place = "none" /\ attempts' = attempts /\ attempts[w] \in Nat
      /\ Steps(w)' = Steps(w) /\ applied' = applied
  BY Ended, SameSteps DEF TypeOK
<1>2. Len(Steps(w)) \in 1 .. 3 /\ worker[w].at \in 1 .. 4
  BY StepsShape DEF TypeOK, Runs
<1>3. flying' = flying \/ flying' = flying \ {Sending(w)}
  BY Ended
<1>4. /\ Sent(w)' \subseteq Sent(w)
      /\ \A part : Done(w, part)' <=> Done(w, part)
  BY <1>1, <1>3 DEF Sent, Done, UnderWay
<1>5. Placed(w)'
  BY <1>1, Ended, Stopped DEF Placed, Running, Awaits
<1>6. Progress(w)'
  <2>1. ASSUME action'[w].resource
        PROVE  Running(w) /\ worker[w].at > Len(Steps(w))
    BY <2>1, Ended, Stopped DEF Finished, Steps, Running
  <2>2. ASSUME action'[w].resource, NEW i \in 1 .. Len(Steps(w)), Steps(w)[i] # "lookup"
        PROVE  Done(w, Steps(w)[i])
    BY <1>2, <2>1, <2>2 DEF Fits, Progress
  <2> QED
    BY <1>1, <1>4, <2>2 DEF Progress, Running, Awaits
<1>7. ASSUME attempts[w] = 1, action'[w].status = "failed", action'[w].reported
      PROVE  Steps(w)[Len(Steps(w))] \notin Sent(w)'
  <2>1. CASE Running(w) /\ worker[w].at < Len(Steps(w))
    BY <1>2, <1>4, <1>7, <2>1 DEF Fits, FirstRun
  <2>2. CASE Before(w) /\ worker[w].at >= Len(Steps(w))
    <3>1. Part(w) = Steps(w)[Len(Steps(w))]
      BY <1>2, <2>2 DEF Before, Finished, Part, Steps
    <3> QED
      BY <1>4, <1>7, <2>2, <3>1 DEF Before, Fits, FirstRun
  <2>3. CASE /\ Awaits(w) /\ worker[w].at >= Len(Steps(w))
             /\ Sending(w) \in flying /\ flying' = flying \ {Sending(w)}
    <3>1. Part(w) = Steps(w)[Len(Steps(w))]
      BY <1>2, <2>3 DEF Fits, Placed, Part, Steps
    <3>2. ASSUME NEW part, part = Part(w)
          PROVE  ~Done(w, part)' /\ ~UnderWay(w, part)'
      BY <1>4, <1>7, <2>3, <3>2 DEF Fits, FirstRun, UnderWay
    <3>3. Part(w) \notin Sent(w)'
      BY <3>2 DEF Sent
    <3> QED
      BY <3>1, <3>3
  <2> QED
    BY <1>2, <1>7, <2>1, <2>2, <2>3, Ended, Stopped DEF Before, Awaits, Running
<1>8. FirstRun(w)'
  BY <1>1, <1>4, <1>7 DEF Fits, FirstRun, Running, Awaits
<1> QED
  BY <1>5, <1>6, <1>8 DEF Fits

LEMMA AdvancesFit ==
  ASSUME IInv, NEW w \in Writes, Advancing(w)
  PROVE  Fits(w)'
<1> USE DEF IInv, Running, Awaits
<1>1. /\ worker'[w] = [place |-> "before", at |-> worker[w].at + 1] /\ Running(w)
      /\ UNCHANGED <<setting, action, attempts, token, flying, applied>>
      /\ \/ worker[w].place = "before" /\ Part(w) = "lookup"
         \/ Awaits(w) /\ Sending(w) \notin flying
  BY Advances DEF Fits
<1>2. /\ worker[w].at \in 1 .. Len(Steps(w)) /\ Part(w) = Steps(w)[worker[w].at]
      /\ Change(w).write = w /\ Change(w).part = Part(w)
  BY Advances, ChangeType DEF Fits
<1>3. /\ Steps(w)' = Steps(w) /\ by'[w] = by[w] /\ Sent(w)' = Sent(w)
      /\ \A part : Done(w, part)' <=> Done(w, part)
  BY <1>1, SameSteps, SameSent
<1>4. Len(Steps(w)) \in 1 .. 3
  BY StepsShape
<1>5. Part(w) = "lookup" \/ Done(w, Part(w))
  BY <1>1, <1>2 DEF Fits, Progress, Done
<1>6. Placed(w)'
  BY <1>1, <1>2, <1>3, <1>4 DEF Fits, Placed
<1>7. Progress(w)'
  <2>1. ASSUME NEW i \in 1 .. worker[w].at, Steps(w)[i] # "lookup"
        PROVE  Done(w, Steps(w)[i])
    <3>1. CASE i = worker[w].at
      BY <1>2, <1>5, <2>1, <3>1
    <3>2. CASE i # worker[w].at
      BY <1>1, <1>2, <1>4, <2>1, <3>2 DEF Fits, Progress
    <3> QED
      BY <3>1, <3>2
  <2>2. worker'[w].at - 1 = worker[w].at
    BY <1>1, <1>2, <1>4
  <2> QED
    BY <1>1, <1>3, <2>1, <2>2 DEF Fits, Progress
<1>8. FirstRun(w)'
  <2>1. ~Finished(w)' => worker[w].at + 1 <= Len(Steps(w)) /\ Part(w)' = Steps(w)[worker[w].at + 1]
    BY <1>1, <1>2, <1>3, <1>4 DEF Finished, Part, Steps
  <2> QED
    BY <1>1, <1>2, <1>3, <1>4, <2>1 DEF Fits, FirstRun
<1> QED
  BY <1>6, <1>7, <1>8 DEF Fits

LEMMA SendFits ==
  ASSUME IInv, NEW w \in Writes, Send(w)
  PROVE  Fits(w)'
<1> USE DEF IInv, Running, Awaits
<1>1. /\ worker[w].place = "before" /\ worker'[w].place = "await"
      /\ worker'[w].at = worker[w].at /\ flying' = flying \cup {Sending(w)}
      /\ UNCHANGED <<setting, action, attempts, token, applied>>
      /\ ~Finished(w) /\ Part(w) # "lookup"
  BY DEF Send, Before, Place, TypeOK, Runs
<1>2. /\ worker[w].at \in 1 .. Len(Steps(w)) /\ Part(w) = Steps(w)[worker[w].at]
      /\ Change(w).write = w /\ Change(w).part = Part(w) /\ Sending(w).change = Change(w)
  BY <1>1, ChangeType DEF Fits
<1>3. Steps(w)' = Steps(w) /\ by'[w] = by[w] /\ \A part : Done(w, part)' <=> Done(w, part)
  BY <1>1, SameSteps DEF Done
<1>4. Len(Steps(w)) \in 1 .. 3 /\ \A i, j \in 1 .. Len(Steps(w)) : Steps(w)[i] = Steps(w)[j] => i = j
  BY StepsShape
<1>5. Part(w)' = Part(w)
  BY <1>1, <1>3 DEF Part, Steps
<1>6. Change(w)' = Change(w) /\ Sending(w)' = Sending(w)
  BY <1>1, <1>5 DEF Change, Sending, RequestKey
<1>7. \A part : part # Part(w) => (UnderWay(w, part)' <=> UnderWay(w, part))
  BY <1>1, <1>2 DEF UnderWay
<1>8. \A part : part # Part(w) => (part \in Sent(w)' <=> part \in Sent(w))
  BY <1>3, <1>7 DEF Sent
<1>9. Placed(w)'
  BY <1>1, <1>2, <1>3, <1>4, <1>5 DEF Fits, Placed
<1>10. Progress(w)'
  BY <1>1, <1>3, <1>6 DEF Fits, Progress
<1>11. FirstRun(w)'
  <2>1. attempts[w] > 0 /\ action[w].status = "executing"
    BY <1>1 DEF Fits, Placed
  <2>2. ASSUME attempts[w] = 1
        PROVE  ~Done(w, Part(w)) /\ ~UnderWay(w, Part(w))
    <3>1. Part(w) \notin Sent(w) /\ Part(w) \in Parts
      BY <1>1, <1>2, <2>2, StepsShape DEF Fits, FirstRun
    <3> QED
      BY <3>1 DEF Sent
  <2>3. ASSUME attempts[w] = 1, NEW s \in flying', s.change.write = w, s.change.part = Part(w)
        PROVE  s = Sending(w)
    BY <1>1, <2>2, <2>3 DEF UnderWay
  <2>4. ASSUME attempts[w] = 1, NEW i \in worker[w].at + 1 .. Len(Steps(w))
        PROVE  Steps(w)[i] \notin Sent(w)'
    <3>1. Steps(w)[i] # Part(w)
      BY <1>2, <1>4, <2>4
    <3>2. Steps(w)[i] \notin Sent(w)
      BY <1>1, <2>4 DEF Fits, FirstRun
    <3> QED
      BY <1>8, <3>1, <3>2
  <2> QED
    BY <1>1, <1>3, <1>5, <1>6, <2>1, <2>2, <2>3, <2>4 DEF FirstRun
<1> QED
  BY <1>9, <1>10, <1>11 DEF Fits

LEMMA AppliesFit ==
  ASSUME IInv, NEW sending \in flying, Applies(sending), NEW w \in Writes
  PROVE  Fits(w)'
<1> USE DEF IInv
<1>1. /\ UNCHANGED <<setting, action, worker, attempts, token>>
      /\ flying' = flying \ {sending} /\ applied' = applied \cup {sending.change}
  BY DEF Applies
<1>2. CASE sending.change.write # w
  BY <1>1, <1>2, OthersFit DEF Stays
<1>3. CASE sending.change.write = w
  <2>1. Steps(w)' = Steps(w) /\ by'[w] = by[w]
    BY <1>1, SameSteps
  <2>2. /\ Part(w)' = Part(w) /\ Finished(w)' = Finished(w) /\ Running(w)' = Running(w)
        /\ Awaits(w)' = Awaits(w)
    BY <1>1, <2>1 DEF Part, Finished, Steps, Running, Awaits
  <2>3. Change(w)' = Change(w) /\ Sending(w)' = Sending(w) /\ Sending(w).change = Change(w)
    BY <1>1, <2>2 DEF Change, Sending, RequestKey
  <2>4. /\ \A part : Done(w, part) => Done(w, part)'
        /\ \A part : part # sending.change.part => (Done(w, part)' <=> Done(w, part))
    BY <1>1 DEF Done
  <2>5. Sent(w)' = Sent(w)
    <3>1. \A part : Done(w, part)' \/ UnderWay(w, part)' <=> Done(w, part) \/ UnderWay(w, part)
      BY <1>1, <1>3 DEF Done, UnderWay
    <3> QED
      BY <3>1 DEF Sent
  <2>6. Placed(w)'
    BY <1>1, <2>1, <2>2 DEF Fits, Placed
  <2>7. Progress(w)'
    BY <1>1, <2>1, <2>2, <2>3, <2>4 DEF Fits, Progress
  <2>8. FirstRun(w)'
    BY <1>1, <1>3, <2>1, <2>2, <2>3, <2>4, <2>5 DEF Fits, FirstRun
  <2> QED
    BY <2>6, <2>7, <2>8 DEF Fits
<1> QED
  BY <1>2, <1>3

LEMMA FitsNext == IInv /\ [Next]_vars => \A w \in Writes : Fits(w)'
<1> SUFFICES ASSUME IInv, [Next]_vars, NEW v \in Writes PROVE Fits(v)'
  OBVIOUS
<1>1. Fits(v)
  BY DEF IInv
<1>2. ASSUME NEW w \in Writes, Run(w) \/ Resolve(w)
      PROVE  Fits(v)'
  <2>1. Fits(w)'
    BY <1>2, QuietFits, EndsFit, AdvancesFit, SendFits DEF Run, Quiet, Ending, Advancing
  <2> QED
    BY <1>1, <1>2, <2>1, OthersStay, OthersFit
<1>3. ASSUME NEW sending \in flying, Applies(sending)
      PROVE  Fits(v)'
  BY <1>3, AppliesFit
<1>4. CASE UNCHANGED vars
  BY <1>1, <1>4, OthersFit DEF vars, Stays
<1> QED
  BY <1>2, <1>3, <1>4 DEF Next

LEMMA InitIInv == Init => IInv
<1> SUFFICES ASSUME Init PROVE IInv
  OBVIOUS
<1>1. TypeOK
  BY WorkspaceAssumption DEF Init, TypeOK, Actions, Claimed, Runs, Places
<1>2. Signed
  BY DEF Init, Signed
<1>3. ASSUME NEW w \in Writes
      PROVE  Fits(w)
  <2>1. Sent(w) = {}
    BY DEF Init, Sent, Done, UnderWay
  <2> QED
    BY <2>1, WorkspaceAssumption DEF Init, Claimed, Fits, Placed, Progress, FirstRun, Running, Awaits
<1> QED
  BY <1>1, <1>2, <1>3 DEF IInv

LEMMA Invariance == Spec => []IInv
<1>1. IInv /\ [Next]_vars => IInv'
  BY TypeNext, SignedNext, FitsNext DEF IInv
<1> QED
  BY InitIInv, <1>1, PTL DEF Spec

-----------------------------------------------------------------------------
(* The theorems.                                                           *)

\* For any number of writes, principals and runs, the actions, the runs of the
\* workspace handlers and the changes keep their shape.
THEOREM TypeCorrect == Spec => []TypeOK
<1>1. IInv => TypeOK
  BY DEF IInv
<1> QED
  BY <1>1, Invariance, PTL

\* However many principals write at once over the one FeishuWorkspaceProvider: what
\* Feishu is sent for a write carries the token of the write's own principal.
THEOREM TokensDoNotMix == Spec => []WritesAsItsPrincipal
<1>1. IInv => WritesAsItsPrincipal
  BY DEF IInv, Signed, SignedChange, WritesAsItsPrincipal
<1> QED
  BY <1>1, Invariance, PTL

\* For any number of retries and late requests: the change that carries the
\* idempotency key of a write is made once.
THEOREM KeysAreUsedOnce == Spec => []KeyedOnce
<1>1. IInv => KeyedOnce
  BY DEF IInv, Signed, SignedChange, KeyedOnce, TypeOK, Changes
<1> QED
  BY <1>1, Invariance, PTL

\* Whatever is asked for, and however late requests are applied: a result of a
\* handler that names a resource is of a write done whole, with its attendees or
\* its content.
THEOREM NamedResourcesAreWhole == Spec => []NamedIsWhole
<1>1. ASSUME IInv PROVE NamedIsWhole
  BY <1>1, StepsShape DEF IInv, Fits, Progress, NamedIsWhole, Steps
<1> QED
  BY <1>1, Invariance, PTL

\* Whatever is asked for: a first run whose handler reports a failure, be it one of
\* _request's errors or a refusal of its own, has not made its last change, and will
\* not.
THEOREM FailureComesBeforeTheEnd == Spec => []FailureStopsShort
<1>1. ASSUME IInv PROVE FailureStopsShort
  BY <1>1 DEF IInv, Fits, FirstRun, FailureStopsShort, Steps
<1> QED
  BY <1>1, Invariance, PTL
=============================================================================
