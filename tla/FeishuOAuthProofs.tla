--------------------------- MODULE FeishuOAuthProofs ---------------------------
(***************************************************************************)
(* Safety of FeishuOAuth for every number of coroutines, accounts, scopes, *)
(* links and grants, and any number of faults.                             *)
(*                                                                         *)
(* What a task carries fits the place it is at (Fits), and so does what is *)
(* stored: that is where the scopes on record and the owner of a           *)
(* credential come from.  Grants are never taken back and a state that is  *)
(* gone stays gone (Later), so a step of one task leaves the others'.      *)
(***************************************************************************)
EXTENDS FeishuOAuth, TLAPS, SequenceTheorems

-----------------------------------------------------------------------------
(* The inductive invariant.                                                *)

\* A credential names grants that exist, and no scopes they do not have.
Sound(c, grants) ==
  /\ c \in Credentials
  /\ c.access \in 1 .. Len(grants) /\ c.refresh \in 0 .. Len(grants)
  /\ c.scopes \subseteq grants[c.access].scopes
  /\ c.refresh # 0 => c.scopes \subseteq grants[c.refresh].scopes

Belongs(c, p, grants) ==
  /\ grants[c.access].who = p
  /\ c.refresh # 0 => grants[c.refresh].who = p

TokenPlaces == {"look", "issue"} \cup LockPlaces
Consumed == {"code", "whoami", "store"}

JobFits(t) ==
  /\ pc[t] \in TokenPlaces => job[t] \in TokenJobs
  /\ pc[t] \in CallbackPlaces => job[t] \in CallbackJobs
  /\ pc[t] \in Consumed =>
       job[t].who \in Accounts /\ states[job[t].state].status = "gone"

HeldFits(t) ==
  /\ pc[t] \in {"refresh", "save"} => Sound(held[t], issued) /\ Belongs(held[t], job[t].who, issued)
  /\ pc[t] \in {"whoami", "store"} =>
       Sound(held[t], issued) /\ held[t].refresh \in {0, held[t].access}
  /\ pc[t] = "store" => Belongs(held[t], job[t].who, issued)

StoredFits ==
  \A p \in Accounts : stored[p] # None =>
    Sound(stored[p], issued) /\ Belongs(stored[p], p, issued)

OpenForSomebody == \A i \in StateIds : states[i].status = "open" => states[i].who \in Accounts

Fits ==
  /\ \A t \in Tasks : JobFits(t) /\ HeldFits(t)
  /\ StoredFits /\ OpenForSomebody

IInv == TypeOK /\ Fits /\ StateConsumedOnce

-----------------------------------------------------------------------------
(* The moves of a task.                                                    *)

OthersStay(t) ==
  \A u \in Tasks \ {t} : pc'[u] = pc[u] /\ job'[u] = job[u] /\ held'[u] = held[u]

TaskTypes ==
  /\ pc \in [Tasks -> Places]
  /\ job \in [Tasks -> Jobs \cup {None}]
  /\ held \in [Tasks -> Credentials \cup {None}]

LEMMA Movement ==
  ASSUME TaskTypes, NEW t \in Tasks
  PROVE  /\ Idle(t) => TaskTypes' /\ OthersStay(t) /\ pc'[t] = "idle"
         /\ \A place \in Places, work \in Jobs : Begin(t, place, work) =>
              TaskTypes' /\ OthersStay(t) /\ pc[t] = "idle" /\ pc'[t] = place
              /\ job'[t] = work /\ held'[t] = held[t]
         /\ \A place \in Places, c \in Credentials : Carry(t, place, c) =>
              TaskTypes' /\ OthersStay(t) /\ pc'[t] = place
              /\ job'[t] = job[t] /\ held'[t] = c
<1>1. Idle(t) => TaskTypes' /\ OthersStay(t) /\ pc'[t] = "idle"
  BY DEF Idle, Goto, TaskTypes, OthersStay, Places
<1>2. ASSUME NEW place \in Places, NEW work \in Jobs, Begin(t, place, work)
      PROVE  TaskTypes' /\ OthersStay(t) /\ pc[t] = "idle" /\ pc'[t] = place
             /\ job'[t] = work /\ held'[t] = held[t]
  BY <1>2 DEF Begin, Goto, TaskTypes, OthersStay
<1>3. ASSUME NEW place \in Places, NEW c \in Credentials, Carry(t, place, c)
      PROVE  TaskTypes' /\ OthersStay(t) /\ pc'[t] = place
             /\ job'[t] = job[t] /\ held'[t] = c
  BY <1>3 DEF Carry, Goto, TaskTypes, OthersStay
<1> QED
  BY <1>1, <1>2, <1>3

\* A task without a usable credential is idle, or goes to "issue".
LEMMA WithoutMoves ==
  ASSUME TaskTypes, NEW t \in Tasks, Without(t)
  PROVE  /\ TaskTypes' /\ OthersStay(t)
         /\ \/ pc'[t] = "idle"
            \/ pc'[t] = "issue" /\ job'[t] = job[t]
<1>1. CASE job[t].op = "token"
  BY <1>1, Movement DEF Without
<1>2. CASE job[t].op # "token"
  BY <1>2 DEF Without, Goto, TaskTypes, OthersStay, Places
<1> QED
  BY <1>1, <1>2

LEMMA WithMoves ==
  ASSUME TaskTypes, NEW t \in Tasks, NEW c, With(t, c)
  PROVE  /\ TaskTypes' /\ OthersStay(t)
         /\ \/ pc'[t] = "idle"
            \/ pc'[t] = "issue" /\ job'[t] = job[t]
<1>1. CASE job[t].op = "token" \/ job[t].need \subseteq c.scopes
  BY <1>1, Movement DEF With
<1>2. CASE ~(job[t].op = "token" \/ job[t].need \subseteq c.scopes)
  BY <1>2, WithoutMoves DEF With
<1> QED
  BY <1>1, <1>2

\* Only tasks stand in the lock's line.
LEMMA Lining ==
  ASSUME ahead \in [Tasks -> SUBSET Tasks], NEW t \in Tasks
  PROVE  /\ Leave(t) => ahead' \in [Tasks -> SUBSET Tasks]
         /\ \A p \in Accounts : Enter(t, p) => ahead' \in [Tasks -> SUBSET Tasks]
<1>1. Leave(t) => ahead' \in [Tasks -> SUBSET Tasks]
  BY DEF Leave
<1>2. \A p \in Accounts : Enter(t, p) => ahead' \in [Tasks -> SUBSET Tasks]
  BY DEF Enter, AtLock
<1> QED
  BY <1>1, <1>2

-----------------------------------------------------------------------------
(* Types.                                                                  *)

RowTypes ==
  /\ stored \in [Accounts -> Credentials \cup {None}]
  /\ states \in [StateIds -> StateRows]
LineTypes == ahead \in [Tasks -> SUBSET Tasks]
ServerTypes ==
  /\ issued \in Seq([scopes: SUBSET Scopes, who: Accounts])
  /\ Len(issued) <= MaxGrants
  /\ spent \subseteq GrantIds /\ stale \subseteq GrantIds /\ lapsed \subseteq GrantIds
HistoryTypes ==
  /\ welcomed \in [Accounts -> (SUBSET Scopes) \cup {None}]
  /\ replayed \in BOOLEAN
  /\ faults \in 0 .. MaxFaults

Types == TaskTypes /\ RowTypes /\ LineTypes /\ ServerTypes /\ HistoryTypes

LEMMA TypeParts == TypeOK <=> Types
  BY DEF TypeOK, Types, TaskTypes, RowTypes, LineTypes, ServerTypes, HistoryTypes

\* A grant honours a refresh token: it is of the same account and scopes.
LEMMA GrantsMoves ==
  ASSUME TypeOK, Fits, NEW t \in Tasks, pc[t] = "refresh",
         NEW rotates \in BOOLEAN, NEW tells \in BOOLEAN, Grants(t, rotates, tells)
  PROVE  LET before == held[t]
             g == Len(issued) + 1
             c == [access |-> g,
                   refresh |-> IF rotates THEN g ELSE before.refresh,
                   scopes |-> IF tells THEN issued[before.refresh].scopes
                              ELSE FallbackScopes(t, before)]
         IN  /\ c \in Credentials /\ Carry(t, "save", c)
             /\ before.refresh \in 1 .. Len(issued)
             /\ issued' = Append(issued, [scopes |-> issued[before.refresh].scopes,
                                          who |-> issued[before.refresh].who])
             /\ g \in GrantIds
             /\ spent' = IF rotates THEN spent \cup {before.refresh} ELSE spent
             /\ before.refresh \notin spent
             /\ c.scopes \subseteq issued[before.refresh].scopes
<1> DEFINE before == held[t]
           g == Len(issued) + 1
           c == [access |-> g,
                 refresh |-> IF rotates THEN g ELSE before.refresh,
                 scopes |-> IF tells THEN issued[before.refresh].scopes
                            ELSE FallbackScopes(t, before)]
<1>1. MaxGrants \in Nat /\ issued \in Seq([scopes: SUBSET Scopes, who: Accounts])
      /\ Len(issued) <= MaxGrants
  BY OAuthAssumption DEF TypeOK
<1>2. before \in Credentials /\ before.refresh \in 1 .. Len(issued)
      /\ before.refresh \notin spent /\ g \in GrantIds
  BY <1>1 DEF Grants, Accepts, Fits, HeldFits, Sound, GrantIds
<1>3. issued[before.refresh].scopes \in SUBSET Scopes
  <2>1. \A k \in 1 .. Len(issued) : issued[k] \in [scopes: SUBSET Scopes, who: Accounts]
    BY <1>1, ElementOfSeq
  <2> QED
    BY <1>2, <2>1
<1>4. before.refresh \in 0 .. MaxGrants /\ before.scopes \in SUBSET Scopes
  BY <1>2 DEF Credentials
<1>5. FallbackScopes(t, before) \in SUBSET Scopes
      /\ FallbackScopes(t, before) \subseteq issued[before.refresh].scopes
  <2>1. before.scopes \subseteq issued[before.refresh].scopes
    BY <1>2 DEF Fits, HeldFits, Sound
  <2> QED
    BY <1>4, <2>1 DEF FallbackScopes
<1>6. c \in Credentials
  BY <1>1, <1>2, <1>3, <1>4, <1>5 DEF Credentials, GrantIds
<1> QED
  BY <1>2, <1>3, <1>5, <1>6 DEF Grants

LEMMA StepType ==
  ASSUME TypeOK, Fits, NEW t \in Tasks, Step(t)
  PROVE  Types'
<1> USE TypeParts DEF Types
<1>0. MaxGrants \in Nat
  BY OAuthAssumption
<1>1. ASSUME Look(t)
      PROVE  Types'
  <2>1. job[t].who \in Accounts
    BY <1>1 DEF Look, Fits, JobFits, TokenPlaces, TokenJobs
  <2>2. TaskTypes'
    <3>1. ASSUME stored[job[t].who] # None, Carry(t, "lock", stored[job[t].who])
          PROVE  TaskTypes'
      BY <2>1, <3>1, Movement DEF RowTypes, Places, LockPlaces
    <3> QED
      BY <1>1, <3>1, WithMoves, WithoutMoves DEF Look
  <2>3. LineTypes'
    BY <1>1, <2>1, Lining DEF Look, LineTypes
  <2> QED
    BY <1>1, <2>2, <2>3
    DEF Look, tables, server, clock, history, RowTypes, ServerTypes, HistoryTypes
<1>2. ASSUME Recheck(t)
      PROVE  Types'
  <2>1. job[t].who \in Accounts
    BY <1>2 DEF Recheck, Fits, JobFits, TokenPlaces, LockPlaces, TokenJobs
  <2>2. TaskTypes'
    <3>1. ASSUME Current(t) # None, Carry(t, "refresh", Current(t))
          PROVE  TaskTypes'
      BY <2>1, <3>1, Movement DEF RowTypes, Current, Places, LockPlaces
    <3> QED
      BY <1>2, <3>1, WithMoves, WithoutMoves DEF Recheck
  <2>3. LineTypes'
    BY <1>2, Lining DEF Recheck, LineTypes
  <2> QED
    BY <1>2, <2>2, <2>3
    DEF Recheck, tables, server, clock, history, RowTypes, ServerTypes, HistoryTypes
<1>3. ASSUME Refresh(t)
      PROVE  Types'
  <2>1. PICK rotates \in BOOLEAN, tells \in BOOLEAN : Grants(t, rotates, tells)
    BY <1>3 DEF Refresh
  <2>2. pc[t] = "refresh"
    BY <1>3 DEF Refresh
  <2>3. TaskTypes'
    BY <2>1, <2>2, GrantsMoves, Movement DEF Places, LockPlaces
  <2>4. ServerTypes'
    <3>1. held[t].refresh \in 1 .. Len(issued) /\ Len(issued) + 1 \in GrantIds
          /\ issued' = Append(issued, [scopes |-> issued[held[t].refresh].scopes,
                                       who |-> issued[held[t].refresh].who])
          /\ spent' \subseteq spent \cup {held[t].refresh}
      BY <2>1, <2>2, GrantsMoves
    <3>2. issued[held[t].refresh] \in [scopes: SUBSET Scopes, who: Accounts]
      BY <3>1, ElementOfSeq DEF ServerTypes
    <3>3. issued' \in Seq([scopes: SUBSET Scopes, who: Accounts])
          /\ Len(issued') = Len(issued) + 1
      BY <3>1, <3>2 DEF ServerTypes
    <3>4. held[t].refresh \in GrantIds
      BY <1>0, <3>1 DEF ServerTypes, GrantIds
    <3> QED
      BY <1>0, <1>3, <3>1, <3>3, <3>4 DEF ServerTypes, GrantIds, Refresh, clock
  <2>5. replayed' \in BOOLEAN
    BY <1>3, Zenon DEF Refresh, Presented, HistoryTypes
  <2> QED
    BY <1>3, <2>3, <2>4, <2>5 DEF Refresh, tables, RowTypes, LineTypes, HistoryTypes
<1>4. ASSUME RefreshRefused(t)
      PROVE  Types'
  <2>1. replayed' \in BOOLEAN
    BY <1>4, Zenon DEF RefreshRefused, Presented, HistoryTypes
  <2>2. TaskTypes' /\ LineTypes'
    BY <1>4, Movement, Lining DEF RefreshRefused, Release, LineTypes
  <2> QED
    BY <1>4, <2>1, <2>2
    DEF RefreshRefused, tables, server, clock, RowTypes, ServerTypes, HistoryTypes
<1>5. ASSUME Save(t)
      PROVE  Types'
  <2>1. job[t].who \in Accounts /\ held[t] \in Credentials
    BY <1>5 DEF Save, Fits, JobFits, HeldFits, Sound, TokenPlaces, LockPlaces, TokenJobs
  <2>2. TaskTypes' /\ LineTypes'
    BY <1>5, WithMoves, Lining DEF Save, LineTypes
  <2> QED
    BY <1>5, <2>1, <2>2
    DEF Save, server, clock, history, RowTypes, ServerTypes, HistoryTypes
<1>6. ASSUME Issue(t)
      PROVE  Types'
  <2>1. job[t].who \in Accounts /\ job[t].need \in SUBSET Scopes
    BY <1>6 DEF Issue, Fits, JobFits, TokenPlaces, TokenJobs
  <2>2. TaskTypes'
    BY <1>6, Movement DEF Issue
  <2>3. states' \in [StateIds -> StateRows]
    BY <1>6, <2>1 DEF Issue, Unused, RowTypes, StateRows
  <2> QED
    BY <1>6, <2>2, <2>3
    DEF Issue, server, clock, history, RowTypes, LineTypes, ServerTypes, HistoryTypes
<1>7. ASSUME Consume(t)
      PROVE  Types'
  <2>1. job[t] \in CallbackJobs /\ job[t].state \in StateIds
    BY <1>7 DEF Consume, Fits, JobFits, CallbackPlaces, CallbackJobs
  <2>2. ASSUME NEW row \in StateRows
        PROVE  [job[t] EXCEPT !.who = row.who, !.need = row.need] \in CallbackJobs
    BY <2>1 DEF CallbackJobs, StateRows
  <2>3. TaskTypes'
    <3>1. CASE states[job[t].state].status = "open"
      <4>1. states[job[t].state] \in StateRows
        BY <2>1 DEF RowTypes
      <4>2. job' \in [Tasks -> Jobs \cup {None}]
        BY <1>7, <2>2, <3>1, <4>1 DEF Consume, TaskTypes, Jobs
      <4>3. pc' \in [Tasks -> Places] /\ held' = held
        BY <1>7, <3>1 DEF Consume, Goto, TaskTypes, Places, CallbackPlaces
      <4> QED
        BY <4>2, <4>3 DEF TaskTypes
    <3>2. CASE states[job[t].state].status # "open"
      BY <1>7, <3>2, Movement DEF Consume
    <3> QED
      BY <3>1, <3>2
  <2>4. states' \in [StateIds -> StateRows]
    BY <1>7 DEF Consume, RowTypes, StateRows
  <2> QED
    BY <1>7, <2>3, <2>4
    DEF Consume, server, clock, history, RowTypes, LineTypes, ServerTypes, HistoryTypes
<1>8. ASSUME ExchangeCode(t)
      PROVE  Types'
  <2>1. job[t].granted \in SUBSET Scopes /\ job[t].login \in Accounts
    BY <1>8 DEF ExchangeCode, Fits, JobFits, CallbackPlaces, CallbackJobs
  <2>2. Len(issued) + 1 \in GrantIds
    BY <1>0, <1>8 DEF ExchangeCode, GrantIds, ServerTypes
  <2>3. TaskTypes'
    <3>1. PICK refreshes \in BOOLEAN, tells \in BOOLEAN :
            Carry(t, "whoami",
              [access |-> Len(issued) + 1, refresh |-> IF refreshes THEN Len(issued) + 1 ELSE 0,
               scopes |-> IF tells THEN job[t].granted ELSE FallbackScopes(t, None)])
      BY <1>8 DEF ExchangeCode
    <3>2. FallbackScopes(t, None) = {}
      BY DEF FallbackScopes
    <3>3. [access |-> Len(issued) + 1, refresh |-> IF refreshes THEN Len(issued) + 1 ELSE 0,
           scopes |-> IF tells THEN job[t].granted ELSE FallbackScopes(t, None)] \in Credentials
      BY <1>0, <2>1, <2>2, <3>2 DEF Credentials, GrantIds
    <3> QED
      BY <3>1, <3>3, Movement DEF Places, CallbackPlaces
  <2>4. ServerTypes'
    BY <1>0, <1>8, <2>1, <2>2 DEF ExchangeCode, ServerTypes, GrantIds, clock
  <2> QED
    BY <1>8, <2>3, <2>4
    DEF ExchangeCode, tables, history, RowTypes, LineTypes, HistoryTypes
<1>9. ASSUME WhoAmI(t)
      PROVE  Types'
  <2>1. held[t] \in Credentials
    BY <1>9 DEF WhoAmI, Fits, HeldFits, Sound
  <2>2. TaskTypes'
    BY <1>9, <2>1, Movement DEF WhoAmI, Places, CallbackPlaces
  <2> QED
    BY <1>9, <2>2
    DEF WhoAmI, tables, server, clock, history, RowTypes, LineTypes, ServerTypes, HistoryTypes
<1>10. ASSUME Store(t)
       PROVE  Types'
  <2>1. job[t].who \in Accounts /\ job[t].need \in SUBSET Scopes /\ held[t] \in Credentials
    BY <1>10 DEF Store, Fits, JobFits, HeldFits, Sound, CallbackPlaces, Consumed, CallbackJobs
  <2>2. TaskTypes'
    BY <1>10, Movement DEF Store
  <2> QED
    BY <1>10, <2>1, <2>2
    DEF Store, server, clock, RowTypes, LineTypes, ServerTypes, HistoryTypes
<1>11. ASSUME CallbackRefused(t)
       PROVE  Types'
  <2>1. TaskTypes'
    BY <1>11, Movement DEF CallbackRefused
  <2> QED
    BY <1>11, <2>1 DEF CallbackRefused, tables, server, clock, history,
       RowTypes, LineTypes, ServerTypes, HistoryTypes
<1> QED
  BY <1>1, <1>2, <1>3, <1>4, <1>5, <1>6, <1>7, <1>8, <1>9, <1>10, <1>11 DEF Step

\* The steps that are no task's own move, or that cut one off.
LEMMA OtherType ==
  ASSUME TypeOK, Fits
  PROVE  /\ \A t \in Tasks : Request(t) \/ ReplyLost(t) \/ CancelTask(t) => Types'
         /\ Tick \/ Restart => Types'
<1> USE TypeParts DEF Types
<1>0. MaxGrants \in Nat /\ MaxFaults \in Nat
  BY OAuthAssumption
<1>1. ASSUME NEW t \in Tasks, Request(t)
      PROVE  Types'
  <2>1. PICK place \in Places, work \in Jobs : Begin(t, place, work)
    <3>1. Needs \subseteq SUBSET Scopes
      BY OAuthAssumption
    <3> QED
      BY <1>1, <3>1 DEF Request, EnsureAuthorized, AccessToken, Callback, Jobs,
         TokenJobs, CallbackJobs, Places, CallbackPlaces
  <2>2. TaskTypes'
    BY <2>1, Movement
  <2> QED
    BY <2>1, <2>2 DEF Begin, tables, server, clock, history,
       RowTypes, LineTypes, ServerTypes, HistoryTypes
<1>2. ASSUME NEW t \in Tasks, ReplyLost(t)
      PROVE  Types'
  <2>1. held[t].refresh \in 1 .. Len(issued) /\ Len(issued) < MaxGrants
    BY <1>2 DEF ReplyLost, Accepts
  <2>2. issued[held[t].refresh] \in [scopes: SUBSET Scopes, who: Accounts]
    BY <2>1, ElementOfSeq DEF ServerTypes
  <2>3. ServerTypes'
    <3>1. issued' \in Seq([scopes: SUBSET Scopes, who: Accounts])
          /\ Len(issued') = Len(issued) + 1
      BY <1>2, <2>2 DEF ReplyLost, ServerTypes
    <3>2. held[t].refresh \in GrantIds
      BY <1>0, <2>1 DEF GrantIds, ServerTypes
    <3> QED
      BY <1>0, <1>2, <2>1, <3>1, <3>2 DEF ReplyLost, ServerTypes, clock
  <2>4. TaskTypes' /\ LineTypes'
    BY <1>2, Movement, Lining DEF ReplyLost, Release, LineTypes
  <2>5. replayed' \in BOOLEAN
    BY <1>2, Zenon DEF ReplyLost, Presented, HistoryTypes
  <2> QED
    BY <1>0, <1>2, <2>3, <2>4, <2>5 DEF ReplyLost, Fault, tables, RowTypes, HistoryTypes
<1>3. ASSUME NEW t \in Tasks, CancelTask(t)
      PROVE  Types'
  <2>1. TaskTypes' /\ LineTypes'
    BY <1>3, Movement, Lining DEF CancelTask, LineTypes
  <2> QED
    BY <1>0, <1>3, <2>1 DEF CancelTask, Fault, tables, server, clock, history,
       RowTypes, ServerTypes, HistoryTypes
<1>4. ASSUME Tick
      PROVE  Types'
  <2>1. ASSUME NEW c \in InUse, AccessExpires(c) \/ RefreshExpires(c)
        PROVE  Types'
    <3>1. c \in Credentials
      BY DEF InUse, RowTypes, TaskTypes
    <3>2. c.access \in GrantIds /\ (c.refresh # 0 => c.refresh \in GrantIds)
      BY <1>0, <3>1 DEF Credentials, GrantIds
    <3> QED
      BY <2>1, <3>2 DEF AccessExpires, RefreshExpires, tables, server, history,
         TaskTypes, RowTypes, LineTypes, ServerTypes, HistoryTypes
  <2>2. ASSUME NEW i \in StateIds, StateExpires(i)
        PROVE  Types'
    <3>1. states' \in [StateIds -> StateRows]
      BY <2>2 DEF StateExpires, RowTypes, StateRows
    <3> QED
      BY <2>2, <3>1 DEF StateExpires, server, clock, history,
         TaskTypes, RowTypes, LineTypes, ServerTypes, HistoryTypes
  <2> QED
    BY <1>4, <2>1, <2>2 DEF Tick
<1>5. ASSUME Restart
      PROVE  Types'
  BY <1>0, <1>5 DEF Restart, Fault, tables, server, clock, history, Places,
     TaskTypes, RowTypes, LineTypes, ServerTypes, HistoryTypes
<1> QED
  BY <1>1, <1>2, <1>3, <1>4, <1>5

-----------------------------------------------------------------------------
(* What is carried and stored fits.                                        *)

Extends(more, grants) ==
  /\ Len(grants) <= Len(more)
  /\ \A g \in 1 .. Len(grants) : more[g] = grants[g]

Later ==
  /\ Extends(issued', issued)
  /\ \A i \in StateIds : states[i].status = "gone" => states'[i].status = "gone"

LEMMA SoundStays ==
  ASSUME NEW grants \in Seq([scopes: SUBSET Scopes, who: Accounts]),
         NEW more \in Seq([scopes: SUBSET Scopes, who: Accounts]),
         Extends(more, grants), NEW c, Sound(c, grants)
  PROVE  /\ Sound(c, more)
         /\ \A p : Belongs(c, p, grants) => Belongs(c, p, more)
<1>1. c.access \in 1 .. Len(grants) /\ c.refresh \in 0 .. Len(grants)
      /\ (c.refresh # 0 => c.refresh \in 1 .. Len(grants))
      /\ Len(grants) \in Nat /\ Len(more) \in Nat
  BY DEF Sound
<1>2. c.access \in 1 .. Len(more) /\ c.refresh \in 0 .. Len(more)
      /\ more[c.access] = grants[c.access]
      /\ (c.refresh # 0 => more[c.refresh] = grants[c.refresh])
  BY <1>1 DEF Extends
<1> QED
  BY <1>2 DEF Sound, Belongs

LEMMA TasksFit ==
  ASSUME TypeOK, Types', Fits, Later, NEW t \in Tasks, OthersStay(t),
         JobFits(t)', HeldFits(t)'
  PROVE  \A u \in Tasks : JobFits(u)' /\ HeldFits(u)'
<1>1. issued \in Seq([scopes: SUBSET Scopes, who: Accounts])
      /\ issued' \in Seq([scopes: SUBSET Scopes, who: Accounts])
  BY TypeParts DEF Types, ServerTypes
<1>2. ASSUME NEW u \in Tasks \ {t}
      PROVE  JobFits(u)' /\ HeldFits(u)'
  <2>1. pc'[u] = pc[u] /\ job'[u] = job[u] /\ held'[u] = held[u]
    BY DEF OthersStay
  <2>2. JobFits(u) /\ HeldFits(u)
    BY DEF Fits
  <2>3. JobFits(u)'
    <3>1. ASSUME pc[u] \in Consumed
          PROVE  states'[job[u].state].status = "gone"
      <4>1. job[u].state \in StateIds
        BY <2>2, <3>1 DEF JobFits, Consumed, CallbackPlaces, CallbackJobs
      <4> QED
        BY <2>2, <3>1, <4>1 DEF JobFits, Later
    <3> QED
      BY <2>1, <2>2, <3>1 DEF JobFits
  <2>4. HeldFits(u)'
    BY <1>1, <2>1, <2>2, SoundStays DEF HeldFits, Later
  <2> QED
    BY <2>3, <2>4
<1> QED
  BY <1>2

LEMMA RowsFit ==
  ASSUME TypeOK, Types', Fits, Later, UNCHANGED stored
  PROVE  StoredFits'
<1>1. issued \in Seq([scopes: SUBSET Scopes, who: Accounts])
      /\ issued' \in Seq([scopes: SUBSET Scopes, who: Accounts])
  BY TypeParts DEF Types, ServerTypes
<1> QED
  BY <1>1, SoundStays DEF Fits, StoredFits, Later

LEMMA Quiet ==
  ASSUME TypeOK, UNCHANGED issued,
         \A i \in StateIds : states[i].status = "gone" => states'[i].status = "gone"
  PROVE  Later
<1>1. Len(issued) \in Nat
  BY TypeParts DEF Types, ServerTypes
<1> QED
  BY <1>1 DEF Later, Extends

LEMMA Appended ==
  ASSUME TypeOK, UNCHANGED states, NEW grant, issued' = Append(issued, grant)
  PROVE  Later /\ Len(issued') = Len(issued) + 1 /\ issued'[Len(issued) + 1] = grant
<1>1. issued \in Seq([scopes: SUBSET Scopes, who: Accounts]) /\ Len(issued) \in Nat
  BY TypeParts DEF Types, ServerTypes
<1> QED
  BY <1>1 DEF Later, Extends

\* A consumed state stays with the task that has it.
Kept(t) == pc'[t] \in Consumed => pc[t] \in Consumed /\ job'[t].state = job[t].state

LEMMA Parked ==
  ASSUME NEW t \in Tasks, Fits,
         \/ pc'[t] = "idle"
         \/ pc[t] \in TokenPlaces /\ pc'[t] = "issue" /\ job'[t] = job[t]
  PROVE  JobFits(t)' /\ HeldFits(t)' /\ Kept(t)
  BY DEF Fits, JobFits, HeldFits, Kept, TokenPlaces, LockPlaces, CallbackPlaces, Consumed

LEMMA ConsumedOnce ==
  ASSUME StateConsumedOnce, NEW t \in Tasks, OthersStay(t), Kept(t)
  PROVE  StateConsumedOnce'
  BY DEF StateConsumedOnce, OthersStay, Kept, Consumed

\* What a step of a task does to what fits.
StaysFit(t) ==
  /\ Later /\ OthersStay(t)
  /\ JobFits(t)' /\ HeldFits(t)'
  /\ StoredFits' /\ OpenForSomebody'
  /\ StateConsumedOnce'

LEMMA TokenStepFits ==
  ASSUME IInv, Types', NEW t \in Tasks,
         Look(t) \/ Recheck(t) \/ Refresh(t) \/ RefreshRefused(t) \/ Save(t) \/ Issue(t)
  PROVE  StaysFit(t)
<1> USE DEF IInv
<1>0. TaskTypes
  BY TypeParts DEF Types
<1>1. ASSUME Look(t)
      PROVE  StaysFit(t)
  <2>1. job[t].who \in Accounts /\ pc[t] \in TokenPlaces
    BY <1>1 DEF Look, Fits, JobFits, TokenPlaces, TokenJobs
  <2>2. OthersStay(t) /\ JobFits(t)' /\ HeldFits(t)' /\ Kept(t)
    <3>1. ASSUME stored[job[t].who] # None, Carry(t, "lock", stored[job[t].who])
          PROVE  OthersStay(t) /\ JobFits(t)' /\ HeldFits(t)' /\ Kept(t)
      <4>1. stored[job[t].who] \in Credentials
        BY <2>1, <3>1, TypeParts DEF Types, RowTypes
      <4>2. OthersStay(t) /\ pc'[t] = "lock" /\ job'[t] = job[t]
        BY <1>0, <3>1, <4>1, Movement DEF Places, LockPlaces
      <4> QED
        BY <2>1, <4>2 DEF Fits, JobFits, HeldFits, Kept, TokenPlaces, LockPlaces,
           CallbackPlaces, Consumed
    <3> QED
      BY <1>0, <1>1, <2>1, <3>1, WithMoves, WithoutMoves, Parked DEF Look
  <2>3. UNCHANGED <<stored, states, issued>>
    BY <1>1 DEF Look, tables, server
  <2> QED
    BY <2>2, <2>3, Quiet, RowsFit, ConsumedOnce DEF StaysFit, Fits, OpenForSomebody
<1>2. ASSUME Recheck(t)
      PROVE  StaysFit(t)
  <2>1. job[t].who \in Accounts /\ job[t] \in TokenJobs /\ pc[t] \in TokenPlaces
    BY <1>2 DEF Recheck, Fits, JobFits, TokenPlaces, LockPlaces, TokenJobs
  <2>2. OthersStay(t) /\ JobFits(t)' /\ HeldFits(t)' /\ Kept(t)
    <3>1. ASSUME Current(t) # None, Carry(t, "refresh", Current(t)), UNCHANGED issued
          PROVE  OthersStay(t) /\ JobFits(t)' /\ HeldFits(t)' /\ Kept(t)
      <4>1. Sound(Current(t), issued) /\ Belongs(Current(t), job[t].who, issued)
        BY <2>1, <3>1 DEF Current, Fits, StoredFits
      <4>2. OthersStay(t) /\ pc'[t] = "refresh" /\ job'[t] = job[t] /\ held'[t] = Current(t)
        BY <1>0, <3>1, <4>1, Movement DEF Places, LockPlaces, Sound
      <4> QED
        BY <2>1, <3>1, <4>1, <4>2 DEF JobFits, HeldFits, Kept, CallbackPlaces, Consumed
    <3> QED
      BY <1>0, <1>2, <2>1, <3>1, WithMoves, WithoutMoves, Parked DEF Recheck, server
  <2>3. UNCHANGED <<stored, states, issued>>
    BY <1>2 DEF Recheck, tables, server
  <2> QED
    BY <2>2, <2>3, Quiet, RowsFit, ConsumedOnce DEF StaysFit, Fits, OpenForSomebody
<1>3. ASSUME Refresh(t)
      PROVE  StaysFit(t)
  <2> DEFINE before == held[t]
             g == Len(issued) + 1
  <2>1. PICK rotates \in BOOLEAN, tells \in BOOLEAN : Grants(t, rotates, tells)
    BY <1>3 DEF Refresh
  <2> DEFINE c == [access |-> g,
                   refresh |-> IF rotates THEN g ELSE before.refresh,
                   scopes |-> IF tells THEN issued[before.refresh].scopes
                              ELSE FallbackScopes(t, before)]
             grant == [scopes |-> issued[before.refresh].scopes,
                       who |-> issued[before.refresh].who]
  <2>2. pc[t] = "refresh" /\ UNCHANGED <<stored, states>>
    BY <1>3 DEF Refresh, tables
  <2>3. /\ c \in Credentials /\ Carry(t, "save", c)
        /\ before.refresh \in 1 .. Len(issued)
        /\ issued' = Append(issued, grant)
        /\ c.scopes \subseteq issued[before.refresh].scopes
    BY <2>1, <2>2, GrantsMoves
  <2>4. job[t] \in TokenJobs /\ Belongs(before, job[t].who, issued)
    BY <2>2 DEF Fits, JobFits, HeldFits, TokenPlaces, LockPlaces
  <2>5. Later /\ Len(issued') = g /\ issued'[g] = grant
    BY <2>2, <2>3, Appended
  <2>6. issued'[before.refresh] = issued[before.refresh] /\ Len(issued) \in Nat
    BY <2>3, <2>5, TypeParts DEF Later, Extends, Types, ServerTypes
  <2>7. Sound(c, issued')
    BY <2>3, <2>5, <2>6 DEF Sound
  <2>8. Belongs(c, job[t].who, issued')
    BY <2>3, <2>4, <2>5, <2>6 DEF Belongs
  <2>9. OthersStay(t) /\ pc'[t] = "save" /\ job'[t] = job[t] /\ held'[t] = c
    <3>1. "save" \in Places
      BY DEF Places, LockPlaces
    <3>2. \A x \in Credentials :
            Carry(t, "save", x) =>
              OthersStay(t) /\ pc'[t] = "save" /\ job'[t] = job[t] /\ held'[t] = x
      BY <1>0, <3>1, Movement
    <3> QED
      BY <2>3, <3>2
  <2>10. JobFits(t)' /\ HeldFits(t)' /\ Kept(t)
    BY <2>4, <2>7, <2>8, <2>9 DEF JobFits, HeldFits, Kept, CallbackPlaces, Consumed
  <2> QED
    BY <2>2, <2>5, <2>9, <2>10, RowsFit, ConsumedOnce DEF StaysFit, Fits, OpenForSomebody
<1>4. ASSUME RefreshRefused(t)
      PROVE  StaysFit(t)
  <2>1. OthersStay(t) /\ pc'[t] = "idle"
    BY <1>0, <1>4, Movement DEF RefreshRefused
  <2>2. UNCHANGED <<stored, states, issued>>
    BY <1>4 DEF RefreshRefused, tables, server
  <2> QED
    BY <2>1, <2>2, Parked, Quiet, RowsFit, ConsumedOnce DEF StaysFit, Fits, OpenForSomebody
<1>5. ASSUME Save(t)
      PROVE  StaysFit(t)
  <2>1. pc[t] = "save" /\ pc[t] \in TokenPlaces /\ job[t].who \in Accounts
    BY <1>5 DEF Save, Fits, JobFits, TokenPlaces, LockPlaces, TokenJobs
  <2>2. UNCHANGED <<states, issued>> /\ stored' = [stored EXCEPT ![job[t].who] = held[t]]
    BY <1>5 DEF Save, server
  <2>3. OthersStay(t) /\ JobFits(t)' /\ HeldFits(t)' /\ Kept(t)
    BY <1>0, <1>5, <2>1, WithMoves, Parked DEF Save
  <2>4. StoredFits'
    BY <2>1, <2>2, TypeParts DEF Fits, HeldFits, StoredFits, Types, RowTypes
  <2> QED
    BY <2>2, <2>3, <2>4, Quiet, ConsumedOnce DEF StaysFit, Fits, OpenForSomebody
<1>6. ASSUME Issue(t)
      PROVE  StaysFit(t)
  <2>1. job[t].who \in Accounts
    BY <1>6 DEF Issue, Fits, JobFits, TokenPlaces, TokenJobs
  <2>2. OthersStay(t) /\ pc'[t] = "idle" /\ UNCHANGED <<stored, issued>>
    BY <1>0, <1>6, Movement DEF Issue, server
  <2>3. \A i \in StateIds :
          \/ states'[i] = states[i]
          \/ states[i].status = "unused" /\ states'[i].who = job[t].who
    BY <1>6, TypeParts DEF Issue, Unused, Types, RowTypes, StateRows
  <2>4. OpenForSomebody' /\ Later
    BY <2>1, <2>2, <2>3, Quiet DEF Fits, OpenForSomebody
  <2> QED
    BY <2>2, <2>4, Parked, RowsFit, ConsumedOnce DEF StaysFit
<1> QED
  BY <1>1, <1>2, <1>3, <1>4, <1>5, <1>6

LEMMA CallbackStepFits ==
  ASSUME IInv, Types', NEW t \in Tasks,
         Consume(t) \/ ExchangeCode(t) \/ WhoAmI(t) \/ Store(t) \/ CallbackRefused(t)
  PROVE  StaysFit(t)
<1> USE DEF IInv
<1>0. TaskTypes
  BY TypeParts DEF Types
<1>1. ASSUME Consume(t)
      PROVE  StaysFit(t)
  <2> DEFINE i == job[t].state
  <2>1. job[t] \in CallbackJobs /\ i \in StateIds
    BY <1>1 DEF Consume, Fits, JobFits, CallbackPlaces, CallbackJobs
  <2>2. /\ UNCHANGED <<stored, issued>> /\ states'[i].status = "gone"
        /\ \A j \in StateIds :
             \/ states'[j] = states[j]
             \/ states'[j].status = "gone"
    BY <1>1, <2>1, TypeParts DEF Consume, Dropped, server, Types, RowTypes, StateRows
  <2>3. Later /\ OpenForSomebody'
    BY <2>2, Quiet DEF Fits, OpenForSomebody
  <2>4. CASE states[i].status # "open"
    <3>1. OthersStay(t) /\ pc'[t] = "idle"
      BY <1>0, <1>1, <2>4, Movement DEF Consume
    <3> QED
      BY <2>2, <2>3, <3>1, Parked, RowsFit, ConsumedOnce DEF StaysFit
  <2>5. CASE states[i].status = "open"
    <3>1. states[i].who \in Accounts /\ states[i].need \in SUBSET Scopes
      BY <2>1, <2>5, TypeParts DEF Fits, OpenForSomebody, Types, RowTypes, StateRows
    <3>2. job' = [job EXCEPT ![t].who = states[i].who, ![t].need = states[i].need]
          /\ pc' = [pc EXCEPT ![t] = "code"] /\ held' = held
      BY <1>1, <2>5 DEF Consume, Goto
    <3>3. OthersStay(t) /\ pc'[t] = "code"
          /\ job'[t] \in CallbackJobs /\ job'[t].who \in Accounts /\ job'[t].state = i
      BY <1>0, <2>1, <3>1, <3>2 DEF TaskTypes, OthersStay, CallbackJobs
    <3>4. JobFits(t)' /\ HeldFits(t)'
      BY <2>2, <3>3 DEF JobFits, HeldFits, TokenPlaces, LockPlaces, CallbackPlaces, Consumed
    <3>5. \A u \in Tasks : u # t /\ pc[u] \in Consumed => job[u].state # i
      BY <2>5 DEF Fits, JobFits
    <3>6. StateConsumedOnce'
      BY <3>3, <3>5 DEF StateConsumedOnce, OthersStay, Consumed
    <3> QED
      BY <2>2, <2>3, <3>3, <3>4, <3>6, RowsFit DEF StaysFit
  <2> QED
    BY <2>4, <2>5
<1>2. ASSUME ExchangeCode(t)
      PROVE  StaysFit(t)
  <2> DEFINE g == Len(issued) + 1
             grant == [scopes |-> job[t].granted, who |-> job[t].login]
  <2>1. pc[t] = "code" /\ job[t] \in CallbackJobs /\ job[t].granted \in SUBSET Scopes
    BY <1>2 DEF ExchangeCode, Fits, JobFits, CallbackPlaces, CallbackJobs
  <2>2. PICK refreshes \in BOOLEAN, tells \in BOOLEAN :
          Carry(t, "whoami",
            [access |-> g, refresh |-> IF refreshes THEN g ELSE 0,
             scopes |-> IF tells THEN job[t].granted ELSE FallbackScopes(t, None)])
    BY <1>2 DEF ExchangeCode
  <2> DEFINE c == [access |-> g, refresh |-> IF refreshes THEN g ELSE 0,
                   scopes |-> IF tells THEN job[t].granted ELSE FallbackScopes(t, None)]
  <2>3. FallbackScopes(t, None) = {}
    BY DEF FallbackScopes
  <2>4. MaxGrants \in Nat /\ Len(issued) \in Nat /\ g \in GrantIds
    BY <1>2, OAuthAssumption, TypeParts DEF Types, ServerTypes, ExchangeCode, GrantIds
  <2>5. c \in Credentials
    BY <2>1, <2>3, <2>4 DEF Credentials, GrantIds
  <2>6. UNCHANGED <<stored, states>> /\ issued' = Append(issued, grant)
    BY <1>2 DEF ExchangeCode, tables
  <2>7. Later /\ Len(issued') = g /\ issued'[g] = grant
    BY <2>6, Appended
  <2>8. Sound(c, issued') /\ c.refresh \in {0, c.access}
    BY <2>3, <2>4, <2>5, <2>7 DEF Sound
  <2>9. OthersStay(t) /\ pc'[t] = "whoami" /\ job'[t] = job[t] /\ held'[t] = c
    BY <1>0, <2>2, <2>5, Movement DEF Places, CallbackPlaces
  <2>10. JobFits(t)' /\ HeldFits(t)' /\ Kept(t)
    BY <2>1, <2>6, <2>8, <2>9 DEF Fits, JobFits, HeldFits, Kept, TokenPlaces, LockPlaces,
       CallbackPlaces, Consumed
  <2> QED
    BY <2>6, <2>7, <2>9, <2>10, RowsFit, ConsumedOnce DEF StaysFit, Fits, OpenForSomebody
<1>3. ASSUME WhoAmI(t)
      PROVE  StaysFit(t)
  <2>1. pc[t] = "whoami" /\ UNCHANGED <<stored, states, issued>>
    BY <1>3 DEF WhoAmI, tables, server
  <2>2. Sound(held[t], issued) /\ held[t].refresh \in {0, held[t].access}
    BY <2>1 DEF Fits, HeldFits
  <2>3. CASE SameAccount(t) /\ job[t].need \subseteq held[t].scopes
    <3>1. OthersStay(t) /\ pc'[t] = "store" /\ job'[t] = job[t] /\ held'[t] = held[t]
      BY <1>0, <1>3, <2>2, <2>3, Movement DEF WhoAmI, Places, CallbackPlaces, Sound
    <3>2. Belongs(held[t], job[t].who, issued)
      BY <2>2, <2>3 DEF SameAccount, Belongs
    <3>3. JobFits(t)' /\ HeldFits(t)' /\ Kept(t)
      BY <2>1, <2>2, <3>1, <3>2 DEF Fits, JobFits, HeldFits, Kept, TokenPlaces, LockPlaces,
         CallbackPlaces, Consumed
    <3> QED
      BY <2>1, <3>1, <3>3, Quiet, RowsFit, ConsumedOnce DEF StaysFit, Fits, OpenForSomebody
  <2>4. CASE ~(SameAccount(t) /\ job[t].need \subseteq held[t].scopes)
    <3>1. OthersStay(t) /\ pc'[t] = "idle"
      BY <1>0, <1>3, <2>4, Movement DEF WhoAmI
    <3> QED
      BY <2>1, <3>1, Parked, Quiet, RowsFit, ConsumedOnce DEF StaysFit, Fits, OpenForSomebody
  <2> QED
    BY <2>3, <2>4
<1>4. ASSUME Store(t)
      PROVE  StaysFit(t)
  <2>1. pc[t] = "store" /\ job[t].who \in Accounts
    BY <1>4 DEF Store, Fits, JobFits, CallbackPlaces, Consumed
  <2>2. UNCHANGED <<states, issued>> /\ stored' = [stored EXCEPT ![job[t].who] = held[t]]
    BY <1>4 DEF Store, server
  <2>3. OthersStay(t) /\ pc'[t] = "idle"
    BY <1>0, <1>4, Movement DEF Store
  <2>4. StoredFits'
    BY <2>1, <2>2, TypeParts DEF Fits, HeldFits, StoredFits, Types, RowTypes
  <2> QED
    BY <2>2, <2>3, <2>4, Parked, Quiet, ConsumedOnce DEF StaysFit, Fits, OpenForSomebody
<1>5. ASSUME CallbackRefused(t)
      PROVE  StaysFit(t)
  <2>1. OthersStay(t) /\ pc'[t] = "idle" /\ UNCHANGED <<stored, states, issued>>
    BY <1>0, <1>5, Movement DEF CallbackRefused, tables, server
  <2> QED
    BY <2>1, Parked, Quiet, RowsFit, ConsumedOnce DEF StaysFit, Fits, OpenForSomebody
<1> QED
  BY <1>1, <1>2, <1>3, <1>4, <1>5

LEMMA OtherStepFits ==
  ASSUME IInv, Types', NEW t \in Tasks, Request(t) \/ ReplyLost(t) \/ CancelTask(t)
  PROVE  StaysFit(t)
<1> USE DEF IInv
<1>0. TaskTypes
  BY TypeParts DEF Types
<1>1. ASSUME Request(t)
      PROVE  StaysFit(t)
  <2>1. PICK place \in Places, work \in Jobs :
          /\ Begin(t, place, work)
          /\ \/ place = "look" /\ work \in TokenJobs
             \/ place = "consume" /\ work \in CallbackJobs
    <3>1. ASSUME NEW p \in Accounts, NEW need \in Needs \cup {{}}, NEW op \in {"ensure", "token"},
                 Begin(t, "look", [who |-> p, need |-> need, op |-> op])
          PROVE  \E work \in TokenJobs : Begin(t, "look", work)
      <4>1. [who |-> p, need |-> need, op |-> op] \in TokenJobs
        BY OAuthAssumption DEF TokenJobs
      <4> QED
        BY <3>1, <4>1
    <3>2. ASSUME NEW i \in StateIds, NEW login \in Accounts, NEW granted \in SUBSET Scopes,
                 Callback(t, i, login, granted)
          PROVE  \E work \in CallbackJobs : Begin(t, "consume", work)
      <4>1. [who |-> None, need |-> {}, op |-> "callback", state |-> i,
             login |-> login, granted |-> granted] \in CallbackJobs
        BY DEF CallbackJobs
      <4> QED
        BY <3>2, <4>1 DEF Callback
    <3>3. (\E work \in TokenJobs : Begin(t, "look", work))
          \/ (\E work \in CallbackJobs : Begin(t, "consume", work))
      BY <1>1, <3>1, <3>2 DEF Request, EnsureAuthorized, AccessToken
    <3> QED
      BY <3>3 DEF Jobs, Places, CallbackPlaces
  <2>2. OthersStay(t) /\ pc'[t] = place /\ job'[t] = work
    BY <1>0, <2>1, Movement
  <2>3. JobFits(t)' /\ HeldFits(t)' /\ Kept(t)
    BY <2>1, <2>2 DEF JobFits, HeldFits, Kept, TokenPlaces, LockPlaces, CallbackPlaces, Consumed
  <2>4. UNCHANGED <<stored, states, issued>>
    BY <2>1 DEF Begin, tables, server
  <2> QED
    BY <2>2, <2>3, <2>4, Quiet, RowsFit, ConsumedOnce DEF StaysFit, Fits, OpenForSomebody
<1>2. ASSUME ReplyLost(t)
      PROVE  StaysFit(t)
  <2>1. OthersStay(t) /\ pc'[t] = "idle" /\ UNCHANGED <<stored, states>>
    BY <1>0, <1>2, Movement DEF ReplyLost, tables
  <2>2. Later
    BY <1>2, <2>1, Appended DEF ReplyLost
  <2> QED
    BY <2>1, <2>2, Parked, RowsFit, ConsumedOnce DEF StaysFit, Fits, OpenForSomebody
<1>3. ASSUME CancelTask(t)
      PROVE  StaysFit(t)
  <2>1. OthersStay(t) /\ pc'[t] = "idle" /\ UNCHANGED <<stored, states, issued>>
    BY <1>0, <1>3, Movement DEF CancelTask, tables, server
  <2> QED
    BY <2>1, Parked, Quiet, RowsFit, ConsumedOnce DEF StaysFit, Fits, OpenForSomebody
<1> QED
  BY <1>1, <1>2, <1>3

LEMMA CalmFits ==
  ASSUME IInv, Types', Tick \/ Restart
  PROVE  Fits' /\ StateConsumedOnce'
<1> USE DEF IInv
<1>1. /\ UNCHANGED <<stored, issued>>
      /\ \A i \in StateIds : states'[i].status = states[i].status \/ states'[i].status = "expired"
      /\ \A i \in StateIds : states[i].status = "gone" => states'[i].status = "gone"
      /\ \A i \in StateIds : states'[i].who = states[i].who
  BY TypeParts DEF Types, RowTypes, StateRows, Tick, Restart, AccessExpires, RefreshExpires,
     StateExpires, tables, server
<1>2. StoredFits' /\ OpenForSomebody'
  <2>1. StoredFits'
    BY <1>1, Quiet, RowsFit
  <2>2. \A i \in StateIds : states'[i].status = "open" => states[i].status = "open"
    BY <1>1
  <2>3. OpenForSomebody
    BY DEF Fits
  <2>4. ASSUME NEW i \in StateIds, states'[i].status = "open"
        PROVE  states'[i].who \in Accounts
    <3>1. states[i].who \in Accounts
      BY <2>2, <2>3, <2>4 DEF OpenForSomebody
    <3>2. states'[i].who = states[i].who
      BY <1>1
    <3> QED
      BY <3>1, <3>2
  <2>5. OpenForSomebody'
    BY <2>4 DEF OpenForSomebody
  <2> QED
    BY <2>1, <2>5
<1>3. CASE Tick
  <2>1. UNCHANGED <<pc, job, held>>
    BY <1>3 DEF Tick, AccessExpires, RefreshExpires, StateExpires
  <2>2. ASSUME NEW t \in Tasks
        PROVE  JobFits(t)' /\ HeldFits(t)'
    <3>1. JobFits(t) /\ HeldFits(t)
      BY DEF Fits
    <3>2. pc[t] \in Consumed => job[t].state \in StateIds
      BY <3>1 DEF JobFits, Consumed, CallbackPlaces, CallbackJobs
    <3> QED
      BY <1>1, <2>1, <3>1, <3>2 DEF JobFits, HeldFits
  <2> QED
    BY <1>2, <2>1, <2>2 DEF Fits, StateConsumedOnce
<1>4. CASE Restart
  <2>1. \A t \in Tasks : pc'[t] = "idle"
    BY <1>4 DEF Restart
  <2> QED
    BY <1>2, <2>1, Parked DEF Fits, StateConsumedOnce
<1> QED
  BY <1>3, <1>4

LEMMA InitIInv == Init => IInv
<1> SUFFICES ASSUME Init PROVE IInv
  OBVIOUS
<1>1. MaxGrants \in Nat /\ MaxFaults \in Nat
  BY OAuthAssumption
<1>2. TypeOK
  <2>1. [status |-> "unused", who |-> None, need |-> {}] \in StateRows
    BY DEF StateRows
  <2>2. RowTypes /\ LineTypes /\ TaskTypes
    BY <2>1 DEF Init, RowTypes, LineTypes, TaskTypes, Places
  <2>3. issued = <<>> /\ spent = {} /\ stale = {} /\ lapsed = {} /\ faults = 0
        /\ replayed = FALSE /\ welcomed = [p \in Accounts |-> None]
    BY DEF Init
  <2>4. ServerTypes
    <3>1. <<>> \in Seq([scopes: SUBSET Scopes, who: Accounts]) /\ Len(<<>>) = 0
      BY EmptySeq
    <3> QED
      BY <1>1, <2>3, <3>1 DEF ServerTypes
  <2>5. HistoryTypes
    <3>1. replayed \in BOOLEAN
      BY <2>3, Zenon
    <3> QED
      BY <1>1, <2>3, <3>1 DEF HistoryTypes
  <2> QED
    BY <2>2, <2>4, <2>5, TypeParts DEF Types
<1>3. Fits
  BY DEF Init, Fits, JobFits, HeldFits, StoredFits, OpenForSomebody, TokenPlaces, LockPlaces,
     CallbackPlaces, Consumed
<1>4. StateConsumedOnce
  BY DEF Init, StateConsumedOnce
<1> QED
  BY <1>2, <1>3, <1>4 DEF IInv

LEMMA NextIInv == IInv /\ [Next]_vars => IInv'
<1> SUFFICES ASSUME IInv, [Next]_vars PROVE IInv'
  OBVIOUS
<1>1. Next => Types'
  BY StepType, OtherType DEF Next, IInv
<1>2. ASSUME NEW t \in Tasks, StaysFit(t), Types'
      PROVE  IInv'
  <2>1. Fits'
    BY <1>2, TasksFit DEF StaysFit, Fits, IInv
  <2>2. TypeOK'
    BY <1>2 DEF Types, TypeOK, TaskTypes, RowTypes, LineTypes, ServerTypes, HistoryTypes
  <2> QED
    BY <1>2, <2>1, <2>2 DEF StaysFit, IInv
<1>3. ASSUME NEW t \in Tasks, Request(t) \/ Step(t) \/ ReplyLost(t) \/ CancelTask(t)
      PROVE  IInv'
  <2>1. Types'
    BY <1>1, <1>3 DEF Next
  <2>2. StaysFit(t)
    BY <1>3, <2>1, TokenStepFits, CallbackStepFits, OtherStepFits DEF Step
  <2> QED
    BY <1>2, <2>1, <2>2
<1>4. CASE Tick \/ Restart
  <2>1. Types'
    BY <1>1, <1>4 DEF Next
  <2>2. TypeOK'
    BY <2>1 DEF Types, TypeOK, TaskTypes, RowTypes, LineTypes, ServerTypes, HistoryTypes
  <2> QED
    BY <1>4, <2>1, <2>2, CalmFits DEF IInv
<1>5. CASE UNCHANGED vars
  BY <1>5 DEF vars, tables, server, clock, history, IInv, TypeOK, Fits, JobFits, HeldFits,
     StoredFits, OpenForSomebody, StateConsumedOnce
<1> QED
  BY <1>3, <1>4, <1>5 DEF Next

LEMMA Invariance == Spec => []IInv
  BY InitIInv, NextIInv, PTL DEF Spec

-----------------------------------------------------------------------------
(* The theorems.                                                           *)

\* TypeOK: tables, lock and coroutines keep their shape.
THEOREM TypeCorrect == Spec => []TypeOK
<1>1. IInv => TypeOK
  BY DEF IInv
<1> QED
  BY <1>1, Invariance, PTL

\* CredentialBelongs: whoever follows an authorization link, the credential
\* stored for an account was granted by that account's user.
THEOREM CredentialsBelong == Spec => []CredentialBelongs
<1>1. IInv => CredentialBelongs
  BY DEF IInv, Fits, StoredFits, Belongs, CredentialBelongs
<1> QED
  BY <1>1, Invariance, PTL

\* ScopesTruthful: the scopes written down with a credential are scopes the
\* server has granted it.
THEOREM ScopesAreTrue == Spec => []ScopesTruthful
<1>1. IInv => ScopesTruthful
  BY DEF IInv, Fits, StoredFits, Sound, ScopesTruthful
<1> QED
  BY <1>1, Invariance, PTL

\* StateConsumedOnce: no two callbacks work under one authorization state.
THEOREM StatesConsumedOnce == Spec => []StateConsumedOnce
<1>1. IInv => StateConsumedOnce
  BY DEF IInv
<1> QED
  BY <1>1, Invariance, PTL

-----------------------------------------------------------------------------
(* Refresh tokens.  Without faults a token that is exchanged is in the     *)
(* hands of one task: tasks at the lock stand in line, and a credential of *)
(* a callback that is still running has a refresh token of its own.        *)

\* Of two tasks at an account's lock one is ahead of the other, and nobody is
\* ahead of the one that has it.
Line ==
  /\ \A t, u \in Tasks :
       /\ t # u /\ pc[t] \in LockPlaces /\ pc[u] \in LockPlaces /\ job[t].who = job[u].who
       => t \in ahead[u] \/ u \in ahead[t]
  /\ \A t \in Tasks : pc[t] \in {"refresh", "save"} => ahead[t] = {}

InHand(t) == pc[t] \in {"refresh", "save", "whoami", "store"}

\* The refresh token of a running callback is nobody else's.
Apart ==
  \A t \in Tasks : pc[t] \in {"whoami", "store"} /\ held[t].refresh # 0 =>
    /\ \A u \in Tasks \ {t} : InHand(u) => held[u].refresh # held[t].refresh
    /\ \A p \in Accounts : stored[p] # None => stored[p].refresh # held[t].refresh

\* What is stored can be exchanged, or is about to be replaced.
Replaced(p) == \E t \in Tasks : pc[t] = "save" /\ job[t].who = p

Unspent ==
  /\ ~replayed
  /\ \A t \in Tasks : InHand(t) => held[t].refresh \notin spent
  /\ \A p \in Accounts : stored[p] # None =>
       stored[p].refresh \notin spent \/ Replaced(p)

Known == spent \subseteq 1 .. Len(issued)

Refreshes == Line /\ Apart /\ Known /\ (faults = 0 => Unspent)

\* Where the refresh tokens come from that a step of a task brings.
Brings(t) ==
  /\ OthersStay(t)
  /\ InHand(t)' =>
       \/ held'[t].refresh \in {0, Len(issued) + 1}
       \/ /\ InHand(t) /\ held'[t].refresh = held[t].refresh
          /\ pc'[t] \in {"whoami", "store"} => pc[t] \in {"whoami", "store"}
       \/ /\ pc[t] = "lock" /\ Holds(t) /\ pc'[t] = "refresh"
          /\ job[t].who \in Accounts /\ stored[job[t].who] # None
          /\ held'[t] = stored[job[t].who]
  /\ \A p \in Accounts :
       \/ stored'[p] = stored[p]
       \/ InHand(t) /\ ~InHand(t)' /\ stored'[p] = held[t]
  /\ pc[t] = "save" => ~InHand(t)' /\ stored'[job[t].who] = held[t]

LEMMA Numbers ==
  ASSUME IInv
  PROVE  /\ Len(issued) \in Nat /\ 0 \notin GrantIds
         /\ \A t \in Tasks : InHand(t) => held[t].refresh \in 0 .. Len(issued)
         /\ \A p \in Accounts : stored[p] # None => stored[p].refresh \in 0 .. Len(issued)
<1>1. Len(issued) \in Nat /\ 0 \notin GrantIds
  BY OAuthAssumption, TypeParts DEF IInv, Types, ServerTypes, GrantIds
<1>2. \A t \in Tasks : InHand(t) => held[t].refresh \in 0 .. Len(issued)
  BY DEF IInv, Fits, HeldFits, InHand, Sound
<1>3. \A p \in Accounts : stored[p] # None => stored[p].refresh \in 0 .. Len(issued)
  BY DEF IInv, Fits, StoredFits, Sound
<1> QED
  BY <1>1, <1>2, <1>3

LEMMA ApartStays ==
  ASSUME IInv, Apart, NEW t \in Tasks, Brings(t)
  PROVE  Apart'
<1> DEFINE r(u) == held[u].refresh
<1>1. /\ Len(issued) \in Nat
      /\ \A u \in Tasks : InHand(u) => r(u) \in 0 .. Len(issued)
      /\ \A p \in Accounts : stored[p] # None => stored[p].refresh \in 0 .. Len(issued)
  BY Numbers
<1>2. \A u \in Tasks \ {t} : pc'[u] = pc[u] /\ held'[u] = held[u]
  BY DEF Brings, OthersStay
<1>3. SUFFICES ASSUME NEW u \in Tasks, pc'[u] \in {"whoami", "store"}, held'[u].refresh # 0
               PROVE  /\ \A v \in Tasks \ {u} : InHand(v)' => held'[v].refresh # held'[u].refresh
                      /\ \A p \in Accounts : stored'[p] # None =>
                           stored'[p].refresh # held'[u].refresh
  BY DEF Apart
<1>4. CASE u # t
  <2>1. /\ pc[u] \in {"whoami", "store"} /\ held'[u] = held[u] /\ InHand(u)
        /\ r(u) # 0 /\ r(u) # Len(issued) + 1
    BY <1>1, <1>2, <1>3, <1>4 DEF InHand
  <2>2. /\ \A v \in Tasks \ {u} : InHand(v) => r(v) # r(u)
        /\ \A p \in Accounts : stored[p] # None => stored[p].refresh # r(u)
    BY <1>3, <2>1 DEF Apart
  <2>3. ASSUME NEW v \in Tasks \ {u}, InHand(v)'
        PROVE  held'[v].refresh # r(u)
    <3>1. CASE v = t
      BY <1>4, <2>1, <2>2, <2>3, <3>1 DEF Brings
    <3>2. CASE v # t
      BY <1>2, <2>2, <2>3, <3>2 DEF InHand
    <3> QED
      BY <3>1, <3>2
  <2>4. ASSUME NEW p \in Accounts, stored'[p] # None
        PROVE  stored'[p].refresh # r(u)
    BY <1>4, <2>2, <2>4 DEF Brings
  <2> QED
    BY <2>1, <2>3, <2>4
<1>5. CASE u = t
  <2>1. InHand(t)' /\ \A p \in Accounts : stored'[p] = stored[p]
    BY <1>3, <1>5 DEF Brings, InHand
  <2>2. CASE held'[t].refresh = Len(issued) + 1
    BY <1>1, <1>2, <1>5, <2>1, <2>2 DEF InHand
  <2>3. CASE held'[t].refresh # Len(issued) + 1
    <3>1. pc[t] \in {"whoami", "store"} /\ held'[t].refresh = r(t)
      BY <1>3, <1>5, <2>1, <2>3 DEF Brings
    <3> QED
      BY <1>2, <1>3, <1>5, <2>1, <3>1 DEF Apart, InHand
  <2> QED
    BY <2>2, <2>3
<1> QED
  BY <1>4, <1>5

\* Two tasks of an account do not both have its lock.
LEMMA OneHolder ==
  ASSUME Line, NEW t \in Tasks, NEW u \in Tasks, pc[t] \in LockPlaces, pc[u] \in LockPlaces,
         job[t].who = job[u].who, ahead[t] = {}, ahead[u] = {}
  PROVE  t = u
  BY DEF Line

LEMMA UnspentStays ==
  ASSUME IInv, Line, Known, Unspent, NEW t \in Tasks, Brings(t), UNCHANGED spent, ~replayed'
  PROVE  Unspent'
<1>1. Len(issued) \in Nat /\ 0 \notin spent /\ Len(issued) + 1 \notin spent
  BY Numbers DEF Known
<1>2. \A u \in Tasks \ {t} : pc'[u] = pc[u] /\ held'[u] = held[u] /\ job'[u] = job[u]
  BY DEF Brings, OthersStay
<1>3. ASSUME NEW u \in Tasks, InHand(u)'
      PROVE  held'[u].refresh \notin spent
  <2>1. CASE u # t
    BY <1>2, <1>3, <2>1 DEF Unspent, InHand
  <2>2. CASE u = t
    <3>1. CASE pc[t] = "lock" /\ Holds(t) /\ job[t].who \in Accounts
               /\ stored[job[t].who] # None /\ held'[t] = stored[job[t].who]
      <4>1. ~Replaced(job[t].who)
        BY <3>1, OneHolder DEF Replaced, Holds, Line, LockPlaces
      <4> QED
        BY <2>2, <3>1, <4>1 DEF Unspent
    <3>2. CASE ~(pc[t] = "lock" /\ Holds(t) /\ job[t].who \in Accounts
               /\ stored[job[t].who] # None /\ held'[t] = stored[job[t].who])
      BY <1>1, <1>3, <2>2, <3>2 DEF Brings, Unspent
    <3> QED
      BY <3>1, <3>2
  <2> QED
    BY <2>1, <2>2
<1>4. ASSUME NEW p \in Accounts, stored'[p] # None
      PROVE  stored'[p].refresh \notin spent \/ Replaced(p)'
  <2>1. CASE stored'[p] = held[t] /\ InHand(t)
    BY <2>1 DEF Unspent
  <2>2. CASE ~(stored'[p] = held[t] /\ InHand(t))
    <3>1. stored'[p] = stored[p]
      BY <2>2 DEF Brings
    <3>2. ASSUME NEW u \in Tasks, pc[u] = "save", job[u].who = p
          PROVE  Replaced(p)'
      <4>1. u # t
        BY <2>2, <3>2 DEF Brings, InHand
      <4> QED
        BY <1>2, <3>2, <4>1 DEF Replaced
    <3> QED
      BY <1>4, <3>1, <3>2 DEF Unspent, Replaced
  <2> QED
    BY <2>1, <2>2
<1> QED
  BY <1>3, <1>4 DEF Unspent

-----------------------------------------------------------------------------
(* The line at the lock.                                                   *)

LEMMA LineOff ==
  ASSUME Line, ahead \in [Tasks -> SUBSET Tasks], NEW t \in Tasks, OthersStay(t),
         pc'[t] \notin LockPlaces, UNCHANGED ahead \/ Leave(t)
  PROVE  Line'
<1>1. \A u \in Tasks \ {t} : pc'[u] = pc[u] /\ job'[u] = job[u]
      /\ ahead[u] \ {t} \subseteq ahead'[u] /\ ahead'[u] \subseteq ahead[u]
  BY DEF OthersStay, Leave
<1>2. ASSUME NEW u \in Tasks, NEW v \in Tasks, u # v, pc'[u] \in LockPlaces,
             pc'[v] \in LockPlaces, job'[u].who = job'[v].who
      PROVE  u \in ahead'[v] \/ v \in ahead'[u]
  <2>1. u # t /\ v # t
    BY <1>2
  <2> QED
    BY <1>1, <1>2, <2>1 DEF Line
<1>3. ASSUME NEW u \in Tasks, pc'[u] \in {"refresh", "save"}
      PROVE  ahead'[u] = {}
  <2>1. u # t
    BY <1>3 DEF LockPlaces
  <2> QED
    BY <1>1, <1>3, <2>1 DEF Line
<1> QED
  BY <1>2, <1>3 DEF Line

LEMMA LineOn ==
  ASSUME Line, ahead \in [Tasks -> SUBSET Tasks], NEW t \in Tasks, OthersStay(t),
         pc'[t] = "lock", Enter(t, job[t].who), job'[t] = job[t]
  PROVE  Line'
<1>1. \A u \in Tasks \ {t} : pc'[u] = pc[u] /\ job'[u] = job[u] /\ ahead'[u] = ahead[u]
  BY DEF OthersStay, Enter
<1>2. ahead'[t] = {u \in Tasks : pc[u] \in LockPlaces /\ job[u].who = job[t].who}
  BY DEF Enter, AtLock
<1>3. ASSUME NEW u \in Tasks, NEW v \in Tasks, u # v, pc'[u] \in LockPlaces,
             pc'[v] \in LockPlaces, job'[u].who = job'[v].who
      PROVE  u \in ahead'[v] \/ v \in ahead'[u]
  <2>1. CASE u = t
    BY <1>1, <1>2, <1>3, <2>1
  <2>2. CASE v = t
    BY <1>1, <1>2, <1>3, <2>2
  <2>3. CASE u # t /\ v # t
    BY <1>1, <1>3, <2>3 DEF Line
  <2> QED
    BY <2>1, <2>2, <2>3
<1>4. \A u \in Tasks : pc'[u] \in {"refresh", "save"} => ahead'[u] = {}
  BY <1>1 DEF Line
<1> QED
  BY <1>3, <1>4 DEF Line

LEMMA LineWithin ==
  ASSUME Line, NEW t \in Tasks, OthersStay(t), job'[t] = job[t],
         pc[t] \in LockPlaces, pc'[t] \in {"refresh", "save"}, ahead[t] = {}, UNCHANGED ahead
  PROVE  Line'
<1>1. \A u \in Tasks \ {t} : pc'[u] = pc[u] /\ job'[u] = job[u]
  BY DEF OthersStay
<1>2. \A u \in Tasks : job'[u] = job[u] /\ (pc'[u] \in LockPlaces => pc[u] \in LockPlaces)
  BY <1>1
<1>3. \A u \in Tasks : pc'[u] \in {"refresh", "save"} => ahead'[u] = {}
  BY <1>1 DEF Line
<1> QED
  BY <1>2, <1>3 DEF Line

-----------------------------------------------------------------------------
(* Every step keeps Refreshes.                                             *)

\* A step that brings no new token, and presents none, or one nobody has
\* exchanged.
LEMMA StepKeeps ==
  ASSUME IInv, Refreshes, NEW t \in Tasks, Brings(t), Line',
         UNCHANGED <<spent, faults>>, Len(issued') >= Len(issued), Len(issued') \in Nat,
         replayed' = (replayed \/ (InHand(t) /\ held[t].refresh \in spent)) \/ UNCHANGED replayed
  PROVE  Refreshes'
<1>1. Apart'
  BY ApartStays DEF Refreshes
<1>2. Known'
  BY Numbers DEF Refreshes, Known
<1>3. ASSUME faults = 0
      PROVE  Unspent'
  <2>1. Unspent
    BY <1>3 DEF Refreshes
  <2>2. ~replayed'
    BY <2>1 DEF Unspent
  <2> QED
    BY <2>1, <2>2, UnspentStays DEF Refreshes
<1> QED
  BY <1>1, <1>2, <1>3 DEF Refreshes

\* So does one that only takes the task off the lock, or leaves it off.
LEMMA OffKeeps ==
  ASSUME IInv, Refreshes, NEW t \in Tasks, OthersStay(t),
         ~InHand(t)', pc'[t] \notin LockPlaces, UNCHANGED ahead \/ Leave(t),
         pc[t] # "save", UNCHANGED <<stored, issued, spent, faults>>,
         replayed' = (replayed \/ (InHand(t) /\ held[t].refresh \in spent)) \/ UNCHANGED replayed
  PROVE  Refreshes'
<1>1. ahead \in [Tasks -> SUBSET Tasks]
  BY DEF IInv, TypeOK
<1>2. Line'
  BY <1>1, LineOff DEF Refreshes
<1>3. Brings(t)
  BY DEF Brings
<1>4. Len(issued) \in Nat
  BY Numbers
<1> QED
  BY <1>2, <1>3, <1>4, StepKeeps

LEMMA TokenStepKeeps ==
  ASSUME IInv, Refreshes, NEW t \in Tasks,
         Look(t) \/ Recheck(t) \/ RefreshRefused(t) \/ Save(t) \/ Issue(t)
  PROVE  Refreshes'
<1>0. TaskTypes /\ ahead \in [Tasks -> SUBSET Tasks] /\ Len(issued) \in Nat
  BY Numbers, TypeParts DEF Types, LineTypes, IInv
<1> USE DEF InHand, LockPlaces
<1>1. CASE Look(t)
  <2>1. /\ pc[t] = "look" /\ UNCHANGED <<stored, issued, spent, faults, replayed>>
        /\ job[t].who \in Accounts
    BY <1>1 DEF Look, tables, server, history, IInv, Fits, JobFits, TokenPlaces, TokenJobs
  <2>2. CASE UNCHANGED ahead /\ (With(t, stored[job[t].who]) \/ Without(t))
    BY <1>0, <2>1, <2>2, WithMoves, WithoutMoves, OffKeeps
  <2>3. CASE stored[job[t].who] # None /\ Carry(t, "lock", stored[job[t].who])
             /\ Enter(t, job[t].who)
    <3>1. stored[job[t].who] \in Credentials
      BY <2>1, <2>3 DEF IInv, Fits, StoredFits, Sound
    <3>2. OthersStay(t) /\ pc'[t] = "lock" /\ job'[t] = job[t]
      BY <1>0, <2>3, <3>1, Movement DEF Places
    <3>3. Line'
      BY <1>0, <2>3, <3>2, LineOn DEF Refreshes
    <3>4. Brings(t)
      BY <2>1, <3>2 DEF Brings
    <3> QED
      BY <1>0, <2>1, <3>3, <3>4, StepKeeps
  <2> QED
    BY <1>1, <2>2, <2>3 DEF Look
<1>2. CASE Recheck(t)
  <2>1. /\ pc[t] = "lock" /\ Holds(t) /\ UNCHANGED <<stored, issued, spent, faults, replayed>>
        /\ job[t].who \in Accounts
    BY <1>2 DEF Recheck, tables, server, history, IInv, Fits, JobFits, TokenPlaces, TokenJobs
  <2>2. CASE Leave(t) /\ (With(t, Current(t)) \/ Without(t))
    BY <1>0, <2>1, <2>2, WithMoves, WithoutMoves, OffKeeps
  <2>3. CASE Current(t) # None /\ Carry(t, "refresh", Current(t)) /\ UNCHANGED ahead
    <3>1. Current(t) = stored[job[t].who] /\ Current(t) \in Credentials
      BY <2>1, <2>3 DEF Current, IInv, Fits, StoredFits, Sound
    <3>2. OthersStay(t) /\ pc'[t] = "refresh" /\ job'[t] = job[t] /\ held'[t] = Current(t)
      <4>1. "refresh" \in Places
        BY DEF Places
      <4>2. Current(t) \in Credentials /\ Carry(t, "refresh", Current(t))
        BY <2>3, <3>1
      <4> QED
        BY <1>0, <4>1, <4>2, Movement
    <3>3. Line'
      BY <2>1, <2>3, <3>2, LineWithin DEF Refreshes, Holds
    <3>4. Brings(t)
      BY <2>1, <2>3, <3>1, <3>2 DEF Brings
    <3> QED
      BY <1>0, <2>1, <3>3, <3>4, StepKeeps
  <2> QED
    BY <1>2, <2>2, <2>3 DEF Recheck
<1>3. CASE RefreshRefused(t)
  <2>1. pc[t] = "refresh" /\ UNCHANGED <<stored, issued, spent, faults>> /\ Leave(t)
        /\ replayed' = (replayed \/ held[t].refresh \in spent)
    BY <1>3 DEF RefreshRefused, Presented, tables, server, Release
  <2>2. OthersStay(t) /\ pc'[t] = "idle"
    BY <1>0, <1>3, Movement DEF RefreshRefused
  <2>3. replayed' = (replayed \/ (InHand(t) /\ held[t].refresh \in spent))
    BY <2>1
  <2> QED
    BY <2>1, <2>2, <2>3, OffKeeps
<1>4. CASE Save(t)
  <2>1. /\ pc[t] = "save" /\ UNCHANGED <<issued, spent, faults, replayed>> /\ Leave(t)
        /\ stored' = [stored EXCEPT ![job[t].who] = held[t]]
        /\ job[t].who \in Accounts
    BY <1>4 DEF Save, server, history, IInv, Fits, JobFits, TokenPlaces, TokenJobs
  <2>2. OthersStay(t) /\ pc'[t] \in {"idle", "issue"}
    BY <1>0, <1>4, WithMoves DEF Save
  <2>3. Line'
    BY <1>0, <2>1, <2>2, LineOff DEF Refreshes
  <2>4. \A p \in Accounts : stored'[p] = IF p = job[t].who THEN held[t] ELSE stored[p]
    BY <2>1, TypeParts DEF IInv, Types, RowTypes
  <2>5. Brings(t)
    BY <2>1, <2>2, <2>4 DEF Brings
  <2> QED
    BY <1>0, <2>1, <2>3, <2>5, StepKeeps
<1>5. CASE Issue(t)
  <2>1. pc[t] = "issue" /\ UNCHANGED <<stored, issued, spent, faults, replayed, ahead>>
    BY <1>5 DEF Issue, server, history
  <2>2. OthersStay(t) /\ pc'[t] = "idle"
    BY <1>0, <1>5, Movement DEF Issue
  <2> QED
    BY <2>1, <2>2, OffKeeps
<1> QED
  BY <1>1, <1>2, <1>3, <1>4, <1>5

\* An exchange: the token presented is in nobody else's hands, and is spent
\* only with a new one to save.
LEMMA RefreshKeeps ==
  ASSUME IInv, Refreshes, NEW t \in Tasks, Refresh(t)
  PROVE  Refreshes'
<1> DEFINE before == held[t]
           g == Len(issued) + 1
<1>1. PICK rotates \in BOOLEAN, tells \in BOOLEAN : Grants(t, rotates, tells)
  BY DEF Refresh
<1> DEFINE c == [access |-> g,
                 refresh |-> IF rotates THEN g ELSE before.refresh,
                 scopes |-> IF tells THEN issued[before.refresh].scopes
                            ELSE FallbackScopes(t, before)]
<1>2. pc[t] = "refresh" /\ UNCHANGED <<stored, ahead, faults>>
      /\ replayed' = (replayed \/ before.refresh \in spent)
  BY DEF Refresh, Presented, tables
<1>3. /\ c \in Credentials /\ Carry(t, "save", c)
      /\ before.refresh \in 1 .. Len(issued) /\ before.refresh \notin spent
      /\ Len(issued) \in Nat /\ Len(issued') = g
      /\ spent' = IF rotates THEN spent \cup {before.refresh} ELSE spent
  <2>1. issued \in Seq([scopes: SUBSET Scopes, who: Accounts])
    BY DEF IInv, TypeOK
  <2>2. /\ c \in Credentials /\ Carry(t, "save", c)
        /\ before.refresh \in 1 .. Len(issued) /\ before.refresh \notin spent
        /\ issued' = Append(issued, [scopes |-> issued[before.refresh].scopes,
                                     who |-> issued[before.refresh].who])
        /\ spent' = IF rotates THEN spent \cup {before.refresh} ELSE spent
    BY <1>1, <1>2, GrantsMoves DEF IInv
  <2>3. Len(issued) \in Nat /\ Len(issued') = g
    BY <2>1, <2>2
  <2> QED
    BY <2>2, <2>3
<1>4. OthersStay(t) /\ pc'[t] = "save" /\ job'[t] = job[t] /\ held'[t] = c
  <2>1. TaskTypes /\ "save" \in Places
    BY TypeParts DEF Types, IInv, Places, LockPlaces
  <2>2. \A x \in Credentials :
          Carry(t, "save", x) =>
            OthersStay(t) /\ pc'[t] = "save" /\ job'[t] = job[t] /\ held'[t] = x
    BY <2>1, Movement
  <2> QED
    BY <1>3, <2>2
<1>5. Line'
  BY <1>2, <1>4, LineWithin DEF Refreshes, LockPlaces, Line
<1>6. Brings(t)
  BY <1>2, <1>4 DEF Brings, InHand
<1>7. Apart' /\ Known'
  <2>1. Apart'
    BY <1>6, ApartStays DEF Refreshes
  <2>2. spent \subseteq 1 .. Len(issued) /\ 1 .. Len(issued) \subseteq 1 .. Len(issued')
    BY <1>3 DEF Refreshes, Known
  <2>3. spent' \subseteq spent \cup {before.refresh}
    BY <1>3
  <2> QED
    BY <1>3, <2>1, <2>2, <2>3 DEF Known
<1>8. CASE ~rotates
  <2>1. replayed' = (replayed \/ (InHand(t) /\ held[t].refresh \in spent))
    BY <1>2 DEF InHand
  <2> QED
    BY <1>2, <1>3, <1>5, <1>6, <1>8, <2>1, StepKeeps
<1>9. CASE rotates
  <2>1. ASSUME faults = 0
        PROVE  Unspent'
    <3>1. Unspent /\ Line /\ Apart /\ Known
      BY <2>1 DEF Refreshes
    <3>2. spent' = spent \cup {before.refresh} /\ held'[t].refresh = g
      BY <1>3, <1>4, <1>9
    <3>3. ~replayed'
      BY <1>2, <1>3, <3>1 DEF Unspent
    <3>4. g \notin spent'
      BY <1>3, <3>1, <3>2 DEF Known
    <3>5. issued[before.refresh].who = job[t].who /\ before.refresh # 0
      BY <1>2, <1>3 DEF IInv, Fits, HeldFits, Belongs
    <3>6. ASSUME NEW u \in Tasks \ {t}, InHand(u)
          PROVE  held[u].refresh # before.refresh
      <4>1. CASE pc[u] \in {"whoami", "store"}
        BY <1>2, <3>1, <3>5, <4>1 DEF Apart, InHand
      <4>2. CASE pc[u] \in {"refresh", "save"} /\ held[u].refresh = before.refresh
        <5>1. job[u].who = job[t].who
          BY <3>5, <4>2 DEF IInv, Fits, HeldFits, Belongs
        <5> QED
          BY <1>2, <3>1, <4>2, <5>1, OneHolder DEF Line, LockPlaces
      <4> QED
        BY <3>6, <4>1, <4>2 DEF InHand
    <3>7. \A u \in Tasks \ {t} : pc'[u] = pc[u] /\ held'[u] = held[u] /\ job'[u] = job[u]
      BY <1>4 DEF OthersStay
    <3>8. ASSUME NEW u \in Tasks, InHand(u)'
          PROVE  held'[u].refresh \notin spent'
      <4>1. CASE u = t
        BY <3>2, <3>4, <4>1
      <4>2. CASE u # t
        BY <3>1, <3>2, <3>6, <3>7, <3>8, <4>2 DEF Unspent, InHand
      <4> QED
        BY <4>1, <4>2
    <3>9. ASSUME NEW p \in Accounts, stored'[p] # None
          PROVE  stored'[p].refresh \notin spent' \/ Replaced(p)'
      <4>1. CASE stored[p].refresh = before.refresh
        <5>1. job[t].who = p
          BY <1>2, <3>5, <3>9, <4>1 DEF IInv, Fits, StoredFits, Belongs
        <5> QED
          BY <1>4, <5>1 DEF Replaced
      <4>2. CASE stored[p].refresh \in spent
        <5>1. PICK u \in Tasks : pc[u] = "save" /\ job[u].who = p
          BY <1>2, <3>1, <3>9, <4>2 DEF Unspent, Replaced
        <5> QED
          BY <1>2, <3>7, <5>1 DEF Replaced
      <4> QED
        BY <1>2, <3>2, <4>1, <4>2
    <3> QED
      BY <3>3, <3>8, <3>9 DEF Unspent
  <2> QED
    BY <1>2, <1>5, <1>7, <2>1 DEF Refreshes
<1> QED
  BY <1>8, <1>9

LEMMA CallbackStepKeeps ==
  ASSUME IInv, Refreshes, NEW t \in Tasks,
         Consume(t) \/ ExchangeCode(t) \/ WhoAmI(t) \/ Store(t) \/ CallbackRefused(t)
  PROVE  Refreshes'
<1>0. TaskTypes /\ ahead \in [Tasks -> SUBSET Tasks] /\ Len(issued) \in Nat
  BY Numbers, TypeParts DEF Types, LineTypes, IInv
<1> USE DEF InHand, LockPlaces
<1>1. CASE Consume(t)
  <2>1. pc[t] = "consume" /\ UNCHANGED <<stored, issued, spent, faults, replayed, ahead>>
    BY <1>1 DEF Consume, server, history
  <2>2. OthersStay(t) /\ pc'[t] \in {"idle", "code"}
    <3>1. CASE states[job[t].state].status = "open"
      BY <1>0, <1>1, <3>1 DEF Consume, Goto, OthersStay, TaskTypes
    <3>2. CASE states[job[t].state].status # "open"
      BY <1>0, <1>1, <3>2, Movement DEF Consume
    <3> QED
      BY <3>1, <3>2
  <2> QED
    BY <2>1, <2>2, OffKeeps
<1>2. CASE ExchangeCode(t)
  <2> DEFINE g == Len(issued) + 1
  <2>1. /\ pc[t] = "code" /\ g \in GrantIds /\ job[t].granted \in SUBSET Scopes
        /\ UNCHANGED <<stored, spent, faults, replayed, ahead>> /\ Len(issued') = g
    <3>1. pc[t] = "code" /\ job[t] \in CallbackJobs
      BY <1>2 DEF ExchangeCode, IInv, Fits, JobFits, CallbackPlaces
    <3>2. g \in GrantIds
      BY <1>0, <1>2, OAuthAssumption DEF ExchangeCode, GrantIds
    <3>3. issued \in Seq([scopes: SUBSET Scopes, who: Accounts])
      BY DEF IInv, TypeOK
    <3> QED
      BY <1>2, <3>1, <3>2, <3>3 DEF ExchangeCode, tables, history, CallbackJobs
  <2>2. PICK refreshes \in BOOLEAN, tells \in BOOLEAN :
          Carry(t, "whoami",
            [access |-> g, refresh |-> IF refreshes THEN g ELSE 0,
             scopes |-> IF tells THEN job[t].granted ELSE FallbackScopes(t, None)])
    BY <1>2 DEF ExchangeCode
  <2> DEFINE c == [access |-> g, refresh |-> IF refreshes THEN g ELSE 0,
                   scopes |-> IF tells THEN job[t].granted ELSE FallbackScopes(t, None)]
  <2>3. c \in Credentials
    <3>1. FallbackScopes(t, None) = {}
      BY DEF FallbackScopes
    <3>2. MaxGrants \in Nat
      BY OAuthAssumption
    <3> QED
      BY <2>1, <3>1, <3>2 DEF Credentials, GrantIds
  <2>4. OthersStay(t) /\ pc'[t] = "whoami" /\ held'[t] = c
    BY <1>0, <2>2, <2>3, Movement DEF Places, CallbackPlaces
  <2>5. Line'
    BY <1>0, <2>1, <2>4, LineOff DEF Refreshes
  <2>6. Brings(t)
    BY <2>1, <2>4 DEF Brings
  <2> QED
    BY <1>0, <2>1, <2>5, <2>6, StepKeeps
<1>3. CASE WhoAmI(t)
  <2>1. pc[t] = "whoami" /\ UNCHANGED <<stored, issued, spent, faults, replayed, ahead>>
    BY <1>3 DEF WhoAmI, tables, server, history
  <2>2. CASE Idle(t)
    BY <1>0, <2>1, <2>2, Movement, OffKeeps
  <2>3. CASE Carry(t, "store", held[t])
    <3>1. held[t] \in Credentials
      BY <2>1 DEF IInv, Fits, HeldFits, Sound
    <3>2. OthersStay(t) /\ pc'[t] = "store" /\ held'[t] = held[t]
      BY <1>0, <2>3, <3>1, Movement DEF Places, CallbackPlaces
    <3>3. Line'
      BY <1>0, <2>1, <3>2, LineOff DEF Refreshes
    <3>4. Brings(t)
      BY <2>1, <3>2 DEF Brings
    <3> QED
      BY <1>0, <2>1, <3>3, <3>4, StepKeeps
  <2> QED
    BY <1>3, <2>2, <2>3 DEF WhoAmI
<1>4. CASE Store(t)
  <2>1. /\ pc[t] = "store" /\ UNCHANGED <<issued, spent, faults, replayed, ahead>>
        /\ stored' = [stored EXCEPT ![job[t].who] = held[t]]
        /\ job[t].who \in Accounts
    BY <1>4 DEF Store, server, IInv, Fits, JobFits, Consumed
  <2>2. OthersStay(t) /\ pc'[t] = "idle"
    BY <1>0, <1>4, Movement DEF Store
  <2>3. Line'
    BY <1>0, <2>1, <2>2, LineOff DEF Refreshes
  <2>4. \A p \in Accounts : stored'[p] = IF p = job[t].who THEN held[t] ELSE stored[p]
    BY <2>1, TypeParts DEF IInv, Types, RowTypes
  <2>5. Brings(t)
    BY <2>1, <2>2, <2>4 DEF Brings
  <2> QED
    BY <1>0, <2>1, <2>3, <2>5, StepKeeps
<1>5. CASE CallbackRefused(t)
  <2>1. pc[t] \in {"code", "whoami"}
        /\ UNCHANGED <<stored, issued, spent, faults, replayed, ahead>>
    BY <1>5 DEF CallbackRefused, tables, server, history
  <2>2. OthersStay(t) /\ pc'[t] = "idle"
    BY <1>0, <1>5, Movement DEF CallbackRefused
  <2> QED
    BY <2>1, <2>2, OffKeeps
<1> QED
  BY <1>1, <1>2, <1>3, <1>4, <1>5

LEMMA OtherStepKeeps ==
  ASSUME IInv, Types', Refreshes,
         Tick \/ Restart \/ \E t \in Tasks : Request(t) \/ ReplyLost(t) \/ CancelTask(t)
  PROVE  Refreshes'
<1>0. /\ TaskTypes /\ ahead \in [Tasks -> SUBSET Tasks] /\ Len(issued) \in Nat
      /\ faults \in Nat
  BY Numbers, OAuthAssumption, TypeParts DEF Types, LineTypes, HistoryTypes, IInv
<1> USE DEF InHand, LockPlaces
<1>1. ASSUME NEW t \in Tasks, Request(t)
      PROVE  Refreshes'
  <2>1. PICK place \in Places, work \in Jobs :
          Begin(t, place, work) /\ place \in {"look", "consume"}
    <3>1. Needs \subseteq SUBSET Scopes
      BY OAuthAssumption
    <3> QED
      BY <1>1, <3>1 DEF Request, EnsureAuthorized, AccessToken, Callback, Jobs,
         TokenJobs, CallbackJobs, Places, CallbackPlaces
  <2>2. OthersStay(t) /\ pc[t] = "idle" /\ pc'[t] = place
    BY <1>0, <2>1, Movement
  <2>3. UNCHANGED <<stored, issued, spent, faults, replayed, ahead>>
    BY <2>1 DEF Begin, tables, server, history
  <2> QED
    BY <2>1, <2>2, <2>3, OffKeeps
\* A fault ends the promise, not the line, nor the callbacks' tokens.
<1>2. ASSUME NEW t \in Tasks, ReplyLost(t) \/ CancelTask(t)
      PROVE  Refreshes'
  <2>1. /\ OthersStay(t) /\ pc'[t] = "idle" /\ UNCHANGED stored
        /\ Leave(t) /\ faults' # 0
    BY <1>0, <1>2, Movement DEF ReplyLost, CancelTask, Fault, tables, Release
  <2>2. Line'
    BY <1>0, <2>1, LineOff DEF Refreshes
  <2>3. Apart'
    BY <2>1 DEF Refreshes, Apart, OthersStay
  <2>4. Known'
    <3>1. CASE UNCHANGED server
      BY <3>1 DEF server, Refreshes, Known
    <3>2. CASE ReplyLost(t)
      <4>1. issued \in Seq([scopes: SUBSET Scopes, who: Accounts])
            /\ held[t].refresh \in 1 .. Len(issued)
        BY <3>2 DEF IInv, TypeOK, ReplyLost, Accepts
      <4>2. Len(issued') = Len(issued) + 1 /\ spent' = spent \cup {held[t].refresh}
        BY <3>2, <4>1 DEF ReplyLost
      <4>3. spent \subseteq 1 .. Len(issued) /\ 1 .. Len(issued) \subseteq 1 .. Len(issued')
        BY <1>0, <4>2 DEF Refreshes, Known
      <4> QED
        BY <4>1, <4>2, <4>3 DEF Known
    <3> QED
      BY <1>2, <3>1, <3>2 DEF CancelTask
  <2> QED
    BY <2>1, <2>2, <2>3, <2>4 DEF Refreshes
<1>3. CASE Tick
  <2>1. UNCHANGED <<stored, ahead, pc, job, held, issued, spent, replayed, faults>>
    BY <1>3 DEF Tick, AccessExpires, RefreshExpires, StateExpires, tables, server, history
  <2> QED
    BY <2>1 DEF Refreshes, Line, Apart, Known, Unspent, Replaced
<1>4. CASE Restart
  <2>1. (\A t \in Tasks : pc'[t] = "idle") /\ faults' # 0 /\ UNCHANGED <<issued, spent>>
    BY <1>0, <1>4 DEF Restart, Fault, server
  <2> QED
    BY <2>1 DEF Refreshes, Line, Apart, Known
<1> QED
  BY <1>1, <1>2, <1>3, <1>4

LEMMA RefreshesInv == Spec => []Refreshes
<1>1. Init => Refreshes
  BY DEF Init, Refreshes, Line, Apart, Known, Unspent, InHand, LockPlaces
<1>2. ASSUME IInv, IInv', Refreshes, [Next]_vars
      PROVE  Refreshes'
  <2>1. Types'
    BY <1>2 DEF IInv, TypeOK, Types, TaskTypes, RowTypes, LineTypes, ServerTypes, HistoryTypes
  <2>2. CASE UNCHANGED vars
    BY <1>2, <2>2 DEF vars, tables, server, clock, history, Refreshes, Line, Apart, Known,
       Unspent, Replaced, InHand
  <2> QED
    BY <1>2, <2>1, <2>2, TokenStepKeeps, RefreshKeeps, CallbackStepKeeps, OtherStepKeeps
    DEF Next, Step
<1> QED
  BY <1>1, <1>2, Invariance, PTL DEF Spec

\* RefreshedOnce: as long as no exchange is cut short, no refresh token is
\* presented that another coroutine has already exchanged.
THEOREM TokensAreRefreshedOnce == Spec => []RefreshedOnce
<1>1. Refreshes => RefreshedOnce
  BY DEF Refreshes, Unspent, RefreshedOnce
<1> QED
  BY <1>1, RefreshesInv, PTL
=============================================================================
