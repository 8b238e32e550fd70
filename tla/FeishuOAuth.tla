------------------------------ MODULE FeishuOAuth ------------------------------
(***************************************************************************)
(* FeishuOAuthService: the user credentials of the Feishu workspace, the   *)
(* authorization states behind the callback, and the refreshes.            *)
(*                                                                         *)
(* Three operations run as coroutines of one process: ensure_authorized    *)
(* (may the request proceed, or must the user follow a link first),        *)
(* access_token (the token a workspace call is made with) and callback     *)
(* (the user comes back with a code).  They share the tables oauth_tokens  *)
(* and oauth_states and, per account, an asyncio lock that only refreshes  *)
(* take.  Every step below is one transaction or one exchange with Feishu. *)
(*                                                                         *)
(* The authorization server is external.  It issues grants, numbered in    *)
(* the order of issue: an access token and, unless it chooses not to, a    *)
(* refresh token that is good for one exchange.                            *)
(***************************************************************************)
EXTENDS Naturals, Sequences

CONSTANTS
  Tasks,         \* coroutines
  Accounts,      \* (tenant, open id) pairs
  Scopes,        \* OAuth scopes
  Needs,         \* scope sets that the permissions of an intent map to
  StateIds,      \* bound: authorization states whose link may be followed
  MaxGrants,     \* bound: grants the server issues
  MaxFaults,     \* bound: lost exchanges, cancellations and restarts
  None

ASSUME OAuthAssumption ==
  /\ Needs \subseteq (SUBSET Scopes) \ {{}}
  /\ StateIds \subseteq Nat
  /\ MaxGrants \in Nat
  /\ MaxFaults \in Nat

VARIABLES
  stored,     \* oauth_tokens, by account
  states,     \* oauth_states, by state
  ahead,      \* for each task, who came to its account's refresh lock before it
  pc,         \* where each task is
  job,        \* what each busy task works on
  held,       \* the credential a task has read under the lock, or been given
  issued,     \* the server: the grants issued
  spent,      \* the server: grants whose refresh token has been exchanged
  stale,      \* grants whose access token has expired
  lapsed,     \* grants whose refresh token has expired
  welcomed,   \* by account: the scopes the last completed callback asked for
  replayed,   \* some spent refresh token has been presented
  faults

tables == <<stored, states>>
server == <<issued, spent>>
clock == <<stale, lapsed>>
history == <<welcomed, replayed>>
vars == <<tables, ahead, pc, job, held, server, clock, history, faults>>

-----------------------------------------------------------------------------
GrantIds == 1 .. MaxGrants

\* `refresh` is the grant the refresh token came with, 0 when there is none;
\* its expiry goes with it.
Credentials == [access: GrantIds, refresh: 0 .. MaxGrants, scopes: SUBSET Scopes]

StateRows ==
  [status: {"unused", "open", "expired", "gone"},
   who: Accounts \cup {None}, need: SUBSET Scopes]

\* A callback's code is bound to the account that logged in and the scopes it
\* granted, whoever the authorization was requested for.
TokenJobs == [who: Accounts, need: SUBSET Scopes, op: {"ensure", "token"}]
CallbackJobs ==
  [who: Accounts \cup {None}, need: SUBSET Scopes, op: {"callback"},
   state: StateIds, login: Accounts, granted: SUBSET Scopes]
Jobs == TokenJobs \cup CallbackJobs

LockPlaces == {"lock", "refresh", "save"}
CallbackPlaces == {"consume", "code", "whoami", "store"}
Places == {"idle", "look", "issue"} \cup LockPlaces \cup CallbackPlaces

Init ==
  /\ stored = [p \in Accounts |-> None]
  /\ states = [i \in StateIds |-> [status |-> "unused", who |-> None, need |-> {}]]
  /\ ahead = [t \in Tasks |-> {}]
  /\ pc = [t \in Tasks |-> "idle"]
  /\ job = [t \in Tasks |-> None]
  /\ held = [t \in Tasks |-> None]
  /\ issued = <<>>
  /\ spent = {}
  /\ stale = {}
  /\ lapsed = {}
  /\ welcomed = [p \in Accounts |-> None]
  /\ replayed = FALSE
  /\ faults = 0

-----------------------------------------------------------------------------
(* Moves of a task.                                                        *)

Goto(t, place) == pc' = [pc EXCEPT ![t] = place]

Idle(t) ==
  /\ Goto(t, "idle")
  /\ job' = [job EXCEPT ![t] = None]
  /\ held' = [held EXCEPT ![t] = None]

Begin(t, place, work) ==
  /\ pc[t] = "idle"
  /\ Goto(t, place)
  /\ job' = [job EXCEPT ![t] = work]
  /\ UNCHANGED <<tables, ahead, held, server, clock, history, faults>>

Carry(t, place, credential) ==
  /\ Goto(t, place)
  /\ held' = [held EXCEPT ![t] = credential]
  /\ UNCHANGED job

\* asyncio.Lock: first come, first served, and whoever leaves `async with`,
\* waiting or holding, makes way.
AtLock(p) == {t \in Tasks : pc[t] \in LockPlaces /\ job[t].who = p}
Enter(t, p) == ahead' = [ahead EXCEPT ![t] = AtLock(p)]
Leave(t) == ahead' = [u \in Tasks |-> IF u = t THEN {} ELSE ahead[u] \ {t}]
Holds(t) == ahead[t] = {}

-----------------------------------------------------------------------------
(* ensure_authorized and access_token.                                     *)

Usable(credential) == credential.access \notin stale
Refreshable(credential) == credential.refresh # 0 /\ credential.refresh \notin lapsed

\* No usable credential: access_token raises, ensure_authorized sends the user
\* to Feishu.
Without(t) ==
  IF job[t].op = "token" THEN Idle(t)
  ELSE Goto(t, "issue") /\ held' = [held EXCEPT ![t] = None] /\ UNCHANGED job

With(t, credential) ==
  IF job[t].op = "token" \/ job[t].need \subseteq credential.scopes
  THEN Idle(t)
  ELSE Without(t)

EnsureAuthorized(t, p, need) ==
  Begin(t, "look", [who |-> p, need |-> need, op |-> "ensure"])

AccessToken(t, p) ==
  Begin(t, "look", [who |-> p, need |-> {}, op |-> "token"])

\* _valid_credential up to the lock.
Look(t) ==
  LET p == job[t].who
      credential == stored[p]
  IN
  /\ pc[t] = "look"
  /\ \/ /\ credential = None
        /\ Without(t) /\ UNCHANGED ahead
     \/ /\ credential # None /\ Usable(credential)
        /\ With(t, credential) /\ UNCHANGED ahead
     \/ /\ credential # None /\ ~Usable(credential) /\ ~Refreshable(credential)
        /\ Without(t) /\ UNCHANGED ahead
     \/ /\ credential # None /\ ~Usable(credential) /\ Refreshable(credential)
        /\ Carry(t, "lock", credential) /\ Enter(t, p)
  /\ UNCHANGED <<tables, server, clock, history, faults>>

\* Faulty: the credential read before waiting for the lock is refreshed.
FaultyCurrent(t) == held[t]

\* The credential is read again under the lock.
Current(t) == stored[job[t].who]

\* Only the access token's expiry is looked at again, not the refresh token's.
Recheck(t) ==
  LET credential == Current(t) IN
  /\ pc[t] = "lock" /\ Holds(t)
  /\ \/ /\ credential = None
        /\ Without(t) /\ Leave(t)
     \/ /\ credential # None /\ Usable(credential)
        /\ With(t, credential) /\ Leave(t)
     \/ /\ credential # None /\ ~Usable(credential)
        /\ Carry(t, "refresh", credential) /\ UNCHANGED ahead
  /\ UNCHANGED <<tables, server, clock, history, faults>>

-----------------------------------------------------------------------------
(* Exchanges with the authorization server.                                *)

\* Faulty: a reply without scopes is taken to grant what is needed now.
FaultyFallbackScopes(t, before) == job[t].need

\* Faulty: the older credential's scopes are taken for one scope.
FaultyNested(t, before) == IF before = None THEN {} ELSE {before.scopes}

\* _credential_from_payload: what the reply leaves out is taken from the
\* credential that was refreshed, if one was.
FallbackScopes(t, before) == IF before = None THEN {} ELSE before.scopes

Accepts(refresh) ==
  /\ refresh \in 1 .. Len(issued)
  /\ refresh \notin spent \cup lapsed
  /\ Len(issued) < MaxGrants

\* The server honours a refresh token.  It answers with a new refresh token,
\* which retires the old one, or with none; and with the scopes or without.
Grants(t, rotates, tells) ==
  LET before == held[t]
      g == Len(issued) + 1
      scopes == issued[before.refresh].scopes
  IN
  /\ Accepts(before.refresh)
  /\ issued' = Append(issued, [scopes |-> scopes, who |-> issued[before.refresh].who])
  /\ spent' = IF rotates THEN spent \cup {before.refresh} ELSE spent
  /\ Carry(t, "save",
       [access |-> g,
        refresh |-> IF rotates THEN g ELSE before.refresh,
        scopes |-> IF tells THEN scopes ELSE FallbackScopes(t, before)])

\* Whatever the answer, the token has been presented.
Presented(t) == replayed' = (replayed \/ held[t].refresh \in spent)

Refresh(t) ==
  /\ pc[t] = "refresh"
  /\ \E rotates, tells \in BOOLEAN : Grants(t, rotates, tells)
  /\ Presented(t)
  /\ UNCHANGED <<tables, ahead, clock, welcomed, faults>>

\* Faulty: the lock stays taken when the exchange fails.
FaultyRelease(t) == UNCHANGED ahead

Release(t) == Leave(t)

\* An error answer raises through the lock: the request fails.
RefreshRefused(t) ==
  /\ pc[t] = "refresh"
  /\ Presented(t)
  /\ Idle(t) /\ Release(t)
  /\ UNCHANGED <<tables, server, clock, welcomed, faults>>

Save(t) ==
  /\ pc[t] = "save"
  /\ stored' = [stored EXCEPT ![job[t].who] = held[t]]
  /\ With(t, held[t]) /\ Leave(t)
  /\ UNCHANGED <<states, server, clock, history, faults>>

Unused == {i \in StateIds : states[i].status = "unused"}

\* create_authorization_url.  When StateIds is used up (bound), the link is one
\* that nobody follows.
Issue(t) ==
  /\ pc[t] = "issue"
  /\ IF Unused = {}
     THEN UNCHANGED states
     ELSE \E i \in Unused :
            /\ \A j \in Unused : i <= j
            /\ states' = [states EXCEPT ![i] =
                 [status |-> "open", who |-> job[t].who, need |-> job[t].need]]
  /\ Idle(t)
  /\ UNCHANGED <<stored, ahead, server, clock, history, faults>>

-----------------------------------------------------------------------------
(* callback.                                                               *)

\* Someone follows a link that was handed out, for the first time or again,
\* logs in under an account of their own and grants what they like.
Callback(t, i, login, granted) ==
  /\ states[i].status # "unused"
  /\ Begin(t, "consume",
       [who |-> None, need |-> {}, op |-> "callback", state |-> i,
        login |-> login, granted |-> granted])

\* Faulty: the state stays behind for another callback.
FaultyKept(i) == {j \in StateIds : states[j].status = "expired" /\ j # i}

\* consume_state deletes the state and whatever has expired.
Dropped(i) == {j \in StateIds : states[j].status = "expired"} \cup {i}

Consume(t) ==
  LET i == job[t].state
      row == states[i]
  IN
  /\ pc[t] = "consume"
  /\ states' = [j \in StateIds |->
       IF j \in Dropped(i) THEN [states[j] EXCEPT !.status = "gone"] ELSE states[j]]
  /\ IF row.status = "open"
     THEN /\ job' = [job EXCEPT ![t].who = row.who, ![t].need = row.need]
          /\ Goto(t, "code") /\ UNCHANGED held
     ELSE Idle(t)
  /\ UNCHANGED <<stored, ahead, server, clock, history, faults>>

\* The authorization code is exchanged for a first credential.
ExchangeCode(t) ==
  LET g == Len(issued) + 1
      granted == job[t].granted
  IN
  /\ pc[t] = "code"
  /\ g <= MaxGrants
  /\ issued' = Append(issued, [scopes |-> granted, who |-> job[t].login])
  /\ \E refreshes, tells \in BOOLEAN :
       Carry(t, "whoami",
         [access |-> g, refresh |-> IF refreshes THEN g ELSE 0,
          scopes |-> IF tells THEN granted ELSE FallbackScopes(t, None)])
  /\ UNCHANGED <<tables, ahead, spent, clock, history, faults>>

\* Faulty: the account behind the token is not compared with the requester.
FaultySameAccount(t) == TRUE

\* Feishu is asked whose the access token is.
SameAccount(t) == issued[held[t].access].who = job[t].who

WhoAmI(t) ==
  /\ pc[t] = "whoami"
  /\ IF SameAccount(t) /\ job[t].need \subseteq held[t].scopes
     THEN Carry(t, "store", held[t])
     ELSE Idle(t)
  /\ UNCHANGED <<tables, ahead, server, clock, history, faults>>

\* The user is told that the authorization has succeeded.
Store(t) ==
  LET p == job[t].who IN
  /\ pc[t] = "store"
  /\ stored' = [stored EXCEPT ![p] = held[t]]
  /\ welcomed' = [welcomed EXCEPT ![p] = job[t].need]
  /\ Idle(t)
  /\ UNCHANGED <<states, ahead, server, clock, replayed, faults>>

\* The server refuses the code, or does not say whose the token is.
CallbackRefused(t) ==
  /\ pc[t] \in {"code", "whoami"}
  /\ Idle(t)
  /\ UNCHANGED <<tables, ahead, server, clock, history, faults>>

-----------------------------------------------------------------------------
(* Time, faults.                                                           *)

\* Only the expiry of a credential that is stored, or in a task's hands, can be
\* noticed.
InUse == ({stored[p] : p \in Accounts} \cup {held[t] : t \in Tasks}) \ {None}

AccessExpires(credential) ==
  /\ credential.access \notin stale
  /\ stale' = stale \cup {credential.access}
  /\ UNCHANGED <<tables, ahead, pc, job, held, server, lapsed, history, faults>>

RefreshExpires(credential) ==
  /\ credential.refresh \notin lapsed \cup {0}
  /\ lapsed' = lapsed \cup {credential.refresh}
  /\ UNCHANGED <<tables, ahead, pc, job, held, server, stale, history, faults>>

StateExpires(i) ==
  /\ states[i].status = "open"
  /\ states' = [states EXCEPT ![i].status = "expired"]
  /\ UNCHANGED <<stored, ahead, pc, job, held, server, clock, history, faults>>

Fault == faults < MaxFaults /\ faults' = faults + 1

\* The server has honoured the exchange and the answer is lost.
ReplyLost(t) ==
  /\ Fault
  /\ pc[t] = "refresh" /\ Accepts(held[t].refresh)
  /\ issued' = Append(issued, issued[held[t].refresh])
  /\ spent' = spent \cup {held[t].refresh}
  /\ Presented(t)
  /\ Idle(t) /\ Release(t)
  /\ UNCHANGED <<tables, clock, welcomed>>

\* The request's connection is dropped, or the database fails it.
CancelTask(t) ==
  /\ Fault
  /\ pc[t] # "idle"
  /\ Idle(t) /\ Leave(t)
  /\ UNCHANGED <<tables, server, clock, history>>

Restart ==
  /\ Fault
  /\ pc' = [t \in Tasks |-> "idle"]
  /\ job' = [t \in Tasks |-> None]
  /\ held' = [t \in Tasks |-> None]
  /\ ahead' = [t \in Tasks |-> {}]
  /\ UNCHANGED <<tables, server, clock, history>>

-----------------------------------------------------------------------------
Request(t) ==
  \/ \E p \in Accounts, need \in Needs : EnsureAuthorized(t, p, need)
  \/ \E p \in Accounts : AccessToken(t, p)
  \/ \E i \in StateIds, login \in Accounts, granted \in SUBSET Scopes :
       Callback(t, i, login, granted)

Step(t) ==
  \/ Look(t) \/ Recheck(t) \/ Refresh(t) \/ RefreshRefused(t) \/ Save(t)
  \/ Issue(t)
  \/ Consume(t) \/ ExchangeCode(t) \/ WhoAmI(t) \/ Store(t) \/ CallbackRefused(t)

Tick ==
  \/ \E credential \in InUse :
       AccessExpires(credential) \/ RefreshExpires(credential)
  \/ \E i \in StateIds : StateExpires(i)

Next ==
  \/ \E t \in Tasks : Request(t) \/ Step(t) \/ ReplyLost(t) \/ CancelTask(t)
  \/ Tick
  \/ Restart

Spec == Init /\ [][Next]_vars

\* A coroutine that can go on does; httpx bounds every exchange by a timeout.
FairSpec == Spec /\ \A t \in Tasks : WF_vars(Step(t))

-----------------------------------------------------------------------------
(* Properties.                                                             *)

\* The tables, the lock and the coroutines keep their shape.
TypeOK ==
  /\ stored \in [Accounts -> Credentials \cup {None}]
  /\ states \in [StateIds -> StateRows]
  /\ ahead \in [Tasks -> SUBSET Tasks]
  /\ pc \in [Tasks -> Places]
  /\ job \in [Tasks -> Jobs \cup {None}]
  /\ held \in [Tasks -> Credentials \cup {None}]
  /\ issued \in Seq([scopes: SUBSET Scopes, who: Accounts])
  /\ Len(issued) <= MaxGrants
  /\ spent \subseteq GrantIds /\ stale \subseteq GrantIds /\ lapsed \subseteq GrantIds
  /\ welcomed \in [Accounts -> (SUBSET Scopes) \cup {None}]
  /\ replayed \in BOOLEAN
  /\ faults \in 0 .. MaxFaults

\* Whoever follows the link, and however refreshes and callbacks interleave,
\* the credential stored for an account was granted by that account's user, and
\* so were the tokens it can be refreshed from.
CredentialBelongs ==
  \A p \in Accounts : stored[p] # None =>
    /\ issued[stored[p].access].who = p
    /\ stored[p].refresh # 0 => issued[stored[p].refresh].who = p

\* ensure_authorized answers "authorized" from the scopes written down with the
\* credential: those are scopes the server has really granted it, also when the
\* replies to refreshes do not repeat them.
ScopesTruthful ==
  \A p \in Accounts : stored[p] # None =>
    stored[p].scopes \subseteq issued[stored[p].access].scopes

\* However often a link is followed, and however the callbacks interleave, no
\* two of them work under one authorization state.
StateConsumedOnce ==
  \A t, u \in Tasks :
    /\ pc[t] \in {"code", "whoami", "store"} /\ pc[u] \in {"code", "whoami", "store"}
    /\ job[t].state = job[u].state
    => t = u

\* Refresh tokens are good for one exchange: as long as no exchange is cut
\* short, the lock and the second look keep coroutines from presenting one
\* that another has already exchanged.
RefreshedOnce == faults = 0 => ~replayed

\* The page "authorization succeeded" is true: the credential stored for the
\* account covers the scopes it was asked to grant, until a later callback.
AuthorizationSticks ==
  \A p \in Accounts : welcomed[p] # None =>
    /\ stored[p] # None
    /\ welcomed[p] \subseteq stored[p].scopes

\* A coroutine waiting for, or holding, an account's refresh lock gets past it.
LockPassed ==
  \A t \in Tasks : pc[t] \in LockPlaces ~> pc[t] \notin LockPlaces
=============================================================================
