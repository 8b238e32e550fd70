----------------------------- MODULE AssemblyProofs -----------------------------
(***************************************************************************)
(* Safety of Assembly for every set of deployments.  First, that resources *)
(* lean on open ones:                                                      *)
(*                                                                         *)
(* What has been ordered respects the dependences (InOrder); resources are *)
(* added in that order, so each stands behind those it leans on (Listed);  *)
(* and what is open is always a beginning of that list (Opened).           *)
(***************************************************************************)
EXTENDS Assembly, TLAPS, FiniteSetTheorems, FunctionTheorems, SequenceTheorems

-----------------------------------------------------------------------------
(* The inductive invariant.                                                *)

Assembling == {"order", "declare", "contribute", "start", "serve", "close"}

ProcessTypes ==
  /\ selected \in Configurations
  /\ phase \in Phases
  /\ ordered \in Seq(Ids)
  /\ at \in Nat \ {0}
  /\ owner \in [Namespaces -> Ids \cup {NoModule}]
  /\ taken \in [Names -> Ids \cup {NoModule}]
  /\ resources \in Seq(Ids)

\* The next module or resource is at most one past the last.
Within ==
  /\ phase \in {"check", "order"} => at = 1
  /\ phase \in {"declare", "contribute"} => at <= Len(ordered) + 1
  /\ phase \in {"start", "close"} => at <= Len(resources) + 1
  /\ phase = "serve" => at = 1
  /\ at <= Len(selected) + 1

\* Nothing has been done before.
Fresh == phase = "check" => ordered = <<>> /\ owner = NoOwner /\ taken = NothingTaken

InOrder ==
  /\ phase \in Assembling => Consistent
  /\ IsInjective(ordered)
  /\ \A i \in DOMAIN ordered : ComesAfter(ordered[i]) \subseteq {ordered[j] : j \in 1 .. i - 1}
  /\ phase \in Assembling \ {"order"} => Range(ordered) = Ids

\* Modules that have contributed.
Contributors == IF phase = "contribute" THEN at - 1 ELSE Len(ordered)

Listed ==
  /\ phase \in {"check", "order", "declare"} => resources = <<>>
  /\ IsInjective(resources)
  /\ phase = "contribute" =>
       \A k \in DOMAIN resources : \E i \in 1 .. at - 1 : resources[k] = ordered[i]
  /\ phase \in {"contribute", "start", "serve", "close"} =>
       /\ \A i \in 1 .. Contributors : Manifest(ordered[i]).resource =>
            \E k \in DOMAIN resources : resources[k] = ordered[i]
       /\ \A k \in DOMAIN resources : \A before \in ComesAfter(resources[k]) :
            Manifest(before).resource => \E j \in 1 .. k - 1 : resources[j] = before

First(n) == {resources[k] : k \in 1 .. n}

Opened ==
  open = CASE phase = "start" -> First(at - 1)
           [] phase = "serve" -> First(Len(resources))
           [] phase = "close" -> First(Len(resources) + 1 - at)
           [] OTHER -> {}

AssemblyInv == ProcessTypes /\ Within /\ Fresh /\ InOrder /\ Listed /\ Opened

-----------------------------------------------------------------------------
(* The modules of a deployment.                                            *)

LEMMA LeastOf ==
  ASSUME NEW S \in SUBSET Nat, S # {}
  PROVE  \E n \in S : \A m \in S : n <= m
<1>1. PICK n \in S : \A m \in S : ~ (<<m, n>> \in OpToRel(<, Nat))
  BY NatLessThanWellFounded, WFMin
<1>2. \A m \in S : ~(m < n)
  BY <1>1 DEF OpToRel
<1> QED
  BY <1>2

LEMMA FirstIsOne ==
  ASSUME NEW S \in SUBSET ModuleIds, S # {}
  PROVE  FirstOf(S) \in S
<1>1. \E id \in S : \A other \in S : id <= other
  BY LeastOf, AssemblyAssumption
<1> QED
  BY <1>1 DEF FirstOf

\* A module of the deployment has its manifest.
LEMMA Modules ==
  ASSUME selected \in Configurations
  PROVE  /\ selected \in Seq(Manifests)
         /\ Ids \subseteq ModuleIds
         /\ IsFiniteSet(Ids)
         /\ \A id \in Ids : Manifest(id) \in Manifests /\ Manifest(id).id = id
<1>1. selected \in Seq(Manifests) /\ Len(selected) \in Nat
  BY AssemblyAssumption, LenProperties
<1>2. \A m \in Range(selected) : m \in Manifests
  BY <1>1 DEF Range
<1>3. \A id \in Ids : Manifest(id) \in Range(selected) /\ Manifest(id).id = id
  BY DEF Ids, Manifest
<1>4. Ids \subseteq ModuleIds
  BY <1>2 DEF Ids, Manifests
<1>5. IsFiniteSet(Ids)
  <2> DEFINE f == [i \in 1 .. Len(selected) |-> selected[i].id]
  <2>1. f \in Surjection(1 .. Len(selected), Ids)
    <3>1. Range(selected) = {selected[i] : i \in 1 .. Len(selected)}
      BY <1>1 DEF Range
    <3>2. f \in [1 .. Len(selected) -> Ids]
      BY <3>1 DEF Ids
    <3>3. \A id \in Ids : \E i \in 1 .. Len(selected) : f[i] = id
      BY <3>1 DEF Ids
    <3> QED
      BY <3>2, <3>3 DEF Surjection
  <2>2. IsFiniteSet(1 .. Len(selected))
    BY <1>1, FS_Interval
  <2> QED
    BY <2>1, <2>2, FS_Surjection
<1> QED
  BY <1>1, <1>2, <1>3, <1>4, <1>5

\* A list of different modules is no longer than the deployment.
LEMMA NotLonger ==
  ASSUME selected \in Configurations, Consistent, NEW s \in Seq(Ids), IsInjective(s)
  PROVE  Len(s) <= Len(selected)
<1>1. s \in Injection(1 .. Len(s), Ids) /\ Len(s) \in Nat
  BY LenProperties DEF Injection, IsInjective
<1>2. IsFiniteSet(Ids) /\ Cardinality(Ids) = Len(selected)
  BY Modules DEF Consistent
<1>3. Cardinality(1 .. Len(s)) <= Cardinality(Ids)
  BY <1>1, <1>2, FS_Injection
<1> QED
  BY <1>1, <1>2, <1>3, FS_Interval

\* What a module depends on is in the deployment.
LEMMA Dependences ==
  ASSUME selected \in Configurations, Consistent, NEW id \in Ids
  PROVE  ComesAfter(id) \subseteq Ids
<1>1. Manifest(id) \in Range(selected)
  BY DEF Ids, Manifest
<1> QED
  BY <1>1 DEF ComesAfter, Consistent

\* A module registers something under names only.
LEMMA RegistersNames ==
  ASSUME selected \in Configurations, NEW id \in Ids
  PROVE  Range(Manifest(id).registers) \subseteq Names
<1>1. Manifest(id).registers \in Seq(Names)
  BY Modules DEF Manifests
<1> QED
  BY <1>1 DEF Range

-----------------------------------------------------------------------------
(* Each step keeps the invariant.                                          *)

LEMMA SameDeployment ==
  ASSUME UNCHANGED selected
  PROVE  /\ Ids' = Ids /\ (Consistent <=> Consistent')
         /\ \A id : ComesAfter(id)' = ComesAfter(id) /\ Manifest(id)' = Manifest(id)
  BY DEF Ids, Consistent, ComesAfter, Manifest

\* A refused process has nothing open.
LEMMA RefuseKeeps ==
  ASSUME AssemblyInv, phase \in {"check", "order", "declare", "contribute"}, Refuse
  PROVE  AssemblyInv'
<1> USE SameDeployment DEF AssemblyInv, Refuse
<1>1. ProcessTypes' /\ Within' /\ Fresh'
  BY DEF ProcessTypes, Within, Fresh, Phases
<1>2. InOrder'
  BY DEF InOrder, Assembling
<1>3. Listed'
  BY DEF Listed
<1>4. Opened'
  BY DEF Opened
<1> QED
  BY <1>1, <1>2, <1>3, <1>4

LEMMA CheckKeeps ==
  ASSUME AssemblyInv, Check
  PROVE  AssemblyInv'
<1>1. CASE ~Consistent
  BY <1>1, RefuseKeeps DEF Check
<1>2. CASE Consistent
  <2> USE <1>2, SameDeployment DEF AssemblyInv, Check, Enter
  <2>0. phase = "check" /\ phase' = "order" /\ at' = 1
        /\ UNCHANGED <<selected, ordered, owner, taken, resources, open>>
    BY DEF Refuse
  <2>1. ProcessTypes' /\ Within' /\ Fresh'
    BY <2>0, Modules, LenProperties DEF ProcessTypes, Within, Fresh, Phases
  <2>2. InOrder'
    BY <2>0 DEF InOrder, Assembling
  <2>3. Listed'
    BY <2>0 DEF Listed
  <2>4. Opened'
    BY <2>0 DEF Opened
  <2> QED
    BY <2>1, <2>2, <2>3, <2>4
<1> QED
  BY <1>1, <1>2

LEMMA OrderKeeps ==
  ASSUME AssemblyInv, Order
  PROVE  AssemblyInv'
<1> DEFINE id == FirstOf(Ready)
<1> USE SameDeployment DEF AssemblyInv
<1>0. phase = "order" /\ ordered' = Append(ordered, id)
      /\ UNCHANGED <<selected, phase, at, owner, taken, resources, open>>
  BY DEF Order
<1>1. id \in Ready
  BY Modules, FirstIsOne DEF Order, Ready, ProcessTypes
<1>2. id \in Ids /\ id \notin Range(ordered) /\ ComesAfter(id) \subseteq Range(ordered)
  BY <1>1 DEF Ready
<1>3. ordered \in Seq(Ids) /\ Len(ordered) \in Nat
  BY LenProperties DEF ProcessTypes
<1>4. /\ ordered' \in Seq(Ids) /\ DOMAIN ordered' = 1 .. Len(ordered) + 1
      /\ \A i \in 1 .. Len(ordered) : ordered'[i] = ordered[i]
      /\ ordered'[Len(ordered) + 1] = id
  BY <1>0, <1>2, <1>3, AppendProperties
<1>5. DOMAIN ordered = 1 .. Len(ordered) /\ Range(ordered) = {ordered[i] : i \in 1 .. Len(ordered)}
  BY <1>3 DEF Range
<1>6. ProcessTypes' /\ Within' /\ Fresh'
  BY <1>0, <1>4 DEF ProcessTypes, Within, Fresh
<1>7. IsInjective(ordered')
  BY <1>2, <1>4, <1>5 DEF InOrder, IsInjective
<1>8. \A i \in DOMAIN ordered' : ComesAfter(ordered'[i]) \subseteq {ordered'[j] : j \in 1 .. i - 1}
  <2> SUFFICES ASSUME NEW i \in 1 .. Len(ordered) + 1, NEW before \in ComesAfter(ordered'[i])
               PROVE  \E j \in 1 .. i - 1 : ordered'[j] = before
    BY <1>4
  <2>1. CASE i = Len(ordered) + 1
    BY <1>2, <1>3, <1>4, <1>5, <2>1
  <2>2. CASE i \in 1 .. Len(ordered)
    <3>1. before \in {ordered[j] : j \in 1 .. i - 1}
      BY <1>4, <1>5, <2>2 DEF InOrder
    <3> QED
      BY <1>3, <1>4, <2>2, <3>1
  <2> QED
    BY <1>3, <2>1, <2>2
<1>9. InOrder'
  BY <1>0, <1>7, <1>8 DEF InOrder, Assembling
<1>10. Listed' /\ Opened'
  BY <1>0 DEF Listed, Opened
<1> QED
  BY <1>6, <1>9, <1>10

\* Going on with the next phase, when nothing else changes.
LEMMA EnterKeeps ==
  ASSUME AssemblyInv, Ordered \/ Declared \/ Contributed \/ Started \/ Shutdown,
         ~Refuse
  PROVE  AssemblyInv'
<1> USE SameDeployment DEF AssemblyInv
<1>0. /\ at' = 1 /\ UNCHANGED <<selected, ordered, owner, taken, resources, open>>
      /\ \/ phase = "order" /\ phase' = "declare" /\ Range(ordered) = Ids
         \/ phase = "declare" /\ phase' = "contribute"
         \/ phase = "contribute" /\ phase' = "start" /\ at > Len(ordered)
         \/ phase = "start" /\ phase' = "serve" /\ at > Len(resources)
         \/ phase = "serve" /\ phase' = "close"
  BY DEF Ordered, Declared, Contributed, Started, Shutdown, Enter
<1>1. Len(ordered) \in Nat /\ Len(resources) \in Nat /\ Len(selected) \in Nat
  BY Modules, LenProperties DEF ProcessTypes
<1>2. ProcessTypes' /\ Within' /\ Fresh'
  BY <1>0, <1>1 DEF ProcessTypes, Within, Fresh, Phases
<1>3. InOrder'
  BY <1>0 DEF InOrder, Assembling
<1>4. Listed'
  <2>1. phase = "contribute" => Contributors' = Contributors
    BY <1>0, <1>1 DEF Contributors, Within, ProcessTypes
  <2>2. phase \in {"start", "serve"} => Contributors' = Contributors
    BY <1>0 DEF Contributors
  <2>3. phase = "declare" => Contributors' = 0 /\ resources = <<>>
    BY <1>0 DEF Contributors, Listed
  <2>4. CASE phase = "declare"
    BY <1>0, <2>3, <2>4 DEF Listed
  <2>5. CASE phase = "order"
    BY <1>0, <2>5 DEF Listed
  <2>6. CASE phase \in {"contribute", "start", "serve"}
    BY <1>0, <2>1, <2>2, <2>6 DEF Listed
  <2> QED
    BY <1>0, <2>4, <2>5, <2>6
<1>5. Opened'
  <2>1. CASE phase = "start"
    <3>1. at - 1 = Len(resources)
      BY <1>0, <1>1, <2>1 DEF Within, ProcessTypes
    <3> QED
      BY <1>0, <2>1, <3>1 DEF Opened, First
  <2>2. CASE phase = "serve"
    <3>1. Len(resources) + 1 - 1 = Len(resources)
      BY <1>1
    <3> QED
      BY <1>0, <2>2, <3>1 DEF Opened, First
  <2>3. CASE phase \in {"order", "declare", "contribute"}
    <3>1. First(1 - 1) = {}
      BY DEF First
    <3> QED
      BY <1>0, <2>3, <3>1 DEF Opened, First
  <2> QED
    BY <1>0, <2>1, <2>2, <2>3
<1> QED
  BY <1>2, <1>3, <1>4, <1>5

LEMMA DeclareKeeps ==
  ASSUME AssemblyInv, Declare, ~Refuse
  PROVE  AssemblyInv'
<1> USE SameDeployment DEF AssemblyInv
<1>0. /\ phase = "declare" /\ at <= Len(ordered) /\ at' = at + 1
      /\ owner' = [n \in Namespaces |-> IF n \in This.owns THEN This.id ELSE owner[n]]
      /\ UNCHANGED <<selected, phase, ordered, taken, resources, open>>
  BY DEF Declare
<1>1. ordered[at] \in Ids
  BY <1>0 DEF ProcessTypes
<1>2. This.id \in Ids
  BY <1>1, Modules DEF This, ProcessTypes
<1>3. Len(ordered) \in Nat /\ Len(selected) \in Nat /\ Len(ordered) <= Len(selected)
  BY <1>0, Modules, NotLonger, LenProperties DEF ProcessTypes, InOrder, Assembling
<1>4. ProcessTypes' /\ Within' /\ Fresh'
  BY <1>0, <1>2, <1>3 DEF ProcessTypes, Within, Fresh
<1>5. InOrder' /\ Listed' /\ Opened'
  BY <1>0 DEF InOrder, Listed, Opened
<1> QED
  BY <1>4, <1>5

LEMMA ContributeKeeps ==
  ASSUME AssemblyInv, Contribute, ~Refuse
  PROVE  AssemblyInv'
<1> DEFINE id == ordered[at]
<1> USE SameDeployment DEF AssemblyInv
<1>0. /\ phase = "contribute" /\ at <= Len(ordered) /\ at' = at + 1
      /\ taken' = [name \in Names |->
           IF name \in Range(This.registers) THEN This.id ELSE taken[name]]
      /\ resources' = IF This.resource THEN Append(resources, This.id) ELSE resources
      /\ UNCHANGED <<selected, phase, ordered, owner, open>>
  BY DEF Contribute
<1>1. id \in Ids /\ at \in DOMAIN ordered
  BY <1>0 DEF ProcessTypes
<1>2. This = Manifest(id) /\ This.id = id
  BY <1>1, Modules DEF This, ProcessTypes
<1>3. /\ Len(ordered) \in Nat /\ Len(selected) \in Nat /\ Len(ordered) <= Len(selected)
      /\ Len(resources) \in Nat /\ DOMAIN resources = 1 .. Len(resources)
      /\ DOMAIN ordered = 1 .. Len(ordered)
  BY <1>0, Modules, NotLonger, LenProperties DEF ProcessTypes, InOrder, Assembling
<1>4. resources' \in Seq(Ids)
  BY <1>0, <1>1, <1>2 DEF ProcessTypes
<1>5. ProcessTypes' /\ Within' /\ Fresh'
  BY <1>0, <1>1, <1>2, <1>3, <1>4 DEF ProcessTypes, Within, Fresh
<1>6. InOrder' /\ Opened'
  BY <1>0 DEF InOrder, Opened
<1>7. Contributors' = at /\ Contributors = at - 1
  BY <1>0 DEF Contributors, ProcessTypes
<1>8. CASE ~This.resource
  <2>1. resources' = resources
    BY <1>0, <1>8
  <2>2. \A i \in 1 .. at : Manifest(ordered[i]).resource => i \in 1 .. at - 1
    BY <1>2, <1>8 DEF ProcessTypes
  <2>3. \A i \in 1 .. at - 1 : i \in 1 .. at' - 1
    BY <1>0 DEF ProcessTypes
  <2>4. Listed'
    BY <1>0, <1>7, <2>1, <2>2, <2>3 DEF Listed
  <2> QED
    BY <1>5, <1>6, <2>4
<1>9. CASE This.resource
  <2>1. /\ DOMAIN resources' = 1 .. Len(resources) + 1
        /\ \A k \in 1 .. Len(resources) : resources'[k] = resources[k]
        /\ resources'[Len(resources) + 1] = id
    BY <1>0, <1>1, <1>2, <1>9, AppendProperties DEF ProcessTypes
  <2>2. \A k \in 1 .. Len(resources) : \E i \in 1 .. at - 1 : resources[k] = ordered[i]
    BY <1>0, <1>3 DEF Listed
  <2>3. IsInjective(resources')
    <3>1. ASSUME NEW k \in 1 .. Len(resources) PROVE resources[k] # id
      <4>1. PICK i \in 1 .. at - 1 : resources[k] = ordered[i]
        BY <2>2
      <4>2. i \in DOMAIN ordered /\ i # at
        BY <1>1, <1>3 DEF ProcessTypes
      <4> QED
        BY <1>1, <4>1, <4>2 DEF InOrder, IsInjective
    <3> QED
      BY <1>3, <2>1, <3>1 DEF Listed, IsInjective
  <2>4. \A k \in DOMAIN resources' : \E i \in 1 .. at : resources'[k] = ordered[i]
    BY <1>3, <2>1, <2>2 DEF ProcessTypes
  <2>5. \A i \in 1 .. at - 1 : Manifest(ordered[i]).resource =>
          \E k \in 1 .. Len(resources) : resources[k] = ordered[i]
    BY <1>0, <1>3, <1>7 DEF Listed
  <2>6. \A i \in 1 .. at : Manifest(ordered[i]).resource =>
          \E k \in DOMAIN resources' : resources'[k] = ordered[i]
    <3> SUFFICES ASSUME NEW i \in 1 .. at, Manifest(ordered[i]).resource
                 PROVE  \E k \in DOMAIN resources' : resources'[k] = ordered[i]
      OBVIOUS
    <3>1. CASE i = at
      BY <1>3, <2>1, <3>1
    <3>2. CASE i # at
      BY <1>3, <2>1, <2>5, <3>2 DEF ProcessTypes
    <3> QED
      BY <3>1, <3>2
  <2>7. ASSUME NEW k \in DOMAIN resources', NEW before \in ComesAfter(resources'[k]),
               Manifest(before).resource
        PROVE  \E j \in 1 .. k - 1 : resources'[j] = before
    <3>1. CASE k \in 1 .. Len(resources)
      <4>1. \E j \in 1 .. k - 1 : resources[j] = before
        BY <1>0, <1>3, <2>1, <2>7, <3>1 DEF Listed
      <4> QED
        BY <1>3, <2>1, <3>1, <4>1
    <3>2. CASE k = Len(resources) + 1
      <4>1. before \in ComesAfter(id)
        BY <2>1, <2>7, <3>2
      <4>2. PICK i \in 1 .. at - 1 : ordered[i] = before
        BY <1>1, <4>1 DEF InOrder
      <4>3. \E j \in 1 .. Len(resources) : resources[j] = before
        BY <2>5, <2>7, <4>2
      <4> QED
        BY <1>3, <2>1, <3>2, <4>3
    <3> QED
      BY <1>3, <2>1, <3>1, <3>2
  <2>8. Listed'
    <3>1. 1 .. at' - 1 = 1 .. at /\ phase' = "contribute" /\ Contributors' = at
      BY <1>0, <1>7 DEF ProcessTypes
    <3>2. \A k \in DOMAIN resources' : \E i \in 1 .. at' - 1 : resources'[k] = ordered'[i]
      BY <1>0, <2>4, <3>1
    <3>3. \A i \in 1 .. Contributors' : Manifest(ordered[i])'.resource =>
            \E k \in DOMAIN resources' : resources'[k] = ordered'[i]
      BY <1>0, <2>6, <3>1
    <3>4. \A k \in DOMAIN resources' : \A before \in ComesAfter(resources[k])' :
            Manifest(before)'.resource => \E j \in 1 .. k - 1 : resources'[j] = before
      BY <1>0, <2>7
    <3> QED
      BY <2>3, <3>1, <3>2, <3>3, <3>4 DEF Listed
  <2> QED
    BY <1>5, <1>6, <2>8
<1> QED
  BY <1>8, <1>9

\* Resources that were added are different modules of the deployment.
LEMMA ResourcesWithin ==
  ASSUME AssemblyInv, phase \in Assembling
  PROVE  /\ Len(resources) \in Nat /\ DOMAIN resources = 1 .. Len(resources)
         /\ Len(selected) \in Nat /\ Len(resources) <= Len(selected)
         /\ at \in Nat /\ at >= 1
BY Modules, NotLonger, LenProperties DEF AssemblyInv, ProcessTypes, InOrder, Listed

LEMMA StartKeeps ==
  ASSUME AssemblyInv, StartResource
  PROVE  AssemblyInv'
<1> USE SameDeployment DEF AssemblyInv, StartResource
<1>1. /\ Len(resources) \in Nat /\ DOMAIN resources = 1 .. Len(resources)
      /\ Len(selected) \in Nat /\ Len(resources) <= Len(selected)
      /\ at \in Nat /\ at >= 1
  BY ResourcesWithin DEF Assembling
<1>2. ProcessTypes' /\ Within' /\ Fresh'
  BY <1>1 DEF ProcessTypes, Within, Fresh
<1>3. InOrder' /\ Listed'
  BY DEF InOrder, Listed, Contributors
<1>4. Opened'
  <2>1. open = First(at - 1) /\ open' = First(at - 1) \cup {resources[at]}
    BY DEF Opened, Starting
  <2>2. 1 .. at = (1 .. at - 1) \cup {at}
    BY <1>1
  <2>3. First(at) = First(at - 1) \cup {resources[at]}
    BY <2>2 DEF First
  <2>4. First(at - 1)' = First(at)
    <3>1. at' - 1 = at
      BY <1>1
    <3> QED
      BY <3>1 DEF First
  <2> QED
    BY <2>1, <2>3, <2>4 DEF Opened
<1> QED
  BY <1>2, <1>3, <1>4

LEMMA CloseKeeps ==
  ASSUME AssemblyInv, Close
  PROVE  AssemblyInv'
<1> DEFINE last == Len(resources) + 1 - at
<1> USE SameDeployment DEF AssemblyInv, Close
<1>1. /\ Len(resources) \in Nat /\ DOMAIN resources = 1 .. Len(resources)
      /\ Len(selected) \in Nat /\ Len(resources) <= Len(selected)
      /\ at \in Nat /\ at >= 1
  BY ResourcesWithin DEF Assembling
<1>2. ProcessTypes' /\ Within' /\ Fresh'
  BY <1>1 DEF ProcessTypes, Within, Fresh
<1>3. InOrder' /\ Listed'
  BY DEF InOrder, Listed, Contributors
<1>4. Opened'
  <2>1. open = First(last) /\ open' = First(last) \ {resources[last]}
    BY DEF Opened, Closing
  <2>2. last \in 1 .. Len(resources)
    BY <1>1
  <2>3. \A k \in 1 .. last - 1 : resources[k] # resources[last]
    <3>1. ASSUME NEW k \in 1 .. last - 1 PROVE resources[k] # resources[last]
      <4>1. k \in DOMAIN resources /\ last \in DOMAIN resources /\ k # last
        BY <1>1, <2>2
      <4> QED
        BY <4>1 DEF Listed, IsInjective
    <3> QED
      BY <3>1
  <2>4. 1 .. last = (1 .. last - 1) \cup {last}
    BY <2>2
  <2>5. First(last) \ {resources[last]} = First(last - 1)
    BY <2>3, <2>4 DEF First
  <2>6. First(Len(resources) + 1 - at)' = First(last - 1)
    <3>1. Len(resources) + 1 - at' = last - 1
      BY <1>1
    <3> QED
      BY <3>1 DEF First
  <2> QED
    BY <2>1, <2>5, <2>6 DEF Opened
<1> QED
  BY <1>2, <1>3, <1>4

LEMMA EndKeeps ==
  ASSUME AssemblyInv, End
  PROVE  AssemblyInv'
<1> USE SameDeployment DEF AssemblyInv, End
<1>1. ProcessTypes' /\ Within' /\ Fresh'
  BY DEF ProcessTypes, Within, Fresh, Phases
<1>2. InOrder' /\ Listed' /\ Opened'
  BY DEF InOrder, Assembling, Listed, Opened
<1> QED
  BY <1>1, <1>2

\* Registries that are empty satisfy all that is asked of them.
LEMMA AssemblyInitInv == AssemblyInit => AssemblyInv
<1> SUFFICES ASSUME AssemblyInit PROVE AssemblyInv
  OBVIOUS
<1> USE DEF AssemblyInit
<1>1. Len(selected) \in Nat
  BY Modules, LenProperties
<1>2. ProcessTypes
  BY DEF ProcessTypes, Phases, NoOwner, NothingTaken
<1>3. Within /\ Fresh
  BY <1>1 DEF Within, Fresh
<1>4. InOrder /\ Listed
  BY DEF Assembling, IsInjective, InOrder, Listed
<1>5. Opened
  BY DEF Opened
<1> QED
  BY <1>2, <1>3, <1>4, <1>5 DEF AssemblyInv

-----------------------------------------------------------------------------
(* The invariant, and what follows.                                        *)

LEMMA AssemblyNextInv == AssemblyInv /\ [AssemblyNext]_assemblyVars => AssemblyInv'
<1> SUFFICES ASSUME AssemblyInv, [AssemblyNext]_assemblyVars PROVE AssemblyInv'
  OBVIOUS
<1>1. CASE Refuse /\ Assemble
  <2>1. phase \in {"check", "order", "declare", "contribute"}
    BY <1>1 DEF Assemble, Check, Order, Ordered, Declare, Declared, Contribute, Contributed
  <2> QED
    BY <1>1, <2>1, RefuseKeeps
<1>2. CASE ~Refuse /\ Assemble
  BY <1>2, CheckKeeps, OrderKeeps, EnterKeeps, DeclareKeeps, ContributeKeeps DEF Assemble
<1>3. CASE Started \/ Shutdown
  BY <1>3, EnterKeeps DEF Started, Shutdown, Enter, Refuse
<1>4. CASE StartResource \/ Close \/ End
  BY <1>4, StartKeeps, CloseKeeps, EndKeeps
<1>5. CASE Restart
  <2>1. AssemblyInit'
    BY <1>5 DEF Restart, AssemblyInit, AssemblyInv, ProcessTypes, NoOwner, NothingTaken
  <2> QED
    BY <2>1, AssemblyInitInv, PTL
<1>6. CASE UNCHANGED assemblyVars
  BY <1>6, SameDeployment DEF assemblyVars, AssemblyInv, ProcessTypes, Within, Fresh, InOrder,
    Listed, Contributors, Opened, First
<1> QED
  BY <1>1, <1>2, <1>3, <1>4, <1>5, <1>6 DEF AssemblyNext

\* What is open is a beginning of the resources.
LEMMA OpenIsFirst ==
  ASSUME AssemblyInv, open # {}
  PROVE  /\ phase \in {"start", "serve", "close"}
         /\ \E n \in 0 .. Len(resources) : open = First(n)
<1>1. phase \in {"start", "serve", "close"}
  BY DEF AssemblyInv, Opened
<1>2. Len(resources) \in Nat /\ at \in Nat /\ at >= 1
  BY <1>1, ResourcesWithin DEF Assembling
<1>3. CASE phase = "start"
  BY <1>2, <1>3 DEF AssemblyInv, Opened, Within
<1>4. CASE phase = "serve"
  BY <1>2, <1>4 DEF AssemblyInv, Opened
<1>5. CASE phase = "close"
  BY <1>2, <1>5 DEF AssemblyInv, Opened, Within
<1> QED
  BY <1>1, <1>3, <1>4, <1>5

LEMMA AssemblyTypes == AssemblyInv => AssemblyTypeOK
<1> SUFFICES ASSUME AssemblyInv PROVE AssemblyTypeOK
  OBVIOUS
<1>1. at \in 1 .. Len(selected) + 1
  BY Modules, LenProperties DEF AssemblyInv, ProcessTypes, Within
<1>2. open \subseteq Ids
  <2>1. CASE open # {}
    <3>1. PICK n \in 0 .. Len(resources) : open = First(n)
      BY <2>1, OpenIsFirst
    <3> QED
      BY <3>1, LenProperties DEF First, AssemblyInv, ProcessTypes
  <2> QED
    BY <2>1
<1> QED
  BY <1>1, <1>2 DEF AssemblyTypeOK, AssemblyInv, ProcessTypes

LEMMA Leans == AssemblyInv => LeansOnOpen
<1> SUFFICES ASSUME AssemblyInv, NEW id \in open, NEW before \in Ids,
                    before \in Manifest(id).requires \cup Manifest(id).optional,
                    Manifest(before).resource
             PROVE  before \in open
  BY DEF LeansOnOpen
<1>1. before \in ComesAfter(id)
  BY DEF ComesAfter
<1>2. PICK n \in 0 .. Len(resources) : open = First(n)
  BY OpenIsFirst
<1>3. PICK k \in 1 .. n : id = resources[k]
  BY <1>2 DEF First
<1>4. phase \in {"start", "serve", "close"}
  BY OpenIsFirst
<1>5. /\ Len(resources) \in Nat /\ DOMAIN resources = 1 .. Len(resources)
  BY <1>4, ResourcesWithin DEF Assembling
<1>6. PICK j \in 1 .. k - 1 : resources[j] = before
  BY <1>1, <1>3, <1>4, <1>5 DEF AssemblyInv, Listed
<1> QED
  BY <1>2, <1>5, <1>6 DEF First

-----------------------------------------------------------------------------
(***************************************************************************)
(* What build_runtime decides: which order it takes, and whom it refuses.  *)
(*                                                                         *)
(* Every module was the smallest that was ready (Greedy), so any other     *)
(* order is later where it first differs; with nothing ready and modules   *)
(* left, no order exists.  The registries hold exactly the claims of the   *)
(* modules that were declared or have contributed (Registered), so a clash *)
(* found in them is a clash of two modules, and none found is none there.  *)
(***************************************************************************)

Before(i) == {ordered[j] : j \in 1 .. i - 1}

Greedy ==
  \A i \in DOMAIN ordered : \A id \in Ids \ Before(i) :
    ComesAfter(id) \subseteq Before(i) => ordered[i] <= id

Untouched ==
  /\ phase \in {"check", "order"} => owner = NoOwner
  /\ phase \in {"check", "order", "declare"} => taken = NothingTaken

Owned(intents) == \A spec \in intents : spec.valid /\ owner[spec.namespace] = spec.module

\* Namespaces are those of the first n modules.
Claimed(n) ==
  /\ \A i \in 1 .. n : Manifest(ordered[i]).valid
  /\ \A i \in 1 .. n : \A name \in Manifest(ordered[i]).owns :
       owner[name] = ordered[i] /\ (name \in DOMAIN Reserved => Reserved[name] = ordered[i])
  /\ \A name \in Namespaces : owner[name] # NoModule =>
       \E i \in 1 .. n : owner[name] = ordered[i] /\ name \in Manifest(ordered[i]).owns

\* Intents are right, and the names those, of the first n modules.
Provided(n) ==
  /\ \A i \in 1 .. n :
       /\ Owned(Manifest(ordered[i]).intents)
       /\ IsInjective(Manifest(ordered[i]).registers)
       /\ \A name \in Range(Manifest(ordered[i]).registers) : taken[name] = ordered[i]
  /\ \A name \in Names : taken[name] # NoModule =>
       \E i \in 1 .. n :
         taken[name] = ordered[i] /\ name \in Range(Manifest(ordered[i]).registers)

Registered ==
  /\ phase = "declare" => Claimed(at - 1)
  /\ phase = "contribute" => Claimed(Len(ordered)) /\ Provided(at - 1)

OrderInv == Greedy /\ Untouched /\ Registered /\ RefusedIfUnsound

-----------------------------------------------------------------------------
(* The order.                                                              *)

LEMMA OrderedIsOrder ==
  ASSUME AssemblyInv, phase \in Assembling \ {"order"}
  PROVE  ordered \in Orders
<1>1. /\ ordered \in Seq(Ids) /\ IsInjective(ordered) /\ Range(ordered) = Ids
      /\ IsFiniteSet(Ids) /\ Len(ordered) \in Nat /\ DOMAIN ordered = 1 .. Len(ordered)
  BY Modules, LenProperties DEF AssemblyInv, ProcessTypes, InOrder
<1>2. ordered \in [1 .. Len(ordered) -> Ids]
  BY <1>1
<1>3. ordered \in Injection(1 .. Len(ordered), Ids) /\ ordered \in Surjection(1 .. Len(ordered), Ids)
  BY <1>1, <1>2 DEF Injection, Surjection, Range
<1>4. Cardinality(1 .. Len(ordered)) = Cardinality(Ids)
  BY <1>1, <1>3, FS_Injection
<1>5. Len(ordered) = Cardinality(Ids)
  BY <1>1, <1>4, FS_Interval
<1>6. \A i \in DOMAIN ordered : ComesAfter(ordered[i]) \subseteq {ordered[j] : j \in 1 .. i - 1}
  BY DEF AssemblyInv, InOrder
<1> QED
  BY <1>1, <1>2, <1>5, <1>6 DEF Orders, IsOrder, ComesAfter

\* Any other order is later at the first place where they differ.
LEMMA FirstOfOrders ==
  ASSUME AssemblyInv, Greedy, phase = "declare"
  PROVE  OrderedAlike
<1>1. ordered \in Orders
  BY OrderedIsOrder DEF Assembling
<1>2. /\ IsFiniteSet(Ids) /\ Cardinality(Ids) \in Nat /\ Ids \subseteq Nat
  BY Modules, FS_CardinalityType, AssemblyAssumption DEF AssemblyInv, ProcessTypes
<1> DEFINE n == Cardinality(Ids)
<1>3. ASSUME NEW s \in Orders, s # ordered PROVE Earlier(ordered, s)
  <2>1. /\ ordered \in [1 .. n -> Ids] /\ s \in [1 .. n -> Ids] /\ IsInjective(s)
        /\ \A i \in 1 .. n : ComesAfter(s[i]) \subseteq {s[j] : j \in 1 .. i - 1}
    BY <1>1, <1>3 DEF Orders, IsOrder, ComesAfter
  <2>2. PICK k \in 1 .. n : ordered[k] # s[k] /\ \A j \in 1 .. k - 1 : ordered[j] = s[j]
    <3> DEFINE D == {k \in 1 .. n : ordered[k] # s[k]}
    <3>1. D \in SUBSET Nat /\ D # {}
      BY <1>2, <1>3, <2>1
    <3>2. PICK k \in D : \A m \in D : k <= m
      BY <3>1, LeastOf
    <3>3. \A j \in 1 .. k - 1 : j \notin D /\ j \in 1 .. n
      BY <1>2, <3>2
    <3> QED
      BY <3>2, <3>3
  <2>3. Before(k) = {s[j] : j \in 1 .. k - 1}
    BY <2>2 DEF Before
  <2>4. s[k] \in Ids \ Before(k)
    <3>1. \A j \in 1 .. k - 1 : j \in DOMAIN s /\ k \in DOMAIN s /\ j # k
      BY <1>2, <2>1
    <3>2. \A j \in 1 .. k - 1 : s[j] # s[k]
      BY <2>1, <3>1 DEF IsInjective
    <3> QED
      BY <2>1, <2>3, <3>2
  <2>5. ordered[k] <= s[k]
    BY <2>1, <2>3, <2>4 DEF Greedy
  <2>6. ordered[k] \in Nat /\ s[k] \in Nat
    BY <1>2, <2>1
  <2> QED
    BY <2>1, <2>2, <2>5, <2>6 DEF Earlier
<1> QED
  BY <1>1, <1>3 DEF OrderedAlike

\* With nothing ready and modules left there is no order.
LEMMA StuckHasNoOrder ==
  ASSUME AssemblyInv, Ready = {}, Range(ordered) # Ids
  PROVE  Orders = {}
<1> SUFFICES ASSUME NEW s \in Orders PROVE FALSE
  OBVIOUS
<1> DEFINE n == Cardinality(Ids)
           D == {k \in 1 .. n : s[k] \notin Range(ordered)}
<1>1. IsFiniteSet(Ids) /\ n \in Nat /\ Range(ordered) \subseteq Ids
  BY Modules, FS_CardinalityType DEF AssemblyInv, ProcessTypes, Range
<1>2. /\ s \in [1 .. n -> Ids] /\ IsInjective(s)
      /\ \A i \in 1 .. n : ComesAfter(s[i]) \subseteq {s[j] : j \in 1 .. i - 1}
  BY DEF Orders, IsOrder, ComesAfter
<1>3. s \in Surjection(1 .. n, Ids)
  <2>1. s \in Injection(1 .. n, Ids)
    BY <1>2 DEF Injection
  <2>2. Cardinality(1 .. n) = n
    BY <1>1, FS_Interval
  <2> QED
    BY <1>1, <2>1, <2>2, FS_Injection
<1>4. D \in SUBSET Nat /\ D # {}
  <2>1. PICK id \in Ids : id \notin Range(ordered)
    BY <1>1
  <2>2. PICK k \in 1 .. n : s[k] = id
    BY <1>3 DEF Surjection
  <2> QED
    BY <2>1, <2>2
<1>5. PICK k \in D : \A m \in D : k <= m
  BY <1>4, LeastOf
<1>6. \A j \in 1 .. k - 1 : j \notin D /\ j \in 1 .. n
  BY <1>1, <1>5
<1>7. ComesAfter(s[k]) \subseteq Range(ordered)
  BY <1>2, <1>6
<1> QED
  BY <1>2, <1>7 DEF Ready

-----------------------------------------------------------------------------
(* The registries.                                                         *)

\* Each module is listed once, and its manifest is what its id stands for.
LEMMA ListedOnce ==
  ASSUME selected \in Configurations, Consistent
  PROVE  /\ \A i, j \in DOMAIN selected : selected[i].id = selected[j].id => i = j
         /\ \A i \in DOMAIN selected : selected[i].id \in Ids /\ Manifest(selected[i].id) = selected[i]
         /\ \A id \in Ids : \E i \in DOMAIN selected : selected[i] = Manifest(id)
<1> DEFINE f == [i \in 1 .. Len(selected) |-> selected[i].id]
<1>1. /\ selected \in Seq(Manifests) /\ Len(selected) \in Nat /\ DOMAIN selected = 1 .. Len(selected)
      /\ Range(selected) = {selected[i] : i \in DOMAIN selected}
  BY Modules, LenProperties DEF Range
<1>2. f \in Surjection(1 .. Len(selected), Ids)
  <2>1. f \in [1 .. Len(selected) -> Ids]
    BY <1>1 DEF Ids
  <2>2. \A id \in Ids : \E i \in 1 .. Len(selected) : f[i] = id
    BY <1>1 DEF Ids
  <2> QED
    BY <2>1, <2>2 DEF Surjection
<1>3. /\ IsFiniteSet(1 .. Len(selected))
      /\ Cardinality(1 .. Len(selected)) = Cardinality(Ids)
  <2>1. IsFiniteSet(1 .. Len(selected)) /\ Cardinality(1 .. Len(selected)) = Len(selected)
    BY <1>1, FS_Interval
  <2>2. Cardinality(Ids) = Len(selected)
    BY DEF Consistent
  <2> QED
    BY <2>1, <2>2
<1>4. f \in Injection(1 .. Len(selected), Ids)
  BY <1>2, <1>3, FS_SurjSameCardinalityImpliesInj
<1>5. \A i, j \in DOMAIN selected : selected[i].id = selected[j].id => i = j
  BY <1>1, <1>4 DEF Injection, IsInjective
<1>6. \A id \in Ids : Manifest(id) \in Range(selected) /\ Manifest(id).id = id
  BY DEF Ids, Manifest
<1>7. \A i \in DOMAIN selected : selected[i].id \in Ids
  BY <1>1 DEF Ids
<1>8. \A i \in DOMAIN selected : Manifest(selected[i].id) = selected[i]
  BY <1>1, <1>5, <1>6, <1>7
<1> QED
  BY <1>1, <1>5, <1>6, <1>7, <1>8

\* In a sound deployment two modules share no namespace and no default.
LEMMA NothingShared ==
  ASSUME selected \in Configurations, Sound, NEW a \in Ids, NEW b \in Ids, a # b
  PROVE  /\ Manifest(a).owns \cap Manifest(b).owns = {}
         /\ Range(Manifest(a).registers) \cap Range(Manifest(b).registers) = {}
<1>1. Consistent
  BY DEF Sound, Consistent
<1>2. PICK i \in DOMAIN selected : selected[i] = Manifest(a)
  BY <1>1, ListedOnce
<1>3. PICK j \in DOMAIN selected : selected[j] = Manifest(b)
  BY <1>1, ListedOnce
<1>4. i # j
  BY <1>2, <1>3, Modules
<1> QED
  BY <1>2, <1>3, <1>4 DEF Sound, Disjoint

LEMMA SoundModules ==
  ASSUME selected \in Configurations, Sound, NEW a \in Ids
  PROVE  /\ Manifest(a).valid
         /\ \A name \in Manifest(a).owns \cap DOMAIN Reserved : Reserved[name] = a
         /\ \A spec \in Manifest(a).intents :
              /\ spec.valid /\ spec.module \in Ids
              /\ spec.namespace \in Manifest(spec.module).owns
         /\ IsInjective(Manifest(a).registers)
<1>1. Manifest(a) \in Range(selected) /\ Manifest(a).id = a
  BY DEF Ids, Manifest
<1>2. Consistent
  BY DEF Sound, Consistent
<1>3. ASSUME NEW owning \in Range(selected)
      PROVE  owning.id \in Ids /\ Manifest(owning.id) = owning
  <2>1. PICK i \in DOMAIN selected : selected[i] = owning
    BY DEF Range
  <2> QED
    BY <1>2, <2>1, ListedOnce
<1> QED
  BY <1>1, <1>3 DEF Sound

\* A module that cannot be declared clashes with one that was.
LEMMA UndeclarableIsUnsound ==
  ASSUME AssemblyInv, phase = "declare", Claimed(at - 1), at <= Len(ordered), ~Declarable(This)
  PROVE  ~Sound
<1> SUFFICES ASSUME Sound PROVE FALSE
  OBVIOUS
<1>1. /\ selected \in Configurations /\ ordered \in Seq(Ids) /\ IsInjective(ordered)
      /\ at \in Nat /\ at >= 1 /\ Len(ordered) \in Nat /\ DOMAIN ordered = 1 .. Len(ordered)
  BY LenProperties DEF AssemblyInv, ProcessTypes, InOrder
<1>2. ordered[at] \in Ids /\ This = Manifest(ordered[at]) /\ This.id = ordered[at]
  BY <1>1, Modules DEF This
<1>3. PICK name \in This.owns :
        owner[name] # NoModule \/ (name \in DOMAIN Reserved /\ Reserved[name] # This.id)
  BY <1>1, <1>2, SoundModules DEF Declarable
<1>4. name \in Namespaces
  BY <1>1, <1>2, <1>3, Modules DEF Manifests
<1>5. owner[name] # NoModule
  BY <1>1, <1>2, <1>3, SoundModules
<1>6. PICK i \in 1 .. at - 1 : name \in Manifest(ordered[i]).owns
  BY <1>4, <1>5 DEF Claimed
<1>7. ordered[i] \in Ids /\ ordered[i] # ordered[at]
  <2>1. i \in DOMAIN ordered /\ at \in DOMAIN ordered /\ i # at
    BY <1>1
  <2> QED
    BY <1>1, <2>1 DEF IsInjective
<1> QED
  BY <1>1, <1>2, <1>3, <1>6, <1>7, NothingShared

\* So does one that cannot contribute, or what it adds is wrong by itself.
LEMMA UncontributableIsUnsound ==
  ASSUME AssemblyInv, phase = "contribute", Claimed(Len(ordered)), Provided(at - 1),
         at <= Len(ordered), ~Contributable(This)
  PROVE  ~Sound
<1> SUFFICES ASSUME Sound PROVE FALSE
  OBVIOUS
<1>1. /\ selected \in Configurations /\ ordered \in Seq(Ids) /\ IsInjective(ordered)
      /\ at \in Nat /\ at >= 1 /\ Len(ordered) \in Nat /\ DOMAIN ordered = 1 .. Len(ordered)
      /\ Range(ordered) = Ids
  BY LenProperties DEF AssemblyInv, ProcessTypes, InOrder, Assembling
<1>2. ordered[at] \in Ids /\ This = Manifest(ordered[at]) /\ This.id = ordered[at]
  BY <1>1, Modules DEF This
<1>3. ASSUME NEW spec \in This.intents
      PROVE  spec.valid /\ owner[spec.namespace] = spec.module
  <2>1. /\ spec.valid /\ spec.module \in Ids
        /\ spec.namespace \in Manifest(spec.module).owns
    BY <1>1, <1>2, SoundModules
  <2>2. PICK i \in 1 .. Len(ordered) : ordered[i] = spec.module
    BY <1>1, <2>1 DEF Range
  <2> QED
    BY <2>1, <2>2 DEF Claimed
<1>4. PICK name \in Range(This.registers) : taken[name] # NoModule
  BY <1>1, <1>2, <1>3, SoundModules DEF Contributable
<1>5. name \in Names
  BY <1>1, <1>2, RegistersNames
<1>6. PICK i \in 1 .. at - 1 : name \in Range(Manifest(ordered[i]).registers)
  BY <1>4, <1>5 DEF Provided
<1>7. ordered[i] \in Ids /\ ordered[i] # ordered[at]
  <2>1. i \in DOMAIN ordered /\ at \in DOMAIN ordered /\ i # at
    BY <1>1
  <2> QED
    BY <1>1, <2>1 DEF IsInjective
<1>8. Range(Manifest(ordered[i]).registers) \cap Range(Manifest(ordered[at]).registers) = {}
  BY <1>1, <1>2, <1>7, NothingShared
<1> QED
  BY <1>2, <1>4, <1>6, <1>8

\* When all have contributed the deployment is sound.
LEMMA ContributedIsSound ==
  ASSUME AssemblyInv, phase = "contribute", Claimed(Len(ordered)), Provided(at - 1),
         at > Len(ordered)
  PROVE  Sound
<1>1. /\ selected \in Configurations /\ ordered \in Seq(Ids) /\ Range(ordered) = Ids
      /\ at \in Nat /\ Len(ordered) \in Nat /\ DOMAIN ordered = 1 .. Len(ordered)
      /\ Consistent /\ at - 1 = Len(ordered)
  BY LenProperties DEF AssemblyInv, ProcessTypes, InOrder, Within, Assembling
<1>2. ASSUME NEW id \in Ids
      PROVE  /\ Manifest(id).valid /\ Owned(Manifest(id).intents)
             /\ \A name \in Manifest(id).owns :
                  owner[name] = id /\ (name \in DOMAIN Reserved => Reserved[name] = id)
             /\ IsInjective(Manifest(id).registers)
             /\ \A name \in Range(Manifest(id).registers) : taken[name] = id
  <2>1. PICK i \in 1 .. Len(ordered) : ordered[i] = id
    BY <1>1 DEF Range
  <2> QED
    BY <1>1, <2>1 DEF Claimed, Provided
<1>3. /\ \A i \in DOMAIN selected : selected[i].id \in Ids /\ Manifest(selected[i].id) = selected[i]
      /\ \A i, j \in DOMAIN selected : selected[i].id = selected[j].id => i = j
      /\ \A id \in Ids : \E i \in DOMAIN selected : selected[i] = Manifest(id)
  BY <1>1, ListedOnce
<1>4. ASSUME NEW id \in Ids, NEW spec \in Manifest(id).intents
      PROVE  spec.valid /\ \E owning \in Range(selected) :
               owning.id = spec.module /\ spec.namespace \in owning.owns
  <2>1. /\ spec.namespace \in Namespaces /\ spec.module # NoModule
        /\ spec.valid /\ owner[spec.namespace] = spec.module
    BY <1>1, <1>2, <1>4, Modules, AssemblyAssumption DEF Manifests, IntentSpecs, Owned
  <2>2. PICK i \in 1 .. Len(ordered) :
          spec.module = ordered[i] /\ spec.namespace \in Manifest(ordered[i]).owns
    BY <2>1 DEF Claimed
  <2>3. ordered[i] \in Ids /\ Manifest(ordered[i]).id = ordered[i]
    BY <1>1, <2>2, Modules
  <2>4. Manifest(ordered[i]) \in Range(selected)
    BY <1>3, <2>3 DEF Range
  <2> QED
    BY <2>1, <2>2, <2>3, <2>4
<1>5. Disjoint([i \in DOMAIN selected |-> selected[i].owns])
  BY <1>2, <1>3 DEF Disjoint
<1>6. Disjoint([i \in DOMAIN selected |-> Range(selected[i].registers)])
  BY <1>2, <1>3 DEF Disjoint
<1>7. Orders # {}
  BY OrderedIsOrder DEF Assembling
<1>8. ASSUME NEW m \in Range(selected)
      PROVE  /\ m.requires \subseteq Ids /\ m.valid
             /\ \A name \in m.owns \cap DOMAIN Reserved : Reserved[name] = m.id
             /\ \A spec \in m.intents : spec.valid /\ \E owning \in Range(selected) :
                  owning.id = spec.module /\ spec.namespace \in owning.owns
             /\ IsInjective(m.registers)
  <2>1. m.id \in Ids /\ Manifest(m.id) = m
    BY <1>3 DEF Range
  <2> QED
    BY <1>1, <1>2, <1>4, <2>1 DEF Consistent
<1> QED
  BY <1>1, <1>5, <1>6, <1>7, <1>8 DEF Sound, Consistent

-----------------------------------------------------------------------------
(* Each step keeps the invariant.                                          *)

LEMMA SameJudgement ==
  ASSUME UNCHANGED selected
  PROVE  Orders' = Orders /\ (Sound <=> Sound')
BY DEF Orders, IsOrder, Sound, Ids, Manifest

\* The order and the registries, when neither changes.
LEMMA SameRegistries ==
  ASSUME UNCHANGED <<selected, ordered, owner, taken>>
  PROVE  /\ Greedy => Greedy'
         /\ \A n : (Claimed(n) => Claimed(n)') /\ (Provided(n) => Provided(n)')
BY SameDeployment DEF Greedy, Before, Claimed, Provided, Owned

LEMMA OrderInitInv == AssemblyInit => OrderInv
  BY DEF AssemblyInit, OrderInv, Greedy, Untouched, Registered, RefusedIfUnsound

\* A process is refused for a reason.
LEMMA RefuseIsRight ==
  ASSUME AssemblyInv, OrderInv, Assemble, Refuse
  PROVE  OrderInv'
<1>1. ~Sound
  <2>1. CASE Check
    BY <2>1 DEF Check, Refuse, Enter, Consistent, Sound
  <2>2. CASE Order \/ Declared \/ Contributed
    BY <2>2 DEF Order, Declared, Contributed, Refuse, Enter
  <2>3. CASE Ordered
    BY <2>3, StuckHasNoOrder DEF Ordered, Refuse, Enter, Sound
  <2>4. CASE Declare
    BY <2>4, UndeclarableIsUnsound DEF Declare, Refuse, OrderInv, Registered
  <2>5. CASE Contribute
    BY <2>5, UncontributableIsUnsound DEF Contribute, Refuse, OrderInv, Registered
  <2> QED
    BY <2>1, <2>2, <2>3, <2>4, <2>5 DEF Assemble
<1> QED
  BY <1>1, SameJudgement, SameRegistries
  DEF Refuse, OrderInv, Untouched, Registered, RefusedIfUnsound

LEMMA OrderStaysGreedy ==
  ASSUME AssemblyInv, OrderInv, Order
  PROVE  OrderInv'
<1> DEFINE id == FirstOf(Ready)
<1> USE SameDeployment
<1>0. phase = "order" /\ ordered' = Append(ordered, id) /\ Ready # {}
      /\ UNCHANGED <<selected, phase, at, owner, taken, resources, open>>
  BY DEF Order
<1>1. Ready \subseteq Ids /\ Ids \subseteq ModuleIds /\ ModuleIds \subseteq Nat
  BY Modules, AssemblyAssumption DEF AssemblyInv, ProcessTypes, Ready
<1>2. id \in Ready /\ \A other \in Ready : id <= other
  <2>1. \E least \in Ready : \A other \in Ready : least <= other
    BY <1>0, <1>1, LeastOf
  <2> QED
    BY <2>1 DEF FirstOf
<1>3. ordered \in Seq(Ids) /\ Len(ordered) \in Nat
  BY LenProperties DEF AssemblyInv, ProcessTypes
<1>4. /\ DOMAIN ordered' = 1 .. Len(ordered) + 1 /\ DOMAIN ordered = 1 .. Len(ordered)
      /\ \A i \in 1 .. Len(ordered) : ordered'[i] = ordered[i]
      /\ ordered'[Len(ordered) + 1] = id
  BY <1>0, <1>1, <1>2, <1>3, AppendProperties
<1>5. ASSUME NEW i \in DOMAIN ordered' PROVE Before(i)' = Before(i)
  BY <1>3, <1>4 DEF Before
<1>6. Before(Len(ordered) + 1) = Range(ordered)
  <2>1. Len(ordered) + 1 - 1 = Len(ordered)
    BY <1>3
  <2> QED
    BY <1>4, <2>1 DEF Before, Range
<1>7. Greedy'
  <2> SUFFICES ASSUME NEW i \in DOMAIN ordered', NEW other \in Ids \ Before(i),
                      ComesAfter(other) \subseteq Before(i)
               PROVE  ordered'[i] <= other
    BY <1>0, <1>5 DEF Greedy
  <2>1. CASE i = Len(ordered) + 1
    <3>1. other \in Ready
      BY <1>6, <2>1 DEF Ready
    <3> QED
      BY <1>2, <1>4, <2>1, <3>1
  <2>2. CASE i \in DOMAIN ordered
    BY <1>4, <2>2 DEF OrderInv, Greedy
  <2> QED
    BY <1>3, <1>4, <2>1, <2>2
<1> QED
  BY <1>0, <1>7 DEF OrderInv, Untouched, Registered, RefusedIfUnsound

LEMMA DeclareClaims ==
  ASSUME AssemblyInv, OrderInv, Declare, ~Refuse
  PROVE  OrderInv'
<1> USE SameDeployment
<1>0. /\ phase = "declare" /\ at <= Len(ordered) /\ at' = at + 1 /\ Declarable(This)
      /\ owner' = [n \in Namespaces |-> IF n \in This.owns THEN This.id ELSE owner[n]]
      /\ UNCHANGED <<selected, phase, ordered, taken, resources, open>>
  BY DEF Declare
<1>1. /\ selected \in Configurations /\ ordered \in Seq(Ids) /\ IsInjective(ordered)
      /\ at \in Nat /\ at >= 1 /\ Len(ordered) \in Nat /\ DOMAIN ordered = 1 .. Len(ordered)
  BY LenProperties DEF AssemblyInv, ProcessTypes, InOrder
<1>2. /\ ordered[at] \in Ids /\ This = Manifest(ordered[at]) /\ This.id = ordered[at]
      /\ ordered[at] # NoModule
  BY <1>0, <1>1, Modules, AssemblyAssumption DEF This
<1>3. \A i \in 1 .. at : Manifest(ordered[i]).owns \subseteq Namespaces
  BY <1>0, <1>1, Modules DEF Manifests
<1>4. Claimed(at - 1)
  BY <1>0 DEF OrderInv, Registered
<1>5. Claimed(at - 1)'
  <2>0. ASSUME NEW i \in 1 .. at PROVE Manifest(ordered[i]).valid
    <3>1. CASE i = at
      BY <1>0, <1>2, <3>1 DEF Declarable
    <3>2. CASE i \in 1 .. at - 1
      BY <1>4, <3>2 DEF Claimed
    <3> QED
      BY <1>1, <3>1, <3>2
  <2>1. ASSUME NEW i \in 1 .. at, NEW name \in Manifest(ordered[i]).owns
        PROVE  /\ owner'[name] = ordered[i]
               /\ name \in DOMAIN Reserved => Reserved[name] = ordered[i]
    <3>1. CASE i = at
      BY <1>0, <1>2, <1>3, <2>1, <3>1 DEF Declarable
    <3>2. CASE i \in 1 .. at - 1
      <4>1. /\ owner[name] = ordered[i] /\ ordered[i] \in Ids
            /\ name \in DOMAIN Reserved => Reserved[name] = ordered[i]
        BY <1>0, <1>1, <1>4, <2>1, <3>2 DEF Claimed
      <4>2. owner[name] # NoModule
        BY <1>1, <4>1, Modules, AssemblyAssumption
      <4>3. name \notin This.owns
        BY <1>0, <4>2 DEF Declarable
      <4> QED
        BY <1>0, <1>3, <2>1, <4>1, <4>3
    <3> QED
      BY <1>1, <3>1, <3>2
  <2>2. ASSUME NEW name \in Namespaces, owner'[name] # NoModule
        PROVE  \E i \in 1 .. at : owner'[name] = ordered[i] /\ name \in Manifest(ordered[i]).owns
    <3>1. CASE name \in This.owns
      BY <1>0, <1>1, <1>2, <3>1
    <3>2. CASE name \notin This.owns
      <4>1. owner'[name] = owner[name]
        BY <1>0, <2>2, <3>2
      <4>2. PICK i \in 1 .. at - 1 : owner[name] = ordered[i] /\ name \in Manifest(ordered[i]).owns
        BY <1>4, <2>2, <4>1 DEF Claimed
      <4> QED
        BY <1>1, <4>1, <4>2
    <3> QED
      BY <3>1, <3>2
  <2>3. 1 .. at' - 1 = 1 .. at
    BY <1>0, <1>1
  <2>4. \A i : Manifest(ordered[i])' = Manifest(ordered[i]) /\ ordered'[i] = ordered[i]
    BY <1>0
  <2>5. \A i \in 1 .. at' - 1 : \A name \in Manifest(ordered[i])'.owns :
          owner'[name] = ordered'[i] /\ (name \in DOMAIN Reserved => Reserved[name] = ordered'[i])
    BY <2>1, <2>3, <2>4
  <2>6. \A name \in Namespaces : owner'[name] # NoModule =>
          \E i \in 1 .. at' - 1 : owner'[name] = ordered'[i] /\ name \in Manifest(ordered[i])'.owns
    BY <2>2, <2>3, <2>4
  <2>7. \A i \in 1 .. at' - 1 : Manifest(ordered[i])'.valid
    BY <2>0, <2>3, <2>4
  <2> QED
    BY <2>5, <2>6, <2>7 DEF Claimed
<1>6. Registered'
  BY <1>0, <1>5 DEF Registered
<1> QED
  BY <1>0, <1>6 DEF OrderInv, Untouched, Greedy, Before, RefusedIfUnsound

LEMMA ContributeProvides ==
  ASSUME AssemblyInv, OrderInv, Contribute, ~Refuse
  PROVE  OrderInv'
<1> USE SameDeployment
<1>0. /\ phase = "contribute" /\ at <= Len(ordered) /\ at' = at + 1 /\ Contributable(This)
      /\ taken' = [name \in Names |->
           IF name \in Range(This.registers) THEN This.id ELSE taken[name]]
      /\ UNCHANGED <<selected, phase, ordered, owner, open>>
  BY DEF Contribute
<1>1. /\ selected \in Configurations /\ ordered \in Seq(Ids)
      /\ at \in Nat /\ at >= 1 /\ Len(ordered) \in Nat /\ DOMAIN ordered = 1 .. Len(ordered)
  BY LenProperties DEF AssemblyInv, ProcessTypes
<1>2. ordered[at] \in Ids /\ This = Manifest(ordered[at]) /\ This.id = ordered[at]
  BY <1>0, <1>1, Modules DEF This
<1>3. \A i \in 1 .. at : Range(Manifest(ordered[i]).registers) \subseteq Names
  BY <1>0, <1>1, RegistersNames
<1>4. Claimed(Len(ordered)) /\ Provided(at - 1)
  BY <1>0 DEF OrderInv, Registered
<1>5. Claimed(Len(ordered))'
  BY <1>0, <1>4 DEF Claimed
<1>6. Provided(at - 1)'
  <2>1. ASSUME NEW i \in 1 .. at
        PROVE  /\ Owned(Manifest(ordered[i]).intents)
               /\ IsInjective(Manifest(ordered[i]).registers)
               /\ \A name \in Range(Manifest(ordered[i]).registers) : taken'[name] = ordered[i]
    <3>1. CASE i = at
      BY <1>0, <1>2, <1>3, <3>1 DEF Contributable, Owned
    <3>2. CASE i \in 1 .. at - 1
      <4>1. /\ Owned(Manifest(ordered[i]).intents)
            /\ IsInjective(Manifest(ordered[i]).registers)
            /\ \A name \in Range(Manifest(ordered[i]).registers) : taken[name] = ordered[i]
        BY <1>4, <3>2 DEF Provided
      <4>2. ordered[i] # NoModule
        BY <1>0, <1>1, <3>2, Modules, AssemblyAssumption
      <4>3. Range(Manifest(ordered[i]).registers) \cap Range(This.registers) = {}
        BY <1>0, <4>1, <4>2 DEF Contributable
      <4> QED
        BY <1>0, <1>3, <4>1, <4>3
    <3> QED
      BY <1>1, <3>1, <3>2
  <2>2. ASSUME NEW name \in Names, taken'[name] # NoModule
        PROVE  \E i \in 1 .. at :
                 taken'[name] = ordered[i] /\ name \in Range(Manifest(ordered[i]).registers)
    <3>1. CASE name \in Range(This.registers)
      BY <1>0, <1>1, <1>2, <3>1
    <3>2. CASE name \notin Range(This.registers)
      <4>1. taken'[name] = taken[name]
        BY <1>0, <2>2, <3>2
      <4>2. PICK i \in 1 .. at - 1 :
              taken[name] = ordered[i] /\ name \in Range(Manifest(ordered[i]).registers)
        BY <1>4, <2>2, <4>1 DEF Provided
      <4> QED
        BY <1>1, <4>1, <4>2
    <3> QED
      BY <3>1, <3>2
  <2>3. 1 .. at' - 1 = 1 .. at
    BY <1>0, <1>1
  <2>4. /\ \A i : Manifest(ordered[i])' = Manifest(ordered[i]) /\ ordered'[i] = ordered[i]
        /\ owner' = owner
    BY <1>0
  <2>5. \A i \in 1 .. at' - 1 :
          /\ Owned(Manifest(ordered[i]).intents)'
          /\ IsInjective(Manifest(ordered[i])'.registers)
          /\ \A name \in Range(Manifest(ordered[i])'.registers) : taken'[name] = ordered'[i]
    <3> SUFFICES ASSUME NEW i \in 1 .. at
                 PROVE  /\ Owned(Manifest(ordered[i]).intents)'
                        /\ IsInjective(Manifest(ordered[i])'.registers)
                        /\ \A name \in Range(Manifest(ordered[i])'.registers) :
                             taken'[name] = ordered'[i]
      BY <2>3
    <3>1. Manifest(ordered[i])' = Manifest(ordered[i]) /\ ordered'[i] = ordered[i]
      BY <2>4
    <3>2. Owned(Manifest(ordered[i]).intents)'
      BY <2>1, <2>4, <3>1 DEF Owned
    <3>3. IsInjective(Manifest(ordered[i])'.registers)
      BY <2>1, <3>1
    <3>4. \A name \in Range(Manifest(ordered[i])'.registers) : taken'[name] = ordered'[i]
      BY <2>1, <3>1
    <3> QED
      BY <3>2, <3>3, <3>4
  <2>6. \A name \in Names : taken'[name] # NoModule =>
          \E i \in 1 .. at' - 1 :
            taken'[name] = ordered'[i] /\ name \in Range(Manifest(ordered[i])'.registers)
    BY <2>2, <2>3, <2>4
  <2> QED
    BY <2>5, <2>6 DEF Provided
<1>7. Registered'
  BY <1>0, <1>5, <1>6 DEF Registered
<1> QED
  BY <1>0, <1>7 DEF OrderInv, Untouched, Greedy, Before, RefusedIfUnsound

\* Going on with the next phase: what was declared or provided is complete.
LEMMA EnterIsRight ==
  ASSUME AssemblyInv, OrderInv, Check \/ Ordered \/ Declared \/ Contributed, ~Refuse
  PROVE  OrderInv'
<1> USE SameDeployment, SameRegistries
<1>0. /\ at' = 1 /\ UNCHANGED <<selected, ordered, owner, taken, resources, open>>
      /\ \/ phase = "check" /\ phase' = "order"
         \/ phase = "order" /\ phase' = "declare"
         \/ phase = "declare" /\ phase' = "contribute" /\ at > Len(ordered)
         \/ phase = "contribute" /\ phase' = "start" /\ at > Len(ordered)
  BY DEF Check, Ordered, Declared, Contributed, Enter
<1>1. at \in Nat /\ Len(ordered) \in Nat
  BY LenProperties DEF AssemblyInv, ProcessTypes
<1>2. CASE phase = "check"
  BY <1>0, <1>2 DEF OrderInv, Untouched, Registered, RefusedIfUnsound
<1>3. CASE phase = "order"
  <2>1. Claimed(0)'
    BY <1>0, <1>3 DEF OrderInv, Untouched, Claimed, NoOwner
  <2>2. Claimed(at - 1)'
    BY <1>0, <2>1 DEF Claimed
  <2> QED
    BY <1>0, <1>3, <2>2 DEF OrderInv, Untouched, Registered, RefusedIfUnsound
<1>4. CASE phase = "declare"
  <2>1. at - 1 = Len(ordered)
    BY <1>0, <1>1, <1>4 DEF AssemblyInv, Within
  <2>2. Claimed(Len(ordered))
    BY <1>4, <2>1 DEF OrderInv, Registered
  <2>3. Claimed(Len(ordered))'
    BY <1>0, <2>2 DEF Claimed
  <2>4. Provided(at - 1)'
    BY <1>0, <1>4 DEF OrderInv, Untouched, Provided, NothingTaken
  <2> QED
    BY <1>0, <1>4, <2>3, <2>4 DEF OrderInv, Untouched, Registered, RefusedIfUnsound
<1>5. CASE phase = "contribute"
  <2>1. Sound
    BY <1>0, <1>5, ContributedIsSound DEF OrderInv, Registered
  <2> QED
    BY <1>0, <1>5, <2>1, SameJudgement DEF OrderInv, Untouched, Registered, RefusedIfUnsound
<1> QED
  BY <1>0, <1>2, <1>3, <1>4, <1>5

LEMMA OrderNextInv == AssemblyInv /\ OrderInv /\ [AssemblyNext]_assemblyVars => OrderInv'
<1> SUFFICES ASSUME AssemblyInv, OrderInv, [AssemblyNext]_assemblyVars PROVE OrderInv'
  OBVIOUS
<1>1. CASE Assemble /\ Refuse
  BY <1>1, RefuseIsRight
<1>2. CASE Assemble /\ ~Refuse
  BY <1>2, OrderStaysGreedy, DeclareClaims, ContributeProvides, EnterIsRight DEF Assemble
<1>3. CASE StartResource
  BY <1>3, SameJudgement, SameRegistries
  DEF StartResource, OrderInv, Untouched, Registered, RefusedIfUnsound
<1>4. CASE Started \/ Shutdown \/ Close \/ End
  BY <1>4, SameRegistries
  DEF Started, Shutdown, Close, End, Enter, OrderInv, Untouched, Registered, RefusedIfUnsound
<1>5. CASE Restart
  <2>1. AssemblyInit'
    BY <1>5 DEF Restart, AssemblyInit, AssemblyInv, ProcessTypes, NoOwner, NothingTaken
  <2> QED
    BY <2>1, OrderInitInv, PTL
<1>6. CASE UNCHANGED assemblyVars
  BY <1>6, SameJudgement, SameRegistries
  DEF assemblyVars, OrderInv, Untouched, Registered, RefusedIfUnsound
<1> QED
  BY <1>1, <1>2, <1>3, <1>4, <1>5, <1>6 DEF AssemblyNext

LEMMA SameOrder == AssemblyInv /\ OrderInv => OrderedAlike
  BY FirstOfOrders DEF OrderInv, OrderedAlike
=============================================================================
