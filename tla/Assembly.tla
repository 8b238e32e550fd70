------------------------------- MODULE Assembly -------------------------------
(***************************************************************************)
(* The life of one server process: ModuleRuntime puts the selected modules *)
(* into an order, declares their namespaces to IntentCatalog and has them  *)
(* contribute intents, providers and resources; the application starts the *)
(* resources, serves, and closes them.  A process that ends is started     *)
(* again, as it was deployed.                                              *)
(*                                                                         *)
(* A resource whose process has died or ended is closed with it.  No       *)
(* built-in module adds one: they are for modules installed beside them.   *)
(***************************************************************************)
EXTENDS Naturals, Sequences, FiniteSets, Functions

CONSTANTS
  ModuleIds,      \* numbers, in the order the ids sort
  Namespaces,     \* of intents
  Names,          \* that the registries hold
  Reserved,       \* by reserved namespace, the one module that may own it
  Configurations, \* sequences of manifests that may be deployed
  NoModule

\* An IntentSpec: the namespace of its id, the module it says it is of, whoever
\* adds it, and whether it is what the catalogue asks of one alone.
IntentSpecs == [namespace: Namespaces, module: ModuleIds, valid: BOOLEAN]

\* ModuleManifest, and what `contribute` adds: intents, the names under which it
\* registers something, and a resource with start and close.  The name of an
\* intent or a context provider is its id; that of a provider its port and id,
\* and of a default one its port as well.
Manifests ==
  [id: ModuleIds, valid: BOOLEAN, requires: SUBSET ModuleIds, optional: SUBSET ModuleIds,
   owns: SUBSET Namespaces, intents: SUBSET IntentSpecs, registers: Seq(Names),
   resource: BOOLEAN]

ASSUME AssemblyAssumption ==
  /\ ModuleIds \subseteq Nat
  /\ Configurations \subseteq Seq(Manifests)
  /\ DOMAIN Reserved \subseteq Namespaces
  /\ NoModule \notin ModuleIds

VARIABLES
  selected,  \* the modules of this process, in the order they were listed
  phase,     \* what the process is doing
  ordered,   \* the ids of the modules, in their order
  at,        \* the module or resource that is next
  owner,     \* by namespace: the module that has declared it
  taken,     \* by name: the module that has registered something under it
  resources, \* the modules whose resources were added, in that order
  open       \* the modules whose resources have been started and not closed

assemblyVars ==
  <<selected, phase, ordered, at, owner, taken, resources, open>>

Phases ==
  {"check", "order", "declare", "contribute", "start", "serve", "close",
   "refused", "ended"}

Manifest(id) == CHOOSE m \in Range(selected) : m.id = id
Ids == {m.id : m \in Range(selected)}

\* What must come before a module: what it requires, and of what it can use,
\* what there is.
ComesAfter(id) == Manifest(id).requires \cup (Manifest(id).optional \cap Ids)

NoOwner == [n \in Namespaces |-> NoModule]
NothingTaken == [name \in Names |-> NoModule]

AssemblyInit ==
  /\ selected \in Configurations
  /\ phase = "check" /\ ordered = <<>> /\ at = 1
  /\ owner = NoOwner /\ taken = NothingTaken
  /\ resources = <<>> /\ open = {}

-----------------------------------------------------------------------------
(* build_runtime.                                                          *)

Refuse ==
  /\ phase' = "refused"
  /\ UNCHANGED <<selected, ordered, at, owner, taken, resources, open>>

Enter(next) == phase' = next /\ at' = 1

Consistent ==
  /\ Cardinality(Ids) = Len(selected)
  /\ \A m \in Range(selected) : m.requires \subseteq Ids

Check ==
  /\ phase = "check"
  /\ \/ Consistent /\ Enter("order")
        /\ UNCHANGED <<selected, ordered, owner, taken, resources, open>>
     \/ ~Consistent /\ Refuse

Ready == {id \in Ids \ Range(ordered) : ComesAfter(id) \subseteq Range(ordered)}

\* Faulty: the first as they were listed.
FaultyFirstOf(ids) ==
  CHOOSE id \in ids : \E i \in DOMAIN selected :
    selected[i].id = id /\ \A j \in 1 .. i - 1 : selected[j].id \notin ids

FirstOf(ids) == CHOOSE id \in ids : \A other \in ids : id <= other

Order ==
  /\ phase = "order" /\ Ready # {}
  /\ ordered' = Append(ordered, FirstOf(Ready))
  /\ UNCHANGED <<selected, phase, at, owner, taken, resources, open>>

Ordered ==
  /\ phase = "order" /\ Ready = {}
  /\ \/ Range(ordered) = Ids /\ Enter("declare")
        /\ UNCHANGED <<selected, ordered, owner, taken, resources, open>>
     \/ Range(ordered) # Ids /\ Refuse

This == Manifest(ordered[at])

\* Faulty: a namespace may be declared again.
FaultyDeclarable(m) ==
  m.valid /\ \A n \in m.owns : n \in DOMAIN Reserved => Reserved[n] = m.id

\* Its id and namespaces are such; nobody owns one yet, and it is not reserved
\* for another.
Declarable(m) ==
  /\ m.valid
  /\ \A n \in m.owns : owner[n] = NoModule /\ (n \in DOMAIN Reserved => Reserved[n] = m.id)

Declare ==
  /\ phase = "declare" /\ at <= Len(ordered)
  /\ \/ /\ Declarable(This)
        /\ owner' = [n \in Namespaces |-> IF n \in This.owns THEN This.id ELSE owner[n]]
        /\ at' = at + 1
        /\ UNCHANGED <<selected, phase, ordered, taken, resources, open>>
     \/ ~Declarable(This) /\ Refuse

Declared ==
  /\ phase = "declare" /\ at > Len(ordered)
  /\ Enter("contribute")
  /\ UNCHANGED <<selected, ordered, owner, taken, resources, open>>

\* An intent lies in a namespace of the module it says it is of, which need not
\* be the one that adds it.  No name is registered twice, by one module or two.
Contributable(m) ==
  /\ \A spec \in m.intents : spec.valid /\ owner[spec.namespace] = spec.module
  /\ IsInjective(m.registers)
  /\ \A name \in Range(m.registers) : taken[name] = NoModule

Contribute ==
  /\ phase = "contribute" /\ at <= Len(ordered)
  /\ \/ /\ Contributable(This)
        /\ taken' = [name \in Names |->
             IF name \in Range(This.registers) THEN This.id ELSE taken[name]]
        /\ resources' = IF This.resource THEN Append(resources, This.id) ELSE resources
        /\ at' = at + 1
        /\ UNCHANGED <<selected, phase, ordered, owner, open>>
     \/ ~Contributable(This) /\ Refuse

Contributed ==
  /\ phase = "contribute" /\ at > Len(ordered)
  /\ Enter("start")
  /\ UNCHANGED <<selected, ordered, owner, taken, resources, open>>

-----------------------------------------------------------------------------
(* ApplicationRuntime and the application's lifespan.                      *)

\* Faulty: the place of the resource, not the resource.
FaultyStarting == at

Starting == resources[at]

StartResource ==
  /\ phase = "start" /\ at <= Len(resources)
  /\ open' = open \cup {Starting}
  /\ at' = at + 1
  /\ UNCHANGED <<selected, phase, ordered, owner, taken, resources>>

Started ==
  /\ phase = "start" /\ at > Len(resources)
  /\ Enter("serve")
  /\ UNCHANGED <<selected, ordered, owner, taken, resources, open>>

Shutdown ==
  /\ phase = "serve"
  /\ Enter("close")
  /\ UNCHANGED <<selected, ordered, owner, taken, resources, open>>

\* Faulty: in the order they were started.
FaultyClosing == resources[at]

Closing == resources[Len(resources) + 1 - at]

Close ==
  /\ phase = "close" /\ at <= Len(resources)
  /\ open' = open \ {Closing}
  /\ at' = at + 1
  /\ UNCHANGED <<selected, phase, ordered, owner, taken, resources>>

\* The process ends: all is closed, the start or a close of a resource or the
\* check of the schema has failed, or it is killed.
End ==
  /\ phase \notin {"refused", "ended"}
  /\ phase' = "ended" /\ open' = {}
  /\ UNCHANGED <<selected, ordered, at, owner, taken, resources>>

Restart ==
  /\ phase \in {"refused", "ended"}
  /\ phase' = "check" /\ ordered' = <<>> /\ at' = 1
  /\ owner' = NoOwner /\ taken' = NothingTaken
  /\ resources' = <<>> /\ open' = {}
  /\ UNCHANGED selected

Assemble ==
  \/ Check \/ Order \/ Ordered \/ Declare \/ Declared \/ Contribute \/ Contributed

AssemblyNext ==
  \/ Assemble
  \/ StartResource \/ Started \/ Shutdown \/ Close \/ End \/ Restart

AssemblySpec == AssemblyInit /\ [][AssemblyNext]_assemblyVars

-----------------------------------------------------------------------------
(* Properties.                                                             *)

\* The process and its registries keep their shape.
AssemblyTypeOK ==
  /\ selected \in Configurations
  /\ phase \in Phases
  /\ ordered \in Seq(Ids)
  /\ at \in 1 .. Len(selected) + 1
  /\ owner \in [Namespaces -> Ids \cup {NoModule}]
  /\ taken \in [Names -> Ids \cup {NoModule}]
  /\ resources \in Seq(Ids)
  /\ open \subseteq Ids

\* A sequence of all modules in which each comes after what it depends on.
IsOrder(s) ==
  /\ s \in [1 .. Cardinality(Ids) -> Ids] /\ IsInjective(s)
  /\ \A i \in DOMAIN s : LET m == Manifest(s[i]) IN
       m.requires \cup (m.optional \cap Ids) \subseteq {s[j] : j \in 1 .. i - 1}

Earlier(s, t) ==
  \E k \in DOMAIN s : s[k] < t[k] /\ \A j \in 1 .. k - 1 : s[j] = t[j]

Orders == {s \in [1 .. Cardinality(Ids) -> Ids] : IsOrder(s)}

\* However the modules are listed, they are declared and contribute in one and
\* the same order: the first, as ids sort, that their dependencies allow.
OrderedAlike ==
  phase = "declare" =>
    /\ ordered \in Orders
    /\ \A s \in Orders : s = ordered \/ Earlier(ordered, s)

Disjoint(sets) == \A i, j \in DOMAIN sets : i # j => sets[i] \cap sets[j] = {}

Sound ==
  /\ Cardinality(Ids) = Len(selected)
  /\ \A m \in Range(selected) :
       /\ m.requires \subseteq Ids
       /\ m.valid
       /\ \A n \in m.owns \cap DOMAIN Reserved : Reserved[n] = m.id
       /\ \A spec \in m.intents : spec.valid /\ \E owning \in Range(selected) :
            owning.id = spec.module /\ spec.namespace \in owning.owns
       /\ IsInjective(m.registers)
  /\ Orders # {}
  /\ Disjoint([i \in DOMAIN selected |-> selected[i].owns])
  /\ Disjoint([i \in DOMAIN selected |-> Range(selected[i].registers)])

\* The modules are refused for a reason, and what starts has none, in whichever
\* order they were listed and their claims were met: every namespace has one
\* owner, every intent the owner it names, every name one holder, every module
\* what it requires.
RefusedIfUnsound ==
  /\ phase = "refused" => ~Sound
  /\ phase = "start" => Sound

\* While a module's resource is open, those of the modules it depends on are.
LeansOnOpen ==
  \A id \in open : \A before \in Ids :
    /\ before \in Manifest(id).requires \cup Manifest(id).optional
    /\ Manifest(before).resource
    => before \in open
=============================================================================
