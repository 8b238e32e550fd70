-------------------------------- MODULE Service --------------------------------
(***************************************************************************)
(* Requests served by a process that is assembled, started, closed, killed *)
(* and started again.  The database outlives the process; its tasks, locks *)
(* and counts do not.                                                      *)
(***************************************************************************)
EXTENDS Assembly, Requests

CONSTANT Serving  \* the modules whose intents Requests models

serviceVars == <<assemblyVars, requestVars>>

ServiceInit == AssemblyInit /\ RequestsInit

\* The web server waits for its requests before the application is closed.
MayClose == \A t \in Tasks : place[t] = "idle"

Build == (Assemble \/ StartResource \/ Started \/ Close \/ Restart) /\ UNCHANGED requestVars

Stop == Shutdown /\ MayClose /\ UNCHANGED requestVars

\* The counts of the limiter are the process's, and so is what it admits.
Die ==
  /\ End
  /\ place' = Each("idle") /\ request' = Each(None) /\ found' = Each(None)
  /\ run' = Each(0) /\ step' = Each(0) /\ seen' = Each(0)
  /\ counts' = <<>> /\ admitted' = [p \in Principals |-> 0]
  /\ UNCHANGED <<stored, runs, window>>

Serves == phase = "serve" /\ Serving \subseteq Ids /\ UNCHANGED assemblyVars

ServiceNext ==
  \/ Build \/ Stop \/ Die
  \/ Serves /\ RequestsNext

ServiceSpec == ServiceInit /\ [][ServiceNext]_serviceVars

\* A task goes on when what it awaits has come: the model's answers and the
\* database's do, or time out.
Fairness == \A t \in Tasks : WF_serviceVars(Serves /\ Step(t))

FairServiceSpec == ServiceSpec /\ Fairness

-----------------------------------------------------------------------------
(* Properties.                                                             *)

\* The process, its registries, requests, and what they store keep their shape.
ServiceTypeOK == AssemblyTypeOK /\ RequestsTypeOK

\* Every request ends: conversations are passed on, the router gives up, the
\* agent's steps are counted; or the process dies.
EveryRequestEnds == \A t \in Tasks : place[t] # "idle" ~> place[t] = "idle"
=============================================================================
