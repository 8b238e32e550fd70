------------------------------ MODULE MCWorkspace ------------------------------
(* Instances of Workspace for TLC. *)
EXTENDS Workspace, TLC

CONSTANTS w1, w2, alice, bob

Ask(operation, option) == [operation |-> operation, option |-> option]

\* Every sequence of requests, with and without reconciliation.
EveryShape ==
  {Ask("calendar.create", TRUE), Ask("calendar.update", FALSE),
   Ask("calendar.delete", TRUE), Ask("reminder.create", FALSE),
   Ask("document.create", TRUE), Ask("document.create", FALSE),
   Ask("document.update", TRUE), Ask("document.update", FALSE)}

OnlyAppend == {Ask("document.update", FALSE)}

Symmetry == Permutations(Writes) \cup Permutations(Principals)
=============================================================================
