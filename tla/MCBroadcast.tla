----------------------------- MODULE MCBroadcast -----------------------------
(* Instances of Broadcast for TLC. *)
EXTENDS Broadcast, TLC

CONSTANTS one, two, morning, utc, local

\* Owners, and offsets, are alike.
Symmetry == Permutations({one, two}) \cup Permutations({utc, local})

\* The channel of the last target is deployed, or not.
WithAndWithoutLast == {1 .. NTargets, 1 .. NTargets - 1}
=============================================================================
