---------------------------- MODULE MCFeishuOAuth ----------------------------
(* Instances of FeishuOAuth for TLC. *)
EXTENDS FeishuOAuth, TLC

CONSTANTS alice, bob, read, write

\* Two intents, each needing a scope of its own.
TwoNeeds == {{read}, {write}}
OneNeed == {{read}}

Symmetric == Permutations(Tasks)
=============================================================================
