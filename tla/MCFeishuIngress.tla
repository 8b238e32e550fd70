--------------------------- MODULE MCFeishuIngress ---------------------------
(* Instances of FeishuIngress for TLC. *)
EXTENDS FeishuIngress, TLC

CONSTANTS first, second, click, chat

OneConversation == [m \in Messages |-> chat]
=============================================================================
