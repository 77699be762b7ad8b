--------------------------- MODULE MCPushDelivery ---------------------------
(* Two sessions of one user, who is the one all notifications are for. *)
EXTENDS PushDelivery

Owners == [s \in Sessions |-> "u"]
AllForU == [n \in Messages |-> "u"]
Alike == Permutations(Workers)
=============================================================================
