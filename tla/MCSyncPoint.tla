------------------------------ MODULE MCSyncPoint ------------------------------
(* An instance of SyncPoint for TLC: three predecessor nodes, each of which  *)
(* reports once, and the node's own key "self", under which the node is      *)
(* re-triggered after a failure.                                             *)
EXTENDS SyncPoint, TLC

MCPredecessors == {"p", "q", "r"}
MCKeys         == MCPredecessors \cup {"self"}

MCKeyOf == ("from_p" :> "p") @@ ("from_q" :> "q") @@ ("from_r" :> "r") @@ ("again" :> "self")
MCCalls == DOMAIN MCKeyOf
===============================================================================
