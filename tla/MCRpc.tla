--------------------------------- MODULE MCRpc ---------------------------------
(* Instances of Rpc. *)
EXTENDS Rpc, TLC
=============================================================================
