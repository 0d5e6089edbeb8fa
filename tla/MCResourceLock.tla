---------------------------- MODULE MCResourceLock ----------------------------
(* Instances of ResourceLock for TLC: three worker threads, two of them in  *)
(* one engine.                                                              *)
EXTENDS ResourceLock, TLC

CONSTANTS e1, e2, w1, w2, w3

(* Where the threads run: beside the engine that may die, or in it. *)
PairInSecond == (w1 :> e1) @@ (w2 :> e2) @@ (w3 :> e2)
PairInFirst == (w1 :> e1) @@ (w2 :> e1) @@ (w3 :> e2)
===============================================================================
