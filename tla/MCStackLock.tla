----------------------------- MODULE MCStackLock -----------------------------
(* Instances of StackLock for TLC: three or four calls about one stack.     *)
EXTENDS StackLock, TLC

CONSTANTS e1, e2, c1, c2, c3, c4

(* A creation from one engine; the other one starts, changes and deletes.   *)
CrashKinds == (c1 :> "create") @@ (c2 :> "update") @@ (c3 :> "reset") @@ (c4 :> "delete")
CrashEngines == (c1 :> e1) @@ (c2 :> e1) @@ (c3 :> e2) @@ (c4 :> e2)

(* A deletion from another engine than the update and the suspension.       *)
SlowKinds == (c1 :> "update") @@ (c2 :> "delete") @@ (c3 :> "suspend")
SlowEngines == (c1 :> e1) @@ (c2 :> e2) @@ (c3 :> e1)
===============================================================================
