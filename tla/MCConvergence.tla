----------------------------- MODULE MCConvergence -----------------------------
(***************************************************************************)
(* Two resources, B requiring A, under a few templates and later requests. *)
(***************************************************************************)
EXTENDS Convergence, TLC

CONSTANTS w1, w2, u1, u2, creator, A, B, empty, fragile, plain, replacing, changing, dropping

Settle(needs, soft, hard) == [needs |-> needs, soft |-> soft, hard |-> hard]

Basic == A :> Settle({}, 1, 1) @@ B :> Settle({A}, 1, 1)

(* fragile and plain say the same: MCBreaks tells them apart.  The others  *)
(* replace A and update B, update A, and have no A.                        *)
MCDef ==
  (empty :> <<>>) @@ (fragile :> Basic) @@ (plain :> Basic)
  @@ (replacing :> (A :> Settle({}, 1, 2) @@ B :> Settle({A}, 2, 1)))
  @@ (changing :> (A :> Settle({}, 2, 1) @@ B :> Settle({A}, 1, 1)))
  @@ (dropping :> (B :> Settle({}, 1, 1)))

Plan(t, first, second) == (creator :> t) @@ (u1 :> first) @@ (u2 :> second)

OneRequest ==
  {Plan(fragile, replacing, None), Plan(plain, changing, None), Plan(plain, dropping, None),
   Plan(fragile, "delete", None), Plan(dropping, replacing, None)}

Rollbacks ==
  {Plan(plain, replacing, None), Plan(fragile, replacing, None), Plan(fragile, "delete", None),
   Plan(plain, changing, "rollback")}

Creations == {"create"} \X {A, B} \X {fragile, dropping}
Assorted == {<<"create", A, fragile>>, <<"create", A, replacing>>, <<"update", B, replacing>>}

(* The windows kept shut: between the load of a row and its lock, its lock *)
(* and its first store, the end of the lock and the replacement, and       *)
(* between the reads of the rows and the store of the graph ...            *)
Shut == {"lock", "begin", "replace", "link", "drop", "rows", "graph"}

(* ... and, where a request follows a rollback, from the load of the stack *)
(* to the new traversal.                                                   *)
ShutToo == Shut \cup {"converge"}

Sym == Permutations(Workers)
===============================================================================
