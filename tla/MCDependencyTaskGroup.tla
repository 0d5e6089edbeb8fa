------------------------- MODULE MCDependencyTaskGroup -------------------------
(* Instances of DependencyTaskGroup. *)
EXTENDS DependencyTaskGroup, TLC

CONSTANTS a, b, c, d

(* A diamond; a chain beside a task of its own; a fork and a join that share a task. *)
Diamond == {<<b, a>>, <<c, a>>, <<d, b>>, <<d, c>>}
Chain == {<<b, a>>, <<d, b>>}
Shared == {<<c, a>>, <<c, b>>, <<d, b>>}
MCPlans == {Diamond, Chain, Shared}
=============================================================================
