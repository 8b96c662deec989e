--------------------------- MODULE MCNodeLifecycle ----------------------------
(* Instances of NodeLifecycle for TLC: the dependency graphs and the request   *)
(* mixes of the runs.                                                          *)
EXTENDS NodeLifecycle, TLC

CONSTANTS a, b, d, c1, c2

MCNode1 == {a}
MCNode2 == {a, b}
MCNode3 == {a, b, d}
MCClient1 == {c1}
MCClient2 == {c1, c2}

(* Node b takes data from node a through a non-flow pin. *)
MCDeps == {<<a, b>>}
MCNoDeps == {}

(* Node a takes flow data from node b. *)
MCFlowBack == {<<b, a>>}

Ask(ops, waits) == [op : ops, wait : waits]

(* What the context menu of a node offers. *)
MCMenu == Ask({"init", "reinit", "deinit", "disable", "enable"}, {FALSE})
(* A thread that waits for what it asks. *)
MCUpAndDown == Ask({"init", "deinit", "delete"}, {TRUE})
MCNoDisable == Ask({"init", "reinit", "deinit"}, {TRUE})

Symmetry == Permutations(MCClient2)
===============================================================================
