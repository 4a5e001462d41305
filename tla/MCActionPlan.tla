---------------------------- MODULE MCActionPlan ----------------------------
(* A diamond and a node of its own: fan-out, fan-in, a chain of three, and *)
(* three nodes, one of them with two actions, for two semaphores. Another  *)
(* node has no actions, as that of an instance which does not change.      *)
EXTENDS ActionPlan

CONSTANTS a, b, c, d, e, f

MCNode == {a, b, c, d, e, f}

MCBefore == [n \in MCNode |-> CASE n = d -> {b, c}
                                [] n = b -> {a}
                                [] n = c -> {a}
                                [] n = f -> {e}
                                [] OTHER -> {}]

MCNumActions == [n \in MCNode |-> CASE n = b -> 2
                                    [] n = f -> 0
                                    [] OTHER -> 1]

=============================================================================
