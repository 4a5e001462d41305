------------------------------ MODULE PlanOrder ------------------------------
(***************************************************************************)
(* What an action plan promises to whoever reads the graph                 *)
(* (pkg/engine/apply/action/action_graph.go): the block of actions of a    *)
(* node is executed once, after the blocks of all the nodes in Before have *)
(* ended, and it ends either with every action succeeded or with an error; *)
(* a block ends with an error only because one of its own actions failed   *)
(* or because a block it had to wait for did.                              *)
(* No goroutines, queue, degrees or locks here: ActionPlan has those and   *)
(* is shown to implement this module.                                      *)
(***************************************************************************)
EXTENDS Integers

CONSTANTS
  Node,      (* keys of the graph nodes                                    *)
  Before     (* Before[n]: the nodes whose actions come before those of n  *)

VARIABLES
  block,     (* block[n]: what has become of the actions of node n         *)
  broken     (* the nodes of which an action was executed and failed       *)

vars == <<block, broken>>

Ended == {"succeeded", "failed"}

Init ==
  /\ block  = [n \in Node |-> "pending"]
  /\ broken = {}

Begin(n) ==
  /\ block[n] = "pending"
  /\ \A m \in Before[n] : block[m] \in Ended
  /\ block' = [block EXCEPT ![n] = "running"]
  /\ UNCHANGED broken

ActionFails(n) ==
  /\ block[n] = "running"
  /\ n \notin broken
  /\ broken' = broken \cup {n}
  /\ UNCHANGED block

Succeed(n) ==
  /\ block[n] = "running"
  /\ n \notin broken
  /\ block' = [block EXCEPT ![n] = "succeeded"]
  /\ UNCHANGED broken

Fail(n) ==
  /\ block[n] = "running"
  /\ n \in broken \/ \E m \in Before[n] : block[m] = "failed"
  /\ block' = [block EXCEPT ![n] = "failed"]
  /\ UNCHANGED broken

Next == \E n \in Node : Begin(n) \/ ActionFails(n) \/ Succeed(n) \/ Fail(n)

Spec == Init /\ [][Next]_vars

=============================================================================
