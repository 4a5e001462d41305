----------------------------- MODULE ActionPlan -----------------------------
(***************************************************************************)
(* The parallel execution of an action plan, Plan.Apply in                 *)
(* pkg/engine/apply/action/action_plan.go.                                 *)
(*                                                                         *)
(* Plan.Apply walks the graph twice: a first pass with a no-op function    *)
(* counts the actions (NumberOfActions), the second one executes them.     *)
(* In a pass the calling goroutine fills the queue with the nodes that     *)
(* wait for nobody and waits on a WaitGroup; a dispatcher goroutine takes  *)
(* keys off the queue and starts one goroutine per node; a node that has   *)
(* ended decrements the degree of every node that waits for it and queues  *)
(* the ones that reach zero.                                               *)
(*                                                                         *)
(* Every section under the mutex is one step, what happens between two     *)
(* sections is not.                                                        *)
(***************************************************************************)
EXTENDS Integers, Sequences, FiniteSets

CONSTANTS
  Node,           (* the keys of plan.NodeMap                              *)
  Before,         (* Before[n]: the nodes of GraphNode.Before              *)
  NumActions,     (* NumActions[n]: the length of GraphNode.Actions        *)
  MaxConcurrent   (* size of the semaphore of WrapParallelWithLimit        *)

ASSUME PlanAssumption ==
  /\ IsFiniteSet(Node)
  /\ Before \in [Node -> SUBSET Node]
  /\ NumActions \in [Node -> Nat]
  /\ MaxConcurrent \in Nat \ {0}

(* The edges come from a resolution without cycles                         *)
(* (policy_resolver.go refuses a contract that is consumed on its own      *)
(* path). Only termination needs it.                                       *)
ASSUME AcyclicAssumption ==
  \E rank \in [Node -> 0..Cardinality(Node)] :
    \A n \in Node : \A m \in Before[n] : rank[m] < rank[n]

VARIABLES
  pass,       (* "count": NumberOfActions, "apply": the real one           *)
  main,       (* the goroutine in Apply: "wait" (wg.Wait), "closed"        *)
              (* (done.Wait), "returned", "panicked"                       *)
  queue,      (* the buffered channel, of capacity len(NodeMap)            *)
  dispatcher, (* "ranging" over the queue, or "exited"                     *)
  wg,         (* counter of the WaitGroup                                  *)
  deg,        (* deg[n]: nodes that n still waits for                      *)
  wasError,   (* wasError[n] # nil                                         *)
  pc,         (* pc[n]: the goroutine of node n                            *)
  foundErr,   (* its local foundErr # nil                                  *)
  left,       (* its actions not yet looked at                             *)
  todo,       (* its BeforeRev nodes whose degree it has not decremented   *)
  unflagged,  (* the node it has decremented but not yet marked failed     *)
  result,     (* the counters of ApplyResult                               *)
  broken      (* history: the nodes one of whose actions failed            *)

control == <<pass, main, dispatcher>>
locals  == <<foundErr, left, todo, unflagged>>
vars    == <<control, queue, wg, deg, wasError, pc, locals, result, broken>>

-----------------------------------------------------------------------------

BeforeRev(n) == {m \in Node : n \in Before[m]}

Leaves == {n \in Node : Before[n] = {}}

(* NodeMap is a Go map: the order of the first keys is any order.          *)
QueueOrders == {s \in [1..Cardinality(Leaves) -> Leaves] :
                  \A i, j \in DOMAIN s : i # j => s[i] # s[j]}

Processed(r) == r.success + r.failed + r.skipped

NewResult(total) == [success |-> 0, failed |-> 0, skipped |-> 0, total |-> total]

(* The locals of applyInternal at its start, after the loop that fills deg *)
(* and the queue.                                                          *)
FreshGraph ==
  [deg       |-> [n \in Node |-> Cardinality(Before[n])],
   wasError  |-> [n \in Node |-> FALSE],
   pc        |-> [n \in Node |-> "waiting"],
   left      |-> NumActions,
   todo      |-> [n \in Node |-> BeforeRev(n)],
   unflagged |-> [n \in Node |-> {}]]

Init ==
  /\ pass = "count" /\ main = "wait" /\ dispatcher = "ranging"
  /\ queue \in QueueOrders
  /\ wg = Cardinality(Node)
  /\ deg       = FreshGraph.deg
  /\ wasError  = FreshGraph.wasError
  /\ pc        = FreshGraph.pc
  /\ foundErr  = FreshGraph.wasError
  /\ left      = FreshGraph.left
  /\ todo      = FreshGraph.todo
  /\ unflagged = FreshGraph.unflagged
  /\ result    = NewResult(0)
  /\ broken    = {}

-----------------------------------------------------------------------------
(* The dispatcher goroutine.                                               *)

Dispatch ==
  /\ dispatcher = "ranging"
  /\ queue # <<>>
  /\ pc' = [pc EXCEPT ![Head(queue)] = "started"]
  /\ queue' = Tail(queue)
  /\ UNCHANGED <<control, wg, deg, wasError, locals, result, broken>>

DispatcherExits ==
  /\ dispatcher = "ranging"
  /\ main = "closed"
  /\ queue = <<>>
  /\ dispatcher' = "exited"
  /\ UNCHANGED <<pass, main, queue, wg, deg, wasError, pc, locals, result, broken>>

-----------------------------------------------------------------------------
(* The goroutine of node n: applyActions.                                  *)

ReadWasError(n) ==
  /\ pc[n] = "started"
  /\ foundErr' = [foundErr EXCEPT ![n] = wasError[n]]
  /\ pc' = [pc EXCEPT ![n] = "actions"]
  /\ UNCHANGED <<control, queue, wg, deg, wasError, left, todo, unflagged, result, broken>>

(* Variant with the loop left at the first skipped action.                 *)
SkipActionBreaks(n) ==
  /\ pc[n] = "actions"
  /\ left[n] > 0
  /\ foundErr[n]
  /\ left' = [left EXCEPT ![n] = 0]
  /\ result' = [result EXCEPT !.skipped = @ + 1]
  /\ UNCHANGED <<control, queue, wg, deg, wasError, pc, foundErr, todo, unflagged, broken>>

SkipAction(n) ==
  /\ pc[n] = "actions"
  /\ left[n] > 0
  /\ foundErr[n]
  /\ left' = [left EXCEPT ![n] = @ - 1]
  /\ result' = [result EXCEPT !.skipped = @ + 1]
  /\ UNCHANGED <<control, queue, wg, deg, wasError, pc, foundErr, todo, unflagged, broken>>

(* In the counting pass the function is Noop: no semaphore, no error.      *)
CountAction(n) ==
  /\ pass = "count"
  /\ pc[n] = "actions"
  /\ left[n] > 0
  /\ ~foundErr[n]
  /\ left' = [left EXCEPT ![n] = @ - 1]
  /\ result' = [result EXCEPT !.success = @ + 1]
  /\ UNCHANGED <<control, queue, wg, deg, wasError, pc, foundErr, todo, unflagged, broken>>

AcquireSemaphore(n) ==
  /\ pass = "apply"
  /\ pc[n] = "actions"
  /\ left[n] > 0
  /\ ~foundErr[n]
  /\ Cardinality({m \in Node : pc[m] = "executing"}) < MaxConcurrent
  /\ pc' = [pc EXCEPT ![n] = "executing"]
  /\ UNCHANGED <<control, queue, wg, deg, wasError, locals, result, broken>>

(* The action returns, or panics and is recovered as an error.             *)
ActionSucceeds(n) ==
  /\ pc[n] = "executing"
  /\ pc' = [pc EXCEPT ![n] = "actions"]
  /\ left' = [left EXCEPT ![n] = @ - 1]
  /\ result' = [result EXCEPT !.success = @ + 1]
  /\ UNCHANGED <<control, queue, wg, deg, wasError, foundErr, todo, unflagged, broken>>

(* Variant that counts the failure and goes on with the next action.       *)
ActionFailsGoesOn(n) ==
  /\ pc[n] = "executing"
  /\ pc' = [pc EXCEPT ![n] = "actions"]
  /\ left' = [left EXCEPT ![n] = @ - 1]
  /\ result' = [result EXCEPT !.failed = @ + 1]
  /\ broken' = broken \cup {n}
  /\ UNCHANGED <<control, queue, wg, deg, wasError, foundErr, todo, unflagged>>

ActionFails(n) ==
  /\ pc[n] = "executing"
  /\ pc' = [pc EXCEPT ![n] = "actions"]
  /\ left' = [left EXCEPT ![n] = @ - 1]
  /\ result' = [result EXCEPT !.failed = @ + 1]
  /\ foundErr' = [foundErr EXCEPT ![n] = TRUE]
  /\ broken' = broken \cup {n}
  /\ UNCHANGED <<control, queue, wg, deg, wasError, todo, unflagged>>

MarkOwnError(n) ==
  /\ pc[n] = "actions"
  /\ left[n] = 0
  /\ wasError' = [wasError EXCEPT ![n] = @ \/ foundErr[n]]
  /\ pc' = [pc EXCEPT ![n] = "releasing"]
  /\ UNCHANGED <<control, queue, wg, deg, locals, result, broken>>

(* Variant that queues a node which still waits for another one.           *)
DecrementDependentEarly(n, m) ==
  /\ pc[n] = "releasing"
  /\ unflagged[n] = {}
  /\ m \in todo[n]
  /\ deg' = [deg EXCEPT ![m] = @ - 1]
  /\ queue' = IF deg'[m] <= 1 THEN Append(queue, m) ELSE queue
  /\ todo' = [todo EXCEPT ![n] = @ \ {m}]
  /\ unflagged' = [unflagged EXCEPT ![n] = IF foundErr[n] THEN {m} ELSE {}]
  /\ UNCHANGED <<control, wg, wasError, pc, foundErr, left, result, broken>>

(* Variant that does not queue the dependents of a failed node.            *)
DecrementDependentIfOk(n, m) ==
  /\ pc[n] = "releasing"
  /\ unflagged[n] = {}
  /\ m \in todo[n]
  /\ deg' = [deg EXCEPT ![m] = @ - 1]
  /\ queue' = IF deg'[m] = 0 /\ ~foundErr[n] THEN Append(queue, m) ELSE queue
  /\ todo' = [todo EXCEPT ![n] = @ \ {m}]
  /\ unflagged' = [unflagged EXCEPT ![n] = IF foundErr[n] THEN {m} ELSE {}]
  /\ UNCHANGED <<control, wg, wasError, pc, foundErr, left, result, broken>>

(* Variant that marks every dependent, failed node or not.                 *)
DecrementDependentFlagsAll(n, m) ==
  /\ pc[n] = "releasing"
  /\ unflagged[n] = {}
  /\ m \in todo[n]
  /\ deg' = [deg EXCEPT ![m] = @ - 1]
  /\ queue' = IF deg'[m] = 0 THEN Append(queue, m) ELSE queue
  /\ todo' = [todo EXCEPT ![n] = @ \ {m}]
  /\ unflagged' = [unflagged EXCEPT ![n] = {m}]
  /\ UNCHANGED <<control, wg, wasError, pc, foundErr, left, result, broken>>

(* Variant for an edge that AddBefore has put twice in BeforeRev.          *)
DecrementDependentTwice(n, m) ==
  /\ pc[n] = "releasing"
  /\ unflagged[n] = {}
  /\ m \in todo[n]
  /\ deg' = [deg EXCEPT ![m] = @ - 2]
  /\ queue' = IF deg'[m] <= 0 THEN Append(queue, m) ELSE queue
  /\ todo' = [todo EXCEPT ![n] = @ \ {m}]
  /\ unflagged' = [unflagged EXCEPT ![n] = IF foundErr[n] THEN {m} ELSE {}]
  /\ UNCHANGED <<control, wg, wasError, pc, foundErr, left, result, broken>>

(* Lines 132-140: the dependent is queued inside this section, its error   *)
(* mark is only set in the next one.                                       *)
DecrementDependent(n, m) ==
  /\ pc[n] = "releasing"
  /\ unflagged[n] = {}
  /\ m \in todo[n]
  /\ deg' = [deg EXCEPT ![m] = @ - 1]
  /\ queue' = IF deg'[m] = 0 THEN Append(queue, m) ELSE queue
  /\ todo' = [todo EXCEPT ![n] = @ \ {m}]
  /\ unflagged' = [unflagged EXCEPT ![n] = IF foundErr[n] THEN {m} ELSE {}]
  /\ UNCHANGED <<control, wg, wasError, pc, foundErr, left, result, broken>>

FlagDependent(n, m) ==
  /\ pc[n] = "releasing"
  /\ m \in unflagged[n]
  /\ wasError' = [wasError EXCEPT ![m] = TRUE]
  /\ unflagged' = [unflagged EXCEPT ![n] = {}]
  /\ UNCHANGED <<control, queue, wg, deg, pc, foundErr, left, todo, result, broken>>

WorkerDone(n) ==
  /\ pc[n] = "releasing"
  /\ todo[n] = {} /\ unflagged[n] = {}
  /\ wg' = wg - 1
  /\ pc' = [pc EXCEPT ![n] = "done"]
  /\ UNCHANGED <<control, queue, deg, wasError, locals, result, broken>>

Worker(n) ==
  \/ ReadWasError(n) \/ SkipAction(n) \/ CountAction(n)
  \/ AcquireSemaphore(n) \/ ActionSucceeds(n) \/ ActionFails(n)
  \/ MarkOwnError(n)
  \/ \E m \in Node : DecrementDependent(n, m) \/ FlagDependent(n, m)
  \/ WorkerDone(n)

-----------------------------------------------------------------------------
(* The goroutine that called Apply.                                        *)

(* Variant that closes the queue as soon as it is empty.                   *)
CloseQueueWhenEmpty ==
  /\ main = "wait"
  /\ queue = <<>>
  /\ main' = "closed"
  /\ UNCHANGED <<pass, dispatcher, queue, wg, deg, wasError, pc, locals, result, broken>>

CloseQueue ==
  /\ main = "wait"
  /\ wg = 0
  /\ main' = "closed"
  /\ UNCHANGED <<pass, dispatcher, queue, wg, deg, wasError, pc, locals, result, broken>>

(* NumberOfActions returns the successes of the no-op pass, SetTotal       *)
(* stores them, and the second pass starts on fresh counters.              *)
StartApplyPass ==
  /\ pass = "count" /\ main = "closed" /\ dispatcher = "exited"
  /\ pass' = "apply" /\ main' = "wait" /\ dispatcher' = "ranging"
  /\ queue' \in QueueOrders
  /\ wg' = Cardinality(Node)
  /\ deg'       = FreshGraph.deg
  /\ wasError'  = FreshGraph.wasError
  /\ pc'        = FreshGraph.pc
  /\ foundErr'  = FreshGraph.wasError
  /\ left'      = FreshGraph.left
  /\ todo'      = FreshGraph.todo
  /\ unflagged' = FreshGraph.unflagged
  /\ result'    = NewResult(result.success)
  /\ UNCHANGED broken

(* resultUpdater.Done(): the integrity check of the counters.              *)
ReturnResult ==
  /\ pass = "apply" /\ main = "closed" /\ dispatcher = "exited"
  /\ main' = IF Processed(result) = result.total THEN "returned" ELSE "panicked"
  /\ UNCHANGED <<pass, dispatcher, queue, wg, deg, wasError, pc, locals, result, broken>>

Terminated ==
  /\ main \in {"returned", "panicked"}
  /\ UNCHANGED vars

Main == CloseQueue \/ StartApplyPass \/ ReturnResult

Next ==
  \/ Dispatch \/ DispatcherExits
  \/ \E n \in Node : Worker(n)
  \/ Main
  \/ Terminated

(* Go runs every goroutine that can run; an action of a plugin returns     *)
(* (plugins bound their calls by timeouts), well or badly.                 *)
Fairness ==
  /\ WF_vars(Dispatch \/ DispatcherExits)
  /\ WF_vars(Main)
  /\ \A n \in Node : WF_vars(Worker(n))

Spec == Init /\ [][Next]_vars

FairSpec == Spec /\ Fairness

-----------------------------------------------------------------------------

PC == {"waiting", "started", "actions", "executing", "releasing", "done"}

Ended(n) == pc[n] \in {"releasing", "done"}

Queued == {queue[i] : i \in DOMAIN queue}

(* Types. deg and wg are natural numbers: the code panics on a negative    *)
(* degree (action_plan.go:134) and so does a WaitGroup.                    *)
TypeOK ==
  /\ pass \in {"count", "apply"}
  /\ main \in {"wait", "closed", "returned", "panicked"}
  /\ dispatcher \in {"ranging", "exited"}
  /\ queue \in Seq(Node)
  /\ wg \in Nat
  /\ deg \in [Node -> Nat]
  /\ wasError \in [Node -> BOOLEAN]
  /\ pc \in [Node -> PC]
  /\ foundErr \in [Node -> BOOLEAN]
  /\ left \in [Node -> Nat]
  /\ todo \in [Node -> SUBSET Node]
  /\ unflagged \in [Node -> SUBSET Node]
  /\ result \in [success : Nat, failed : Nat, skipped : Nat, total : Nat]
  /\ broken \subseteq Node

(* "Before is a map of actions which have to be executed before main       *)
(* actions of this node" (action_graph.go:10): when the goroutine of a     *)
(* node runs, those of all its Before nodes have executed their actions.   *)
BeforeEnded ==
  \A n \in Node : pc[n] # "waiting" => \A m \in Before[n] : Ended(m)

(* The channel operations of the plan never block and never panic. A send  *)
(* is done under the mutex, so a full queue would stop every goroutine of  *)
(* the plan, and a send on a closed one kills the process: no node is      *)
(* queued twice or after it started, so a queue of len(NodeMap) has room,  *)
(* and it is open for as long as a goroutine may still send.               *)
QueueSafe ==
  /\ \A i, j \in DOMAIN queue : queue[i] = queue[j] => i = j
  /\ \A n \in Queued : pc[n] = "waiting" /\ deg[n] = 0
  /\ main # "wait" => queue = <<>> /\ \A n \in Node : pc[n] = "done"

(* The integrity check of Done() (action_plan_apply_result.go:146) never   *)
(* fires: whatever fails and in whatever order the nodes end, the actions  *)
(* that succeeded, failed and were skipped are those that the counting     *)
(* pass has seen.                                                          *)
ResultsAddUp ==
  /\ main # "panicked"
  /\ main = "returned" => Processed(result) = result.total
  /\ pass = "apply" => Processed(result) <= result.total

(* An error is never made up: a node that skips actions has had a failed   *)
(* action, or one of its Before nodes has ended in error.                  *)
SkipHasCause ==
  \A n \in Node : foundErr[n] =>
    n \in broken \/ \E m \in Before[n] : foundErr[m] /\ Ended(m)

(* "If one of them fails, main actions will not be executed"               *)
(* (action_graph.go:10-11), "only run them if all dependent nodes          *)
(* succeeded" (action_plan.go:103): no action of a node is executed when   *)
(* one of its Before nodes has ended in error. The code does not ensure    *)
(* it: see DecrementDependent.                                             *)
FailureStopsDependents ==
  \A n \in Node : pc[n] = "executing" => \A m \in Before[n] : ~foundErr[m]

(* The plan is a PlanOrder: each block begins after the blocks it waits    *)
(* for have ended, and ends in error exactly when something went wrong in  *)
(* it or before it. The counting pass executes nothing.                    *)
Block == [n \in Node |->
            IF pass = "count" \/ pc[n] = "waiting" THEN "pending"
            ELSE IF ~Ended(n) THEN "running"
            ELSE IF foundErr[n] THEN "failed" ELSE "succeeded"]

Order == INSTANCE PlanOrder WITH block <- Block

ImplementsPlanOrder == Order!Spec

(* Apply returns, whatever fails: wg.Wait() and done.Wait() do not hang,   *)
(* neither for a node that was never queued nor for a node that waits for  *)
(* the semaphore.                                                          *)
Termination == <>(main = "returned")

-----------------------------------------------------------------------------
(* The inductive invariant behind the safety properties (ActionPlanProofs).*)

(* The Before nodes that have not decremented the degree of n yet.         *)
AwaitedBy(n) == {m \in Before[n] : n \in todo[m]}

Running == {n \in Node : pc[n] # "done"}

(* A node that has not executed its actions has released no dependent.     *)
TodoInv ==
  \A n \in Node :
    /\ todo[n] \subseteq BeforeRev(n)
    /\ ~Ended(n) => todo[n] = BeforeRev(n)
    /\ pc[n] = "done" => todo[n] = {}
    /\ pc[n] = "executing" => left[n] > 0 /\ pass = "apply"

(* The degree of n counts the nodes n waits for; n is queued at zero.      *)
DegreeInv ==
  /\ \A n \in Node : deg[n] = Cardinality(AwaitedBy(n))
  /\ \A n \in Node : n \in Queued \/ pc[n] # "waiting" => deg[n] = 0
  /\ wg = Cardinality(Running)

(* An error mark or a dependent about to be marked has a cause.            *)
CauseInv ==
  /\ \A n \in Node : wasError[n] =>
       n \in broken \/ \E m \in Before[n] : foundErr[m] /\ Ended(m)
  /\ \A n \in Node : unflagged[n] # {} => foundErr[n] /\ pc[n] = "releasing"
  /\ \A n \in Node : unflagged[n] \subseteq BeforeRev(n)
  /\ \A n \in broken :
       pass = "apply" /\ foundErr[n] /\ pc[n] \notin {"waiting", "started"}

PlanInv ==
  TypeOK /\ TodoInv /\ DegreeInv /\ QueueSafe /\ CauseInv /\ SkipHasCause

(* The actions with a place in l, each as its node and its number: what is *)
(* left of a pass when l is left, the whole plan when it is NumActions.    *)
ActionsOf(l) == UNION {{n} \X (1..l[n]) : n \in Node}

(* The counters account for every action no longer left, in both passes;   *)
(* the counting pass knows no errors, so all it counts are successes.      *)
ResultsInv ==
  /\ \A n \in Node : Ended(n) => left[n] = 0
  /\ Processed(result) + Cardinality(ActionsOf(left)) = Cardinality(ActionsOf(NumActions))
  /\ pass = "count" => /\ result.failed = 0 /\ result.skipped = 0
                       /\ \A n \in Node : ~foundErr[n] /\ ~wasError[n]
                       /\ main \in {"wait", "closed"}
  /\ pass = "apply" => result.total = Cardinality(ActionsOf(NumActions))
  /\ main # "panicked"

=============================================================================
