------------------------- MODULE ActionPlanProgress -------------------------
(***************************************************************************)
(* Why Plan.Apply returns, for every acyclic graph: as long as it has not, *)
(* some goroutine can take a step, and every step leaves less to be done.  *)
(* With the fairness of ActionPlan this is the argument for Termination,   *)
(* which is itself a liveness property and left to TLC.                    *)
(***************************************************************************)
EXTENDS ActionPlanProofs, WellFoundedInduction

USE PlanAssumption

-----------------------------------------------------------------------------
(* Nobody is stuck.                                                        *)

Returned == main \in {"returned", "panicked"}

(* The goroutine of n can go on: it does not wait for its turn, nor for a  *)
(* place in the semaphore.                                                 *)
WorkerReady(n) ==
  \/ pc[n] \in {"started", "executing", "releasing"}
  \/ /\ pc[n] = "actions"
     /\ pass = "apply" /\ left[n] > 0 /\ ~foundErr[n] =>
          Cardinality({m \in Node : pc[m] = "executing"}) < MaxConcurrent

DispatcherReady == dispatcher = "ranging" /\ (queue # <<>> \/ main = "closed")

(* wg.Wait() and done.Wait() let the caller of Apply through.              *)
MainReady ==
  \/ main = "wait" /\ wg = 0
  \/ main = "closed" /\ dispatcher = "exited"

(* Until Apply returns, somebody can go on.                                *)
NeverStuck ==
  Returned \/ MainReady \/ DispatcherReady \/ \E n \in Node : WorkerReady(n)

(* When the queue is empty and no goroutine of a node is on its way, all   *)
(* nodes have been executed: none was forgotten, and the caller is not     *)
(* waiting for one that nobody will start.                                 *)
NobodyForgotten ==
  main = "wait" /\ queue = <<>> /\ (\A n \in Node : pc[n] \in {"waiting", "done"})
    => wg = 0 /\ \A n \in Node : pc[n] = "done"

(* A node that waits for nobody is in the queue, the dispatcher takes from *)
(* it until it is closed, and a dependent is marked after its degree has   *)
(* been decremented.                                                       *)
ProgressInv ==
  /\ \A n \in Node : pc[n] = "waiting" /\ deg[n] = 0 => n \in Queued
  /\ main = "wait" => dispatcher = "ranging"
  /\ \A n \in Node : todo[n] \cap unflagged[n] = {}

-----------------------------------------------------------------------------
(* What is left to be done, as a set: of each node the places its          *)
(* goroutine has still to come to, of each action the entry into the       *)
(* semaphore and the end, of each dependent the decrement and the mark,    *)
(* of the caller and the dispatcher the end of the pass. Steps that a      *)
(* goroutine may leave out, a mark when there is no error, an entry when   *)
(* an action is skipped, are crossed off with the ones that replace them.  *)

PlacesAfter(place) ==
  CASE place = "waiting"   -> {"started", "actions", "releasing", "done"}
    [] place = "started"   -> {"actions", "releasing", "done"}
    [] place \in {"actions", "executing"} -> {"releasing", "done"}
    [] place = "releasing" -> {"done"}
    [] place = "done"      -> {}

Places == {p \in Node \X PC : p[2] \in PlacesAfter(pc[p[1]])}

Entries == {a \in ActionsOf(left) : ~(pc[a[1]] = "executing" /\ a[2] = left[a[1]])}

Decrements == {p \in Node \X Node : p[2] \in todo[p[1]]}

Marks == {p \in Node \X Node : p[2] \in todo[p[1]] \cup unflagged[p[1]]}

EndOfPass ==
  {e \in {"close", "exit", "end"} :
     \/ e = "close" /\ main = "wait"
     \/ e = "exit" /\ dispatcher = "ranging"
     \/ e = "end" /\ ~Returned}

Work ==
  ({"place"} \X Places) \cup ({"entry"} \X Entries)
    \cup ({"action"} \X ActionsOf(left)) \cup ({"decrement"} \X Decrements)
    \cup ({"mark"} \X Marks) \cup ({"pass"} \X EndOfPass)

AllWork(l) ==
  ({"place"} \X (Node \X PC)) \cup ({"entry"} \X ActionsOf(l))
    \cup ({"action"} \X ActionsOf(l)) \cup ({"decrement"} \X (Node \X Node))
    \cup ({"mark"} \X (Node \X Node)) \cup ({"pass"} \X {"close", "exit", "end"})

(* The second pass is still to come during the first one.                  *)
WorkLeft ==
  ({pass} \X Work) \cup {w \in {"apply"} \X AllWork(NumActions) : pass = "count"}

StepsLeft == Cardinality(WorkLeft)

(* No step of the plan is for nothing, so there is an end to them: what is *)
(* left is a natural number, and each step leaves less.                    *)
StepsRunOut == [](StepsLeft \in Nat) /\ [][StepsLeft' < StepsLeft]_vars

-----------------------------------------------------------------------------
(* The invariant behind both.                                              *)

LEMMA FreshProgress == FreshPass => ProgressInv
<1> SUFFICES ASSUME FreshPass PROVE ProgressInv
  OBVIOUS
<1> USE FreshFields
<1>1. ASSUME NEW n \in Node, deg[n] = 0 PROVE n \in Queued
  <2>1. Cardinality(Before[n]) = 0 /\ Before[n] \in SUBSET Node
    <3>1. deg[n] = Cardinality(Before[n])
      BY DEF FreshPass
    <3>2. Before[n] \in SUBSET Node
      OBVIOUS
    <3> QED BY <1>1, <3>1, <3>2
  <2>2. Before[n] = {}
    BY <2>1, CountedSetsFinite, FS_EmptySet
  <2>3. n \in Leaves
    BY <2>2 DEF Leaves
  <2>4. queue \in Injection(1..Cardinality(Leaves), Leaves)
    BY DEF FreshPass, QueueOrders, Injection, IsInjective
  <2>5. IsFiniteSet(Leaves) /\ Cardinality(Leaves) \in Nat
    BY CountedSetsFinite DEF Leaves
  <2>6. Cardinality(1..Cardinality(Leaves)) = Cardinality(Leaves)
    <3> DEFINE c == Cardinality(Leaves)
    <3>1. c \in Nat /\ 1 \in Int
      BY <2>5
    <3> HIDE DEF c
    <3>2. Cardinality(1..c) = IF 1 > c THEN 0 ELSE c - 1 + 1
      BY <3>1, FS_Interval
    <3>3. Cardinality(1..c) = c
      BY <3>1, <3>2
    <3> QED BY <3>3 DEF c
  <2>7. queue \in Surjection(1..Cardinality(Leaves), Leaves)
    BY <2>4, <2>5, <2>6, FS_Injection
  <2> QED BY <2>3, <2>7 DEF Surjection, Queued
<1> QED BY <1>1 DEF FreshPass, ProgressInv

(* The steps that leave degrees and queue alone, and start no node.        *)
LEMMA LocalStepProgress ==
  ASSUME ProgressInv, UNCHANGED <<queue, deg>>,
         main' = "wait" => main = "wait" /\ dispatcher' = dispatcher,
         \A n \in Node : pc'[n] = "waiting" => pc[n] = "waiting",
         \A n \in Node : todo'[n] \cap unflagged'[n] \subseteq todo[n] \cap unflagged[n]
  PROVE  ProgressInv'
BY DEF ProgressInv, Queued

LEMMA DispatchProgress ==
  ASSUME PlanInv, ProgressInv, Dispatch
  PROVE  ProgressInv'
<1> DEFINE n == Head(queue)
<1>1. queue \in Seq(Node) /\ queue # <<>> /\ pc \in [Node -> PC]
  BY DEF PlanInv, TypeOK, Dispatch
<1>2. /\ n \in Node /\ n = queue[1] /\ Len(queue) \in Nat /\ Len(queue) > 0
      /\ Len(Tail(queue)) = Len(queue) - 1
      /\ \A i \in 1..Len(Tail(queue)) : Tail(queue)[i] = queue[i + 1]
      /\ DOMAIN queue = 1..Len(queue) /\ DOMAIN Tail(queue) = 1..Len(Tail(queue))
  BY <1>1, HeadTailProperties, EmptySeq, LenProperties
<1>3. /\ queue' = Tail(queue) /\ pc' = [pc EXCEPT ![n] = "started"]
      /\ UNCHANGED <<main, dispatcher, deg, todo, unflagged>>
  BY DEF Dispatch, control, locals
<1>4. ASSUME NEW m \in Queued, m # n PROVE m \in Queued'
  <2>1. PICK i \in 1..Len(queue) : m = queue[i]
    BY <1>2 DEF Queued
  <2>2. i # 1
    BY <1>2, <1>4, <2>1
  <2>3. i - 1 \in 1..Len(Tail(queue)) /\ m = Tail(queue)[i - 1]
    BY <1>2, <2>1, <2>2
  <2>4. i - 1 \in DOMAIN queue' /\ m = queue'[i - 1]
    BY <1>2, <1>3, <2>3
  <2> QED BY <2>4 DEF Queued
<1>5. ASSUME NEW m \in Node, pc'[m] = "waiting", deg'[m] = 0 PROVE m \in Queued'
  <2>1. m # n /\ pc[m] = "waiting" /\ deg[m] = 0
    BY <1>1, <1>2, <1>3, <1>5
  <2> QED BY <1>4, <2>1 DEF ProgressInv
<1> QED BY <1>3, <1>5 DEF ProgressInv

LEMMA DecrementDependentProgress ==
  ASSUME PlanInv, ProgressInv, NEW n \in Node, NEW m \in Node, DecrementDependent(n, m)
  PROVE  ProgressInv'
<1>1. /\ queue \in Seq(Node) /\ deg \in [Node -> Nat]
      /\ todo \in [Node -> SUBSET Node] /\ unflagged \in [Node -> SUBSET Node]
  BY DEF PlanInv, TypeOK
<1>2. /\ deg' = [deg EXCEPT ![m] = @ - 1]
      /\ queue' = IF deg'[m] = 0 THEN Append(queue, m) ELSE queue
      /\ todo' = [todo EXCEPT ![n] = @ \ {m}]
      /\ unflagged' = [unflagged EXCEPT ![n] = IF foundErr[n] THEN {m} ELSE {}]
      /\ UNCHANGED <<main, dispatcher, pc>>
  BY DEF DecrementDependent, control
<1>3. Queued \subseteq Queued' /\ (deg'[m] = 0 => m \in Queued')
  <2>1. CASE deg'[m] = 0
    <3>1. /\ Len(queue) \in Nat /\ DOMAIN queue = 1..Len(queue)
          /\ DOMAIN Append(queue, m) = 1..(Len(queue) + 1)
          /\ \A i \in 1..Len(queue) : Append(queue, m)[i] = queue[i]
          /\ Append(queue, m)[Len(queue) + 1] = m
      BY <1>1, AppendProperties, LenProperties
    <3>2. queue' = Append(queue, m)
      BY <1>2, <2>1
    <3>3. Len(queue) + 1 \in DOMAIN queue' /\ DOMAIN queue \subseteq DOMAIN queue'
      BY <3>1, <3>2
    <3> QED BY <3>1, <3>2, <3>3 DEF Queued
  <2>2. CASE deg'[m] # 0
    BY <1>2, <2>2 DEF Queued
  <2> QED BY <2>1, <2>2
<1>4. ASSUME NEW k \in Node, pc'[k] = "waiting", deg'[k] = 0 PROVE k \in Queued'
  <2>1. CASE k = m
    BY <1>3, <1>4, <2>1
  <2>2. CASE k # m
    BY <1>1, <1>2, <1>3, <1>4, <2>2 DEF ProgressInv
  <2> QED BY <2>1, <2>2
<1>5. \A k \in Node : todo'[k] \cap unflagged'[k] = {}
  BY <1>1, <1>2 DEF ProgressInv
<1> QED BY <1>2, <1>4, <1>5 DEF ProgressInv

LEMMA WorkerProgress ==
  ASSUME PlanInv, ProgressInv, NEW n \in Node, Worker(n)
  PROVE  ProgressInv'
<1>1. TypeOK
  BY DEF PlanInv
<1>2. CASE \/ ReadWasError(n) \/ SkipAction(n) \/ CountAction(n) \/ AcquireSemaphore(n)
           \/ ActionSucceeds(n) \/ ActionFails(n) \/ MarkOwnError(n) \/ WorkerDone(n)
  <2>1. UNCHANGED <<queue, deg, main, dispatcher, todo, unflagged>>
    BY <1>2 DEF ReadWasError, SkipAction, CountAction, AcquireSemaphore, ActionSucceeds,
                ActionFails, MarkOwnError, WorkerDone, control, locals
  <2>2. pc' = pc \/ \E q \in PC \ {"waiting"} : pc' = [pc EXCEPT ![n] = q]
    BY <1>2 DEF ReadWasError, SkipAction, CountAction, AcquireSemaphore, ActionSucceeds,
                ActionFails, MarkOwnError, WorkerDone, PC
  <2>3. \A k \in Node : pc'[k] = "waiting" => pc[k] = "waiting"
    BY <1>1, <2>2 DEF TypeOK
  <2> QED BY <2>1, <2>3, LocalStepProgress
<1>3. ASSUME NEW m \in Node, DecrementDependent(n, m) PROVE ProgressInv'
  BY <1>3, DecrementDependentProgress
<1>4. ASSUME NEW m \in Node, FlagDependent(n, m) PROVE ProgressInv'
  <2>1. /\ UNCHANGED <<queue, deg, main, dispatcher, pc, todo>>
        /\ unflagged' = [unflagged EXCEPT ![n] = {}]
    BY <1>4 DEF FlagDependent, control
  <2>2. \A k \in Node : unflagged'[k] \subseteq unflagged[k]
    BY <1>1, <2>1 DEF TypeOK
  <2>3. \A k \in Node : todo'[k] \cap unflagged'[k] \subseteq todo[k] \cap unflagged[k]
    BY <2>1, <2>2
  <2> QED BY <2>1, <2>3, LocalStepProgress
<1> QED BY <1>2, <1>3, <1>4 DEF Worker

LEMMA NextProgress == PlanInv /\ ProgressInv /\ [Next]_vars => ProgressInv'
<1> SUFFICES ASSUME PlanInv, ProgressInv, [Next]_vars PROVE ProgressInv'
  OBVIOUS
<1>1. CASE Dispatch
  BY <1>1, DispatchProgress
<1>2. ASSUME NEW n \in Node, Worker(n) PROVE ProgressInv'
  BY <1>2, WorkerProgress
<1>3. CASE CloseQueue \/ DispatcherExits \/ ReturnResult \/ Terminated \/ UNCHANGED vars
  <2>1. /\ UNCHANGED <<queue, deg, pc, todo, unflagged>>
        /\ main' = "wait" => main = "wait" /\ dispatcher' = dispatcher
    BY <1>3 DEF CloseQueue, DispatcherExits, ReturnResult, Terminated, vars, control, locals
  <2> QED BY <2>1, LocalStepProgress
<1>4. CASE StartApplyPass
  <2>1. broken' = {}
    BY <1>4 DEF PlanInv, TypeOK, CauseInv, StartApplyPass
  <2>2. result' \in [success : Nat, failed : Nat, skipped : Nat, total : Nat]
    BY <1>4 DEF PlanInv, TypeOK, StartApplyPass, NewResult
  <2>3. FreshPass'
    BY <1>4, <2>1, <2>2 DEF StartApplyPass, FreshPass, FreshGraph, QueueOrders, Leaves
  <2> QED BY <2>3, FreshProgress, PTL
<1> QED BY <1>1, <1>2, <1>3, <1>4 DEF Next, Main

LEMMA InitProgress == Init => ProgressInv
<1>1. Init => FreshPass
  BY DEF Init, FreshPass, NewResult
<1> QED BY <1>1, FreshProgress

-----------------------------------------------------------------------------
(* Nobody is stuck: among the nodes that wait there is one of least rank.  *)

LEMMA LeastRank ==
  ASSUME NEW S \in SUBSET Node, S # {}
  PROVE  \E n \in S : Before[n] \cap S = {}
<1>1. PICK rank \in [Node -> 0..Cardinality(Node)] :
        \A n \in Node : \A m \in Before[n] : rank[m] < rank[n]
  BY AcyclicAssumption
<1>2. \A n \in Node : rank[n] \in Nat
  <2>1. Cardinality(Node) \in Nat
    BY CountedSetsFinite
  <2> QED BY <2>1
<1> DEFINE R == {ss \in Nat \X Nat : ss[1] < ss[2]}
           ranks == {rank[n] : n \in S}
<1>3. IsWellFoundedOn(R, Nat)
  BY NatLessThanWellFounded DEF OpToRel
<1>4. \A x, y \in Nat : <<x, y>> \in R <=> x < y
  OBVIOUS
<1>5. ranks \in SUBSET Nat /\ ranks # {}
  BY <1>2
<1> HIDE DEF R, ranks
<1>6. \E x \in ranks : \A y \in ranks : ~(<<y, x>> \in R)
  BY <1>3, <1>5, WFMin
<1>7. PICK n \in S : \A y \in ranks : ~(<<y, rank[n]>> \in R)
  BY <1>6 DEF ranks
<1>8. ASSUME NEW m \in Before[n], m \in S PROVE FALSE
  <2>1. rank[m] \in ranks /\ rank[m] \in Nat /\ rank[n] \in Nat
    BY <1>2, <1>8 DEF ranks
  <2>2. ~(rank[m] < rank[n])
    BY <1>4, <1>7, <2>1
  <2> QED BY <1>1, <2>2
<1> QED BY <1>8

LEMMA NoneForgotten == PlanInv /\ ProgressInv => NobodyForgotten
<1> SUFFICES ASSUME PlanInv, ProgressInv, queue = <<>>,
                    \A n \in Node : pc[n] \in {"waiting", "done"}
             PROVE  wg = 0 /\ \A n \in Node : pc[n] = "done"
  BY DEF NobodyForgotten
<1>0. TypeOK /\ TodoInv /\ DegreeInv
  BY DEF PlanInv
<1>1. Queued = {}
  BY DEF Queued
<1>2. Running = {}
  <2> SUFFICES ASSUME Running # {} PROVE FALSE
    OBVIOUS
  <2>1. Running \in SUBSET Node
    BY DEF Running
  <2>2. PICK n \in Running : Before[n] \cap Running = {}
    BY <2>1, LeastRank
  <2>3. n \in Node /\ pc[n] = "waiting" /\ Before[n] \in SUBSET Node
    <3>1. n \in Node /\ pc[n] # "done"
      BY DEF Running
    <3>2. pc[n] = "waiting"
      BY <3>1
    <3>3. Before[n] \in SUBSET Node
      BY <3>1
    <3> QED BY <3>1, <3>2, <3>3
  <2>4. \A m \in Before[n] : todo[m] = {}
    BY <1>0, <2>2, <2>3 DEF Running, TodoInv
  <2>5. AwaitedBy(n) = {}
    BY <2>4 DEF AwaitedBy
  <2>6. deg[n] = 0
    BY <1>0, <2>3, <2>5, FS_EmptySet DEF DegreeInv
  <2> QED BY <1>1, <2>3, <2>6 DEF ProgressInv
<1>3. wg = 0
  BY <1>0, <1>2, FS_EmptySet DEF DegreeInv
<1> QED BY <1>2, <1>3 DEF Running

LEMMA SomebodyReady == PlanInv /\ ProgressInv => NeverStuck
<1> SUFFICES ASSUME PlanInv, ProgressInv, ~Returned, ~DispatcherReady,
                    \A n \in Node : ~WorkerReady(n)
             PROVE  MainReady
  BY DEF NeverStuck
<1>0. TypeOK /\ QueueSafe
  BY DEF PlanInv
<1>1. main \in {"wait", "closed"} /\ dispatcher \in {"ranging", "exited"}
  BY <1>0 DEF TypeOK, Returned
<1>2. CASE main = "closed"
  BY <1>1, <1>2 DEF DispatcherReady, MainReady
<1>3. CASE main = "wait"
  <2>1. queue = <<>>
    BY <1>3 DEF ProgressInv, DispatcherReady
  <2>2. \A n \in Node : pc[n] \in {"waiting", "actions", "done"}
    BY <1>0 DEF TypeOK, PC, WorkerReady
  <2>3. {m \in Node : pc[m] = "executing"} = {}
    BY <2>2
  <2>4. Cardinality({m \in Node : pc[m] = "executing"}) < MaxConcurrent
    <3>1. Cardinality({m \in Node : pc[m] = "executing"}) = 0
      BY <2>3, FS_EmptySet
    <3>2. MaxConcurrent \in Nat /\ MaxConcurrent # 0
      OBVIOUS
    <3> QED BY <3>1, <3>2
  <2>5. \A n \in Node : pc[n] \in {"waiting", "done"}
    BY <2>2, <2>4 DEF WorkerReady
  <2> QED BY <1>3, <2>1, <2>5, NoneForgotten DEF NobodyForgotten, MainReady
<1> QED BY <1>1, <1>2, <1>3

(* As long as Plan.Apply has not returned, one of its goroutines can go    *)
(* on, for every acyclic graph and every size of the semaphore but zero:   *)
(* neither wg.Wait() nor done.Wait() nor the semaphore nor the mutexes     *)
(* hold up everybody at once (action_plan.go:49-89).                       *)
THEOREM NobodyIsStuck == Spec => []NeverStuck
BY InitPlanInv, NextPlanInv, InitProgress, NextProgress, SomebodyReady, PTL DEF Spec

(* Every node is queued in the end: an empty queue and no goroutine on its *)
(* way mean that all nodes have been executed (action_plan.go:116-146).    *)
THEOREM NobodyIsForgotten == Spec => []NobodyForgotten
BY InitPlanInv, NextPlanInv, InitProgress, NextProgress, NoneForgotten, PTL DEF Spec

-----------------------------------------------------------------------------
(* Every step leaves less to be done.                                      *)

LEMMA AllWorkFinite ==
  ASSUME NEW l \in [Node -> Nat]
  PROVE  IsFiniteSet(AllWork(l))
<1>1. IsFiniteSet(ActionsOf(l)) /\ IsFiniteSet(Node)
  BY ActionsAreFinite
<1>2. /\ IsFiniteSet({"place"}) /\ IsFiniteSet({"entry"}) /\ IsFiniteSet({"action"})
      /\ IsFiniteSet({"decrement"}) /\ IsFiniteSet({"mark"}) /\ IsFiniteSet({"pass"})
  BY FS_Singleton
<1>3. IsFiniteSet(PC)
  <2>1. /\ IsFiniteSet({"waiting"}) /\ IsFiniteSet({"started"}) /\ IsFiniteSet({"actions"})
        /\ IsFiniteSet({"executing"}) /\ IsFiniteSet({"releasing"}) /\ IsFiniteSet({"done"})
    BY FS_Singleton
  <2>2. PC = {"waiting"} \cup {"started"} \cup {"actions"} \cup {"executing"}
               \cup {"releasing"} \cup {"done"}
    BY DEF PC
  <2>3. IsFiniteSet({"waiting"} \cup {"started"})
    BY <2>1, FS_Union
  <2>4. IsFiniteSet({"waiting"} \cup {"started"} \cup {"actions"})
    BY <2>1, <2>3, FS_Union
  <2>5. IsFiniteSet({"waiting"} \cup {"started"} \cup {"actions"} \cup {"executing"})
    BY <2>1, <2>4, FS_Union
  <2>6. IsFiniteSet({"waiting"} \cup {"started"} \cup {"actions"} \cup {"executing"}
                      \cup {"releasing"})
    BY <2>1, <2>5, FS_Union
  <2> QED BY <2>1, <2>2, <2>6, FS_Union
<1>4. IsFiniteSet({"close", "exit", "end"})
  <2>1. IsFiniteSet({"close"}) /\ IsFiniteSet({"exit"}) /\ IsFiniteSet({"end"})
    BY FS_Singleton
  <2>2. IsFiniteSet({"close"} \cup {"exit"})
    BY <2>1, FS_Union
  <2>3. IsFiniteSet(({"close"} \cup {"exit"}) \cup {"end"})
    BY <2>1, <2>2, FS_Union
  <2>4. {"close", "exit", "end"} = ({"close"} \cup {"exit"}) \cup {"end"}
    OBVIOUS
  <2> QED BY <2>3, <2>4
<1> DEFINE places == {"place"} \X (Node \X PC)
           entries == {"entry"} \X ActionsOf(l)
           actions == {"action"} \X ActionsOf(l)
           decrements == {"decrement"} \X (Node \X Node)
           marks == {"mark"} \X (Node \X Node)
           ends == {"pass"} \X {"close", "exit", "end"}
<1>5. IsFiniteSet(places) /\ IsFiniteSet(decrements) /\ IsFiniteSet(marks)
  <2>1. IsFiniteSet(Node \X PC) /\ IsFiniteSet(Node \X Node)
    BY <1>1, <1>3, FS_Product
  <2> QED BY <1>2, <2>1, FS_Product
<1>6. IsFiniteSet(entries) /\ IsFiniteSet(actions) /\ IsFiniteSet(ends)
  BY <1>1, <1>2, <1>4, FS_Product
<1>7. AllWork(l) = ((((places \cup entries) \cup actions) \cup decrements) \cup marks) \cup ends
  BY DEF AllWork
<1> HIDE DEF places, entries, actions, decrements, marks, ends
<1>8. IsFiniteSet(places \cup entries)
  BY <1>5, <1>6, FS_Union
<1>9. IsFiniteSet((places \cup entries) \cup actions)
  BY <1>6, <1>8, FS_Union
<1>10. IsFiniteSet(((places \cup entries) \cup actions) \cup decrements)
  BY <1>5, <1>9, FS_Union
<1>11. IsFiniteSet((((places \cup entries) \cup actions) \cup decrements) \cup marks)
  BY <1>5, <1>10, FS_Union
<1>12. IsFiniteSet(((((places \cup entries) \cup actions) \cup decrements) \cup marks) \cup ends)
  BY <1>6, <1>11, FS_Union
<1> QED BY <1>7, <1>12

(* All that is left is part of what the passes consist of.                 *)
LEMMA WorkIsBounded == TypeOK => Work \subseteq AllWork(left)
<1> SUFFICES ASSUME TypeOK PROVE Work \subseteq AllWork(left)
  OBVIOUS
<1>1. Places \subseteq Node \X PC /\ Entries \subseteq ActionsOf(left)
  BY DEF Places, Entries
<1>2. /\ Decrements \subseteq Node \X Node /\ Marks \subseteq Node \X Node
      /\ EndOfPass \subseteq {"close", "exit", "end"}
  BY DEF Decrements, Marks, EndOfPass
<1>3. /\ {"place"} \X Places \subseteq {"place"} \X (Node \X PC)
      /\ {"entry"} \X Entries \subseteq {"entry"} \X ActionsOf(left)
      /\ {"decrement"} \X Decrements \subseteq {"decrement"} \X (Node \X Node)
      /\ {"mark"} \X Marks \subseteq {"mark"} \X (Node \X Node)
      /\ {"pass"} \X EndOfPass \subseteq {"pass"} \X {"close", "exit", "end"}
  BY <1>1, <1>2
<1> QED BY ONLY <1>3 DEF Work, AllWork

LEMMA WorkLeftFinite ==
  ASSUME TypeOK
  PROVE  IsFiniteSet(WorkLeft)
<1> DEFINE second == {w \in {"apply"} \X AllWork(NumActions) : pass = "count"}
<1>1. IsFiniteSet(Work)
  <2>1. IsFiniteSet(AllWork(left))
    BY AllWorkFinite DEF TypeOK
  <2> QED BY <2>1, WorkIsBounded, FS_Subset
<1>2. IsFiniteSet({pass}) /\ IsFiniteSet({"apply"})
  BY FS_Singleton
<1>3. IsFiniteSet({pass} \X Work)
  BY <1>1, <1>2, FS_Product
<1>4. IsFiniteSet({"apply"} \X AllWork(NumActions))
  <2>1. IsFiniteSet(AllWork(NumActions))
    BY AllWorkFinite
  <2> QED BY <1>2, <2>1, FS_Product
<1>5. IsFiniteSet(second)
  BY <1>4, FS_Subset
<1> HIDE DEF second
<1>6. WorkLeft = ({pass} \X Work) \cup second
  BY DEF WorkLeft, second
<1> QED BY <1>3, <1>5, <1>6, FS_Union

Shrinks == WorkLeft' \subseteq WorkLeft /\ WorkLeft' # WorkLeft

LEMMA StepsAreCounted == TypeOK => StepsLeft \in Nat
BY WorkLeftFinite, FS_CardinalityType DEF StepsLeft

LEMMA ShrinkingCounts ==
  ASSUME TypeOK, Shrinks
  PROVE  StepsLeft' < StepsLeft
<1>1. IsFiniteSet(WorkLeft) /\ WorkLeft' \in SUBSET WorkLeft /\ WorkLeft' # WorkLeft
  BY WorkLeftFinite DEF Shrinks
<1> DEFINE S == WorkLeft
           T == WorkLeft'
<1>2. IsFiniteSet(S) /\ T \in SUBSET S /\ T # S
  BY <1>1
<1> HIDE DEF S, T
<1>3. /\ IsFiniteSet(T) /\ Cardinality(T) <= Cardinality(S)
      /\ Cardinality(S) # Cardinality(T)
  BY <1>2, FS_Subset
<1>4. Cardinality(S) \in Nat /\ Cardinality(T) \in Nat
  BY <1>2, <1>3, FS_CardinalityType
<1>5. Cardinality(T) < Cardinality(S)
  BY <1>3, <1>4
<1> QED BY <1>5 DEF StepsLeft, S, T

(* Within a pass, the parts of the work that is left can be looked at one  *)
(* by one.                                                                 *)
LEMMA PartsShrink ==
  ASSUME pass' = pass, pass \in {"count", "apply"},
         Places' \subseteq Places, Entries' \subseteq Entries,
         ActionsOf(left') \subseteq ActionsOf(left),
         Decrements' \subseteq Decrements, Marks' \subseteq Marks,
         EndOfPass' \subseteq EndOfPass,
         \/ Places' # Places \/ Entries' # Entries \/ ActionsOf(left') # ActionsOf(left)
         \/ Decrements' # Decrements \/ Marks' # Marks \/ EndOfPass' # EndOfPass
  PROVE  Shrinks
<1>1. ActionsOf(left)' = ActionsOf(left')
  BY DEF ActionsOf
<1>2. Work' \subseteq Work
  BY <1>1 DEF Work
<1>3. \E w \in Work : w \notin Work'
  <2>1. CASE Places' # Places
    <3>1. PICK p \in Places : p \notin Places'
      BY <2>1
    <3>2. <<"place", p>> \in Work /\ <<"place", p>> \notin Work'
      BY <3>1 DEF Work
    <3> QED BY <3>2
  <2>2. CASE Entries' # Entries
    <3>1. PICK p \in Entries : p \notin Entries'
      BY <2>2
    <3>2. <<"entry", p>> \in Work /\ <<"entry", p>> \notin Work'
      BY <3>1 DEF Work
    <3> QED BY <3>2
  <2>3. CASE ActionsOf(left') # ActionsOf(left)
    <3>1. PICK p \in ActionsOf(left) : p \notin ActionsOf(left')
      BY <2>3
    <3>2. <<"action", p>> \in Work /\ <<"action", p>> \notin Work'
      BY <1>1, <3>1 DEF Work
    <3> QED BY <3>2
  <2>4. CASE Decrements' # Decrements
    <3>1. PICK p \in Decrements : p \notin Decrements'
      BY <2>4
    <3>2. <<"decrement", p>> \in Work /\ <<"decrement", p>> \notin Work'
      BY <3>1 DEF Work
    <3> QED BY <3>2
  <2>5. CASE Marks' # Marks
    <3>1. PICK p \in Marks : p \notin Marks'
      BY <2>5
    <3>2. <<"mark", p>> \in Work /\ <<"mark", p>> \notin Work'
      BY <3>1 DEF Work
    <3> QED BY <3>2
  <2>6. CASE EndOfPass' # EndOfPass
    <3>1. PICK p \in EndOfPass : p \notin EndOfPass'
      BY <2>6
    <3>2. <<"pass", p>> \in Work /\ <<"pass", p>> \notin Work'
      BY <3>1 DEF Work
    <3> QED BY <3>2
  <2> QED BY <2>1, <2>2, <2>3, <2>4, <2>5, <2>6
<1>4. WorkLeft' \subseteq WorkLeft
  BY <1>2 DEF WorkLeft, AllWork, ActionsOf
<1>5. WorkLeft' # WorkLeft
  <2>1. PICK w \in Work : w \notin Work'
    BY <1>3
  <2>2. <<pass, w>> \in WorkLeft
    BY DEF WorkLeft
  <2>3. <<pass, w>> \notin WorkLeft'
    BY <2>1 DEF WorkLeft
  <2> QED BY <2>2, <2>3
<1> QED BY <1>4, <1>5 DEF Shrinks

-----------------------------------------------------------------------------
(* Every step shrinks the work.                                            *)

(* A step of the goroutine of n: it has left a place, an action or a       *)
(* dependent behind, or got the semaphore for one.                         *)
LEMMA NodeShrinks ==
  ASSUME TypeOK, TypeOK', NEW n \in Node, UNCHANGED control,
         \A k \in Node \ {n} : /\ pc'[k] = pc[k] /\ left'[k] = left[k]
                               /\ todo'[k] = todo[k] /\ unflagged'[k] = unflagged[k],
         PlacesAfter(pc'[n]) \subseteq PlacesAfter(pc[n]),
         left'[n] <= left[n],
         pc[n] = "executing" =>
           left'[n] < left[n] \/ (pc'[n] = "executing" /\ left'[n] = left[n]),
         todo'[n] \subseteq todo[n],
         todo'[n] \cup unflagged'[n] \subseteq todo[n] \cup unflagged[n],
         \/ \E p \in PC : p \in PlacesAfter(pc[n]) /\ p \notin PlacesAfter(pc'[n])
         \/ left'[n] < left[n]
         \/ pc[n] # "executing" /\ pc'[n] = "executing" /\ left'[n] = left[n] /\ left[n] > 0
         \/ \E m \in Node : m \in todo[n] /\ m \notin todo'[n]
         \/ \E m \in Node : m \in unflagged[n] /\ m \notin todo'[n] \cup unflagged'[n]
  PROVE  Shrinks
<1>1. Places' \subseteq Places
  BY DEF Places
<1>2. /\ left \in [Node -> Nat] /\ left' \in [Node -> Nat]
      /\ \A k \in Node : left'[k] <= left[k]
  <2>1. left \in [Node -> Nat] /\ left' \in [Node -> Nat]
    BY DEF TypeOK
  <2>2. ASSUME NEW k \in Node PROVE left'[k] <= left[k]
    <3>1. left[k] \in Nat
      BY <2>1
    <3>2. CASE k # n
      BY <3>1, <3>2
    <3> QED BY <3>2
  <2> QED BY <2>1, <2>2
<1>3. ActionsOf(left') \subseteq ActionsOf(left)
  BY <1>2 DEF ActionsOf
<1>4. Entries' \subseteq Entries
  <2> SUFFICES ASSUME NEW a \in Entries' PROVE a \in Entries
    OBVIOUS
  <2>0. PICK k \in Node : \E i \in 1..left'[k] : a = <<k, i>>
    BY DEF Entries, ActionsOf
  <2>1. PICK i \in 1..left'[k] : a = <<k, i>>
    BY <2>0
  <2>2. a \in ActionsOf(left) /\ i \in Int /\ i <= left'[k]
    BY <1>2, <1>3, <2>1 DEF Entries, ActionsOf
  <2>3. ~(pc'[k] = "executing" /\ i = left'[k])
    BY <2>1 DEF Entries
  <2>4. ~(pc[k] = "executing" /\ i = left[k])
    <3>1. CASE k # n
      BY <2>3, <3>1
    <3>2. CASE k = n
      BY <1>2, <2>2, <2>3, <3>2
    <3> QED BY <3>1, <3>2
  <2> QED BY <2>1, <2>2, <2>4 DEF Entries
<1>5. Decrements' \subseteq Decrements /\ Marks' \subseteq Marks
  BY DEF Decrements, Marks
<1>6. EndOfPass' = EndOfPass /\ pass' = pass /\ pass \in {"count", "apply"}
  BY DEF EndOfPass, Returned, control, TypeOK
<1>7. \/ Places' # Places \/ Entries' # Entries \/ ActionsOf(left') # ActionsOf(left)
      \/ Decrements' # Decrements \/ Marks' # Marks
  <2>1. ASSUME NEW p \in PC, p \in PlacesAfter(pc[n]), p \notin PlacesAfter(pc'[n])
        PROVE  Places' # Places
    <3>1. <<n, p>> \in Places /\ <<n, p>> \notin Places'
      BY <2>1 DEF Places
    <3> QED BY <3>1
  <2>2. ASSUME left'[n] < left[n] PROVE ActionsOf(left') # ActionsOf(left)
    <3>1. left[n] \in 1..left[n] /\ left[n] \notin 1..left'[n]
      BY <1>2, <2>2
    <3>2. <<n, left[n]>> \in ActionsOf(left) /\ <<n, left[n]>> \notin ActionsOf(left')
      BY <3>1 DEF ActionsOf
    <3> QED BY <3>2
  <2>3. ASSUME pc[n] # "executing", pc'[n] = "executing", left'[n] = left[n], left[n] > 0
        PROVE  Entries' # Entries
    <3>1. left[n] \in 1..left[n]
      BY <1>2, <2>3
    <3>2. <<n, left[n]>> \in Entries /\ <<n, left[n]>> \notin Entries'
      BY <2>3, <3>1 DEF Entries, ActionsOf
    <3> QED BY <3>2
  <2>4. ASSUME NEW m \in Node, m \in todo[n], m \notin todo'[n]
        PROVE  Decrements' # Decrements
    <3>1. <<n, m>> \in Decrements /\ <<n, m>> \notin Decrements'
      BY <2>4 DEF Decrements
    <3> QED BY <3>1
  <2>5. ASSUME NEW m \in Node, m \in unflagged[n], m \notin todo'[n] \cup unflagged'[n]
        PROVE  Marks' # Marks
    <3>1. <<n, m>> \in Marks /\ <<n, m>> \notin Marks'
      BY <2>5 DEF Marks
    <3> QED BY <3>1
  <2> QED BY <2>1, <2>2, <2>3, <2>4, <2>5
<1> QED BY <1>1, <1>3, <1>4, <1>5, <1>6, <1>7, PartsShrink

LEMMA WorkerShrinks ==
  ASSUME PlanInv, ProgressInv, TypeOK', NEW n \in Node, Worker(n)
  PROVE  Shrinks
<1>1. TypeOK /\ TodoInv /\ \A k \in Node : todo[k] \cap unflagged[k] = {}
  BY DEF PlanInv, ProgressInv
<1>2. left[n] \in Nat /\ left'[n] \in Nat /\ pc[n] \in PC
  BY <1>1 DEF TypeOK
<1>3. CASE ReadWasError(n)
  <2>1. /\ pc[n] = "started" /\ pc'[n] = "actions"
        /\ UNCHANGED <<control, left, todo, unflagged>>
        /\ \A k \in Node \ {n} : pc'[k] = pc[k]
    BY <1>1, <1>3 DEF ReadWasError, TypeOK
  <2>2. /\ PlacesAfter(pc'[n]) \subseteq PlacesAfter(pc[n])
        /\ \E p \in PC : p \in PlacesAfter(pc[n]) /\ p \notin PlacesAfter(pc'[n])
    BY <2>1 DEF PlacesAfter, PC
  <2> QED BY <1>1, <1>2, <2>1, <2>2, NodeShrinks
<1>4. CASE SkipAction(n) \/ CountAction(n)
  <2>1. /\ pc[n] = "actions" /\ left'[n] = left[n] - 1
        /\ UNCHANGED <<control, pc, todo, unflagged>>
        /\ \A k \in Node \ {n} : left'[k] = left[k]
    BY <1>1, <1>4 DEF SkipAction, CountAction, TypeOK
  <2>2. left'[n] < left[n] /\ left'[n] <= left[n]
    BY <1>2, <2>1
  <2> QED BY <1>1, <2>1, <2>2, NodeShrinks
<1>5. CASE AcquireSemaphore(n)
  <2>1. /\ pc[n] = "actions" /\ pc'[n] = "executing" /\ left[n] > 0
        /\ UNCHANGED <<control, left, todo, unflagged>>
        /\ \A k \in Node \ {n} : pc'[k] = pc[k]
    BY <1>1, <1>5 DEF AcquireSemaphore, TypeOK, locals
  <2>2. PlacesAfter(pc'[n]) \subseteq PlacesAfter(pc[n])
    BY <2>1 DEF PlacesAfter
  <2>3. left'[n] <= left[n] /\ left'[n] = left[n]
    BY <1>2, <2>1
  <2> QED BY <1>1, <2>1, <2>2, <2>3, NodeShrinks
<1>6. CASE ActionSucceeds(n) \/ ActionFails(n)
  <2>1. /\ pc[n] = "executing" /\ pc'[n] = "actions" /\ left'[n] = left[n] - 1
        /\ UNCHANGED <<control, todo, unflagged>>
        /\ \A k \in Node \ {n} : pc'[k] = pc[k] /\ left'[k] = left[k]
    BY <1>1, <1>6 DEF ActionSucceeds, ActionFails, TypeOK
  <2>2. PlacesAfter(pc'[n]) \subseteq PlacesAfter(pc[n])
    BY <2>1 DEF PlacesAfter
  <2>3. left'[n] < left[n] /\ left'[n] <= left[n]
    BY <1>2, <2>1
  <2> QED BY <1>1, <2>1, <2>2, <2>3, NodeShrinks
<1>7. CASE MarkOwnError(n)
  <2>1. /\ pc[n] = "actions" /\ pc'[n] = "releasing"
        /\ UNCHANGED <<control, left, todo, unflagged>>
        /\ \A k \in Node \ {n} : pc'[k] = pc[k]
    BY <1>1, <1>7 DEF MarkOwnError, TypeOK, locals
  <2>2. /\ PlacesAfter(pc'[n]) \subseteq PlacesAfter(pc[n])
        /\ \E p \in PC : p \in PlacesAfter(pc[n]) /\ p \notin PlacesAfter(pc'[n])
    BY <2>1 DEF PlacesAfter, PC
  <2> QED BY <1>1, <1>2, <2>1, <2>2, NodeShrinks
<1>8. ASSUME NEW m \in Node, DecrementDependent(n, m)
      PROVE  Shrinks
  <2>1. /\ pc[n] = "releasing" /\ m \in todo[n] /\ todo'[n] = todo[n] \ {m}
        /\ UNCHANGED <<control, pc, left>>
        /\ unflagged'[n] \subseteq {m}
        /\ \A k \in Node \ {n} : todo'[k] = todo[k] /\ unflagged'[k] = unflagged[k]
    BY <1>1, <1>8 DEF DecrementDependent, TypeOK
  <2>2. /\ todo'[n] \subseteq todo[n] /\ m \notin todo'[n]
        /\ todo'[n] \cup unflagged'[n] \subseteq todo[n] \cup unflagged[n]
    BY <2>1
  <2>3. left'[n] <= left[n]
    BY <1>2, <2>1
  <2> QED BY <1>1, <2>1, <2>2, <2>3, NodeShrinks
<1>9. ASSUME NEW m \in Node, FlagDependent(n, m)
      PROVE  Shrinks
  <2>1. /\ pc[n] = "releasing" /\ m \in unflagged[n] /\ unflagged'[n] = {}
        /\ UNCHANGED <<control, pc, left, todo>>
        /\ \A k \in Node \ {n} : unflagged'[k] = unflagged[k]
    BY <1>1, <1>9 DEF FlagDependent, TypeOK
  <2>2. /\ m \notin todo'[n] \cup unflagged'[n]
        /\ todo'[n] \cup unflagged'[n] \subseteq todo[n] \cup unflagged[n]
    BY <1>1, <2>1
  <2>3. left'[n] <= left[n]
    BY <1>2, <2>1
  <2> QED BY <1>1, <2>1, <2>2, <2>3, NodeShrinks
<1>10. CASE WorkerDone(n)
  <2>1. /\ pc[n] = "releasing" /\ pc'[n] = "done"
        /\ UNCHANGED <<control, left, todo, unflagged>>
        /\ \A k \in Node \ {n} : pc'[k] = pc[k]
    BY <1>1, <1>10 DEF WorkerDone, locals, TypeOK
  <2>2. /\ PlacesAfter(pc'[n]) \subseteq PlacesAfter(pc[n])
        /\ \E p \in PC : p \in PlacesAfter(pc[n]) /\ p \notin PlacesAfter(pc'[n])
    BY <2>1 DEF PlacesAfter, PC
  <2> QED BY <1>1, <1>2, <2>1, <2>2, NodeShrinks
<1> QED BY <1>3, <1>4, <1>5, <1>6, <1>7, <1>8, <1>9, <1>10 DEF Worker

LEMMA DispatchShrinks ==
  ASSUME PlanInv, TypeOK', Dispatch
  PROVE  Shrinks
<1>1. TypeOK /\ QueueSafe
  BY DEF PlanInv
<1> DEFINE n == Head(queue)
<1>2. n \in Node /\ n \in Queued
  <2>1. queue \in Seq(Node) /\ queue # <<>>
    BY <1>1 DEF Dispatch, TypeOK
  <2>2. 1 \in DOMAIN queue /\ queue[1] \in Node /\ Head(queue) = queue[1]
    BY <2>1
  <2> QED BY <2>2 DEF Queued
<1>3. /\ pc[n] = "waiting" /\ pc'[n] = "started"
      /\ UNCHANGED <<control, left, todo, unflagged>>
      /\ \A k \in Node \ {n} : pc'[k] = pc[k]
  BY <1>1, <1>2 DEF Dispatch, QueueSafe, TypeOK, locals
<1> HIDE DEF n
<1>4. /\ PlacesAfter(pc'[n]) \subseteq PlacesAfter(pc[n])
      /\ \E p \in PC : p \in PlacesAfter(pc[n]) /\ p \notin PlacesAfter(pc'[n])
  BY <1>3 DEF PlacesAfter, PC
<1>5. left[n] \in Nat
  BY <1>1, <1>2 DEF TypeOK
<1> QED BY <1>1, <1>2, <1>3, <1>4, <1>5, NodeShrinks

(* The ends of a pass: the queue is closed, the dispatcher exits, Apply    *)
(* returns.                                                                *)
LEMMA EndOfPassShrinks ==
  ASSUME PlanInv, CloseQueue \/ DispatcherExits \/ ReturnResult
  PROVE  Shrinks
<1>1. pass' = pass /\ pass \in {"count", "apply"} /\ UNCHANGED <<pc, left, todo, unflagged>>
  BY DEF PlanInv, TypeOK, CloseQueue, DispatcherExits, ReturnResult, locals
<1>2. /\ Places' = Places /\ Entries' = Entries /\ ActionsOf(left') = ActionsOf(left)
      /\ Decrements' = Decrements /\ Marks' = Marks
  BY <1>1 DEF Places, Entries, ActionsOf, Decrements, Marks
<1>3. EndOfPass' \subseteq EndOfPass /\ EndOfPass' # EndOfPass
  <2>1. CASE CloseQueue
    <3>1. "close" \in EndOfPass /\ "close" \notin EndOfPass'
      BY <2>1 DEF CloseQueue, EndOfPass
    <3>2. EndOfPass' \subseteq EndOfPass
      BY <2>1 DEF CloseQueue, EndOfPass, Returned
    <3> QED BY <3>1, <3>2
  <2>2. CASE DispatcherExits
    <3>1. "exit" \in EndOfPass /\ "exit" \notin EndOfPass'
      BY <2>2 DEF DispatcherExits, EndOfPass
    <3>2. EndOfPass' \subseteq EndOfPass
      BY <2>2 DEF DispatcherExits, EndOfPass, Returned
    <3> QED BY <3>1, <3>2
  <2>3. CASE ReturnResult
    <3>1. "end" \in EndOfPass /\ "end" \notin EndOfPass'
      BY <2>3 DEF ReturnResult, EndOfPass, Returned
    <3>2. EndOfPass' \subseteq EndOfPass
      BY <2>3 DEF ReturnResult, EndOfPass, Returned
    <3> QED BY <3>1, <3>2
  <2> QED BY <2>1, <2>2, <2>3
<1> QED BY <1>1, <1>2, <1>3, PartsShrink

(* The second pass is at most what was kept for it during the first one.   *)
LEMMA StartApplyPassShrinks ==
  ASSUME PlanInv, TypeOK', StartApplyPass
  PROVE  Shrinks
<1>1. pass = "count" /\ pass' = "apply" /\ main = "closed" /\ left' = NumActions
  BY DEF StartApplyPass, FreshGraph
<1>2. Work' \subseteq AllWork(NumActions)
  <2>1. TypeOK' => (Work \subseteq AllWork(left))'
    BY WorkIsBounded, PTL
  <2>2. AllWork(left)' = AllWork(NumActions)
    BY <1>1 DEF AllWork, ActionsOf
  <2> QED BY <2>1, <2>2
<1>3. WorkLeft' \subseteq {"apply"} \X AllWork(NumActions)
  BY <1>1, <1>2 DEF WorkLeft
<1>4. {"apply"} \X AllWork(NumActions) \subseteq WorkLeft
  BY <1>1 DEF WorkLeft
<1>5. <<"count", <<"pass", "end">>>> \in WorkLeft
  BY <1>1 DEF WorkLeft, Work, EndOfPass, Returned
<1>6. <<"count", <<"pass", "end">>>> \notin WorkLeft'
  BY <1>3
<1> QED BY <1>3, <1>4, <1>5, <1>6 DEF Shrinks

LEMMA NextShrinks == PlanInv /\ ProgressInv /\ TypeOK' /\ Next => UNCHANGED vars \/ Shrinks
BY WorkerShrinks, DispatchShrinks, EndOfPassShrinks, StartApplyPassShrinks
   DEF Next, Main, Terminated

(* Plan.Apply takes finitely many steps, whatever its actions do and in    *)
(* whatever order the goroutines run: each leaves less to be done. As      *)
(* somebody can always go on (NobodyIsStuck), all that Termination still   *)
(* needs is that a goroutine which can go on does.                         *)
THEOREM StepsAreFinite == Spec => StepsRunOut
<1>1. PlanInv /\ ProgressInv /\ PlanInv' /\ [Next]_vars => [StepsLeft' < StepsLeft]_vars
  BY NextShrinks, ShrinkingCounts DEF PlanInv
<1>2. PlanInv => StepsLeft \in Nat
  BY StepsAreCounted DEF PlanInv
<1> QED BY <1>1, <1>2, InitPlanInv, NextPlanInv, InitProgress, NextProgress, PTL
        DEF Spec, StepsRunOut

=============================================================================
