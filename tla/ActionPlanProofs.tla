-------------------------- MODULE ActionPlanProofs --------------------------
(***************************************************************************)
(* Proofs about ActionPlan, for every acyclic or cyclic graph, every       *)
(* number of actions and every size of the semaphore.                      *)
(***************************************************************************)
EXTENDS ActionPlan, FiniteSetTheorems, SequenceTheorems, TLAPS

USE PlanAssumption

(* The sets counted by deg and wg are finite.                              *)
LEMMA CountedSetsFinite ==
  ASSUME NEW S \in SUBSET Node
  PROVE  IsFiniteSet(S) /\ Cardinality(S) \in Nat
BY FS_Subset, FS_CardinalityType

LEMMA QueueOrdersFacts ==
  ASSUME NEW s \in QueueOrders
  PROVE  /\ s \in Seq(Node)
         /\ \A i, j \in DOMAIN s : s[i] = s[j] => i = j
         /\ \A i \in DOMAIN s : s[i] \in Node /\ Before[s[i]] = {}
<1>1. Cardinality(Leaves) \in Nat
  BY CountedSetsFinite DEF Leaves
<1>2. s \in [1..Cardinality(Leaves) -> Leaves]
  BY DEF QueueOrders
<1>3. s \in [1..Cardinality(Leaves) -> Node]
  BY <1>2 DEF Leaves
<1>4. s \in Seq(Node)
  BY <1>1, <1>3, IsASeq
<1>5. \A i, j \in DOMAIN s : s[i] = s[j] => i = j
  BY DEF QueueOrders
<1>6. \A i \in DOMAIN s : s[i] \in Node /\ Before[s[i]] = {}
  BY <1>2 DEF Leaves
<1> QED BY <1>4, <1>5, <1>6

(* What both passes start from.                                            *)
FreshPass ==
  /\ main = "wait" /\ dispatcher = "ranging"
  /\ queue \in QueueOrders
  /\ wg = Cardinality(Node)
  /\ deg = FreshGraph.deg /\ wasError = FreshGraph.wasError /\ pc = FreshGraph.pc
  /\ foundErr = FreshGraph.wasError /\ left = FreshGraph.left
  /\ todo = FreshGraph.todo /\ unflagged = FreshGraph.unflagged
  /\ pass \in {"count", "apply"}
  /\ result \in [success : Nat, failed : Nat, skipped : Nat, total : Nat]
  /\ broken = {}

LEMMA FreshFields ==
  /\ FreshGraph.deg       = [n \in Node |-> Cardinality(Before[n])]
  /\ FreshGraph.wasError  = [n \in Node |-> FALSE]
  /\ FreshGraph.pc        = [n \in Node |-> "waiting"]
  /\ FreshGraph.left      = NumActions
  /\ FreshGraph.todo      = [n \in Node |-> BeforeRev(n)]
  /\ FreshGraph.unflagged = [n \in Node |-> {}]
BY DEF FreshGraph

LEMMA FreshDegree ==
  ASSUME NEW n \in Node
  PROVE  /\ {m \in Before[n] : n \in BeforeRev(m)} = Before[n]
         /\ Before[n] = {} => Cardinality(Before[n]) = 0
         /\ Cardinality(Before[n]) \in Nat
<1>1. {m \in Before[n] : n \in BeforeRev(m)} = Before[n]
  BY DEF BeforeRev
<1>2. Before[n] = {} => Cardinality(Before[n]) = 0
  BY FS_EmptySet
<1>3. Before[n] \in SUBSET Node
  OBVIOUS
<1>4. Cardinality(Before[n]) \in Nat
  BY <1>3, CountedSetsFinite
<1> QED BY <1>1, <1>2, <1>4

-----------------------------------------------------------------------------

LEMMA FreshPassPlanInv == FreshPass => PlanInv
<1> SUFFICES ASSUME FreshPass PROVE PlanInv
  OBVIOUS
<1> USE FreshFields
<1>q. /\ queue \in Seq(Node)
      /\ \A i, j \in DOMAIN queue : queue[i] = queue[j] => i = j
      /\ \A i \in DOMAIN queue : queue[i] \in Node /\ Before[queue[i]] = {}
  BY QueueOrdersFacts DEF FreshPass
<1>c. Cardinality(Node) \in Nat
  BY CountedSetsFinite
<1>1. TypeOK
  <2>1. deg \in [Node -> Nat]
    BY FreshDegree DEF FreshPass
  <2>2. pc \in [Node -> PC] /\ todo \in [Node -> SUBSET Node]
    BY DEF FreshPass, PC, BeforeRev
  <2> QED BY <1>q, <1>c, <2>1, <2>2 DEF FreshPass, TypeOK
<1>2. TodoInv
  BY DEF FreshPass, TodoInv, Ended
<1>3. DegreeInv
  <2>1. ASSUME NEW n \in Node PROVE deg[n] = Cardinality(AwaitedBy(n))
    <3>1. AwaitedBy(n) = {m \in Before[n] : n \in BeforeRev(m)}
      BY DEF FreshPass, AwaitedBy
    <3>2. AwaitedBy(n) = Before[n]
      BY <3>1, FreshDegree
    <3>3. deg[n] = Cardinality(Before[n])
      BY DEF FreshPass
    <3> QED BY <3>2, <3>3
  <2>2. ASSUME NEW n \in Node, n \in Queued \/ pc[n] # "waiting"
        PROVE  deg[n] = 0
    <3>1. n \in Queued
      BY <2>2 DEF FreshPass
    <3>2. Before[n] = {}
      BY <3>1, <1>q DEF Queued
    <3> QED BY <3>2, FreshDegree DEF FreshPass
  <2>3. wg = Cardinality(Running)
    <3>1. Running = Node
      BY DEF FreshPass, Running
    <3> QED BY <3>1 DEF FreshPass
  <2> QED BY <2>1, <2>2, <2>3 DEF DegreeInv
<1>4. QueueSafe
  <2>1. \A n \in Queued : pc[n] = "waiting" /\ deg[n] = 0
    <3> SUFFICES ASSUME NEW n \in Queued PROVE pc[n] = "waiting" /\ deg[n] = 0
      OBVIOUS
    <3>1. n \in Node /\ Before[n] = {}
      BY <1>q DEF Queued
    <3> QED BY <3>1, FreshDegree DEF FreshPass
  <2> QED BY <1>q, <2>1 DEF FreshPass, QueueSafe
<1>5. CauseInv /\ SkipHasCause
  BY DEF FreshPass, CauseInv, SkipHasCause
<1> QED BY <1>1, <1>2, <1>3, <1>4, <1>5 DEF PlanInv

LEMMA InitPlanInv == Init => PlanInv
<1>1. Init => FreshPass
  BY DEF Init, FreshPass, NewResult
<1> QED BY <1>1, FreshPassPlanInv

LEMMA StartApplyPassPlanInv ==
  ASSUME PlanInv, StartApplyPass
  PROVE  PlanInv'
<1>1. broken = {}
  BY DEF PlanInv, TypeOK, CauseInv, StartApplyPass
<1>2. result' \in [success : Nat, failed : Nat, skipped : Nat, total : Nat]
  BY DEF PlanInv, TypeOK, StartApplyPass, NewResult
<1>3. FreshPass'
  BY <1>1, <1>2 DEF StartApplyPass, FreshPass, FreshGraph, QueueOrders, Leaves
<1> QED BY <1>3, FreshPassPlanInv, PTL

-----------------------------------------------------------------------------
(* The steps of a node's goroutine that touch neither degrees nor queue.   *)

LEMMA CountersStayNatural ==
  ASSUME NEW r \in [success : Nat, failed : Nat, skipped : Nat, total : Nat]
  PROVE  /\ [r EXCEPT !.success = @ + 1] \in [success : Nat, failed : Nat, skipped : Nat, total : Nat]
         /\ [r EXCEPT !.failed = @ + 1] \in [success : Nat, failed : Nat, skipped : Nat, total : Nat]
         /\ [r EXCEPT !.skipped = @ + 1] \in [success : Nat, failed : Nat, skipped : Nat, total : Nat]
OBVIOUS

LEMMA ReadWasErrorPlanInv ==
  ASSUME PlanInv, NEW n \in Node, ReadWasError(n)
  PROVE  PlanInv'
<1> USE DEF ReadWasError, control, locals
<1>0. TypeOK /\ TodoInv /\ DegreeInv /\ QueueSafe /\ CauseInv /\ SkipHasCause
  BY DEF PlanInv
<1>1. TypeOK'
  <2>1. foundErr' \in [Node -> BOOLEAN] /\ pc' \in [Node -> PC]
    BY <1>0 DEF TypeOK, TodoInv, PC
  <2> QED BY <1>0, <2>1 DEF TypeOK
<1>2. TodoInv'
  BY <1>0 DEF TypeOK, TodoInv, Ended
<1>3. DegreeInv'
  <2>1. \A k \in Node : AwaitedBy(k)' = AwaitedBy(k)
    BY DEF AwaitedBy
  <2>2. Running' = Running
    BY <1>0 DEF Running, TypeOK
  <2> QED BY <1>0, <2>1, <2>2 DEF DegreeInv, Queued, TypeOK
<1>4. QueueSafe'
  <2>1. n \notin Queued /\ pc[n] # "done"
    BY <1>0 DEF QueueSafe
  <2>2. main' = "wait" /\ Queued' = Queued
    BY <1>0, <2>1 DEF QueueSafe, Queued, TypeOK
  <2>3. \A k \in Queued : pc'[k] = pc[k] /\ deg'[k] = deg[k]
    BY <1>0, <2>1 DEF Queued, TypeOK
  <2> QED BY <1>0, <2>2, <2>3 DEF QueueSafe
<1>5. CauseInv' /\ SkipHasCause'
  <2>1. \A k \in Node : foundErr[k] /\ Ended(k) => foundErr'[k] /\ Ended(k)'
    BY <1>0 DEF Ended, TypeOK
  <2>2. \A k \in Node : foundErr'[k] =>
          k \in broken' \/ \E m \in Before[k] : foundErr'[m] /\ Ended(m)'
    BY <1>0, <2>1 DEF CauseInv, SkipHasCause, TypeOK
  <2>3. \A k \in Node : wasError'[k] =>
          k \in broken' \/ \E m \in Before[k] : foundErr'[m] /\ Ended(m)'
    BY <1>0, <2>1, <2>2 DEF CauseInv, SkipHasCause, TypeOK
  <2>4. \A k \in Node : unflagged'[k] # {} => foundErr'[k] /\ pc'[k] = "releasing"
    BY <1>0 DEF CauseInv, TypeOK
  <2>5. \A k \in Node : unflagged'[k] \subseteq BeforeRev(k)
    BY <1>0 DEF CauseInv
  <2>6. \A k \in broken' :
          pass' = "apply" /\ foundErr'[k] /\ pc'[k] \notin {"waiting", "started"}
    <3>1. \A k \in broken : k \in Node /\ pass = "apply" /\ foundErr[k]
                            /\ pc[k] \notin {"waiting", "started"}
      BY <1>0 DEF CauseInv, TypeOK
    <3>2. pass' = pass /\ broken' \subseteq broken \cup {n}
      OBVIOUS
    <3>3. \A k \in broken : foundErr'[k] /\ pc'[k] \notin {"waiting", "started"}
      BY <1>0, <3>1 DEF TypeOK
    <3>4. n \in broken' => pass = "apply" /\ foundErr'[n] /\ pc'[n] \notin {"waiting", "started"}
      BY <1>0, <3>1, <3>3 DEF TypeOK
    <3> QED BY <3>1, <3>2, <3>3, <3>4
  <2> QED BY <2>2, <2>3, <2>4, <2>5, <2>6 DEF CauseInv, SkipHasCause
<1> QED BY <1>1, <1>2, <1>3, <1>4, <1>5 DEF PlanInv

LEMMA SkipActionPlanInv ==
  ASSUME PlanInv, NEW n \in Node, SkipAction(n)
  PROVE  PlanInv'
<1> USE DEF SkipAction, control, locals
<1>0. TypeOK /\ TodoInv /\ DegreeInv /\ QueueSafe /\ CauseInv /\ SkipHasCause
  BY DEF PlanInv
<1>1. TypeOK'
  <2>1. left' \in [Node -> Nat]
    BY <1>0 DEF TypeOK, TodoInv, PC
  <2>2. result' \in [success : Nat, failed : Nat, skipped : Nat, total : Nat]
    <3>1. result' = [result EXCEPT !.skipped = @ + 1]
      OBVIOUS
    <3>2. result \in [success : Nat, failed : Nat, skipped : Nat, total : Nat]
      BY <1>0 DEF TypeOK
    <3> HIDE DEF SkipAction
    <3> QED BY <3>1, <3>2, CountersStayNatural
  <2> QED BY <1>0, <2>1, <2>2 DEF TypeOK
<1>2. TodoInv'
  BY <1>0 DEF TypeOK, TodoInv, Ended
<1>3. DegreeInv'
  <2>1. \A k \in Node : AwaitedBy(k)' = AwaitedBy(k)
    BY DEF AwaitedBy
  <2>2. Running' = Running
    BY <1>0 DEF Running, TypeOK
  <2> QED BY <1>0, <2>1, <2>2 DEF DegreeInv, Queued, TypeOK
<1>4. QueueSafe'
  <2>1. n \notin Queued /\ pc[n] # "done"
    BY <1>0 DEF QueueSafe
  <2>2. main' = "wait" /\ Queued' = Queued
    BY <1>0, <2>1 DEF QueueSafe, Queued, TypeOK
  <2>3. \A k \in Queued : pc'[k] = pc[k] /\ deg'[k] = deg[k]
    BY <1>0, <2>1 DEF Queued, TypeOK
  <2> QED BY <1>0, <2>2, <2>3 DEF QueueSafe
<1>5. CauseInv' /\ SkipHasCause'
  <2>1. \A k \in Node : foundErr[k] /\ Ended(k) => foundErr'[k] /\ Ended(k)'
    BY <1>0 DEF Ended, TypeOK
  <2>2. \A k \in Node : foundErr'[k] =>
          k \in broken' \/ \E m \in Before[k] : foundErr'[m] /\ Ended(m)'
    BY <1>0, <2>1 DEF CauseInv, SkipHasCause, TypeOK
  <2>3. \A k \in Node : wasError'[k] =>
          k \in broken' \/ \E m \in Before[k] : foundErr'[m] /\ Ended(m)'
    BY <1>0, <2>1, <2>2 DEF CauseInv, SkipHasCause, TypeOK
  <2>4. \A k \in Node : unflagged'[k] # {} => foundErr'[k] /\ pc'[k] = "releasing"
    BY <1>0 DEF CauseInv, TypeOK
  <2>5. \A k \in Node : unflagged'[k] \subseteq BeforeRev(k)
    BY <1>0 DEF CauseInv
  <2>6. \A k \in broken' :
          pass' = "apply" /\ foundErr'[k] /\ pc'[k] \notin {"waiting", "started"}
    <3>1. \A k \in broken : k \in Node /\ pass = "apply" /\ foundErr[k]
                            /\ pc[k] \notin {"waiting", "started"}
      BY <1>0 DEF CauseInv, TypeOK
    <3>2. pass' = pass /\ broken' \subseteq broken \cup {n}
      OBVIOUS
    <3>3. \A k \in broken : foundErr'[k] /\ pc'[k] \notin {"waiting", "started"}
      BY <1>0, <3>1 DEF TypeOK
    <3>4. n \in broken' => pass = "apply" /\ foundErr'[n] /\ pc'[n] \notin {"waiting", "started"}
      BY <1>0, <3>1, <3>3 DEF TypeOK
    <3> QED BY <3>1, <3>2, <3>3, <3>4
  <2> QED BY <2>2, <2>3, <2>4, <2>5, <2>6 DEF CauseInv, SkipHasCause
<1> QED BY <1>1, <1>2, <1>3, <1>4, <1>5 DEF PlanInv

LEMMA CountActionPlanInv ==
  ASSUME PlanInv, NEW n \in Node, CountAction(n)
  PROVE  PlanInv'
<1> USE DEF CountAction, control, locals
<1>0. TypeOK /\ TodoInv /\ DegreeInv /\ QueueSafe /\ CauseInv /\ SkipHasCause
  BY DEF PlanInv
<1>1. TypeOK'
  <2>1. left' \in [Node -> Nat]
    BY <1>0 DEF TypeOK, TodoInv, PC
  <2>2. result' \in [success : Nat, failed : Nat, skipped : Nat, total : Nat]
    <3>1. result' = [result EXCEPT !.success = @ + 1]
      OBVIOUS
    <3>2. result \in [success : Nat, failed : Nat, skipped : Nat, total : Nat]
      BY <1>0 DEF TypeOK
    <3> HIDE DEF CountAction
    <3> QED BY <3>1, <3>2, CountersStayNatural
  <2> QED BY <1>0, <2>1, <2>2 DEF TypeOK
<1>2. TodoInv'
  BY <1>0 DEF TypeOK, TodoInv, Ended
<1>3. DegreeInv'
  <2>1. \A k \in Node : AwaitedBy(k)' = AwaitedBy(k)
    BY DEF AwaitedBy
  <2>2. Running' = Running
    BY <1>0 DEF Running, TypeOK
  <2> QED BY <1>0, <2>1, <2>2 DEF DegreeInv, Queued, TypeOK
<1>4. QueueSafe'
  <2>1. n \notin Queued /\ pc[n] # "done"
    BY <1>0 DEF QueueSafe
  <2>2. main' = "wait" /\ Queued' = Queued
    BY <1>0, <2>1 DEF QueueSafe, Queued, TypeOK
  <2>3. \A k \in Queued : pc'[k] = pc[k] /\ deg'[k] = deg[k]
    BY <1>0, <2>1 DEF Queued, TypeOK
  <2> QED BY <1>0, <2>2, <2>3 DEF QueueSafe
<1>5. CauseInv' /\ SkipHasCause'
  <2>1. \A k \in Node : foundErr[k] /\ Ended(k) => foundErr'[k] /\ Ended(k)'
    BY <1>0 DEF Ended, TypeOK
  <2>2. \A k \in Node : foundErr'[k] =>
          k \in broken' \/ \E m \in Before[k] : foundErr'[m] /\ Ended(m)'
    BY <1>0, <2>1 DEF CauseInv, SkipHasCause, TypeOK
  <2>3. \A k \in Node : wasError'[k] =>
          k \in broken' \/ \E m \in Before[k] : foundErr'[m] /\ Ended(m)'
    BY <1>0, <2>1, <2>2 DEF CauseInv, SkipHasCause, TypeOK
  <2>4. \A k \in Node : unflagged'[k] # {} => foundErr'[k] /\ pc'[k] = "releasing"
    BY <1>0 DEF CauseInv, TypeOK
  <2>5. \A k \in Node : unflagged'[k] \subseteq BeforeRev(k)
    BY <1>0 DEF CauseInv
  <2>6. \A k \in broken' :
          pass' = "apply" /\ foundErr'[k] /\ pc'[k] \notin {"waiting", "started"}
    <3>1. \A k \in broken : k \in Node /\ pass = "apply" /\ foundErr[k]
                            /\ pc[k] \notin {"waiting", "started"}
      BY <1>0 DEF CauseInv, TypeOK
    <3>2. pass' = pass /\ broken' \subseteq broken \cup {n}
      OBVIOUS
    <3>3. \A k \in broken : foundErr'[k] /\ pc'[k] \notin {"waiting", "started"}
      BY <1>0, <3>1 DEF TypeOK
    <3>4. n \in broken' => pass = "apply" /\ foundErr'[n] /\ pc'[n] \notin {"waiting", "started"}
      BY <1>0, <3>1, <3>3 DEF TypeOK
    <3> QED BY <3>1, <3>2, <3>3, <3>4
  <2> QED BY <2>2, <2>3, <2>4, <2>5, <2>6 DEF CauseInv, SkipHasCause
<1> QED BY <1>1, <1>2, <1>3, <1>4, <1>5 DEF PlanInv

LEMMA AcquireSemaphorePlanInv ==
  ASSUME PlanInv, NEW n \in Node, AcquireSemaphore(n)
  PROVE  PlanInv'
<1> USE DEF AcquireSemaphore, control, locals
<1>0. TypeOK /\ TodoInv /\ DegreeInv /\ QueueSafe /\ CauseInv /\ SkipHasCause
  BY DEF PlanInv
<1>1. TypeOK'
  <2>1. pc' \in [Node -> PC]
    BY <1>0 DEF TypeOK, TodoInv, PC
  <2> QED BY <1>0, <2>1 DEF TypeOK
<1>2. TodoInv'
  BY <1>0 DEF TypeOK, TodoInv, Ended
<1>3. DegreeInv'
  <2>1. \A k \in Node : AwaitedBy(k)' = AwaitedBy(k)
    BY DEF AwaitedBy
  <2>2. Running' = Running
    BY <1>0 DEF Running, TypeOK
  <2> QED BY <1>0, <2>1, <2>2 DEF DegreeInv, Queued, TypeOK
<1>4. QueueSafe'
  <2>1. n \notin Queued /\ pc[n] # "done"
    BY <1>0 DEF QueueSafe
  <2>2. main' = "wait" /\ Queued' = Queued
    BY <1>0, <2>1 DEF QueueSafe, Queued, TypeOK
  <2>3. \A k \in Queued : pc'[k] = pc[k] /\ deg'[k] = deg[k]
    BY <1>0, <2>1 DEF Queued, TypeOK
  <2> QED BY <1>0, <2>2, <2>3 DEF QueueSafe
<1>5. CauseInv' /\ SkipHasCause'
  <2>1. \A k \in Node : foundErr[k] /\ Ended(k) => foundErr'[k] /\ Ended(k)'
    BY <1>0 DEF Ended, TypeOK
  <2>2. \A k \in Node : foundErr'[k] =>
          k \in broken' \/ \E m \in Before[k] : foundErr'[m] /\ Ended(m)'
    BY <1>0, <2>1 DEF CauseInv, SkipHasCause, TypeOK
  <2>3. \A k \in Node : wasError'[k] =>
          k \in broken' \/ \E m \in Before[k] : foundErr'[m] /\ Ended(m)'
    BY <1>0, <2>1, <2>2 DEF CauseInv, SkipHasCause, TypeOK
  <2>4. \A k \in Node : unflagged'[k] # {} => foundErr'[k] /\ pc'[k] = "releasing"
    BY <1>0 DEF CauseInv, TypeOK
  <2>5. \A k \in Node : unflagged'[k] \subseteq BeforeRev(k)
    BY <1>0 DEF CauseInv
  <2>6. \A k \in broken' :
          pass' = "apply" /\ foundErr'[k] /\ pc'[k] \notin {"waiting", "started"}
    <3>1. \A k \in broken : k \in Node /\ pass = "apply" /\ foundErr[k]
                            /\ pc[k] \notin {"waiting", "started"}
      BY <1>0 DEF CauseInv, TypeOK
    <3>2. pass' = pass /\ broken' \subseteq broken \cup {n}
      OBVIOUS
    <3>3. \A k \in broken : foundErr'[k] /\ pc'[k] \notin {"waiting", "started"}
      BY <1>0, <3>1 DEF TypeOK
    <3>4. n \in broken' => pass = "apply" /\ foundErr'[n] /\ pc'[n] \notin {"waiting", "started"}
      BY <1>0, <3>1, <3>3 DEF TypeOK
    <3> QED BY <3>1, <3>2, <3>3, <3>4
  <2> QED BY <2>2, <2>3, <2>4, <2>5, <2>6 DEF CauseInv, SkipHasCause
<1> QED BY <1>1, <1>2, <1>3, <1>4, <1>5 DEF PlanInv

LEMMA ActionSucceedsPlanInv ==
  ASSUME PlanInv, NEW n \in Node, ActionSucceeds(n)
  PROVE  PlanInv'
<1> USE DEF ActionSucceeds, control, locals
<1>0. TypeOK /\ TodoInv /\ DegreeInv /\ QueueSafe /\ CauseInv /\ SkipHasCause
  BY DEF PlanInv
<1>1. TypeOK'
  <2>1. left' \in [Node -> Nat] /\ pc' \in [Node -> PC]
    BY <1>0 DEF TypeOK, TodoInv, PC
  <2>2. result' \in [success : Nat, failed : Nat, skipped : Nat, total : Nat]
    <3>1. result' = [result EXCEPT !.success = @ + 1]
      OBVIOUS
    <3>2. result \in [success : Nat, failed : Nat, skipped : Nat, total : Nat]
      BY <1>0 DEF TypeOK
    <3> HIDE DEF ActionSucceeds
    <3> QED BY <3>1, <3>2, CountersStayNatural
  <2> QED BY <1>0, <2>1, <2>2 DEF TypeOK
<1>2. TodoInv'
  BY <1>0 DEF TypeOK, TodoInv, Ended
<1>3. DegreeInv'
  <2>1. \A k \in Node : AwaitedBy(k)' = AwaitedBy(k)
    BY DEF AwaitedBy
  <2>2. Running' = Running
    BY <1>0 DEF Running, TypeOK
  <2> QED BY <1>0, <2>1, <2>2 DEF DegreeInv, Queued, TypeOK
<1>4. QueueSafe'
  <2>1. n \notin Queued /\ pc[n] # "done"
    BY <1>0 DEF QueueSafe
  <2>2. main' = "wait" /\ Queued' = Queued
    BY <1>0, <2>1 DEF QueueSafe, Queued, TypeOK
  <2>3. \A k \in Queued : pc'[k] = pc[k] /\ deg'[k] = deg[k]
    BY <1>0, <2>1 DEF Queued, TypeOK
  <2> QED BY <1>0, <2>2, <2>3 DEF QueueSafe
<1>5. CauseInv' /\ SkipHasCause'
  <2>1. \A k \in Node : foundErr[k] /\ Ended(k) => foundErr'[k] /\ Ended(k)'
    BY <1>0 DEF Ended, TypeOK
  <2>2. \A k \in Node : foundErr'[k] =>
          k \in broken' \/ \E m \in Before[k] : foundErr'[m] /\ Ended(m)'
    BY <1>0, <2>1 DEF CauseInv, SkipHasCause, TypeOK
  <2>3. \A k \in Node : wasError'[k] =>
          k \in broken' \/ \E m \in Before[k] : foundErr'[m] /\ Ended(m)'
    BY <1>0, <2>1, <2>2 DEF CauseInv, SkipHasCause, TypeOK
  <2>4. \A k \in Node : unflagged'[k] # {} => foundErr'[k] /\ pc'[k] = "releasing"
    BY <1>0 DEF CauseInv, TypeOK
  <2>5. \A k \in Node : unflagged'[k] \subseteq BeforeRev(k)
    BY <1>0 DEF CauseInv
  <2>6. \A k \in broken' :
          pass' = "apply" /\ foundErr'[k] /\ pc'[k] \notin {"waiting", "started"}
    <3>1. \A k \in broken : k \in Node /\ pass = "apply" /\ foundErr[k]
                            /\ pc[k] \notin {"waiting", "started"}
      BY <1>0 DEF CauseInv, TypeOK
    <3>2. pass' = pass /\ broken' \subseteq broken \cup {n}
      OBVIOUS
    <3>3. \A k \in broken : foundErr'[k] /\ pc'[k] \notin {"waiting", "started"}
      BY <1>0, <3>1 DEF TypeOK
    <3>4. n \in broken' => pass = "apply" /\ foundErr'[n] /\ pc'[n] \notin {"waiting", "started"}
      BY <1>0, <3>1, <3>3 DEF TypeOK
    <3> QED BY <3>1, <3>2, <3>3, <3>4
  <2> QED BY <2>2, <2>3, <2>4, <2>5, <2>6 DEF CauseInv, SkipHasCause
<1> QED BY <1>1, <1>2, <1>3, <1>4, <1>5 DEF PlanInv

LEMMA ActionFailsPlanInv ==
  ASSUME PlanInv, NEW n \in Node, ActionFails(n)
  PROVE  PlanInv'
<1> USE DEF ActionFails, control, locals
<1>0. TypeOK /\ TodoInv /\ DegreeInv /\ QueueSafe /\ CauseInv /\ SkipHasCause
  BY DEF PlanInv
<1>1. TypeOK'
  <2>1. left' \in [Node -> Nat] /\ pc' \in [Node -> PC]
    BY <1>0 DEF TypeOK, TodoInv, PC
  <2>2. result' \in [success : Nat, failed : Nat, skipped : Nat, total : Nat]
    <3>1. result' = [result EXCEPT !.failed = @ + 1]
      OBVIOUS
    <3>2. result \in [success : Nat, failed : Nat, skipped : Nat, total : Nat]
      BY <1>0 DEF TypeOK
    <3> HIDE DEF ActionFails
    <3> QED BY <3>1, <3>2, CountersStayNatural
  <2>3. foundErr' \in [Node -> BOOLEAN] /\ broken' \subseteq Node
    BY <1>0 DEF TypeOK
  <2> QED BY <1>0, <2>1, <2>2, <2>3 DEF TypeOK
<1>2. TodoInv'
  BY <1>0 DEF TypeOK, TodoInv, Ended
<1>3. DegreeInv'
  <2>1. \A k \in Node : AwaitedBy(k)' = AwaitedBy(k)
    BY DEF AwaitedBy
  <2>2. Running' = Running
    BY <1>0 DEF Running, TypeOK
  <2> QED BY <1>0, <2>1, <2>2 DEF DegreeInv, Queued, TypeOK
<1>4. QueueSafe'
  <2>1. n \notin Queued /\ pc[n] # "done"
    BY <1>0 DEF QueueSafe
  <2>2. main' = "wait" /\ Queued' = Queued
    BY <1>0, <2>1 DEF QueueSafe, Queued, TypeOK
  <2>3. \A k \in Queued : pc'[k] = pc[k] /\ deg'[k] = deg[k]
    BY <1>0, <2>1 DEF Queued, TypeOK
  <2> QED BY <1>0, <2>2, <2>3 DEF QueueSafe
<1>5. CauseInv' /\ SkipHasCause'
  <2>1. \A k \in Node : foundErr[k] /\ Ended(k) => foundErr'[k] /\ Ended(k)'
    BY <1>0 DEF Ended, TypeOK
  <2>2. \A k \in Node : foundErr'[k] =>
          k \in broken' \/ \E m \in Before[k] : foundErr'[m] /\ Ended(m)'
    BY <1>0, <2>1 DEF CauseInv, SkipHasCause, TypeOK
  <2>3. \A k \in Node : wasError'[k] =>
          k \in broken' \/ \E m \in Before[k] : foundErr'[m] /\ Ended(m)'
    BY <1>0, <2>1, <2>2 DEF CauseInv, SkipHasCause, TypeOK
  <2>4. \A k \in Node : unflagged'[k] # {} => foundErr'[k] /\ pc'[k] = "releasing"
    BY <1>0 DEF CauseInv, TypeOK
  <2>5. \A k \in Node : unflagged'[k] \subseteq BeforeRev(k)
    BY <1>0 DEF CauseInv
  <2>6. \A k \in broken' :
          pass' = "apply" /\ foundErr'[k] /\ pc'[k] \notin {"waiting", "started"}
    <3>1. \A k \in broken : k \in Node /\ pass = "apply" /\ foundErr[k]
                            /\ pc[k] \notin {"waiting", "started"}
      BY <1>0 DEF CauseInv, TypeOK
    <3>2. pass' = pass /\ broken' \subseteq broken \cup {n}
      OBVIOUS
    <3>3. \A k \in broken : foundErr'[k] /\ pc'[k] \notin {"waiting", "started"}
      BY <1>0, <3>1 DEF TypeOK
    <3>4. n \in broken' => pass = "apply" /\ foundErr'[n] /\ pc'[n] \notin {"waiting", "started"}
      BY <1>0, <3>1, <3>3 DEF TypeOK, TodoInv
    <3> QED BY <3>1, <3>2, <3>3, <3>4
  <2> QED BY <2>2, <2>3, <2>4, <2>5, <2>6 DEF CauseInv, SkipHasCause
<1> QED BY <1>1, <1>2, <1>3, <1>4, <1>5 DEF PlanInv

LEMMA MarkOwnErrorPlanInv ==
  ASSUME PlanInv, NEW n \in Node, MarkOwnError(n)
  PROVE  PlanInv'
<1> USE DEF MarkOwnError, control, locals
<1>0. TypeOK /\ TodoInv /\ DegreeInv /\ QueueSafe /\ CauseInv /\ SkipHasCause
  BY DEF PlanInv
<1>1. TypeOK'
  <2>1. wasError' \in [Node -> BOOLEAN] /\ pc' \in [Node -> PC]
    BY <1>0 DEF TypeOK, TodoInv, PC
  <2> QED BY <1>0, <2>1 DEF TypeOK
<1>2. TodoInv'
  BY <1>0 DEF TypeOK, TodoInv, Ended
<1>3. DegreeInv'
  <2>1. \A k \in Node : AwaitedBy(k)' = AwaitedBy(k)
    BY DEF AwaitedBy
  <2>2. Running' = Running
    BY <1>0 DEF Running, TypeOK
  <2> QED BY <1>0, <2>1, <2>2 DEF DegreeInv, Queued, TypeOK
<1>4. QueueSafe'
  <2>1. n \notin Queued /\ pc[n] # "done"
    BY <1>0 DEF QueueSafe
  <2>2. main' = "wait" /\ Queued' = Queued
    BY <1>0, <2>1 DEF QueueSafe, Queued, TypeOK
  <2>3. \A k \in Queued : pc'[k] = pc[k] /\ deg'[k] = deg[k]
    BY <1>0, <2>1 DEF Queued, TypeOK
  <2> QED BY <1>0, <2>2, <2>3 DEF QueueSafe
<1>5. CauseInv' /\ SkipHasCause'
  <2>1. \A k \in Node : foundErr[k] /\ Ended(k) => foundErr'[k] /\ Ended(k)'
    BY <1>0 DEF Ended, TypeOK
  <2>2. \A k \in Node : foundErr'[k] =>
          k \in broken' \/ \E m \in Before[k] : foundErr'[m] /\ Ended(m)'
    BY <1>0, <2>1 DEF CauseInv, SkipHasCause, TypeOK
  <2>3. \A k \in Node : wasError'[k] =>
          k \in broken' \/ \E m \in Before[k] : foundErr'[m] /\ Ended(m)'
    BY <1>0, <2>1, <2>2 DEF CauseInv, SkipHasCause, TypeOK
  <2>4. \A k \in Node : unflagged'[k] # {} => foundErr'[k] /\ pc'[k] = "releasing"
    BY <1>0 DEF CauseInv, TypeOK
  <2>5. \A k \in Node : unflagged'[k] \subseteq BeforeRev(k)
    BY <1>0 DEF CauseInv
  <2>6. \A k \in broken' :
          pass' = "apply" /\ foundErr'[k] /\ pc'[k] \notin {"waiting", "started"}
    <3>1. \A k \in broken : k \in Node /\ pass = "apply" /\ foundErr[k]
                            /\ pc[k] \notin {"waiting", "started"}
      BY <1>0 DEF CauseInv, TypeOK
    <3>2. pass' = pass /\ broken' \subseteq broken \cup {n}
      OBVIOUS
    <3>3. \A k \in broken : foundErr'[k] /\ pc'[k] \notin {"waiting", "started"}
      BY <1>0, <3>1 DEF TypeOK
    <3>4. n \in broken' => pass = "apply" /\ foundErr'[n] /\ pc'[n] \notin {"waiting", "started"}
      BY <1>0, <3>1, <3>3 DEF TypeOK
    <3> QED BY <3>1, <3>2, <3>3, <3>4
  <2> QED BY <2>2, <2>3, <2>4, <2>5, <2>6 DEF CauseInv, SkipHasCause
<1> QED BY <1>1, <1>2, <1>3, <1>4, <1>5 DEF PlanInv

-----------------------------------------------------------------------------
(* The steps that move a node through the queue and release its dependents.*)

LEMMA QueuedNodes ==
  ASSUME queue \in Seq(Node)
  PROVE  Queued \subseteq Node /\ DOMAIN queue = 1..Len(queue) /\ Len(queue) \in Nat
<1>1. DOMAIN queue = 1..Len(queue) /\ Len(queue) \in Nat
  BY LenProperties
<1>2. \A i \in 1..Len(queue) : queue[i] \in Node
  BY ElementOfSeq
<1> QED BY <1>1, <1>2 DEF Queued

LEMMA DispatchPlanInv ==
  ASSUME PlanInv, Dispatch
  PROVE  PlanInv'
<1> DEFINE n == Head(queue)
<1> USE DEF Dispatch, control, locals
<1>0. TypeOK /\ TodoInv /\ DegreeInv /\ QueueSafe /\ CauseInv /\ SkipHasCause
  BY DEF PlanInv
<1>q. /\ n \in Node /\ Tail(queue) \in Seq(Node)
      /\ Len(queue) \in Nat /\ Len(queue) > 0 /\ n = queue[1]
      /\ Len(Tail(queue)) = Len(queue) - 1
      /\ \A i \in 1..Len(Tail(queue)) : Tail(queue)[i] = queue[i + 1]
  BY <1>0, HeadTailProperties, EmptySeq, LenProperties DEF TypeOK
<1>d. DOMAIN queue = 1..Len(queue) /\ DOMAIN Tail(queue) = 1..Len(Tail(queue))
  BY <1>0, <1>q, LenProperties DEF TypeOK
<1>n. pc[n] = "waiting" /\ deg[n] = 0 /\ n \in Queued /\ main = "wait"
  <2>1. n \in Queued
    BY <1>q, <1>d DEF Queued
  <2> QED BY <2>1, <1>0 DEF QueueSafe
<1>s. Queued' = Queued \ {n}
  <2>1. \A i, j \in 1..Len(queue) : queue[i] = queue[j] => i = j
    BY <1>0, <1>d DEF QueueSafe
  <2>2. ASSUME NEW x \in Queued' PROVE x \in Queued /\ x # n
    <3>1. PICK i \in 1..Len(Tail(queue)) : x = Tail(queue)[i]
      BY <1>d, <2>2 DEF Queued
    <3>2. x = queue[i + 1] /\ i + 1 \in 1..Len(queue) /\ i + 1 # 1
      BY <3>1, <1>q
    <3> QED BY <3>2, <2>1, <1>q, <1>d DEF Queued
  <2>3. ASSUME NEW x \in Queued, x # n PROVE x \in Queued'
    <3>1. PICK i \in 1..Len(queue) : x = queue[i]
      BY <1>d, <2>3 DEF Queued
    <3>2. i # 1
      BY <3>1, <2>3, <1>q
    <3>3. i - 1 \in 1..Len(Tail(queue)) /\ x = Tail(queue)[i - 1]
      BY <3>1, <3>2, <1>q
    <3>4. i - 1 \in DOMAIN queue' /\ x = queue'[i - 1]
      BY <3>3, <1>d
    <3> QED BY <3>4 DEF Queued
  <2> QED BY <2>2, <2>3
<1>1. TypeOK'
  <2>1. pc' \in [Node -> PC]
    BY <1>0, <1>q DEF TypeOK, PC
  <2> QED BY <1>0, <1>q, <2>1 DEF TypeOK
<1>2. TodoInv'
  BY <1>0, <1>n, <1>q DEF TypeOK, TodoInv, Ended
<1>3. DegreeInv'
  <2>1. \A k \in Node : AwaitedBy(k)' = AwaitedBy(k)
    BY DEF AwaitedBy
  <2>2. Running' = Running
    BY <1>0, <1>n, <1>q DEF Running, TypeOK
  <2>3. \A k \in Node : k \in Queued' \/ pc'[k] # "waiting" => deg[k] = 0
    BY <1>0, <1>n, <1>q, <1>s DEF DegreeInv, TypeOK
  <2> QED BY <1>0, <2>1, <2>2, <2>3 DEF DegreeInv
<1>4. QueueSafe'
  <2>1. \A i, j \in DOMAIN queue' : queue'[i] = queue'[j] => i = j
    <3> SUFFICES ASSUME NEW i \in 1..Len(Tail(queue)), NEW j \in 1..Len(Tail(queue)),
                        Tail(queue)[i] = Tail(queue)[j]
                 PROVE  i = j
      BY <1>d
    <3>1. queue[i + 1] = queue[j + 1] /\ i + 1 \in DOMAIN queue /\ j + 1 \in DOMAIN queue
      BY <1>q, <1>d
    <3>2. i + 1 = j + 1
      BY <3>1, <1>0 DEF QueueSafe
    <3> QED BY <3>2
  <2>2. \A k \in Queued' : pc'[k] = "waiting" /\ deg'[k] = 0
    <3> SUFFICES ASSUME NEW k \in Queued' PROVE pc'[k] = "waiting" /\ deg[k] = 0
      OBVIOUS
    <3>1. k \in Queued /\ k # n
      BY <1>s
    <3> QED BY <3>1, <1>0 DEF QueueSafe, TypeOK
  <2> QED BY <2>1, <2>2, <1>n DEF QueueSafe
<1>5. CauseInv'
  <2>1. \A k \in Node : Ended(k) => Ended(k)'
    BY <1>0, <1>n DEF Ended, TypeOK
  <2>2. n \notin broken /\ unflagged[n] = {}
    BY <1>0, <1>n, <1>q DEF CauseInv
  <2>3. \A k \in Node : k # n => pc'[k] = pc[k]
    BY <1>0 DEF TypeOK
  <2> QED BY <1>0, <2>1, <2>2, <2>3, <1>q DEF CauseInv, TypeOK
<1>6. SkipHasCause'
  BY <1>0, <1>n DEF SkipHasCause, Ended, TypeOK
<1> QED BY <1>1, <1>2, <1>3, <1>4, <1>5, <1>6 DEF PlanInv

LEMMA DecrementDependentPlanInv ==
  ASSUME PlanInv, NEW n \in Node, NEW m \in Node, DecrementDependent(n, m)
  PROVE  PlanInv'
<1> USE DEF DecrementDependent, control
<1>0. TypeOK /\ TodoInv /\ DegreeInv /\ QueueSafe /\ CauseInv /\ SkipHasCause
  BY DEF PlanInv
<1>m. /\ n \in Before[m] /\ n \in AwaitedBy(m) /\ main = "wait"
      /\ pc[n] = "releasing"
  <2>1. m \in BeforeRev(n)
    BY <1>0 DEF TodoInv
  <2> QED BY <1>0, <2>1 DEF AwaitedBy, BeforeRev, QueueSafe
<1>f. \A k \in Node : IsFiniteSet(AwaitedBy(k)) /\ Cardinality(AwaitedBy(k)) \in Nat
  <2> TAKE k \in Node
  <2>1. AwaitedBy(k) \in SUBSET Node
    BY DEF AwaitedBy
  <2> QED BY <2>1, CountedSetsFinite
<1>d. deg[m] # 0 /\ deg[m] = Cardinality(AwaitedBy(m))
  BY <1>0, <1>m, <1>f, FS_EmptySet DEF DegreeInv
<1>w. m \notin Queued /\ pc[m] = "waiting" /\ m # n
  BY <1>0, <1>d, <1>m DEF DegreeInv
<1>a. /\ AwaitedBy(m)' = AwaitedBy(m) \ {n}
      /\ \A k \in Node : k # m => AwaitedBy(k)' = AwaitedBy(k)
  BY <1>0 DEF AwaitedBy, TypeOK
<1>e. /\ deg'[m] = deg[m] - 1 /\ deg'[m] = Cardinality(AwaitedBy(m)')
      /\ \A k \in Node : k # m => deg'[k] = deg[k]
      /\ deg'[m] \in Nat
  <2>1. deg'[m] = deg[m] - 1 /\ \A k \in Node : k # m => deg'[k] = deg[k]
    BY <1>0 DEF TypeOK
  <2>2. Cardinality(AwaitedBy(m) \ {n}) = Cardinality(AwaitedBy(m)) - 1
    BY <1>f, <1>m, FS_RemoveElement
  <2>3. deg[m] \in Nat
    BY <1>0 DEF TypeOK
  <2> QED BY <2>1, <2>2, <2>3, <1>a, <1>d
<1>q. /\ queue' \in Seq(Node)
      /\ Queued' \subseteq Queued \cup {m}
      /\ m \in Queued' => deg'[m] = 0
      /\ \A i, j \in DOMAIN queue' : queue'[i] = queue'[j] => i = j
  <2>1. CASE deg'[m] # 0
    <3>1. queue' = queue /\ Queued' = Queued
      BY <2>1 DEF Queued
    <3> QED BY <1>0, <3>1, <1>w DEF TypeOK, QueueSafe
  <2>2. CASE deg'[m] = 0
    <3>1. /\ queue' = Append(queue, m) /\ queue' \in Seq(Node)
          /\ Len(queue') = Len(queue) + 1 /\ Len(queue) \in Nat
          /\ \A i \in 1..Len(queue) : queue'[i] = queue[i]
          /\ queue'[Len(queue) + 1] = m
      BY <2>2, <1>0, AppendProperties, LenProperties DEF TypeOK
    <3>2. DOMAIN queue = 1..Len(queue) /\ DOMAIN queue' = 1..(Len(queue) + 1)
      BY <3>1, <1>0, LenProperties DEF TypeOK
    <3>3. Queued' \subseteq Queued \cup {m}
      <4> SUFFICES ASSUME NEW i \in DOMAIN queue' PROVE queue'[i] \in Queued \cup {m}
        BY DEF Queued
      <4>1. i \in 1..Len(queue) \/ i = Len(queue) + 1
        BY <3>1, <3>2
      <4> QED BY <4>1, <3>1, <3>2 DEF Queued
    <3>4. ASSUME NEW i \in DOMAIN queue', NEW j \in DOMAIN queue', queue'[i] = queue'[j]
          PROVE  i = j
      <4>1. \A k \in 1..Len(queue) : queue[k] # m
        BY <1>w, <3>2 DEF Queued
      <4>2. \A k \in DOMAIN queue' : k \in 1..Len(queue) \/ k = Len(queue) + 1
        BY <3>1, <3>2
      <4>3. CASE i \in 1..Len(queue) /\ j \in 1..Len(queue)
        BY <4>3, <3>1, <3>2, <3>4, <1>0 DEF QueueSafe
      <4> QED BY <4>1, <4>2, <4>3, <3>1, <3>4
    <3> QED BY <2>2, <3>1, <3>3, <3>4
  <2> QED BY <2>1, <2>2
<1>1. TypeOK'
  <2>1. deg' \in [Node -> Nat]
    BY <1>0, <1>e DEF TypeOK
  <2>2. todo' \in [Node -> SUBSET Node] /\ unflagged' \in [Node -> SUBSET Node]
    BY <1>0 DEF TypeOK
  <2> QED BY <1>0, <1>q, <2>1, <2>2 DEF TypeOK
<1>2. TodoInv'
  <2>1. todo'[n] = todo[n] \ {m} /\ \A k \in Node : k # n => todo'[k] = todo[k]
    BY <1>0 DEF TypeOK
  <2> QED BY <1>0, <2>1, <1>m DEF TodoInv, Ended, BeforeRev
<1>3. DegreeInv'
  <2>1. \A k \in Node : deg'[k] = Cardinality(AwaitedBy(k)')
    BY <1>0, <1>a, <1>e DEF DegreeInv
  <2>2. \A k \in Node : k \in Queued' \/ pc'[k] # "waiting" => deg'[k] = 0
    BY <1>0, <1>q, <1>e, <1>w DEF DegreeInv
  <2>3. Running' = Running
    BY DEF Running
  <2> QED BY <1>0, <2>1, <2>2, <2>3 DEF DegreeInv
<1>4. QueueSafe'
  <2>1. \A k \in Queued' : pc'[k] = "waiting" /\ deg'[k] = 0
    <3> TAKE k \in Queued'
    <3>1. CASE k = m
      BY <3>1, <1>q, <1>w
    <3>2. CASE k # m
      <4>1. k \in Queued /\ k \in Node
        BY <3>2, <1>q, <1>0, QueuedNodes DEF TypeOK
      <4> QED BY <4>1, <3>2, <1>0, <1>e DEF QueueSafe
    <3> QED BY <3>1, <3>2
  <2> QED BY <1>q, <1>m, <2>1 DEF QueueSafe
<1>5. CauseInv' /\ SkipHasCause'
  <2>1. \A k \in Node : unflagged'[k] = IF k = n /\ foundErr[n] THEN {m}
                                         ELSE IF k = n THEN {} ELSE unflagged[k]
    BY <1>0 DEF TypeOK
  <2>2. \A k \in Node : unflagged'[k] # {} => foundErr[k] /\ pc[k] = "releasing"
    BY <1>0, <2>1 DEF CauseInv
  <2>3. \A k \in Node : unflagged'[k] \subseteq BeforeRev(k)
    BY <1>0, <2>1, <1>m DEF CauseInv, BeforeRev
  <2> QED BY <1>0, <2>2, <2>3 DEF CauseInv, SkipHasCause, Ended, BeforeRev
<1> QED BY <1>1, <1>2, <1>3, <1>4, <1>5 DEF PlanInv

LEMMA FlagDependentPlanInv ==
  ASSUME PlanInv, NEW n \in Node, NEW m \in Node, FlagDependent(n, m)
  PROVE  PlanInv'
<1> USE DEF FlagDependent, control
<1>0. TypeOK /\ TodoInv /\ DegreeInv /\ QueueSafe /\ CauseInv /\ SkipHasCause
  BY DEF PlanInv
<1>1. TypeOK'
  BY <1>0 DEF TypeOK
<1>2. TodoInv' /\ QueueSafe'
  BY <1>0 DEF TodoInv, QueueSafe, Ended, Queued, BeforeRev
<1>3. DegreeInv'
  <2>1. Running' = Running /\ Queued' = Queued
    BY DEF Running, Queued
  <2>2. \A k \in Node : AwaitedBy(k)' = AwaitedBy(k)
    BY DEF AwaitedBy
  <2> QED BY <1>0, <2>1, <2>2 DEF DegreeInv
<1>4. CauseInv' /\ SkipHasCause'
  <2>1. n \in Before[m] /\ foundErr[n] /\ Ended(n)
    BY <1>0 DEF CauseInv, BeforeRev, Ended, TypeOK
  <2>2. \A k \in Node : wasError'[k] =>
          k \in broken \/ \E x \in Before[k] : foundErr[x] /\ Ended(x)
    BY <1>0, <2>1 DEF CauseInv, TypeOK
  <2>3. \A k \in Node : unflagged'[k] = IF k = n THEN {} ELSE unflagged[k]
    BY <1>0 DEF TypeOK
  <2> QED BY <1>0, <2>2, <2>3 DEF CauseInv, SkipHasCause, Ended, BeforeRev
<1> QED BY <1>1, <1>2, <1>3, <1>4 DEF PlanInv

LEMMA WorkerDonePlanInv ==
  ASSUME PlanInv, NEW n \in Node, WorkerDone(n)
  PROVE  PlanInv'
<1> USE DEF WorkerDone, control, locals
<1>0. TypeOK /\ TodoInv /\ DegreeInv /\ QueueSafe /\ CauseInv /\ SkipHasCause
  BY DEF PlanInv
<1>w. wg' = Cardinality(Running') /\ wg' \in Nat
  <2>1. Running' = Running \ {n} /\ n \in Running /\ Running \in SUBSET Node
    BY <1>0 DEF Running, TypeOK
  <2>2. IsFiniteSet(Running) /\ Running' \in SUBSET Node
    BY <2>1, CountedSetsFinite
  <2>3. Cardinality(Running') = Cardinality(Running) - 1
    BY <2>1, <2>2, FS_RemoveElement
  <2>4. Cardinality(Running') \in Nat
    BY <2>2, CountedSetsFinite
  <2> QED BY <1>0, <2>3, <2>4 DEF DegreeInv
<1>1. TypeOK'
  <2>1. pc' \in [Node -> PC]
    BY <1>0 DEF TypeOK, PC
  <2> QED BY <1>0, <1>w, <2>1 DEF TypeOK
<1>2. TodoInv'
  BY <1>0 DEF TypeOK, TodoInv, Ended
<1>n. n \notin Queued /\ Queued' = Queued /\ main = "wait"
  BY <1>0 DEF QueueSafe, Queued
<1>3. DegreeInv'
  <2>1. \A k \in Node : AwaitedBy(k)' = AwaitedBy(k)
    BY DEF AwaitedBy
  <2> QED BY <1>0, <1>w, <1>n, <2>1 DEF DegreeInv, TypeOK
<1>4. QueueSafe'
  <2>1. \A k \in Queued : pc'[k] = pc[k]
    BY <1>0, <1>n DEF Queued, TypeOK
  <2> QED BY <1>0, <1>n, <2>1 DEF QueueSafe
<1>5. CauseInv' /\ SkipHasCause'
  <2>1. \A k \in Node : Ended(k) => Ended(k)'
    BY <1>0 DEF Ended, TypeOK
  <2>2. \A k \in Node : k # n => pc'[k] = pc[k]
    BY <1>0 DEF TypeOK
  <2>3. pc'[n] = "done"
    BY <1>0 DEF TypeOK
  <2> QED BY <1>0, <2>1, <2>2, <2>3 DEF CauseInv, SkipHasCause, TypeOK
<1> QED BY <1>1, <1>2, <1>3, <1>4, <1>5 DEF PlanInv

-----------------------------------------------------------------------------
(* The steps of the caller and the end of the dispatcher.                  *)

LEMMA CloseQueuePlanInv ==
  ASSUME PlanInv, CloseQueue
  PROVE  PlanInv'
<1> USE DEF CloseQueue, control, locals
<1>0. TypeOK /\ TodoInv /\ DegreeInv /\ QueueSafe /\ CauseInv /\ SkipHasCause
  BY DEF PlanInv
<1>1. \A n \in Node : pc[n] = "done"
  <2>1. Running \in SUBSET Node
    BY DEF Running
  <2>2. Running = {}
    BY <1>0, <2>1, CountedSetsFinite, FS_EmptySet DEF DegreeInv
  <2> QED BY <2>2 DEF Running
<1>2. queue = <<>>
  <2>1. Queued = {}
    BY <1>0, <1>1, QueuedNodes DEF QueueSafe, TypeOK
  <2>2. DOMAIN queue = 1..Len(queue) /\ Len(queue) \in Nat
    BY <1>0, QueuedNodes DEF TypeOK
  <2>3. Len(queue) = 0
    <3> SUFFICES ASSUME Len(queue) # 0 PROVE FALSE
      OBVIOUS
    <3>1. queue[1] \in Queued
      BY <2>2 DEF Queued
    <3> QED BY <3>1, <2>1
  <2> QED BY <1>0, <2>3, EmptySeq DEF TypeOK
<1>3. TypeOK' /\ TodoInv' /\ CauseInv' /\ SkipHasCause'
  BY <1>0 DEF TypeOK, TodoInv, CauseInv, SkipHasCause, Ended, BeforeRev
<1>4. DegreeInv' /\ QueueSafe'
  BY <1>0, <1>1, <1>2 DEF DegreeInv, QueueSafe, AwaitedBy, Running, Queued
<1> QED BY <1>3, <1>4 DEF PlanInv

LEMMA EndOfPassPlanInv ==
  ASSUME PlanInv, DispatcherExits \/ ReturnResult \/ UNCHANGED vars
  PROVE  PlanInv'
<1>0. TypeOK /\ TodoInv /\ DegreeInv /\ QueueSafe /\ CauseInv /\ SkipHasCause
  BY DEF PlanInv
<1>1. /\ UNCHANGED <<pass, queue, wg, deg, wasError, pc, locals, result, broken>>
      /\ main' # "wait" => main # "wait"
      /\ main' \in {"wait", "closed", "returned", "panicked"}
      /\ dispatcher' \in {"ranging", "exited"}
  BY <1>0 DEF DispatcherExits, ReturnResult, vars, control, TypeOK
<1>2. TypeOK' /\ TodoInv' /\ CauseInv' /\ SkipHasCause'
  BY <1>0, <1>1 DEF locals, TypeOK, TodoInv, CauseInv, SkipHasCause, Ended, BeforeRev
<1>3. DegreeInv' /\ QueueSafe'
  BY <1>0, <1>1 DEF locals, DegreeInv, QueueSafe, AwaitedBy, Running, Queued
<1> QED BY <1>2, <1>3 DEF PlanInv

LEMMA NextPlanInv == PlanInv /\ [Next]_vars => PlanInv'
<1> SUFFICES ASSUME PlanInv, [Next]_vars PROVE PlanInv'
  OBVIOUS
<1>1. CASE Dispatch
  BY <1>1, DispatchPlanInv
<1>2. CASE DispatcherExits \/ ReturnResult \/ Terminated \/ UNCHANGED vars
  BY <1>2, EndOfPassPlanInv DEF Terminated
<1>3. ASSUME NEW n \in Node, Worker(n) PROVE PlanInv'
  BY <1>3, ReadWasErrorPlanInv, SkipActionPlanInv, CountActionPlanInv,
     AcquireSemaphorePlanInv, ActionSucceedsPlanInv, ActionFailsPlanInv,
     MarkOwnErrorPlanInv, DecrementDependentPlanInv, FlagDependentPlanInv,
     WorkerDonePlanInv DEF Worker
<1>4. CASE CloseQueue
  BY <1>4, CloseQueuePlanInv
<1>5. CASE StartApplyPass
  BY <1>5, StartApplyPassPlanInv
<1> QED BY <1>1, <1>2, <1>3, <1>4, <1>5 DEF Next, Main

(* The invariant of the executor, in every reachable state.                *)
THEOREM PlanInvariant == Spec => []PlanInv
BY InitPlanInv, NextPlanInv, PTL DEF Spec

-----------------------------------------------------------------------------

(* Types, of every reachable state; in particular no degree and no         *)
(* WaitGroup counter becomes negative (the panics of action_plan.go:134    *)
(* and of sync.WaitGroup).                                                 *)
THEOREM TypeCorrect == Spec => []TypeOK
<1>1. PlanInv => TypeOK
  BY DEF PlanInv
<1> QED BY <1>1, PlanInvariant, PTL

(* The send of a key never finds the queue closed, and no key is queued    *)
(* twice or after its node has started (action_plan.go:59,138).            *)
THEOREM QueueIsSafe == Spec => []QueueSafe
<1>1. PlanInv => QueueSafe
  BY DEF PlanInv
<1> QED BY <1>1, PlanInvariant, PTL

(* A node is in error only for its own failure or that of a Before node    *)
(* that has ended (action_plan.go:104-146).                                *)
THEOREM SkipsHaveCause == Spec => []SkipHasCause
<1>1. PlanInv => SkipHasCause
  BY DEF PlanInv
<1> QED BY <1>1, PlanInvariant, PTL

(* At degree zero nobody is waited for.                                    *)
LEMMA ReleasedNodes ==
  ASSUME PlanInv, NEW n \in Node, deg[n] = 0, NEW m \in Before[n]
  PROVE  Ended(m)
<1>0. TypeOK /\ TodoInv /\ DegreeInv
  BY DEF PlanInv
<1>1. Cardinality(AwaitedBy(n)) = 0 /\ AwaitedBy(n) \in SUBSET Node
  BY <1>0 DEF DegreeInv, AwaitedBy
<1>2. AwaitedBy(n) = {}
  BY <1>1, CountedSetsFinite, FS_EmptySet
<1>3. n \notin todo[m]
  BY <1>2 DEF AwaitedBy
<1> QED BY <1>0, <1>3 DEF TodoInv, BeforeRev

(* A node runs after all its Before nodes have executed their actions, for *)
(* any graph (action_graph.go:10).                                         *)
THEOREM BeforeHasEnded == Spec => []BeforeEnded
<1>1. PlanInv => BeforeEnded
  <2> SUFFICES ASSUME PlanInv, NEW n \in Node, pc[n] # "waiting", NEW m \in Before[n]
               PROVE  Ended(m)
    BY DEF BeforeEnded
  <2>1. deg[n] = 0
    BY DEF PlanInv, DegreeInv
  <2> QED BY <2>1, ReleasedNodes
<1> QED BY <1>1, PlanInvariant, PTL

-----------------------------------------------------------------------------
(* The plan implements PlanOrder.                                          *)

(* A step that leaves the goroutines, the outcomes and the pass alone.     *)
LEMMA SameBlocks ==
  ASSUME pass' = pass, broken' = broken,
         pass = "count" \/ \A k \in Node :
            \/ pc'[k] = pc[k] /\ foundErr'[k] = foundErr[k]
            \/ /\ pc[k] # "waiting" /\ ~Ended(k)
               /\ pc'[k] # "waiting" /\ ~Ended(k)'
            \/ /\ Ended(k) /\ Ended(k)' /\ foundErr'[k] = foundErr[k]
  PROVE  UNCHANGED Order!vars
<1>1. \A k \in Node : Block[k]' = Block[k]
  BY DEF Block, Ended
<1>2. Block' = Block
  BY <1>1 DEF Block
<1> QED BY <1>2 DEF Order!vars

LEMMA DispatchOrder ==
  ASSUME PlanInv, Dispatch
  PROVE  [Order!Next]_Order!vars
<1> DEFINE n == Head(queue)
<1>0. TypeOK /\ DegreeInv /\ QueueSafe
  BY DEF PlanInv
<1>1. n \in Queued /\ n \in Node /\ pc[n] = "waiting" /\ deg[n] = 0
  <2>1. n = queue[1] /\ 1 \in DOMAIN queue
    BY <1>0, HeadTailProperties, EmptySeq, LenProperties DEF TypeOK, Dispatch
  <2>2. n \in Queued
    BY <2>1 DEF Queued
  <2> QED BY <1>0, <2>2, QueuedNodes DEF QueueSafe, TypeOK
<1>2. CASE pass = "count"
  BY <1>2, SameBlocks DEF Dispatch, control
<1>3. CASE pass # "count"
  <2>1. \A m \in Before[n] : Ended(m)
    BY <1>1, ReleasedNodes
  <2>2. /\ pc' = [pc EXCEPT ![n] = "started"] /\ foundErr' = foundErr
        /\ pass' = pass /\ broken' = broken
    BY DEF Dispatch, control, locals
  <2>3. Block[n] = "pending" /\ \A m \in Before[n] : Block[m] \in Order!Ended
    BY <1>1, <1>3, <2>1 DEF Block, Ended, Order!Ended
  <2>4. Block' = [Block EXCEPT ![n] = "running"]
    BY <1>0, <1>1, <1>3, <2>2 DEF Block, Ended, TypeOK
  <2>5. Order!Begin(n)
    BY <2>2, <2>3, <2>4 DEF Order!Begin
  <2> QED BY <1>1, <2>5 DEF Order!Next
<1> QED BY <1>2, <1>3

LEMMA ActionFailsOrder ==
  ASSUME PlanInv, NEW n \in Node, ActionFails(n)
  PROVE  [Order!Next]_Order!vars
<1>0. TypeOK /\ TodoInv
  BY DEF PlanInv
<1>1. /\ pc' = [pc EXCEPT ![n] = "actions"] /\ foundErr' = [foundErr EXCEPT ![n] = TRUE]
      /\ pass' = pass /\ broken' = broken \cup {n} /\ pc[n] = "executing" /\ pass = "apply"
  BY <1>0 DEF ActionFails, control, TodoInv
<1>2. \A k \in Node : Block[k]' = Block[k]
  BY <1>0, <1>1 DEF Block, Ended, TypeOK
<1>3. Block' = Block /\ Block[n] = "running"
  BY <1>1, <1>2 DEF Block, Ended
<1>4. CASE n \in broken
  BY <1>1, <1>3, <1>4 DEF Order!vars
<1>5. CASE n \notin broken
  <2>1. Order!ActionFails(n)
    BY <1>1, <1>3, <1>5 DEF Order!ActionFails
  <2> QED BY <2>1 DEF Order!Next
<1> QED BY <1>4, <1>5

LEMMA MarkOwnErrorOrder ==
  ASSUME PlanInv, NEW n \in Node, MarkOwnError(n)
  PROVE  [Order!Next]_Order!vars
<1>0. TypeOK /\ CauseInv /\ SkipHasCause
  BY DEF PlanInv
<1>1. /\ pc' = [pc EXCEPT ![n] = "releasing"] /\ foundErr' = foundErr
      /\ pass' = pass /\ broken' = broken /\ pc[n] = "actions"
  BY DEF MarkOwnError, control, locals
<1>2. CASE pass = "count"
  BY <1>1, <1>2, SameBlocks
<1>3. CASE pass # "count"
  <2>1. Block[n] = "running"
    BY <1>1, <1>3 DEF Block, Ended
  <2>2. Block' = [Block EXCEPT ![n] = IF foundErr[n] THEN "failed" ELSE "succeeded"]
    BY <1>0, <1>1, <1>3 DEF Block, Ended, TypeOK
  <2>3. CASE foundErr[n]
    <3>1. n \in broken \/ \E m \in Before[n] : Block[m] = "failed"
      BY <1>0, <1>3, <2>3 DEF SkipHasCause, Block, Ended
    <3>2. Order!Fail(n)
      BY <1>1, <2>1, <2>2, <2>3, <3>1 DEF Order!Fail
    <3> QED BY <3>2 DEF Order!Next
  <2>4. CASE ~foundErr[n]
    <3>1. n \notin broken
      BY <1>0, <2>4 DEF CauseInv
    <3>2. Order!Succeed(n)
      BY <1>1, <2>1, <2>2, <2>4, <3>1 DEF Order!Succeed
    <3> QED BY <3>2 DEF Order!Next
  <2> QED BY <2>3, <2>4
<1> QED BY <1>2, <1>3

LEMMA WorkerOrder ==
  ASSUME PlanInv, NEW n \in Node, Worker(n)
  PROVE  [Order!Next]_Order!vars
<1>0. TypeOK
  BY DEF PlanInv
<1>1. CASE ReadWasError(n)
  BY <1>0, <1>1, SameBlocks DEF ReadWasError, control, TypeOK, Ended
<1>2. CASE SkipAction(n) \/ CountAction(n)
  BY <1>2, SameBlocks DEF SkipAction, CountAction, control
<1>3. CASE AcquireSemaphore(n)
  BY <1>0, <1>3, SameBlocks DEF AcquireSemaphore, control, locals, TypeOK, Ended
<1>4. CASE ActionSucceeds(n)
  BY <1>0, <1>4, SameBlocks DEF ActionSucceeds, control, TypeOK, Ended
<1>5. CASE ActionFails(n)
  BY <1>5, ActionFailsOrder
<1>6. CASE MarkOwnError(n)
  BY <1>6, MarkOwnErrorOrder
<1>7. CASE \E m \in Node : DecrementDependent(n, m) \/ FlagDependent(n, m)
  BY <1>7, SameBlocks DEF DecrementDependent, FlagDependent, control
<1>8. CASE WorkerDone(n)
  BY <1>0, <1>8, SameBlocks DEF WorkerDone, control, locals, TypeOK, Ended
<1> QED BY <1>1, <1>2, <1>3, <1>4, <1>5, <1>6, <1>7, <1>8 DEF Worker

LEMMA NextOrder == PlanInv /\ [Next]_vars => [Order!Next]_Order!vars
<1> SUFFICES ASSUME PlanInv, [Next]_vars PROVE [Order!Next]_Order!vars
  OBVIOUS
<1>1. CASE Dispatch
  BY <1>1, DispatchOrder
<1>2. ASSUME NEW n \in Node, Worker(n) PROVE [Order!Next]_Order!vars
  BY <1>2, WorkerOrder
<1>3. CASE DispatcherExits \/ CloseQueue \/ ReturnResult \/ Terminated \/ UNCHANGED vars
  BY <1>3, SameBlocks
     DEF DispatcherExits, CloseQueue, ReturnResult, Terminated, vars, control, locals
<1>4. CASE StartApplyPass
  <2>1. Block' = Block /\ broken' = broken
    BY <1>4, FreshFields DEF StartApplyPass, FreshGraph, Block
  <2> QED BY <2>1 DEF Order!vars
<1> QED BY <1>1, <1>2, <1>3, <1>4 DEF Next, Main

(* Every run of the plan is a run of PlanOrder: the queue, the degrees,    *)
(* the two passes and the locks implement the order of the graph.          *)
THEOREM PlanImplementsOrder == Spec => ImplementsPlanOrder
<1>1. Init => Order!Init
  BY DEF Init, Order!Init, Block
<1>2. QED BY <1>1, NextOrder, PlanInvariant, PTL DEF Spec, ImplementsPlanOrder, Order!Spec

-----------------------------------------------------------------------------
(* The counters of the result.                                             *)

LEMMA ActionsAreFinite ==
  ASSUME NEW l \in [Node -> Nat]
  PROVE  IsFiniteSet(ActionsOf(l)) /\ Cardinality(ActionsOf(l)) \in Nat
<1> DEFINE own == [n \in Node |-> {n} \X (1..l[n])]
           S == {{n} \X (1..l[n]) : n \in Node}
<1>1. own \in Surjection(Node, S)
  BY DEF Surjection
<1>2. IsFiniteSet(S)
  BY <1>1, FS_Surjection
<1>3. ASSUME NEW n \in Node PROVE IsFiniteSet({n} \X (1..l[n]))
  <2>1. IsFiniteSet({n})
    BY FS_Singleton
  <2>2. IsFiniteSet(1..l[n])
    BY FS_Interval
  <2> QED BY <2>1, <2>2, FS_Product
<1>4. \A T \in S : IsFiniteSet(T)
  BY <1>3
<1>5. IsFiniteSet(UNION S)
  BY <1>2, <1>4, FS_UNION
<1> QED BY <1>5, FS_CardinalityType DEF ActionsOf

LEMMA OneActionLess ==
  ASSUME NEW l \in [Node -> Nat], NEW n \in Node, l[n] > 0
  PROVE  Cardinality(ActionsOf([l EXCEPT ![n] = @ - 1])) = Cardinality(ActionsOf(l)) - 1
<1> DEFINE k == [l EXCEPT ![n] = @ - 1]
<1>1. \A p : p \in ActionsOf(l) <=> \E m \in Node : \E i \in 1..l[m] : p = <<m, i>>
  BY DEF ActionsOf
<1>2. \A p : p \in ActionsOf(k) <=> \E m \in Node : \E i \in 1..k[m] : p = <<m, i>>
  BY DEF ActionsOf
<1>3. k[n] = l[n] - 1 /\ l[n] \in Nat /\ \A m \in Node \ {n} : k[m] = l[m]
  OBVIOUS
<1>4. \A i : i \in 1..k[n] <=> i \in 1..l[n] /\ i # l[n]
  BY <1>3
<1>5. <<n, l[n]>> \in ActionsOf(l)
  BY <1>1, <1>3
<1>6. ActionsOf(k) = ActionsOf(l) \ {<<n, l[n]>>}
  <2>1. ASSUME NEW p \in ActionsOf(k) PROVE p \in ActionsOf(l) \ {<<n, l[n]>>}
    <3>1. PICK m \in Node : \E i \in 1..k[m] : p = <<m, i>>
      BY <1>2
    <3>2. PICK i \in 1..k[m] : p = <<m, i>>
      BY <3>1
    <3>3. i \in 1..l[m] /\ p # <<n, l[n]>>
      BY <1>3, <1>4, <3>2
    <3> QED BY <1>1, <3>2, <3>3
  <2>2. ASSUME NEW p \in ActionsOf(l) \ {<<n, l[n]>>} PROVE p \in ActionsOf(k)
    <3>1. PICK m \in Node : \E i \in 1..l[m] : p = <<m, i>>
      BY <1>1
    <3>2. PICK i \in 1..l[m] : p = <<m, i>>
      BY <3>1
    <3>3. i \in 1..k[m]
      BY <1>3, <1>4, <3>2
    <3> QED BY <1>2, <3>2, <3>3
  <2> QED BY <2>1, <2>2
<1> HIDE DEF k
<1>7. Cardinality(ActionsOf(k)) = Cardinality(ActionsOf(l)) - 1
  <2>1. IsFiniteSet(ActionsOf(l))
    BY ActionsAreFinite
  <2> DEFINE S == ActionsOf(l)
             x == <<n, l[n]>>
  <2>2. IsFiniteSet(S) /\ x \in S /\ ActionsOf(k) = S \ {x}
    BY <1>5, <1>6, <2>1
  <2> HIDE DEF S, x
  <2>3. Cardinality(ActionsOf(k)) = Cardinality(S) - 1
    BY <2>2, FS_RemoveElement
  <2> QED BY <2>3 DEF S
<1> QED BY <1>7 DEF k

LEMMA NoActionLeft ==
  ASSUME NEW l \in [Node -> Nat], \A n \in Node : l[n] = 0
  PROVE  Cardinality(ActionsOf(l)) = 0
<1>1. ActionsOf(l) = {}
  BY DEF ActionsOf
<1> QED BY <1>1, FS_EmptySet

LEMMA InitResultsInv == Init => ResultsInv
<1> SUFFICES ASSUME Init PROVE ResultsInv
  OBVIOUS
<1>1. \A n \in Node : ~Ended(n) /\ ~foundErr[n] /\ ~wasError[n]
  BY FreshFields DEF Init, Ended
<1>2. left = NumActions /\ result = NewResult(0)
  BY FreshFields DEF Init
<1>3. Processed(result) = 0
  BY <1>2 DEF Processed, NewResult
<1>4. Processed(result) + Cardinality(ActionsOf(left)) = Cardinality(ActionsOf(NumActions))
  BY <1>2, <1>3, ActionsAreFinite
<1> QED BY <1>1, <1>2, <1>4 DEF Init, NewResult, ResultsInv

(* At the end of a pass nothing is left, so the counters are complete.     *)
LEMMA PassIsCounted ==
  ASSUME PlanInv, ResultsInv, main # "wait"
  PROVE  Processed(result) = Cardinality(ActionsOf(NumActions))
<1>1. \A n \in Node : left[n] = 0
  BY DEF PlanInv, QueueSafe, ResultsInv, Ended
<1>2. left \in [Node -> Nat] /\ result \in [success : Nat, failed : Nat, skipped : Nat, total : Nat]
  BY DEF PlanInv, TypeOK
<1>3. Cardinality(ActionsOf(left)) = 0
  BY <1>1, <1>2, NoActionLeft
<1>4. Processed(result) \in Nat
  BY <1>2 DEF Processed
<1> QED BY <1>3, <1>4 DEF ResultsInv

LEMMA StartApplyPassResultsInv ==
  ASSUME PlanInv, ResultsInv, StartApplyPass
  PROVE  ResultsInv'
<1>1. \A n \in Node : ~Ended(n)'
  BY FreshFields DEF StartApplyPass, Ended
<1>2. left' = NumActions /\ result' = NewResult(result.success) /\ pass' = "apply" /\ main' = "wait"
  BY FreshFields DEF StartApplyPass
<1>3. result.success = Cardinality(ActionsOf(NumActions))
  <2>1. Processed(result) = Cardinality(ActionsOf(NumActions))
    BY PassIsCounted DEF StartApplyPass
  <2>2. result \in [success : Nat, failed : Nat, skipped : Nat, total : Nat]
    BY DEF PlanInv, TypeOK
  <2>3. result.failed = 0 /\ result.skipped = 0
    BY DEF ResultsInv, StartApplyPass
  <2> QED BY <2>1, <2>2, <2>3 DEF Processed
<1>4. Processed(result') = 0 /\ result'.total = Cardinality(ActionsOf(NumActions))
  BY <1>2, <1>3 DEF Processed, NewResult
<1>5. Processed(result') + Cardinality(ActionsOf(left')) = Cardinality(ActionsOf(NumActions))
  BY <1>2, <1>4, ActionsAreFinite
<1> QED BY <1>1, <1>2, <1>4, <1>5 DEF ResultsInv

(* A step that counts one action of node n.                                *)
Counts(n) ==
  /\ left' = [left EXCEPT ![n] = @ - 1]
  /\ \/ result' = [result EXCEPT !.success = @ + 1]
     \/ pass = "apply" /\ result' = [result EXCEPT !.skipped = @ + 1]
     \/ pass = "apply" /\ result' = [result EXCEPT !.failed = @ + 1]

LEMMA OneMoreProcessed ==
  ASSUME NEW r \in [success : Nat, failed : Nat, skipped : Nat, total : Nat], NEW q,
         \/ q = [r EXCEPT !.success = @ + 1]
         \/ q = [r EXCEPT !.skipped = @ + 1]
         \/ q = [r EXCEPT !.failed = @ + 1]
  PROVE  Processed(q) = Processed(r) + 1 /\ q.total = r.total
BY DEF Processed

LEMMA CountsKeepsResultsInv ==
  ASSUME PlanInv, ResultsInv, NEW n \in Node, Counts(n), left[n] > 0,
         UNCHANGED <<pass, main>>,
         \A m \in Node : Ended(m)' => Ended(m),
         pass = "count" => UNCHANGED <<foundErr, wasError>>
  PROVE  ResultsInv'
<1>1. left \in [Node -> Nat] /\ result \in [success : Nat, failed : Nat, skipped : Nat, total : Nat]
  BY DEF PlanInv, TypeOK
<1>2. Cardinality(ActionsOf(left')) = Cardinality(ActionsOf(left)) - 1
  BY <1>1, OneActionLess DEF Counts
<1>3. Processed(result') = Processed(result) + 1 /\ result'.total = result.total
  BY <1>1, OneMoreProcessed DEF Counts
<1>4. Processed(result') + Cardinality(ActionsOf(left')) = Cardinality(ActionsOf(NumActions))
  <2>1. Processed(result) \in Nat
    BY <1>1 DEF Processed
  <2>2. Cardinality(ActionsOf(left)) \in Nat
    BY <1>1, ActionsAreFinite
  <2> QED BY <1>2, <1>3, <2>1, <2>2 DEF ResultsInv
<1>5. \A m \in Node : Ended(m)' => left'[m] = 0
  BY <1>1 DEF Counts, ResultsInv
<1>6. pass = "count" => result'.failed = 0 /\ result'.skipped = 0
  BY <1>1 DEF Counts, ResultsInv
<1> QED BY <1>3, <1>4, <1>5, <1>6 DEF ResultsInv

(* A step that counts none.                                                *)
LEMMA OtherStepsKeepResultsInv ==
  ASSUME PlanInv, ResultsInv, UNCHANGED <<left, result, pass>>,
         \A m \in Node : Ended(m)' => Ended(m) \/ left[m] = 0,
         pass = "count" => \A m \in Node : ~foundErr'[m] /\ ~wasError'[m],
         pass = "count" => main' \in {"wait", "closed"},
         main' # "panicked"
  PROVE  ResultsInv'
BY DEF ResultsInv

LEMMA WorkerResultsInv ==
  ASSUME PlanInv, ResultsInv, NEW n \in Node, Worker(n)
  PROVE  ResultsInv'
<1> USE DEF control, locals
<1>0. /\ TypeOK /\ TodoInv /\ CauseInv
      /\ pc \in [Node -> PC] /\ foundErr \in [Node -> BOOLEAN] /\ wasError \in [Node -> BOOLEAN]
  BY DEF PlanInv, TypeOK
<1>1. pass = "count" => \A m \in Node : ~foundErr[m] /\ ~wasError[m]
  BY DEF ResultsInv
<1>2. (pass = "count" => main \in {"wait", "closed"}) /\ main # "panicked"
  BY DEF ResultsInv
<1>p. pass \in {"count", "apply"}
  BY <1>0 DEF TypeOK
<1>3. CASE SkipAction(n)
  <2>1. Counts(n)
    BY <1>1, <1>3, <1>p DEF SkipAction, Counts
  <2>2. \A m \in Node : Ended(m)' => Ended(m)
    BY <1>3 DEF SkipAction, Ended
  <2> QED BY <1>3, <2>1, <2>2, CountsKeepsResultsInv DEF SkipAction
<1>4. CASE CountAction(n)
  <2>1. Counts(n)
    BY <1>4 DEF CountAction, Counts
  <2>2. \A m \in Node : Ended(m)' => Ended(m)
    BY <1>4 DEF CountAction, Ended
  <2> QED BY <1>4, <2>1, <2>2, CountsKeepsResultsInv DEF CountAction
<1>5. CASE ActionSucceeds(n)
  <2>1. Counts(n) /\ left[n] > 0
    BY <1>0, <1>5 DEF ActionSucceeds, Counts, TodoInv
  <2>2. \A m \in Node : Ended(m)' => Ended(m)
    BY <1>0, <1>5 DEF ActionSucceeds, Ended
  <2> QED BY <1>5, <2>1, <2>2, CountsKeepsResultsInv DEF ActionSucceeds
<1>6. CASE ActionFails(n)
  <2>1. Counts(n) /\ left[n] > 0 /\ pass = "apply"
    BY <1>0, <1>6 DEF ActionFails, Counts, TodoInv
  <2>2. \A m \in Node : Ended(m)' => Ended(m)
    BY <1>0, <1>6 DEF ActionFails, Ended
  <2> QED BY <1>6, <2>1, <2>2, CountsKeepsResultsInv DEF ActionFails
<1>7. CASE ReadWasError(n)
  <2>1. \A m \in Node : Ended(m)' => Ended(m)
    BY <1>0, <1>7 DEF ReadWasError, Ended
  <2>2. pass = "count" => \A m \in Node : ~foundErr'[m] /\ ~wasError'[m]
    BY <1>0, <1>1, <1>7 DEF ReadWasError
  <2> QED BY <1>2, <1>7, <2>1, <2>2, OtherStepsKeepResultsInv DEF ReadWasError
<1>8. CASE AcquireSemaphore(n)
  <2>1. \A m \in Node : Ended(m)' => Ended(m)
    BY <1>0, <1>8 DEF AcquireSemaphore, Ended
  <2> QED BY <1>1, <1>2, <1>8, <2>1, OtherStepsKeepResultsInv DEF AcquireSemaphore
<1>9. CASE MarkOwnError(n)
  <2>1. \A m \in Node : Ended(m)' => Ended(m) \/ left[m] = 0
    BY <1>0, <1>9 DEF MarkOwnError, Ended
  <2>2. ASSUME pass = "count", NEW m \in Node PROVE ~foundErr'[m] /\ ~wasError'[m]
    <3>1. wasError' = [wasError EXCEPT ![n] = wasError[n] \/ foundErr[n]] /\ foundErr' = foundErr
      BY <1>9 DEF MarkOwnError
    <3>2. wasError'[m] <=> IF m = n THEN wasError[n] \/ foundErr[n] ELSE wasError[m]
      BY <1>0, <3>1, Zenon
    <3> QED BY <1>1, <2>2, <3>1, <3>2
  <2> QED BY <1>2, <1>9, <2>1, <2>2, OtherStepsKeepResultsInv DEF MarkOwnError
<1>10. ASSUME NEW d \in Node, DecrementDependent(n, d) PROVE ResultsInv'
  <2>1. \A m \in Node : Ended(m)' => Ended(m)
    BY <1>10 DEF DecrementDependent, Ended
  <2> QED BY <1>1, <1>2, <1>10, <2>1, OtherStepsKeepResultsInv DEF DecrementDependent
<1>11. ASSUME NEW d \in Node, FlagDependent(n, d) PROVE ResultsInv'
  <2>1. \A m \in Node : Ended(m)' => Ended(m)
    BY <1>11 DEF FlagDependent, Ended
  <2>2. pass = "apply"
    BY <1>0, <1>1, <1>11, <1>p DEF FlagDependent, CauseInv
  <2> QED BY <1>2, <1>11, <2>1, <2>2, OtherStepsKeepResultsInv DEF FlagDependent
<1>12. CASE WorkerDone(n)
  <2>1. \A m \in Node : Ended(m)' => Ended(m)
    BY <1>0, <1>12 DEF WorkerDone, Ended
  <2> QED BY <1>1, <1>2, <1>12, <2>1, OtherStepsKeepResultsInv DEF WorkerDone
<1> QED
  BY <1>3, <1>4, <1>5, <1>6, <1>7, <1>8, <1>9, <1>10, <1>11, <1>12 DEF Worker

LEMMA NextResultsInv == PlanInv /\ ResultsInv /\ [Next]_vars => ResultsInv'
<1> SUFFICES ASSUME PlanInv, ResultsInv, [Next]_vars PROVE ResultsInv'
  OBVIOUS
<1> USE DEF control, locals
<1>0. TypeOK /\ pc \in [Node -> PC]
  BY DEF PlanInv, TypeOK
<1>1. pass = "count" => \A m \in Node : ~foundErr[m] /\ ~wasError[m]
  BY DEF ResultsInv
<1>2. (pass = "count" => main \in {"wait", "closed"}) /\ main # "panicked"
  BY DEF ResultsInv
<1>3. CASE Dispatch
  <2>1. \A m \in Node : Ended(m)' => Ended(m)
    BY <1>0, <1>3 DEF Dispatch, Ended
  <2> QED BY <1>1, <1>2, <1>3, <2>1, OtherStepsKeepResultsInv DEF Dispatch
<1>4. CASE DispatcherExits \/ CloseQueue \/ Terminated \/ UNCHANGED vars
  <2>1. \A m \in Node : Ended(m)' => Ended(m)
    BY <1>4 DEF DispatcherExits, CloseQueue, Terminated, vars, Ended
  <2>2. UNCHANGED <<left, result, pass, foundErr, wasError>> /\ main' \in {main, "closed"}
    BY <1>4 DEF DispatcherExits, CloseQueue, Terminated, vars
  <2> QED BY <1>1, <1>2, <2>1, <2>2, OtherStepsKeepResultsInv
<1>5. CASE ReturnResult
  <2>1. Processed(result) = result.total
    BY <1>5, PassIsCounted DEF ReturnResult, ResultsInv
  <2>2. \A m \in Node : Ended(m)' => Ended(m)
    BY <1>5 DEF ReturnResult, Ended
  <2>3. main' = "returned" /\ pass = "apply"
    BY <1>5, <2>1 DEF ReturnResult
  <2> QED BY <1>5, <2>2, <2>3, OtherStepsKeepResultsInv DEF ReturnResult
<1>6. CASE StartApplyPass
  BY <1>6, StartApplyPassResultsInv
<1>7. ASSUME NEW n \in Node, Worker(n) PROVE ResultsInv'
  BY <1>7, WorkerResultsInv
<1> QED BY <1>3, <1>4, <1>5, <1>6, <1>7 DEF Next, Main

LEMMA ResultsInvAddsUp == PlanInv /\ ResultsInv => ResultsAddUp
<1> SUFFICES ASSUME PlanInv, ResultsInv PROVE ResultsAddUp
  OBVIOUS
<1>1. left \in [Node -> Nat] /\ result \in [success : Nat, failed : Nat, skipped : Nat, total : Nat]
  BY DEF PlanInv, TypeOK
<1>2. Cardinality(ActionsOf(left)) \in Nat /\ Processed(result) \in Nat
  BY <1>1, ActionsAreFinite DEF Processed
<1>3. pass = "apply" => Processed(result) <= result.total
  BY <1>1, <1>2 DEF ResultsInv
<1>4. main = "returned" => Processed(result) = result.total
  <2> SUFFICES ASSUME main = "returned" PROVE Processed(result) = result.total
    OBVIOUS
  <2>1. pass = "apply"
    BY DEF ResultsInv, PlanInv, TypeOK
  <2> QED BY <2>1, PassIsCounted DEF ResultsInv
<1> QED BY <1>3, <1>4 DEF ResultsAddUp, ResultsInv

(* Done() finds the counters complete and never panics                     *)
(* (action_plan_apply_result.go:146), and no snapshot of them exceeds the  *)
(* total, whatever fails and in whatever order the nodes end.              *)
THEOREM CountersAddUp == Spec => []ResultsAddUp
<1>1. Init => PlanInv /\ ResultsInv
  BY InitPlanInv, InitResultsInv
<1>2. PlanInv /\ ResultsInv /\ [Next]_vars => (PlanInv /\ ResultsInv)'
  BY NextPlanInv, NextResultsInv
<1> QED BY <1>1, <1>2, ResultsInvAddsUp, PTL DEF Spec

=============================================================================
