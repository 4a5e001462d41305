--------------------------- MODULE ReconcileProofs ---------------------------
(***************************************************************************)
(* Proofs of the safety properties of Reconcile, for any instances, code,  *)
(* dependencies and policies, and any number of revisions, plugin faults   *)
(* and crashes.                                                            *)
(***************************************************************************)
EXTENDS Reconcile, ExtremesProofs, SequenceTheorems, TLAPS

-----------------------------------------------------------------------------
(* The inductive invariant.                                                *)

(* What PoliciesAssumption says of a policy, of a revision made from one.  *)
WellResolved(r) ==
  /\ r.desired \in Resolution /\ r.finds \in [Comp -> Found]
  /\ \A c \in Comp : r.desired[c] # Absent =>
       /\ r.desired[c].deps # {}
       /\ r.finds[c] = IF c \in Code THEN "plugin" ELSE "nothing"
       /\ c \notin Code => r.desired[c].params = NoParams
  /\ \A c \in Comp \ Code : r.finds[c] # "plugin"

(* Revisions are made of ever later policies.                              *)
RevisionsInv ==
  /\ \A i \in DOMAIN revisions : WellResolved(revisions[i])
  /\ \A i, j \in DOMAIN revisions :
       i < j => revisions[i].policyGen <= revisions[j].policyGen

(* While the enforcer looks for a revision to retry, everything that has   *)
(* been started is completed, and belongs to a policy it has read or to an *)
(* older one; once it has picked a revision, that is the border between    *)
(* the completed ones and the waiting ones.                                *)
EnforcerInv ==
  /\ pc = "looking" =>
       \A i \in DOMAIN revisions :
         /\ revisions[i].status # "inprogress"
         /\ revisions[i].policyGen > gen => revisions[i].status = "waiting"
  /\ pc \in {"picked", "applying"} =>
       \A i \in DOMAIN revisions :
         /\ i < cur => revisions[i].status = "completed"
         /\ i > cur => revisions[i].status = "waiting"

(* Only code has parameters, also in what a node has loaded.               *)
StoredInv ==
  \A c \in Comp \ Code :
    /\ stored[c] # Absent => stored[c].params = NoParams
    /\ copy[c] # Absent => copy[c].params = NoParams

(* How far a node without errors has come with a desired instance: what is *)
(* left of its plan leads from what is stored to what is desired.          *)
Progress(c, want) ==
  IF plan[c].main = "create" THEN plan[c].detach = {}
  ELSE /\ stored[c] # Absent
       /\ (stored[c].deps \ plan[c].detach) \cup plan[c].attach = want.deps
       /\ plan[c].main = "update" \/ stored[c].params = want.params

(* What the rest of the plan of a node relies on: a Delete comes after the *)
(* detachment of every consumer, and a consumer is only attached to what   *)
(* has been deployed.                                                      *)
PlanInv(c) ==
  LET want == revisions[cur].desired[c]
  IN  /\ plan[c].main = "delete" =>
           /\ Consumers(stored, c) \subseteq plan[c].detach
           /\ plan[c].attach = {} /\ want = Absent
      /\ plan[c].attach # {} => want # Absent /\ plan[c].attach \subseteq want.deps
      /\ c \in Code /\ plan[c].main \in {"none", "update"} /\ plan[c].attach # {} =>
           cloud[c] # NotDeployed
      /\ want # Absent /\ ~err[c] => Progress(c, want)
      /\ want = Absent /\ ~err[c] /\ ~revisions[cur].recalculateAll =>
           Consumers(stored, c) \subseteq plan[c].detach

(* All of it, and that what a node has loaded is still what is stored,     *)
(* until the endpoints updater overwrites the instance.                    *)
NodeInv(c) ==
  /\ err[c] => revisions[cur].failed
  /\ node[c] = "pending" => ~err[c]
  /\ node[c] = "ended" => plan[c] = NoActions
  /\ plan[c].main \in {"create", "update"} => revisions[cur].desired[c] # Absent
  /\ node[c] = "called" =>
       /\ plan[c].main # "none" /\ plan[c].detach = {}
       /\ c \in Code /\ plan[c].main # "delete" => cloud[c] # NotDeployed
  /\ c \notin overwritten =>
       /\ PlanInv(c)
       /\ node[c] = "loaded" => SameInstance(copy[c], stored[c])

Inv ==
  /\ TypeOK /\ RevisionsInOrder /\ ConsumersDeployed
  /\ RevisionsInv /\ EnforcerInv /\ StoredInv
  /\ IF pc = "applying" THEN \A c \in Comp : NodeInv(c)
     ELSE \A c \in Comp : node[c] = "ended"

-----------------------------------------------------------------------------
(* Changes of the revisions.                                               *)

(* The marks of a revision are set, and nothing else of it.                *)
LEMMA RevisionMarked ==
  ASSUME TypeOK, RevisionsInv, NEW i \in DOMAIN revisions, NEW r \in RevisionRecord,
         r.policyGen = revisions[i].policyGen, r.desired = revisions[i].desired,
         r.finds = revisions[i].finds, r.recalculateAll = revisions[i].recalculateAll,
         revisions' = [revisions EXCEPT ![i] = r], UNCHANGED policyGen
  PROVE  /\ revisions' \in Seq(RevisionRecord) /\ DOMAIN revisions' = DOMAIN revisions
         /\ revisions'[i] = r
         /\ \A j \in DOMAIN revisions : j # i => revisions'[j] = revisions[j]
         /\ \A j \in DOMAIN revisions :
              /\ revisions'[j].policyGen = revisions[j].policyGen
              /\ revisions'[j].desired = revisions[j].desired
              /\ revisions'[j].finds = revisions[j].finds
              /\ revisions'[j].recalculateAll = revisions[j].recalculateAll
         /\ \A j \in DOMAIN revisions' : revisions'[j].policyGen \in 1..policyGen'
         /\ RevisionsInv'
<1>1. revisions \in Seq(RevisionRecord) /\ i \in 1..Len(revisions)
  BY LenProperties DEF TypeOK
<1>2. revisions' \in Seq(RevisionRecord) /\ DOMAIN revisions' = DOMAIN revisions
  BY <1>1, ExceptSeq
<1>3. revisions'[i] = r /\ \A j \in DOMAIN revisions : j # i => revisions'[j] = revisions[j]
  BY <1>1
<1>4. \A j \in DOMAIN revisions :
        /\ revisions'[j].policyGen = revisions[j].policyGen
        /\ revisions'[j].desired = revisions[j].desired
        /\ revisions'[j].finds = revisions[j].finds
        /\ revisions'[j].recalculateAll = revisions[j].recalculateAll
  BY <1>3
<1>5. RevisionsInv'
  <2>1. \A j \in DOMAIN revisions : WellResolved(revisions[j]) => WellResolved(revisions'[j])
    BY <1>4 DEF WellResolved
  <2> QED  BY <1>2, <1>4, <2>1 DEF RevisionsInv
<1> QED  BY <1>2, <1>3, <1>4, <1>5 DEF TypeOK

(* A policy, and the revision that is made of it.                          *)
LEMMA RevisionOfPolicy ==
  ASSUME NEW p \in Policies \cup {EmptyPolicy}, NEW g \in Nat, NEW all \in BOOLEAN
  PROVE  /\ Revision(p, g, all) \in RevisionRecord /\ WellResolved(Revision(p, g, all))
         /\ Revision(p, g, all).policyGen = g /\ Revision(p, g, all).status = "waiting"
<1> DEFINE r == Revision(p, g, all)
<1>1. /\ p.desired \in Resolution /\ p.finds \in [Comp -> Found]
      /\ \A c \in Comp : p.desired[c] # Absent =>
           /\ p.desired[c].deps # {}
           /\ p.finds[c] = IF c \in Code THEN "plugin" ELSE "nothing"
           /\ c \notin Code => p.desired[c].params = NoParams
      /\ \A c \in Comp \ Code : p.finds[c] # "plugin"
  <2>1. CASE p \in Policies
    BY <2>1, PoliciesAssumption
  <2>2. CASE p = EmptyPolicy
    BY <2>2 DEF EmptyPolicy, EmptyResolution, Resolution, Found
  <2> QED  BY <2>1, <2>2
<1>2. r.desired = p.desired /\ r.finds = p.finds /\ r.policyGen = g /\ r.status = "waiting"
  BY DEF Revision
<1>3. r \in RevisionRecord
  BY <1>1 DEF Revision, RevisionRecord
<1> HIDE DEF r
<1>4. WellResolved(r)
  BY <1>1, <1>2 DEF WellResolved
<1> QED  BY <1>2, <1>3, <1>4 DEF r

(* A revision is added for the latest policy.                              *)
LEMMA AddRevisionInv ==
  ASSUME Inv, NEW r \in RevisionRecord, r.status = "waiting", WellResolved(r),
         r.policyGen = policyGen, r.policyGen >= 1, AddRevision(r)
  PROVE  Inv'
<1> DEFINE n == Len(revisions)
<1>1. /\ revisions \in Seq(RevisionRecord) /\ n \in Nat /\ DOMAIN revisions = 1..n
      /\ policyGen \in Nat /\ gen \in 0..policyGen
      /\ \A i \in DOMAIN revisions : revisions[i].policyGen \in 1..policyGen
  BY LenProperties DEF Inv, TypeOK
<1>2. /\ revisions' \in Seq(RevisionRecord) /\ Len(revisions') = n + 1
      /\ \A i \in 1..n : revisions'[i] = revisions[i]
      /\ revisions'[n + 1] = r
  BY <1>1, AppendProperties DEF AddRevision
<1>3. DOMAIN revisions' = 1..(n + 1)
  BY <1>2, LenProperties
<1>4. /\ handler' = "revision"
      /\ UNCHANGED <<policy, policyGen, stored, cloud, pc, cur, gen, plan, node, copy, err,
                     fetched, overwritten, faults, crashes, refreshes>>
  BY DEF AddRevision, planVars, refreshVars, countVars
<1> HIDE DEF n
<1>5. \A i \in DOMAIN revisions' : i \in DOMAIN revisions \/ revisions'[i] = r
  BY <1>1, <1>2, <1>3
<1>6. TypeOK'
  <2>1. \A i \in DOMAIN revisions' : revisions'[i].policyGen \in 1..policyGen'
    BY <1>1, <1>2, <1>4, <1>5
  <2>2. cur' \in DOMAIN revisions'
    BY <1>1, <1>3, <1>4 DEF Inv, TypeOK
  <2> QED  BY <1>2, <1>4, <2>1, <2>2 DEF Inv, TypeOK
<1>7. RevisionsInOrder'
  BY <1>1, <1>2, <1>3 DEF Inv, RevisionsInOrder
<1>8. EnforcerInv'
  <2>1. cur \in DOMAIN revisions
    BY DEF Inv, TypeOK
  <2> QED  BY <1>1, <1>2, <1>3, <1>4, <2>1 DEF Inv, EnforcerInv
<1>9. RevisionsInv'
  <2>1. \A i \in DOMAIN revisions' : WellResolved(revisions'[i])
    BY <1>1, <1>2, <1>5 DEF Inv, RevisionsInv
  <2>2. \A i, j \in DOMAIN revisions' :
          i < j => revisions'[i].policyGen <= revisions'[j].policyGen
    <3>1. TAKE i, j \in DOMAIN revisions'
    <3>2. HAVE i < j
    <3>3. i \in 1..n
      BY <1>3, <1>1, <3>2
    <3>4. CASE j \in 1..n
      BY <1>1, <1>2, <3>2, <3>3, <3>4 DEF Inv, RevisionsInv
    <3>5. CASE j = n + 1
      BY <1>1, <1>2, <3>3, <3>5
    <3> QED  BY <1>1, <1>3, <3>4, <3>5
  <2> QED  BY <2>1, <2>2 DEF RevisionsInv
<1>10. ConsumersDeployed' /\ StoredInv'
  BY <1>4 DEF Inv, ConsumersDeployed, StoredInv, Consumers
<1>11. (IF pc = "applying" THEN \A c \in Comp : NodeInv(c) ELSE \A c \in Comp : node[c] = "ended")'
  <2>1. revisions'[cur] = revisions[cur]
    BY <1>1, <1>2 DEF Inv, TypeOK
  <2> QED
    BY <1>4, <2>1 DEF Inv, NodeInv, PlanInv, Progress, Consumers, SameInstance
<1> QED  BY <1>6, <1>7, <1>8, <1>9, <1>10, <1>11 DEF Inv

(* Steps that change no revision and nothing of what is applied.           *)
LEMMA NothingApplied ==
  ASSUME Inv, TypeOK', EnforcerInv',
         UNCHANGED <<revisions, stored, cloud, copy, node, overwritten>>,
         pc' # "applying", pc # "applying"
  PROVE  Inv'
<1>1. RevisionsInOrder' /\ ConsumersDeployed' /\ RevisionsInv' /\ StoredInv'
  BY DEF Inv, RevisionsInOrder, ConsumersDeployed, RevisionsInv, StoredInv, Consumers, WellResolved
<1>2. (\A c \in Comp : node[c] = "ended")'
  BY DEF Inv
<1> QED  BY <1>1, <1>2 DEF Inv

-----------------------------------------------------------------------------
(* The actions, one by one.                                                *)

LEMMA InitInv == Init => Inv
<1> SUFFICES ASSUME Init PROVE Inv
  OBVIOUS
<1> DEFINE q == Revision(EmptyPolicy, 1, FALSE)
           r == [q EXCEPT !.saved = TRUE]
<1>1. /\ q \in RevisionRecord /\ WellResolved(q)
      /\ q.policyGen = 1 /\ q.status = "waiting"
  BY RevisionOfPolicy
<1> HIDE DEF q
<1>2. r \in RevisionRecord /\ r.policyGen = 1 /\ r.status = "waiting"
      /\ r.desired = q.desired /\ r.finds = q.finds
  BY <1>1 DEF RevisionRecord
<1>3. revisions = <<r>>
  BY DEF Init, q
<1> HIDE DEF r
<1>4. WellResolved(r)
  BY <1>1, <1>2 DEF WellResolved
<1>5. revisions \in Seq(RevisionRecord) /\ DOMAIN revisions = {1} /\ revisions[1] = r
  BY <1>2, <1>3
<1>6. TypeOK
  <2>1. /\ stored \in [Comp -> StoredInstance \cup {Absent}]
        /\ copy \in [Comp -> StoredInstance \cup {Absent}]
        /\ fetched \in [Code -> StoredInstance \cup {Absent}]
        /\ overwritten \subseteq Code
        /\ \A c \in Comp : (copy[c] # Absent) = (node[c] = "loaded")
    BY DEF Init, EmptyResolution
  <2>2. plan \in [Comp -> NodePlan]
    BY DEF Init, NoActions, NodePlan
  <2>3. cloud \in [Code -> Param \cup {NotDeployed}] /\ err \in [Comp -> BOOLEAN]
        /\ node \in [Comp -> NodeState]
    BY DEF Init, NodeState
  <2>4. faults \in 0..MaxFaults /\ crashes \in 0..MaxCrashes /\ refreshes \in 0..MaxRefreshes
    BY PoliciesAssumption DEF Init
  <2>5. cur \in DOMAIN revisions /\ policyGen = 1 /\ gen = 0 /\ pc = "idle"
        /\ policy = EmptyPolicy /\ handler = "idle"
    BY <1>5 DEF Init
  <2>6. \A i \in DOMAIN revisions : revisions[i].policyGen \in 1..policyGen
    BY <1>2, <1>5, <2>5
  <2> QED  BY <1>5, <2>1, <2>2, <2>3, <2>4, <2>5, <2>6 DEF TypeOK
<1>7. RevisionsInOrder /\ RevisionsInv
  <2>1. \A i \in DOMAIN revisions : i = 1 /\ revisions[i] = r
    BY <1>5
  <2> QED  BY <1>2, <1>4, <1>5, <2>1 DEF RevisionsInOrder, RevisionsInv
<1>8. ConsumersDeployed /\ StoredInv
  BY DiffAssumption DEF Init, ConsumersDeployed, StoredInv, Consumers, EmptyResolution
<1>9. EnforcerInv /\ pc # "applying" /\ \A c \in Comp : node[c] = "ended"
  BY DEF Init, EnforcerInv
<1> QED  BY <1>6, <1>7, <1>8, <1>9 DEF Inv

LEMMA ChangePolicyInv == \A p \in Policies : Inv /\ ChangePolicy(p) => Inv'
<1> SUFFICES ASSUME Inv, NEW p \in Policies, ChangePolicy(p) PROVE Inv'
  OBVIOUS
<1>1. /\ policy' = p /\ policyGen' = policyGen + 1 /\ handler' = "policy"
      /\ UNCHANGED <<revisions, stored, cloud, pc, cur, gen, plan, node, copy, err,
                     fetched, overwritten, faults, crashes, refreshes>>
  BY DEF ChangePolicy, planVars, refreshVars, countVars
<1>2. TypeOK'
  <2>1. policyGen' \in Nat /\ gen' \in 0..policyGen'
        /\ \A i \in DOMAIN revisions' : revisions'[i].policyGen \in 1..policyGen'
    BY <1>1 DEF Inv, TypeOK
  <2> QED  BY <1>1, <2>1 DEF Inv, TypeOK
<1>3. RevisionsInOrder' /\ ConsumersDeployed' /\ RevisionsInv' /\ StoredInv' /\ EnforcerInv'
  BY <1>1
  DEF Inv, RevisionsInOrder, ConsumersDeployed, RevisionsInv, StoredInv, EnforcerInv,
      Consumers, WellResolved
<1>4. (IF pc = "applying" THEN \A c \in Comp : NodeInv(c) ELSE \A c \in Comp : node[c] = "ended")'
  BY <1>1 DEF Inv, NodeInv, PlanInv, Progress, Consumers, SameInstance
<1> QED  BY <1>2, <1>3, <1>4 DEF Inv

LEMMA HandlerInv == Inv /\ (Handler \/ EnforceState) => Inv'
<1> SUFFICES ASSUME Inv, Handler \/ EnforceState PROVE Inv'
  OBVIOUS
<1>1. /\ policy \in Policies \cup {EmptyPolicy} /\ policyGen \in Nat
      /\ revisions \in Seq(RevisionRecord) /\ Len(revisions) \in Nat
      /\ DOMAIN revisions = 1..Len(revisions) /\ cur \in DOMAIN revisions
      /\ revisions[cur].policyGen \in 1..policyGen
  BY LenProperties DEF Inv, TypeOK
<1>2. policyGen >= 1
  BY <1>1
<1>3. CASE NewRevision
  BY <1>1, <1>2, <1>3, RevisionOfPolicy, AddRevisionInv DEF NewRevision
<1>4. CASE EnforceState
  BY <1>1, <1>2, <1>4, RevisionOfPolicy, AddRevisionInv DEF EnforceState
<1>5. CASE SaveDesiredState
  <2> DEFINE n == Len(revisions)
  <2>1. n \in DOMAIN revisions
    BY <1>1
  <2>2. revisions[n] \in RevisionRecord
    BY <1>1, <2>1, ElementOfSeq
  <2>3. /\ handler' = "idle" /\ revisions' = [revisions EXCEPT ![n].saved = TRUE]
        /\ UNCHANGED <<policy, policyGen, stored, cloud, pc, cur, gen, plan, node, copy, err,
                       fetched, overwritten, faults, crashes, refreshes>>
    BY <1>5 DEF SaveDesiredState, planVars, refreshVars, countVars
  <2> DEFINE r == [revisions[n] EXCEPT !.saved = TRUE]
  <2>4. /\ r \in RevisionRecord /\ r.policyGen = revisions[n].policyGen
        /\ r.desired = revisions[n].desired /\ r.finds = revisions[n].finds
        /\ r.recalculateAll = revisions[n].recalculateAll
        /\ r.status = revisions[n].status /\ r.failed = revisions[n].failed
        /\ revisions' = [revisions EXCEPT ![n] = r]
    BY <2>1, <2>2, <2>3 DEF RevisionRecord
  <2> HIDE DEF n, r
  <2>5. /\ revisions' \in Seq(RevisionRecord) /\ DOMAIN revisions' = DOMAIN revisions
        /\ \A j \in DOMAIN revisions :
             /\ revisions'[j].policyGen = revisions[j].policyGen
             /\ revisions'[j].desired = revisions[j].desired
             /\ revisions'[j].finds = revisions[j].finds
             /\ revisions'[j].recalculateAll = revisions[j].recalculateAll
             /\ revisions'[j].status = revisions[j].status
             /\ revisions'[j].failed = revisions[j].failed
        /\ \A j \in DOMAIN revisions' : revisions'[j].policyGen \in 1..policyGen'
        /\ RevisionsInv'
    BY <2>1, <2>3, <2>4, RevisionMarked DEF Inv
  <2>6. TypeOK'
    BY <2>3, <2>5 DEF Inv, TypeOK
  <2>7. RevisionsInOrder' /\ EnforcerInv'
    BY <2>3, <2>5 DEF Inv, RevisionsInOrder, EnforcerInv
  <2>8. ConsumersDeployed' /\ StoredInv'
    BY <2>3 DEF Inv, ConsumersDeployed, StoredInv, Consumers
  <2>9. (IF pc = "applying" THEN \A c \in Comp : NodeInv(c)
         ELSE \A c \in Comp : node[c] = "ended")'
    BY <1>1, <2>3, <2>5 DEF Inv, NodeInv, PlanInv, Progress, Consumers, SameInstance
  <2> QED  BY <2>5, <2>6, <2>7, <2>8, <2>9 DEF Inv
<1> QED  BY <1>3, <1>4, <1>5 DEF Handler

(* The revision that is picked is the border between the completed ones    *)
(* and the waiting ones.                                                   *)
LEMMA PickInv ==
  ASSUME Inv, NEW i \in DOMAIN revisions, Pick(i), pc # "applying",
         \A j \in DOMAIN revisions : j < i => revisions[j].status = "completed",
         \A j \in DOMAIN revisions : j > i => revisions[j].status = "waiting"
  PROVE  Inv'
<1>1. revisions \in Seq(RevisionRecord) /\ i \in 1..Len(revisions)
      /\ \A j \in DOMAIN revisions : j \in Nat
  BY LenProperties DEF Inv, TypeOK
<1>2. revisions[i] \in RevisionRecord
  BY <1>1, ElementOfSeq
<1>3. /\ revisions' = [revisions EXCEPT ![i] =
               [revisions[i] EXCEPT !.status = "waiting", !.failed = FALSE]]
      /\ cur' = i /\ pc' = "picked"
      /\ UNCHANGED <<policy, policyGen, handler, stored, cloud, gen, plan, node, copy, err,
                     fetched, overwritten, faults, crashes, refreshes>>
  BY <1>1 DEF Pick, planVars, refreshVars, countVars
<1> DEFINE r == [revisions[i] EXCEPT !.status = "waiting", !.failed = FALSE]
<1>4. /\ r \in RevisionRecord /\ r.policyGen = revisions[i].policyGen
      /\ r.desired = revisions[i].desired /\ r.finds = revisions[i].finds
      /\ r.recalculateAll = revisions[i].recalculateAll
      /\ r.status = "waiting" /\ revisions' = [revisions EXCEPT ![i] = r]
  BY <1>2, <1>3 DEF RevisionRecord
<1> HIDE DEF r
<1>5. /\ revisions' \in Seq(RevisionRecord) /\ DOMAIN revisions' = DOMAIN revisions
      /\ revisions'[i].status = "waiting"
      /\ \A j \in DOMAIN revisions : j # i => revisions'[j] = revisions[j]
      /\ \A j \in DOMAIN revisions' : revisions'[j].policyGen \in 1..policyGen'
      /\ RevisionsInv'
  BY <1>3, <1>4, RevisionMarked DEF Inv
<1>6. TypeOK'
  BY <1>3, <1>5 DEF Inv, TypeOK
<1>7. RevisionsInOrder' /\ EnforcerInv'
  <2>1. \A k \in DOMAIN revisions : revisions'[k].status # "waiting" => k < i
    BY <1>1, <1>5
  <2>2. \A j \in DOMAIN revisions : j < i => revisions'[j].status = "completed"
    BY <1>1, <1>5
  <2>3. \A j \in DOMAIN revisions : j > i => revisions'[j].status = "waiting"
    BY <1>1, <1>5
  <2>4. RevisionsInOrder'
    BY <1>1, <1>5, <2>1, <2>2 DEF RevisionsInOrder
  <2>5. EnforcerInv'
    BY <1>3, <1>5, <2>2, <2>3 DEF EnforcerInv
  <2> QED  BY <2>4, <2>5
<1>8. ConsumersDeployed' /\ StoredInv' /\ pc' # "applying" /\ (\A c \in Comp : node[c] = "ended")'
  BY <1>3 DEF Inv, ConsumersDeployed, StoredInv, Consumers
<1> QED  BY <1>5, <1>6, <1>7, <1>8 DEF Inv

LEMMA PickUnprocessedInv == Inv /\ PickUnprocessed => Inv'
<1> SUFFICES ASSUME Inv, PickUnprocessed PROVE Inv'
  OBVIOUS
<1> DEFINE i == Min(Unprocessed)
<1>1. DOMAIN revisions \in SUBSET Nat
  BY LenProperties DEF Inv, TypeOK
<1>2. Unprocessed \in SUBSET Nat /\ Unprocessed # {}
  BY <1>1 DEF PickUnprocessed, Unprocessed
<1>3. i \in Unprocessed /\ \A j \in Unprocessed : i <= j
  BY <1>2, MinOfNats
<1> HIDE DEF i
<1>4. i \in DOMAIN revisions /\ revisions[i].status # "completed"
  BY <1>3 DEF Unprocessed
<1>5. \A j \in DOMAIN revisions : j < i => revisions[j].status = "completed"
  BY <1>1, <1>3, <1>4 DEF Unprocessed
<1>6. \A j \in DOMAIN revisions : j > i => revisions[j].status = "waiting"
  BY <1>1, <1>4 DEF Inv, RevisionsInOrder
<1> QED
  BY <1>4, <1>5, <1>6, PickInv DEF PickUnprocessed, i

LEMMA PickForRetryInv == Inv /\ PickForRetry => Inv'
<1> SUFFICES ASSUME Inv, PickForRetry PROVE Inv'
  OBVIOUS
<1> DEFINE i == LastFor(gen)
<1>1. /\ Len(revisions) \in Nat /\ DOMAIN revisions = 1..Len(revisions)
      /\ policyGen \in Nat /\ gen \in 0..policyGen
      /\ \A j \in DOMAIN revisions : revisions[j].policyGen \in 1..policyGen
  BY LenProperties DEF Inv, TypeOK
<1>2. pc = "looking" /\ OfPolicy(gen) # {} /\ OfPolicy(gen) \in SUBSET (1..Len(revisions))
  BY <1>1 DEF PickForRetry, NeedsRetry, OfPolicy
<1>3. i \in OfPolicy(gen) /\ \A j \in OfPolicy(gen) : j <= i
  BY <1>1, <1>2, MaxOfBounded DEF LastFor
<1> HIDE DEF i
<1>4. i \in DOMAIN revisions /\ revisions[i].policyGen = gen /\ revisions[i].status = "completed"
  BY <1>3 DEF PickForRetry, NeedsRetry, OfPolicy, i
<1>5. \A j \in DOMAIN revisions : j < i => revisions[j].status = "completed"
  BY <1>4 DEF Inv, RevisionsInOrder
<1>6. \A j \in DOMAIN revisions : j > i => revisions[j].status = "waiting"
  <2>1. TAKE j \in DOMAIN revisions
  <2>2. HAVE j > i
  <2>3. revisions[j].policyGen >= gen
    BY <1>1, <1>4, <2>2 DEF Inv, RevisionsInv
  <2>4. revisions[j].policyGen # gen
    BY <1>1, <1>3, <1>4, <2>2 DEF OfPolicy
  <2>5. revisions[j].policyGen > gen
    BY <1>1, <2>3, <2>4
  <2> QED  BY <1>2, <2>5 DEF Inv, EnforcerInv
<1> QED
  BY <1>2, <1>4, <1>5, <1>6, PickInv DEF PickForRetry, i

(* The steps of the enforcer that change nothing but its own state.        *)
LEMMA LookingInv ==
  Inv /\ (ReadLatestPolicy \/ NothingToProcess \/ NoDesiredState) => Inv'
<1> SUFFICES ASSUME Inv, ReadLatestPolicy \/ NothingToProcess \/ NoDesiredState PROVE Inv'
  OBVIOUS
<1>1. /\ pc # "applying" /\ pc' \in {"idle", "looking"} /\ gen' \in {gen, policyGen}
      /\ UNCHANGED <<revisions, policy, policyGen, handler, stored, cloud, cur, plan, node,
                     copy, err, fetched, overwritten, faults, crashes, refreshes>>
  BY DEF ReadLatestPolicy, NothingToProcess, NoDesiredState, apiVars, planVars, refreshVars,
         countVars
<1>2. TypeOK'
  BY <1>1 DEF Inv, TypeOK
<1>3. EnforcerInv'
  <2>1. CASE ReadLatestPolicy
    <3>1. \A i \in DOMAIN revisions : revisions[i].status = "completed"
      BY <2>1 DEF ReadLatestPolicy, Unprocessed
    <3>2. \A i \in DOMAIN revisions : ~(revisions[i].policyGen > policyGen)
      BY DEF Inv, TypeOK
    <3>3. gen' = policyGen
      BY <2>1 DEF ReadLatestPolicy
    <3> QED  BY <1>1, <3>1, <3>2, <3>3 DEF EnforcerInv
  <2>2. CASE NothingToProcess \/ NoDesiredState
    <3>1. pc' = "idle"
      BY <2>2 DEF NothingToProcess, NoDesiredState
    <3> QED  BY <3>1 DEF EnforcerInv
  <2> QED  BY <2>1, <2>2
<1> QED  BY <1>1, <1>2, <1>3, NothingApplied

(* What the diff leaves to do for one node.                                *)
LEMMA NodePlanFlags ==
  ASSUME NEW p \in NodePlan, NEW a \in BOOLEAN, NEW b \in BOOLEAN,
         NEW q, q = [p EXCEPT !.parentFirst = a, !.parentLast = b]
  PROVE  /\ q \in NodePlan
         /\ q.detach = p.detach /\ q.main = p.main /\ q.attach = p.attach
BY DEF NodePlan

LEMMA PlanOfNode ==
  ASSUME NEW prev \in [Comp -> StoredInstance \cup {Absent}],
         NEW next \in Resolution, NEW p \in Plans(prev, next)
  PROVE  /\ p \in [Comp -> NodePlan]
         /\ \A c \in Comp :
              /\ p[c].detach = Consumers(prev, c) \ Consumers(next, c)
              /\ p[c].main   = MainAction(prev, next, c)
              /\ p[c].attach = Consumers(next, c) \ Consumers(prev, c)
<1> DEFINE services == {c \in Comp \ Code : UpdatesParent(prev, next, c)}
           flagged(first, c) == [BuildActions(prev, next, c) EXCEPT
             !.parentFirst = c \in first /\ UpdatesParent(prev, next, c),
             !.parentLast  = c \notin first /\ UpdatesParent(prev, next, c)]
<1>1. PICK first \in SUBSET services : p = [c \in Comp |-> flagged(first, c)]
  BY DEF Plans
<1>2. ASSUME NEW c \in Comp
      PROVE  /\ flagged(first, c) \in NodePlan
             /\ flagged(first, c).detach = Consumers(prev, c) \ Consumers(next, c)
             /\ flagged(first, c).main   = MainAction(prev, next, c)
             /\ flagged(first, c).attach = Consumers(next, c) \ Consumers(prev, c)
  <2> DEFINE b == BuildActions(prev, next, c)
  <2>1. Consumers(prev, c) \in SUBSET Dep /\ Consumers(next, c) \in SUBSET Dep
    BY DEF Consumers, Resolution, Instance, StoredInstance
  <2>2. MainAction(prev, next, c) \in {"none", "delete", "create", "update"}
    BY DEF MainAction
  <2>3. /\ b \in NodePlan
        /\ b.detach = Consumers(prev, c) \ Consumers(next, c)
        /\ b.main   = MainAction(prev, next, c)
        /\ b.attach = Consumers(next, c) \ Consumers(prev, c)
    BY <2>1, <2>2 DEF BuildActions, NodePlan
  <2>4. /\ (c \in first /\ UpdatesParent(prev, next, c)) \in BOOLEAN
        /\ (c \notin first /\ UpdatesParent(prev, next, c)) \in BOOLEAN
    OBVIOUS
  <2> HIDE DEF b
  <2>5. flagged(first, c) = [b EXCEPT
             !.parentFirst = c \in first /\ UpdatesParent(prev, next, c),
             !.parentLast  = c \notin first /\ UpdatesParent(prev, next, c)]
    BY DEF b
  <2> HIDE DEF flagged
  <2> QED  BY <2>3, <2>4, <2>5, NodePlanFlags
<1> HIDE DEF flagged
<1> QED  BY <1>1, <1>2

(* The plan of a node, just made, leads from what is stored to what is     *)
(* desired, whether it was made from the actual state or from nothing.     *)
LEMMA StartApplyInv == Inv /\ StartApply => Inv'
<1> SUFFICES ASSUME Inv, StartApply PROVE Inv'
  OBVIOUS
<1> DEFINE r    == revisions[cur]
           prev == IF r.recalculateAll THEN EmptyResolution ELSE stored
           now  == [r EXCEPT !.status = "inprogress"]
<1>1. /\ revisions \in Seq(RevisionRecord) /\ cur \in DOMAIN revisions
      /\ cur \in 1..Len(revisions)
      /\ \A j \in DOMAIN revisions : j \in Nat
  BY LenProperties DEF Inv, TypeOK
<1>2. r \in RevisionRecord /\ WellResolved(r)
  BY <1>1, ElementOfSeq DEF Inv, RevisionsInv
<1>3. prev \in [Comp -> StoredInstance \cup {Absent}]
  BY DEF Inv, TypeOK, EmptyResolution
<1>4. /\ plan' \in [Comp -> NodePlan]
      /\ \A c \in Comp :
           /\ plan'[c].detach = Consumers(prev, c) \ Consumers(r.desired, c)
           /\ plan'[c].main   = MainAction(prev, r.desired, c)
           /\ plan'[c].attach = Consumers(r.desired, c) \ Consumers(prev, c)
  <2>1. r.desired \in Resolution /\ plan' \in Plans(prev, r.desired)
    BY <1>2 DEF RevisionRecord, StartApply
  <2> HIDE DEF prev, r
  <2> QED  BY <1>3, <2>1, PlanOfNode
<1>5. /\ node' = [c \in Comp |-> "pending"] /\ err' = [c \in Comp |-> FALSE]
      /\ pc = "picked" /\ pc' = "applying"
      /\ UNCHANGED <<policy, policyGen, handler, stored, cloud, cur, gen, copy, fetched,
                     overwritten, faults, crashes, refreshes>>
  BY DEF StartApply, refreshVars, countVars
<1>6. /\ now \in RevisionRecord /\ now.policyGen = r.policyGen /\ now.desired = r.desired
      /\ now.finds = r.finds /\ now.recalculateAll = r.recalculateAll
      /\ now.status = "inprogress" /\ revisions' = [revisions EXCEPT ![cur] = now]
  BY <1>1, <1>2 DEF StartApply, RevisionRecord
<1> HIDE DEF now, prev
<1>7. /\ revisions' \in Seq(RevisionRecord) /\ DOMAIN revisions' = DOMAIN revisions
      /\ revisions'[cur].status = "inprogress"
      /\ \A j \in DOMAIN revisions : j # cur => revisions'[j] = revisions[j]
      /\ revisions'[cur].desired = r.desired
      /\ revisions'[cur].recalculateAll = r.recalculateAll
      /\ \A j \in DOMAIN revisions' : revisions'[j].policyGen \in 1..policyGen'
      /\ RevisionsInv'
  BY <1>1, <1>5, <1>6, RevisionMarked DEF Inv
<1> HIDE DEF r
<1>8. TypeOK'
  <2>1. node' \in [Comp -> NodeState] /\ err' \in [Comp -> BOOLEAN]
    BY <1>5 DEF NodeState
  <2>2. \A c \in Comp : (copy'[c] # Absent) = (node'[c] = "loaded")
    BY <1>5 DEF Inv, TypeOK
  <2> QED  BY <1>4, <1>5, <1>7, <2>1, <2>2 DEF Inv, TypeOK
<1>9. RevisionsInOrder' /\ EnforcerInv'
  <2>1. /\ \A j \in DOMAIN revisions : j < cur => revisions'[j].status = "completed"
        /\ \A j \in DOMAIN revisions : j > cur => revisions'[j].status = "waiting"
    BY <1>1, <1>5, <1>7 DEF Inv, EnforcerInv
  <2>2. RevisionsInOrder'
    BY <1>1, <1>7, <2>1 DEF RevisionsInOrder
  <2> QED  BY <1>1, <1>5, <1>7, <2>1, <2>2 DEF EnforcerInv
<1>10. ConsumersDeployed' /\ StoredInv'
  BY <1>5 DEF Inv, ConsumersDeployed, StoredInv, Consumers
<1>11. ASSUME NEW c \in Comp PROVE NodeInv(c)'
  <2> DEFINE want == r.desired[c]
             D == Consumers(prev, c)
             W == Consumers(r.desired, c)
  <2>1. /\ plan'[c].detach = D \ W /\ plan'[c].main = MainAction(prev, r.desired, c)
        /\ plan'[c].attach = W \ D
    BY <1>4
  <2>2. want # Absent => W = want.deps /\ W # {}
    BY <1>2 DEF WellResolved, Consumers
  <2>3. want = Absent => W = {}
    BY DEF Consumers
  <2>4. D # {} => prev = stored /\ stored[c] # Absent /\ D = stored[c].deps
    BY DEF prev, Consumers, EmptyResolution
  <2>5. D # {} => D = Consumers(stored, c)
    BY <2>4
  <2>6. /\ plan'[c].main = "delete" => D # {} /\ W = {}
        /\ plan'[c].main = "create" => D = {} /\ W # {}
        /\ plan'[c].main = "update" => D # {} /\ W # {}
        /\ plan'[c].main = "none" => ~(D # {} /\ W = {}) /\ ~(D = {} /\ W # {})
    BY <2>1 DEF MainAction
  <2>7. plan'[c].main \in {"none", "delete", "create", "update"}
    BY <2>1 DEF MainAction
  <2>8. D # {} /\ W # {} =>
          plan'[c].main = "update" \/ stored[c].params = want.params
    <3> SUFFICES ASSUME D # {}, W # {}, plan'[c].main # "update"
                 PROVE  stored[c].params = want.params
      OBVIOUS
    <3>1. prev = stored /\ stored[c] # Absent /\ want # Absent
      BY <2>3, <2>4
    <3>2. CASE c \in Code
      BY <2>1, <3>1, <3>2 DEF MainAction
    <3>3. CASE c \notin Code
      BY <1>2, <3>1, <3>3 DEF WellResolved, Inv, StoredInv
    <3> QED  BY <3>2, <3>3
  <2>9. revisions'[cur'].desired[c] = want /\ stored' = stored /\ cloud' = cloud
        /\ overwritten' = overwritten
    BY <1>5, <1>7
  <2>10. want # Absent => Progress(c, revisions[cur].desired[c])'
    <3> SUFFICES ASSUME want # Absent PROVE Progress(c, revisions[cur].desired[c])'
      OBVIOUS
    <3>1. CASE D = {}
      <4>1. plan'[c].main = "create"
        BY <2>2, <2>6, <2>7, <3>1
      <4> QED  BY <2>1, <3>1, <4>1 DEF Progress
    <3>2. CASE D # {}
      <4>1. plan'[c].main # "create"
        BY <2>6, <3>2
      <4>2. (stored[c].deps \ (D \ W)) \cup (W \ D) = want.deps
        BY <2>2, <2>4, <3>2
      <4>3. stored'[c] # Absent /\ stored' = stored
        BY <2>9, <2>4, <3>2
      <4>4. plan'[c].main = "update" \/ stored[c].params = want.params
        BY <2>2, <2>8, <3>2
      <4> HIDE DEF D, W, want
      <4>5. (stored'[c].deps \ plan'[c].detach) \cup plan'[c].attach = want.deps
        BY <2>1, <4>2, <4>3
      <4> QED  BY <2>9, <4>1, <4>3, <4>4, <4>5 DEF Progress
    <3> QED  BY <3>1, <3>2
  <2>11. c \notin overwritten => PlanInv(c)'
    <3> SUFFICES ASSUME c \notin overwritten PROVE PlanInv(c)'
      OBVIOUS
    <3>1. plan'[c].main = "delete" =>
            Consumers(stored, c) \subseteq plan'[c].detach /\ plan'[c].attach = {} /\ want = Absent
      BY <2>1, <2>2, <2>5, <2>6
    <3>2. plan'[c].attach # {} => want # Absent /\ plan'[c].attach \subseteq want.deps
      BY <2>1, <2>2, <2>3
    <3>3. c \in Code /\ plan'[c].main \in {"none", "update"} /\ plan'[c].attach # {} =>
            cloud[c] # NotDeployed
      <4>1. D # {} /\ c \in Code => cloud[c] # NotDeployed
        BY <2>5 DEF Inv, ConsumersDeployed
      <4> QED  BY <2>1, <2>6, <4>1
    <3>4. want = Absent /\ ~r.recalculateAll => Consumers(stored, c) \subseteq plan'[c].detach
      BY <2>1, <2>3 DEF prev
    <3>5. Consumers(stored, c)' = Consumers(stored, c)
          /\ revisions'[cur'].recalculateAll = r.recalculateAll
      BY <1>5, <1>7, <2>9 DEF Consumers
    <3> HIDE DEF want
    <3> QED  BY <2>9, <2>10, <3>1, <3>2, <3>3, <3>4, <3>5 DEF PlanInv
  <2>12. plan'[c].main \in {"create", "update"} => revisions'[cur'].desired[c] # Absent
    BY <2>3, <2>6, <2>9
  <2> QED  BY <1>5, <2>9, <2>11, <2>12 DEF NodeInv
<1> QED  BY <1>5, <1>7, <1>8, <1>9, <1>10, <1>11 DEF Inv

LEMMA FinishInv == Inv /\ Finish => Inv'
<1> SUFFICES ASSUME Inv, Finish PROVE Inv'
  OBVIOUS
<1> DEFINE r == [revisions[cur] EXCEPT !.status = "completed"]
<1>1. /\ revisions \in Seq(RevisionRecord) /\ cur \in DOMAIN revisions
      /\ cur \in 1..Len(revisions) /\ \A j \in DOMAIN revisions : j \in Nat
  BY LenProperties DEF Inv, TypeOK
<1>2. revisions[cur] \in RevisionRecord
  BY <1>1, ElementOfSeq
<1>3. /\ pc = "applying" /\ pc' = "idle" /\ \A c \in Comp : node[c] = "ended"
      /\ UNCHANGED <<policy, policyGen, handler, stored, cloud, cur, gen, plan, node, copy, err,
                     fetched, overwritten, faults, crashes, refreshes>>
  BY DEF Finish, planVars, refreshVars, countVars
<1>4. /\ r \in RevisionRecord /\ r.policyGen = revisions[cur].policyGen
      /\ r.desired = revisions[cur].desired /\ r.finds = revisions[cur].finds
      /\ r.recalculateAll = revisions[cur].recalculateAll
      /\ r.status = "completed" /\ revisions' = [revisions EXCEPT ![cur] = r]
  BY <1>1, <1>2 DEF Finish, RevisionRecord
<1> HIDE DEF r
<1>5. /\ revisions' \in Seq(RevisionRecord) /\ DOMAIN revisions' = DOMAIN revisions
      /\ revisions'[cur].status = "completed"
      /\ \A j \in DOMAIN revisions : j # cur => revisions'[j] = revisions[j]
      /\ \A j \in DOMAIN revisions' : revisions'[j].policyGen \in 1..policyGen'
      /\ RevisionsInv'
  BY <1>1, <1>3, <1>4, RevisionMarked DEF Inv
<1>6. TypeOK'
  BY <1>3, <1>5 DEF Inv, TypeOK
<1>7. RevisionsInOrder'
  <2>1. /\ \A j \in DOMAIN revisions : j < cur => revisions'[j].status = "completed"
        /\ \A j \in DOMAIN revisions : j > cur => revisions'[j].status = "waiting"
    BY <1>1, <1>3, <1>5 DEF Inv, EnforcerInv
  <2> QED  BY <1>1, <1>5, <2>1 DEF RevisionsInOrder
<1>8. EnforcerInv' /\ ConsumersDeployed' /\ StoredInv' /\ (\A c \in Comp : node[c] = "ended")'
  BY <1>3 DEF Inv, EnforcerInv, ConsumersDeployed, StoredInv, Consumers
<1> QED  BY <1>3, <1>5, <1>6, <1>7, <1>8 DEF Inv

(* A crash leaves the store and the cloud as they are.                     *)
LEMMA CrashInv == Inv /\ Crash => Inv'
<1> SUFFICES ASSUME Inv, Crash PROVE Inv'
  OBVIOUS
<1>1. /\ pc' = "idle" /\ handler' = "idle" /\ crashes' \in 0..MaxCrashes
      /\ node' = [c \in Comp |-> "ended"] /\ copy' = [c \in Comp |-> Absent]
      /\ UNCHANGED <<revisions, policy, policyGen, stored, cloud, cur, gen, overwritten,
                     faults, refreshes>>
  BY PoliciesAssumption DEF Crash, Inv, TypeOK
<1>2. /\ plan' \in [Comp -> NodePlan] /\ err' \in [Comp -> BOOLEAN]
      /\ node' \in [Comp -> NodeState]
      /\ copy' \in [Comp -> StoredInstance \cup {Absent}]
      /\ fetched' \in [Code -> StoredInstance \cup {Absent}]
      /\ \A c \in Comp : (copy'[c] # Absent) = (node'[c] = "loaded")
  BY DEF Crash, NoActions, NodePlan, NodeState
<1>3. TypeOK' /\ EnforcerInv'
  BY <1>1, <1>2 DEF Inv, TypeOK, EnforcerInv
<1>4. RevisionsInOrder' /\ ConsumersDeployed' /\ RevisionsInv'
  BY <1>1
  DEF Inv, RevisionsInOrder, ConsumersDeployed, RevisionsInv, Consumers, WellResolved
<1>5. StoredInv' /\ (\A c \in Comp : node[c] = "ended")'
  BY <1>1 DEF Inv, StoredInv
<1> QED  BY <1>1, <1>3, <1>4, <1>5 DEF Inv

(* The endpoints updater saves what it has loaded: the instance is the     *)
(* same, or overwritten.                                                   *)
LEMMA UpdaterInv == Inv /\ Updater => Inv'
<1> SUFFICES ASSUME Inv, NEW c \in Code, LoadForEndpoints(c) \/ SaveEndpoints(c) PROVE Inv'
  BY DEF Updater
<1>1. CASE LoadForEndpoints(c)
  <2>1. /\ fetched' = [fetched EXCEPT ![c] = stored[c]]
        /\ refreshes < MaxRefreshes /\ refreshes' = refreshes + 1
        /\ UNCHANGED <<revisions, policy, policyGen, handler, stored, cloud, pc, cur, gen, plan,
                       node, copy, err, overwritten, faults, crashes>>
    BY <1>1 DEF LoadForEndpoints, apiVars, planVars
  <2>2. fetched' \in [Code -> StoredInstance \cup {Absent}] /\ refreshes' \in 0..MaxRefreshes
    BY <2>1, DiffAssumption, PoliciesAssumption DEF Inv, TypeOK
  <2>3. TypeOK'
    BY <2>1, <2>2 DEF Inv, TypeOK
  <2>4. /\ RevisionsInOrder' /\ ConsumersDeployed' /\ RevisionsInv' /\ StoredInv' /\ EnforcerInv'
        /\ (IF pc = "applying" THEN \A b \in Comp : NodeInv(b)
            ELSE \A b \in Comp : node[b] = "ended")'
    BY <2>1
    DEF Inv, RevisionsInOrder, ConsumersDeployed, RevisionsInv, StoredInv, EnforcerInv,
        Consumers, WellResolved, NodeInv, PlanInv, Progress, SameInstance
  <2> QED  BY <2>3, <2>4 DEF Inv
<1>2. CASE SaveEndpoints(c)
  <2> DEFINE new == [fetched[c] EXCEPT !.upToDate = TRUE]
  <2>1. /\ fetched[c] # Absent /\ stored' = [stored EXCEPT ![c] = new]
        /\ overwritten' = overwritten
                          \cup (IF SameInstance(stored[c], fetched[c]) THEN {} ELSE {c})
        /\ fetched' = [fetched EXCEPT ![c] = Absent]
        /\ UNCHANGED <<revisions, policy, policyGen, handler, cloud, pc, cur, gen, plan,
                       node, copy, err, faults, crashes, refreshes>>
    BY <1>2 DEF SaveEndpoints, apiVars, planVars, countVars
  <2>2. fetched[c] \in StoredInstance /\ c \in Comp /\ TypeOK
    BY <2>1, DiffAssumption DEF Inv, TypeOK
  <2>3. /\ new \in StoredInstance /\ new.deps = fetched[c].deps
        /\ new.params = fetched[c].params
    BY <2>2 DEF StoredInstance
  <2>4. new # Absent
    BY <2>3, PoliciesAssumption
  <2> HIDE DEF new
  <2>5. /\ stored' \in [Comp -> StoredInstance \cup {Absent}] /\ stored'[c] = new
        /\ \A b \in Comp \ {c} : stored'[b] = stored[b]
    BY <2>1, <2>2, <2>3 DEF TypeOK
  <2>6. TypeOK'
    BY <2>1, <2>2, <2>5 DEF TypeOK
  <2>7. c \notin overwritten' => /\ c \notin overwritten /\ stored[c] # Absent
                                 /\ stored'[c].deps = stored[c].deps
                                 /\ stored'[c].params = stored[c].params
    BY <2>1, <2>3, <2>5 DEF SameInstance
  <2>8. \A b \in Comp \ overwritten' :
          /\ b \notin overwritten /\ (stored'[b] = Absent) = (stored[b] = Absent)
          /\ Consumers(stored', b) = Consumers(stored, b)
          /\ stored[b] # Absent => /\ stored'[b].deps = stored[b].deps
                                   /\ stored'[b].params = stored[b].params
    BY <2>1, <2>4, <2>5, <2>7 DEF Consumers
  <2>9. ConsumersDeployed'
    <3>1. \A b \in Code \ overwritten' : Consumers(stored', b) # {} => cloud'[b] # NotDeployed
      BY <2>1, <2>8, DiffAssumption DEF Inv, ConsumersDeployed
    <3> QED  BY <3>1 DEF ConsumersDeployed, Consumers
  <2>10. RevisionsInOrder' /\ RevisionsInv' /\ EnforcerInv'
    BY <2>1 DEF Inv, RevisionsInOrder, RevisionsInv, EnforcerInv, WellResolved
  <2>11. StoredInv'
    BY <2>1, <2>5 DEF Inv, StoredInv
  <2>12. pc = "applying" => \A b \in Comp : NodeInv(b)'
    <3> SUFFICES ASSUME pc = "applying", NEW b \in Comp PROVE NodeInv(b)'
      OBVIOUS
    <3>1. NodeInv(b)
      BY DEF Inv
    <3>2. b \notin overwritten' => PlanInv(b)'
      <4> SUFFICES ASSUME b \notin overwritten' PROVE PlanInv(b)'
        OBVIOUS
      <4>1. /\ PlanInv(b) /\ (stored'[b] = Absent) = (stored[b] = Absent)
            /\ Consumers(stored, b)' = Consumers(stored, b)
            /\ stored[b] # Absent => /\ stored'[b].deps = stored[b].deps
                                     /\ stored'[b].params = stored[b].params
        BY <2>8, <3>1 DEF NodeInv, Consumers
      <4> QED  BY <2>1, <4>1 DEF PlanInv, Progress
    <3>3. b \notin overwritten' /\ node'[b] = "loaded" => SameInstance(copy'[b], stored'[b])
      BY <2>1, <2>8, <3>1 DEF NodeInv, SameInstance
    <3> QED  BY <2>1, <3>1, <3>2, <3>3 DEF NodeInv, SameInstance
  <2> QED  BY <2>1, <2>6, <2>9, <2>10, <2>11, <2>12 DEF Inv
<1> QED  BY <1>1, <1>2

-----------------------------------------------------------------------------
(* The steps of a node.                                                    *)

(* A step of node c changes what concerns c and at most the result of the  *)
(* revision: the other nodes keep what they rely on.                       *)
LEMMA NodeStep ==
  ASSUME Inv, pc = "applying", NEW c \in Comp,
         UNCHANGED <<policy, policyGen, handler, pc, cur, gen, fetched, overwritten, crashes,
                     refreshes>>,
         \/ revisions' = revisions
         \/ revisions' = [revisions EXCEPT ![cur].failed = TRUE],
         stored' \in [Comp -> StoredInstance \cup {Absent}],
         copy' \in [Comp -> StoredInstance \cup {Absent}],
         cloud' \in [Code -> Param \cup {NotDeployed}],
         plan' \in [Comp -> NodePlan], err' \in [Comp -> BOOLEAN],
         node' \in [Comp -> NodeState], faults' \in 0..MaxFaults,
         (copy'[c] # Absent) = (node'[c] = "loaded"),
         \A b \in Comp \ {c} :
           /\ stored'[b] = stored[b] /\ plan'[b] = plan[b]
           /\ node'[b] = node[b] /\ err'[b] = err[b] /\ copy'[b] = copy[b],
         \A b \in Code \ {c} : cloud'[b] = cloud[b],
         c \in Code \ overwritten /\ Consumers(stored', c) # {} => cloud'[c] # NotDeployed,
         c \notin Code /\ stored'[c] # Absent => stored'[c].params = NoParams,
         c \notin Code /\ copy'[c] # Absent => copy'[c].params = NoParams,
         NodeInv(c)'
  PROVE  Inv'
<1>1. /\ revisions \in Seq(RevisionRecord) /\ cur \in DOMAIN revisions
      /\ cur \in 1..Len(revisions)
  BY LenProperties DEF Inv, TypeOK
<1>2. revisions[cur] \in RevisionRecord
  BY <1>1, ElementOfSeq
<1>3. /\ revisions' \in Seq(RevisionRecord) /\ DOMAIN revisions' = DOMAIN revisions
      /\ \A j \in DOMAIN revisions :
           /\ revisions'[j].status = revisions[j].status
           /\ revisions'[j].policyGen = revisions[j].policyGen
           /\ revisions'[j].desired = revisions[j].desired
           /\ revisions'[j].recalculateAll = revisions[j].recalculateAll
           /\ revisions[j].failed => revisions'[j].failed
      /\ \A j \in DOMAIN revisions' : revisions'[j].policyGen \in 1..policyGen'
      /\ RevisionsInv'
  <2>1. CASE revisions' = revisions
    <3>1. RevisionsInv'
      BY <2>1 DEF Inv, RevisionsInv, WellResolved
    <3>2. \A j \in DOMAIN revisions' : revisions'[j].policyGen \in 1..policyGen'
      BY <2>1 DEF Inv, TypeOK
    <3> QED  BY <1>1, <2>1, <3>1, <3>2
  <2>2. CASE revisions' = [revisions EXCEPT ![cur].failed = TRUE]
    <3> DEFINE r == [revisions[cur] EXCEPT !.failed = TRUE]
    <3>1. /\ r \in RevisionRecord /\ r.policyGen = revisions[cur].policyGen
          /\ r.desired = revisions[cur].desired /\ r.finds = revisions[cur].finds
          /\ r.recalculateAll = revisions[cur].recalculateAll
          /\ r.status = revisions[cur].status /\ r.failed = TRUE
          /\ revisions' = [revisions EXCEPT ![cur] = r]
      BY <1>1, <1>2, <2>2 DEF RevisionRecord
    <3> HIDE DEF r
    <3> QED  BY <1>1, <3>1, RevisionMarked DEF Inv
  <2> QED  BY <2>1, <2>2
<1>4. TypeOK'
  <2>1. \A b \in Comp : (copy'[b] # Absent) = (node'[b] = "loaded")
    BY DEF Inv, TypeOK
  <2> QED  BY <1>3, <2>1 DEF Inv, TypeOK
<1>5. RevisionsInOrder' /\ EnforcerInv'
  BY <1>3 DEF Inv, RevisionsInOrder, EnforcerInv
<1>6. ConsumersDeployed'
  <2>1. \A b \in Code \ {c} : Consumers(stored', b) = Consumers(stored, b)
    BY DiffAssumption DEF Consumers
  <2> QED  BY <2>1 DEF Inv, ConsumersDeployed, Consumers
<1>7. StoredInv'
  BY DEF Inv, StoredInv
<1>8. ASSUME NEW b \in Comp PROVE NodeInv(b)'
  <2>1. CASE b # c
    <3>1. /\ stored'[b] = stored[b] /\ plan'[b] = plan[b] /\ copy'[b] = copy[b]
          /\ node'[b] = node[b] /\ err'[b] = err[b] /\ overwritten' = overwritten
          /\ b \in Code => cloud'[b] = cloud[b]
          /\ revisions'[cur'].desired = revisions[cur].desired
          /\ revisions'[cur'].recalculateAll = revisions[cur].recalculateAll
          /\ revisions[cur].failed => revisions'[cur'].failed
      BY <1>1, <1>3, <2>1
    <3>2. NodeInv(b)
      BY DEF Inv
    <3>3. PlanInv(b) => PlanInv(b)'
      BY <3>1, <3>2 DEF PlanInv, Progress, Consumers
    <3> QED  BY <3>1, <3>2, <3>3 DEF NodeInv, SameInstance
  <2> QED  BY <2>1
<1> QED  BY <1>3, <1>4, <1>5, <1>6, <1>7, <1>8 DEF Inv

(* What the store, the copy and the cloud say of c when c is left alone.   *)
LEMMA Untouched ==
  ASSUME Inv, NEW c \in Comp, UNCHANGED <<stored, cloud>>
  PROVE  /\ c \in Code \ overwritten /\ Consumers(stored', c) # {} => cloud'[c] # NotDeployed
         /\ c \notin Code /\ stored'[c] # Absent => stored'[c].params = NoParams
         /\ c \notin Code /\ copy[c] # Absent => copy[c].params = NoParams
BY DEF Inv, ConsumersDeployed, StoredInv, Consumers

LEMMA BeginInv == \A c \in Comp : Inv /\ Begin(c) => Inv'
<1> SUFFICES ASSUME Inv, NEW c \in Comp, Begin(c) PROVE Inv'
  OBVIOUS
<1>1. PICK seen \in {FALSE} \cup {err[b] : b \in Before(c)} : err' = [err EXCEPT ![c] = seen]
  BY DEF Begin
<1>2. /\ pc = "applying" /\ node[c] = "pending" /\ node' = [node EXCEPT ![c] = "running"]
      /\ UNCHANGED <<revisions, policy, policyGen, handler, stored, cloud, pc, cur, gen, plan,
                     copy, fetched, overwritten, faults, crashes, refreshes>>
  BY DEF Begin, apiVars, refreshVars, countVars
<1>3. TypeOK /\ \A b \in Comp : NodeInv(b)
  BY <1>2 DEF Inv
<1>4. seen \in BOOLEAN /\ (seen => revisions[cur].failed)
  <2>1. CASE seen = FALSE
    BY <2>1
  <2>2. CASE \E b \in Before(c) : seen = err[b]
    <3>1. PICK b \in Before(c) : seen = err[b]
      BY <2>2
    <3>2. b \in Comp
      BY <3>1, DiffAssumption DEF Before, BeforeNodes
    <3> QED  BY <1>3, <3>1, <3>2 DEF TypeOK, NodeInv
  <2> QED  BY <1>1, <2>1, <2>2
<1>5. /\ err' \in [Comp -> BOOLEAN] /\ err'[c] = seen /\ node'[c] = "running"
      /\ node' \in [Comp -> NodeState]
      /\ \A b \in Comp \ {c} : node'[b] = node[b] /\ err'[b] = err[b]
  BY <1>1, <1>2, <1>3, <1>4 DEF TypeOK, NodeState
<1>6. ~err[c] /\ copy[c] = Absent
  BY <1>2, <1>3 DEF NodeInv, TypeOK
<1>7. PlanInv(c) => PlanInv(c)'
  BY <1>2, <1>6 DEF PlanInv, Progress, Consumers
<1>8. NodeInv(c)'
  BY <1>2, <1>3, <1>4, <1>5, <1>6, <1>7 DEF NodeInv
<1> QED
  BY <1>2, <1>3, <1>5, <1>6, <1>8, Untouched, NodeStep DEF TypeOK

(* A node without errors ends when nothing is left of its plan.            *)
LEMMA EndInv == \A c \in Comp : Inv /\ End(c) => Inv'
<1> SUFFICES ASSUME Inv, NEW c \in Comp, End(c) PROVE Inv'
  OBVIOUS
<1>1. /\ pc = "applying" /\ node[c] = "running" /\ (err[c] \/ plan[c] = NoActions)
      /\ node' = [node EXCEPT ![c] = "ended"] /\ plan' = [plan EXCEPT ![c] = NoActions]
      /\ UNCHANGED <<revisions, policy, policyGen, handler, stored, cloud, pc, cur, gen,
                     copy, err, fetched, overwritten, faults, crashes, refreshes>>
  BY DEF End, apiVars, refreshVars, countVars
<1>2. TypeOK /\ NodeInv(c)
  BY <1>1 DEF Inv
<1>3. NoActions \in NodePlan /\ NoActions.main = "none" /\ NoActions.attach = {}
  BY DEF NoActions, NodePlan
<1>4. /\ node' \in [Comp -> NodeState] /\ node'[c] = "ended" /\ copy[c] = Absent
      /\ plan' \in [Comp -> NodePlan] /\ plan'[c] = NoActions
      /\ \A b \in Comp \ {c} : node'[b] = node[b] /\ plan'[b] = plan[b]
  BY <1>1, <1>2, <1>3 DEF TypeOK, NodeState
<1>5. PlanInv(c) => PlanInv(c)'
  <2>1. CASE err[c]
    BY <1>1, <1>3, <1>4, <2>1 DEF PlanInv
  <2>2. CASE plan[c] = NoActions
    BY <1>1, <1>4, <2>2 DEF PlanInv, Progress, Consumers
  <2> QED  BY <1>1, <2>1, <2>2
<1>6. NodeInv(c)'
  BY <1>1, <1>2, <1>3, <1>4, <1>5 DEF NodeInv
<1> QED
  BY <1>1, <1>2, <1>4, <1>6, Untouched, NodeStep DEF TypeOK

(* A node whose action fails is marked, and so is the revision; nothing is *)
(* claimed of it any more, except that what is to be attached is deployed. *)
LEMMA FailInv ==
  ASSUME Inv, NEW c \in Comp, pc = "applying", node[c] \in {"running", "called"}, Fail(c),
         UNCHANGED <<crashes, refreshes>>,
         faults' \in 0..MaxFaults, cloud' \in [Code -> Param \cup {NotDeployed}],
         \A b \in Code \ {c} : cloud'[b] = cloud[b],
         \/ cloud' = cloud
         \/ plan[c].main = "delete" /\ (c \in overwritten \/ Consumers(stored, c) = {})
         \/ c \in Code /\ cloud'[c] # NotDeployed
  PROVE  Inv'
<1>1. /\ err' = [err EXCEPT ![c] = TRUE]
      /\ revisions' = [revisions EXCEPT ![cur].failed = TRUE]
      /\ node' = [node EXCEPT ![c] = "running"]
      /\ UNCHANGED <<policy, policyGen, handler, stored, pc, cur, gen, plan, copy, fetched,
                     overwritten>>
  BY DEF Fail, refreshVars
<1>2. TypeOK /\ NodeInv(c) /\ cur \in DOMAIN revisions
  BY DEF Inv, TypeOK
<1>3. /\ err' \in [Comp -> BOOLEAN] /\ err'[c] = TRUE /\ node'[c] = "running"
      /\ node' \in [Comp -> NodeState] /\ copy[c] = Absent
      /\ \A b \in Comp \ {c} : node'[b] = node[b] /\ err'[b] = err[b]
  BY <1>1, <1>2 DEF TypeOK, NodeState
<1>4. revisions'[cur'].failed = TRUE /\ revisions'[cur'].desired = revisions[cur].desired
  <2>1. revisions[cur] \in RevisionRecord
    <3>1. revisions \in Seq(RevisionRecord) /\ cur \in 1..Len(revisions)
      BY <1>2, LenProperties DEF TypeOK
    <3> QED  BY <3>1, ElementOfSeq
  <2> QED  BY <1>1, <1>2, <2>1 DEF RevisionRecord
<1>5. c \notin overwritten => PlanInv(c)'
  <2> SUFFICES ASSUME c \notin overwritten PROVE PlanInv(c)'
    OBVIOUS
  <2>1. PlanInv(c)
    BY <1>2 DEF NodeInv
  <2>2. c \in Code /\ plan[c].main \in {"none", "update"} /\ plan[c].attach # {} =>
          cloud'[c] # NotDeployed
    BY <2>1 DEF PlanInv
  <2> QED  BY <1>1, <1>3, <1>4, <2>1, <2>2 DEF PlanInv, Consumers
<1>6. NodeInv(c)'
  BY <1>1, <1>2, <1>3, <1>4, <1>5 DEF NodeInv
<1>7. /\ c \in Code \ overwritten /\ Consumers(stored', c) # {} => cloud'[c] # NotDeployed
      /\ c \notin Code /\ stored'[c] # Absent => stored'[c].params = NoParams
  BY <1>1 DEF Inv, ConsumersDeployed, StoredInv, Consumers
<1> QED
  BY <1>1, <1>2, <1>3, <1>6, <1>7, NodeStep DEF TypeOK

(* What is loaded is what is stored.                                       *)
LEMMA LoadInv == \A c \in Comp : Inv /\ Load(c) => Inv'
<1> SUFFICES ASSUME Inv, NEW c \in Comp, Load(c) PROVE Inv'
  OBVIOUS
<1>1. /\ pc = "applying" /\ node[c] \in {"running", "called"}
      /\ UNCHANGED <<cloud, faults, crashes, refreshes>>
  BY DEF Load, Ready, countVars
<1>2. TypeOK /\ NodeInv(c)
  BY <1>1 DEF Inv
<1>3. CASE stored[c] = Absent
  <2>1. Fail(c)
    BY <1>3 DEF Load
  <2> QED  BY <1>1, <1>2, <2>1, FailInv DEF TypeOK
<1>4. CASE stored[c] # Absent
  <2>1. /\ copy' = [copy EXCEPT ![c] = stored[c]] /\ node' = [node EXCEPT ![c] = "loaded"]
        /\ UNCHANGED <<revisions, policy, policyGen, handler, stored, pc, cur, gen, plan, err,
                       fetched, overwritten>>
    BY <1>4 DEF Load, apiVars, refreshVars
  <2>2. /\ copy' \in [Comp -> StoredInstance \cup {Absent}] /\ copy'[c] = stored[c]
        /\ node' \in [Comp -> NodeState] /\ node'[c] = "loaded"
        /\ \A b \in Comp \ {c} : node'[b] = node[b] /\ copy'[b] = copy[b]
    BY <1>2, <2>1 DEF TypeOK, NodeState
  <2>3. PlanInv(c) => PlanInv(c)'
    BY <1>1, <2>1 DEF PlanInv, Progress, Consumers
  <2>4. SameInstance(copy'[c], stored'[c])
    BY <2>1, <2>2 DEF SameInstance
  <2>5. NodeInv(c)'
    BY <1>1, <1>2, <2>1, <2>2, <2>3, <2>4 DEF NodeInv, SameInstance
  <2>6. c \notin Code /\ copy'[c] # Absent => copy'[c].params = NoParams
    BY <2>2 DEF Inv, StoredInv
  <2> QED  BY <1>1, <1>2, <1>4, <2>1, <2>2, <2>5, <2>6, Untouched, NodeStep DEF TypeOK
<1> QED  BY <1>3, <1>4

(* The instance is saved with what the rest of the plan relies on.         *)
LEMMA SaveInv ==
  ASSUME Inv, NEW c \in Comp, NEW instance \in StoredInstance, NEW rest \in NodePlan,
         Save(c, instance, rest),
         c \notin Code => instance.params = NoParams,
         c \in Code \ overwritten /\ instance.deps # {} => cloud[c] # NotDeployed,
         rest.main \in {plan[c].main, "none"},
         c \notin overwritten => PlanInv(c)'
  PROVE  Inv'
<1>1. /\ pc = "applying" /\ node[c] = "loaded"
      /\ stored' = [stored EXCEPT ![c] = instance] /\ plan' = [plan EXCEPT ![c] = rest]
      /\ node' = [node EXCEPT ![c] = "running"] /\ copy' = [copy EXCEPT ![c] = Absent]
      /\ UNCHANGED <<revisions, policy, policyGen, handler, cloud, pc, cur, gen, err,
                     fetched, overwritten, faults, crashes, refreshes>>
  BY DEF Save, apiVars, refreshVars, countVars
<1>2. TypeOK /\ NodeInv(c)
  BY <1>1 DEF Inv
<1>3. /\ stored' \in [Comp -> StoredInstance \cup {Absent}] /\ stored'[c] = instance
      /\ plan' \in [Comp -> NodePlan] /\ plan'[c] = rest
      /\ node' \in [Comp -> NodeState] /\ node'[c] = "running"
      /\ copy' \in [Comp -> StoredInstance \cup {Absent}] /\ copy'[c] = Absent
      /\ \A b \in Comp \ {c} : /\ stored'[b] = stored[b] /\ plan'[b] = plan[b]
                               /\ node'[b] = node[b] /\ copy'[b] = copy[b]
  BY <1>1, <1>2 DEF TypeOK, NodeState
<1>4. NodeInv(c)'
  <2>1. rest.main \in {"create", "update"} => revisions[cur].desired[c] # Absent
    BY <1>2 DEF NodeInv
  <2> QED  BY <1>1, <1>2, <1>3, <2>1 DEF NodeInv
<1>5. instance # Absent /\ Consumers(stored', c) = instance.deps
  BY <1>3, PoliciesAssumption DEF Consumers
<1>6. c \in Code \ overwritten /\ Consumers(stored', c) # {} => cloud'[c] # NotDeployed
  BY <1>1, <1>5
<1> QED
  BY <1>1, <1>2, <1>3, <1>4, <1>6, NodeStep DEF TypeOK

(* What has been loaded, while nobody has overwritten the instance.        *)
LEMMA Loaded ==
  ASSUME Inv, NEW c \in Comp, pc = "applying", node[c] = "loaded"
  PROVE  /\ copy[c] \in StoredInstance /\ copy[c] # Absent /\ plan[c] \in NodePlan
         /\ c \notin Code => copy[c].params = NoParams
         /\ c \notin overwritten =>
              /\ PlanInv(c) /\ stored[c] # Absent
              /\ stored[c].deps = copy[c].deps /\ stored[c].params = copy[c].params
              /\ Consumers(stored, c) = copy[c].deps
              /\ c \in Code /\ copy[c].deps # {} => cloud[c] # NotDeployed
<1>1. NodeInv(c) /\ TypeOK
  BY DEF Inv
<1>2. copy[c] \in StoredInstance /\ copy[c] # Absent /\ plan[c] \in NodePlan
  BY <1>1 DEF TypeOK
<1>3. c \notin Code => copy[c].params = NoParams
  BY <1>2 DEF Inv, StoredInv
<1>4. c \notin overwritten =>
        /\ PlanInv(c) /\ stored[c] # Absent
        /\ stored[c].deps = copy[c].deps /\ stored[c].params = copy[c].params
        /\ Consumers(stored, c) = copy[c].deps
  BY <1>1, <1>2 DEF NodeInv, SameInstance, Consumers
<1> QED  BY <1>2, <1>3, <1>4 DEF Inv, ConsumersDeployed

(* An action that changes the consumers of an instance: what it takes from *)
(* the plan is what it does to the store.                                  *)
LEMMA SaveConsumersInv ==
  ASSUME Inv, NEW c \in Comp, NEW instance \in StoredInstance, NEW rest \in NodePlan,
         Save(c, instance, rest),
         instance.params = copy[c].params,
         rest.main = plan[c].main, rest.detach \subseteq plan[c].detach,
         rest.attach \subseteq plan[c].attach,
         (instance.deps \ rest.detach) \cup rest.attach
           = (copy[c].deps \ plan[c].detach) \cup plan[c].attach,
         plan[c].main = "delete" /\ copy[c].deps \subseteq plan[c].detach =>
           instance.deps \subseteq rest.detach,
         plan[c].attach = {} /\ copy[c].deps \subseteq plan[c].detach =>
           instance.deps \subseteq rest.detach,
         c \in Code \ overwritten /\ instance.deps # {} => cloud[c] # NotDeployed
  PROVE  Inv'
<1>1. /\ pc = "applying" /\ node[c] = "loaded"
      /\ stored' = [stored EXCEPT ![c] = instance] /\ plan' = [plan EXCEPT ![c] = rest]
      /\ UNCHANGED <<revisions, cloud, cur, err, overwritten>>
  BY DEF Save, apiVars, refreshVars
<1>2. /\ c \notin Code => instance.params = NoParams
      /\ c \notin overwritten =>
              /\ PlanInv(c) /\ stored[c] # Absent
              /\ stored[c].deps = copy[c].deps /\ stored[c].params = copy[c].params
              /\ Consumers(stored, c) = copy[c].deps
  BY <1>1, Loaded
<1>3. /\ stored'[c] = instance /\ plan'[c] = rest /\ instance # Absent
  BY <1>1, PoliciesAssumption DEF Inv, TypeOK
<1>4. ASSUME c \notin overwritten PROVE PlanInv(c)'
  <2> DEFINE want == revisions[cur].desired[c]
  <2>1. PlanInv(c) /\ revisions'[cur'].desired[c] = want
    BY <1>1, <1>2, <1>4
  <2>2. want # Absent /\ ~err[c] => Progress(c, want)
    BY <2>1 DEF PlanInv
  <2> HIDE DEF want
  <2>3. want # Absent /\ ~err[c] => Progress(c, revisions[cur].desired[c])'
    <3> SUFFICES ASSUME want # Absent, ~err[c] PROVE Progress(c, revisions[cur].desired[c])'
      OBVIOUS
    <3>1. CASE plan[c].main = "create"
      BY <1>3, <2>2, <3>1 DEF Progress
    <3>2. CASE plan[c].main # "create"
      <4>1. /\ (stored[c].deps \ plan[c].detach) \cup plan[c].attach = want.deps
            /\ plan[c].main = "update" \/ stored[c].params = want.params
        BY <2>2, <3>2 DEF Progress
      <4>2. (instance.deps \ rest.detach) \cup rest.attach = want.deps
        BY <1>2, <1>4, <4>1
      <4>3. rest.main = "update" \/ instance.params = want.params
        BY <1>2, <1>4, <4>1
      <4> QED  BY <1>3, <2>1, <3>2, <4>2, <4>3 DEF Progress
    <3> QED  BY <3>1, <3>2
  <2>4. /\ rest.main = "delete" => instance.deps \subseteq rest.detach
                                   /\ rest.attach = {} /\ want = Absent
        /\ rest.attach # {} => want # Absent /\ rest.attach \subseteq want.deps
        /\ c \in Code /\ rest.main \in {"none", "update"} /\ rest.attach # {} =>
             cloud[c] # NotDeployed
    BY <1>2, <1>4, <2>1 DEF PlanInv, want
  <2>5. want = Absent /\ ~err[c] /\ ~revisions[cur].recalculateAll =>
          instance.deps \subseteq rest.detach
    BY <1>2, <1>4, <2>1 DEF PlanInv, want
  <2>6. Consumers(stored, c)' = instance.deps
    BY <1>3 DEF Consumers
  <2> QED  BY <1>1, <1>3, <2>1, <2>3, <2>4, <2>5, <2>6 DEF PlanInv
<1> QED  BY <1>2, <1>4, SaveInv

LEMMA UpdateParentInv == \A c \in Comp : Inv /\ UpdateParent(c) => Inv'
<1> SUFFICES ASSUME Inv, NEW c \in Comp, UpdateParent(c) PROVE Inv'
  OBVIOUS
<1> DEFINE instance == [copy[c] EXCEPT !.upToDate = FALSE]
<1>1. PICK rest \in {[plan[c] EXCEPT !.parentFirst = FALSE], NoActions} :
        /\ Save(c, instance, rest)
        /\ rest = NoActions => [plan[c] EXCEPT !.parentLast = FALSE] = NoActions
                               \/ [plan[c] EXCEPT !.parentFirst = FALSE] = NoActions
  BY DEF UpdateParent
<1>2. pc = "applying" /\ node[c] = "loaded"
  BY <1>1 DEF Save
<1>3. /\ copy[c] \in StoredInstance /\ plan[c] \in NodePlan
      /\ c \in Code \ overwritten /\ copy[c].deps # {} => cloud[c] # NotDeployed
  BY <1>2, Loaded
<1>4. /\ rest \in NodePlan /\ rest.main = plan[c].main
      /\ rest.detach = plan[c].detach /\ rest.attach = plan[c].attach
  <2>1. CASE rest = [plan[c] EXCEPT !.parentFirst = FALSE]
    BY <1>3, <2>1 DEF NodePlan
  <2>2. CASE rest = NoActions
    <3>1. \/ [plan[c] EXCEPT !.parentLast = FALSE] = NoActions
          \/ [plan[c] EXCEPT !.parentFirst = FALSE] = NoActions
      BY <1>1, <2>2
    <3>2. plan[c].main = NoActions.main /\ plan[c].detach = NoActions.detach
          /\ plan[c].attach = NoActions.attach
      BY <1>3, <3>1 DEF NodePlan
    <3> QED  BY <2>2, <3>2 DEF NoActions, NodePlan
  <2> QED  BY <1>1, <2>1, <2>2
<1>5. instance \in StoredInstance /\ instance.deps = copy[c].deps
      /\ instance.params = copy[c].params
  BY <1>3 DEF StoredInstance
<1> HIDE DEF instance
<1> QED
  BY <1>1, <1>3, <1>4, <1>5, SaveConsumersInv

LEMMA DetachInv == \A c \in Comp, d \in Dep : Inv /\ Detach(c, d) => Inv'
<1> SUFFICES ASSUME Inv, NEW c \in Comp, NEW d \in Dep, Detach(c, d) PROVE Inv'
  OBVIOUS
<1> DEFINE instance == [copy[c] EXCEPT !.deps = @ \ {d}]
           rest     == [plan[c] EXCEPT !.detach = @ \ {d}]
<1>1. d \in plan[c].detach /\ Save(c, instance, rest)
  BY DEF Detach
<1>2. pc = "applying" /\ node[c] = "loaded"
  BY <1>1 DEF Save
<1>3. /\ copy[c] \in StoredInstance /\ plan[c] \in NodePlan
      /\ c \in Code \ overwritten /\ copy[c].deps # {} => cloud[c] # NotDeployed
  BY <1>2, Loaded
<1>4. /\ rest \in NodePlan /\ rest.main = plan[c].main
      /\ rest.detach = plan[c].detach \ {d} /\ rest.attach = plan[c].attach
  BY <1>3 DEF NodePlan
<1>5. instance \in StoredInstance /\ instance.deps = copy[c].deps \ {d}
      /\ instance.params = copy[c].params
  BY <1>3 DEF StoredInstance
<1> HIDE DEF instance, rest
<1>6. (instance.deps \ rest.detach) \cup rest.attach
        = (copy[c].deps \ plan[c].detach) \cup plan[c].attach
  BY <1>1, <1>4, <1>5
<1> QED
  BY <1>1, <1>3, <1>4, <1>5, <1>6, SaveConsumersInv

LEMMA AttachInv == \A c \in Comp, d \in Dep : Inv /\ Attach(c, d) => Inv'
<1> SUFFICES ASSUME Inv, NEW c \in Comp, NEW d \in Dep, Attach(c, d) PROVE Inv'
  OBVIOUS
<1> DEFINE instance == [copy[c] EXCEPT !.deps = @ \cup {d}]
           rest     == [plan[c] EXCEPT !.attach = @ \ {d}]
<1>1. /\ plan[c].detach = {} /\ plan[c].main = "none"
      /\ d \in plan[c].attach /\ Save(c, instance, rest)
  BY DEF Attach
<1>2. pc = "applying" /\ node[c] = "loaded"
  BY <1>1 DEF Save
<1>3. /\ copy[c] \in StoredInstance /\ plan[c] \in NodePlan
      /\ c \notin overwritten => PlanInv(c)
  BY <1>2, Loaded
<1>4. /\ rest \in NodePlan /\ rest.main = plan[c].main
      /\ rest.detach = plan[c].detach /\ rest.attach = plan[c].attach \ {d}
  BY <1>3 DEF NodePlan
<1>5. instance \in StoredInstance /\ instance.deps = copy[c].deps \cup {d}
      /\ instance.params = copy[c].params
  BY <1>3 DEF StoredInstance
<1>6. c \in Code \ overwritten => cloud[c] # NotDeployed
  BY <1>1, <1>3 DEF PlanInv
<1> HIDE DEF instance, rest
<1>7. (instance.deps \ rest.detach) \cup rest.attach
        = (copy[c].deps \ plan[c].detach) \cup plan[c].attach
  BY <1>1, <1>4, <1>5
<1> QED
  BY <1>1, <1>3, <1>4, <1>5, <1>6, <1>7, SaveConsumersInv

(* What the revision that is applied wants of an instance.                 *)
LEMMA Wanted ==
  ASSUME Inv, NEW c \in Comp, revisions[cur].desired[c] # Absent
  PROVE  LET want == revisions[cur].desired[c]
         IN  /\ want \in Instance /\ want.deps \in SUBSET Dep /\ want.params \in Param
             /\ want.deps # {}
             /\ c \notin Code => want.params = NoParams
             /\ c \in Code => Finds(c) = "plugin"
<1>1. revisions \in Seq(RevisionRecord) /\ cur \in 1..Len(revisions) /\ cur \in DOMAIN revisions
  BY LenProperties DEF Inv, TypeOK
<1>2. revisions[cur] \in RevisionRecord /\ WellResolved(revisions[cur])
  BY <1>1, ElementOfSeq DEF Inv, RevisionsInv
<1> QED  BY <1>2 DEF RevisionRecord, Resolution, Instance, WellResolved, Finds

(* What a plugin call can leave behind: only a Delete takes the instance   *)
(* away, and only when the store has no consumer of it any more.           *)
LEMMA AfterCall ==
  ASSUME Inv, NEW c \in Comp, AtMain(c)
  PROVE  /\ CloudAfter(c) \in [Code -> Param \cup {NotDeployed}]
         /\ \A b \in Code \ {c} : CloudAfter(c)[b] = cloud[b]
         /\ plan[c].main = "delete" /\ c \notin overwritten => Consumers(stored, c) = {}
         /\ c \in Code /\ plan[c].main # "delete" => CloudAfter(c)[c] # NotDeployed
<1>1. /\ pc = "applying" /\ plan[c].detach = {} /\ plan[c].main # "none"
  BY DEF AtMain, Ready
<1>2. TypeOK /\ NodeInv(c)
  BY <1>1 DEF Inv
<1>3. plan[c].main = "delete" /\ c \notin overwritten => Consumers(stored, c) = {}
  BY <1>1, <1>2 DEF NodeInv, PlanInv
<1>4. plan[c].main # "delete" => revisions[cur].desired[c].params \in Param
  <2>1. plan[c].main \in {"none", "delete", "create", "update"}
    BY <1>2 DEF TypeOK, NodePlan
  <2>2. plan[c].main # "delete" => revisions[cur].desired[c] # Absent
    BY <1>1, <1>2, <2>1 DEF NodeInv
  <2> QED  BY <2>2, Wanted
<1> QED
  BY <1>2, <1>3, <1>4, PoliciesAssumption DEF TypeOK, CloudAfter

(* Only what has no code is taken for created without a call.              *)
LEMMA CallInv == \A c \in Comp : Inv /\ (CallPlugin(c) \/ NoCall(c)) => Inv'
<1> SUFFICES ASSUME Inv, NEW c \in Comp, CallPlugin(c) \/ NoCall(c) PROVE Inv'
  OBVIOUS
<1>1. /\ AtMain(c) /\ node' = [node EXCEPT ![c] = "called"]
      /\ \/ cloud' = CloudAfter(c)
         \/ cloud' = cloud /\ Finds(c) = "nothing"
      /\ UNCHANGED <<revisions, policy, policyGen, handler, stored, pc, cur, gen, plan, copy,
                     err, fetched, overwritten, faults, crashes, refreshes>>
  BY DEF CallPlugin, NoCall, apiVars, refreshVars, countVars
<1>2. /\ pc = "applying" /\ node[c] = "running" /\ ~err[c]
      /\ plan[c].detach = {} /\ plan[c].main # "none"
  BY <1>1 DEF AtMain, Ready
<1>3. TypeOK /\ NodeInv(c)
  BY <1>2 DEF Inv
<1>4. /\ cloud' \in [Code -> Param \cup {NotDeployed}]
      /\ \A b \in Code \ {c} : cloud'[b] = cloud[b]
      /\ cloud' = cloud \/ (plan[c].main = "delete" /\ c \notin overwritten =>
                              Consumers(stored, c) = {})
      /\ c \in Code /\ plan[c].main # "delete" => cloud'[c] # NotDeployed
  <2>1. CASE cloud' = CloudAfter(c)
    BY <1>1, <2>1, AfterCall
  <2>2. CASE cloud' = cloud /\ Finds(c) = "nothing"
    <3>1. c \in Code => plan[c].main = "delete"
      <4>1. plan[c].main \in {"none", "delete", "create", "update"}
        BY <1>3 DEF TypeOK, NodePlan
      <4>2. plan[c].main # "delete" => revisions[cur].desired[c] # Absent
        BY <1>2, <1>3, <4>1 DEF NodeInv
      <4> QED  BY <2>2, <4>2, Wanted
    <3> QED  BY <1>3, <2>2, <3>1 DEF TypeOK
  <2> QED  BY <1>1, <2>1, <2>2
<1>5. /\ node' \in [Comp -> NodeState] /\ node'[c] = "called" /\ copy[c] = Absent
      /\ \A b \in Comp \ {c} : node'[b] = node[b]
  BY <1>1, <1>2, <1>3 DEF TypeOK, NodeState
<1>6. c \notin overwritten => PlanInv(c)'
  <2> SUFFICES ASSUME c \notin overwritten PROVE PlanInv(c)'
    OBVIOUS
  <2>1. PlanInv(c)
    BY <1>3 DEF NodeInv
  <2> QED  BY <1>1, <1>4, <2>1 DEF PlanInv, Progress, Consumers
<1>7. NodeInv(c)'
  BY <1>1, <1>2, <1>3, <1>4, <1>5, <1>6 DEF NodeInv
<1>8. c \in Code \ overwritten /\ Consumers(stored', c) # {} => cloud'[c] # NotDeployed
  BY <1>1, <1>4 DEF Inv, ConsumersDeployed
<1>9. c \notin Code /\ stored'[c] # Absent => stored'[c].params = NoParams
  BY <1>1 DEF Inv, StoredInv
<1> QED
  BY <1>1, <1>2, <1>3, <1>4, <1>5, <1>7, <1>8, <1>9, NodeStep DEF TypeOK

LEMMA PluginFailsInv == \A c \in Comp : Inv /\ PluginFails(c) => Inv'
<1> SUFFICES ASSUME Inv, NEW c \in Comp, PluginFails(c) PROVE Inv'
  OBVIOUS
<1>1. /\ AtMain(c) /\ Finds(c) = "plugin" /\ faults < MaxFaults /\ faults' = faults + 1 /\ Fail(c)
      /\ cloud' \in {cloud, CloudAfter(c)}
      /\ UNCHANGED <<crashes, refreshes>>
  BY DEF PluginFails
<1>2. TypeOK /\ pc = "applying" /\ node[c] = "running"
  BY <1>1 DEF Inv, AtMain, Ready
<1>3. faults' \in 0..MaxFaults
  BY <1>1, <1>2, PoliciesAssumption DEF TypeOK
<1>4. c \in Code
  <2>1. revisions \in Seq(RevisionRecord) /\ cur \in 1..Len(revisions) /\ cur \in DOMAIN revisions
    BY LenProperties DEF Inv, TypeOK
  <2>2. WellResolved(revisions[cur])
    BY <2>1 DEF Inv, RevisionsInv
  <2> QED  BY <1>1, <2>2 DEF WellResolved, Finds
<1>5. /\ cloud' \in [Code -> Param \cup {NotDeployed}]
      /\ \A b \in Code \ {c} : cloud'[b] = cloud[b]
      /\ plan[c].main = "delete" /\ c \notin overwritten => Consumers(stored, c) = {}
      /\ cloud' # cloud /\ plan[c].main # "delete" => cloud'[c] # NotDeployed
  BY <1>1, <1>2, <1>4, AfterCall DEF TypeOK
<1> QED
  BY <1>1, <1>2, <1>3, <1>4, <1>5, FailInv

LEMMA CannotCallInv == \A c \in Comp : Inv /\ CannotCall(c) => Inv'
<1> SUFFICES ASSUME Inv, NEW c \in Comp, CannotCall(c) PROVE Inv'
  OBVIOUS
<1>1. /\ pc = "applying" /\ node[c] = "running" /\ Fail(c)
      /\ UNCHANGED <<cloud, faults, crashes, refreshes>>
  BY DEF CannotCall, AtMain, Ready, countVars
<1>2. faults' \in 0..MaxFaults /\ cloud' \in [Code -> Param \cup {NotDeployed}]
  BY <1>1 DEF Inv, TypeOK
<1> QED
  BY <1>1, <1>2, FailInv

(* The result of the call is saved: what is created is stored as desired,  *)
(* and with it all its consumers, before they are attached.                *)
LEMMA SaveResultInv == \A c \in Comp : Inv /\ SaveResult(c) => Inv'
<1> SUFFICES ASSUME Inv, NEW c \in Comp, SaveResult(c) PROVE Inv'
  OBVIOUS
<1> DEFINE want == revisions[cur].desired[c]
           rest == [plan[c] EXCEPT !.main = "none"]
<1>1. /\ pc = "applying" /\ node[c] = "called"
      /\ plan' = [plan EXCEPT ![c].main = "none"] /\ node' = [node EXCEPT ![c] = "running"]
      /\ UNCHANGED <<revisions, policy, policyGen, handler, cloud, pc, cur, gen, copy, err,
                     fetched, overwritten, faults, crashes, refreshes>>
  BY DEF SaveResult, apiVars, refreshVars, countVars
<1>2. TypeOK /\ NodeInv(c)
  BY <1>1 DEF Inv
<1>3. plan[c] \in NodePlan
  BY <1>2 DEF TypeOK
<1>4. /\ rest \in NodePlan /\ rest.main = "none"
      /\ rest.detach = plan[c].detach /\ rest.attach = plan[c].attach
  BY <1>3 DEF NodePlan
<1>5. /\ plan' \in [Comp -> NodePlan] /\ plan'[c] = rest /\ node'[c] = "running"
      /\ node' \in [Comp -> NodeState] /\ copy[c] = Absent
      /\ \A b \in Comp \ {c} : plan'[b] = plan[b] /\ node'[b] = node[b]
  BY <1>1, <1>2, <1>4 DEF TypeOK, NodeState
<1> HIDE DEF rest
<1>6. /\ c \notin overwritten => PlanInv(c)
      /\ plan[c].detach = {}
      /\ c \in Code /\ plan[c].main # "delete" => cloud[c] # NotDeployed
      /\ plan[c].main = "create" => want # Absent
  BY <1>1, <1>2 DEF NodeInv
<1>7. revisions'[cur'].desired[c] = want
  BY <1>1
<1>8. CASE plan[c].main = "create"
  <2> DEFINE new == [deps |-> want.deps, params |-> want.params, upToDate |-> FALSE]
  <2>1. /\ want # Absent /\ want.deps \in SUBSET Dep /\ want.params \in Param
        /\ c \notin Code => want.params = NoParams
    BY <1>6, <1>8, Wanted
  <2>2. stored' = [stored EXCEPT ![c] = new]
    BY <1>8 DEF SaveResult
  <2>3. new \in StoredInstance /\ new.deps = want.deps /\ new.params = want.params
    BY <2>1 DEF StoredInstance
  <2>4. new # Absent
    BY <2>3, PoliciesAssumption
  <2> HIDE DEF want, new
  <2>5. /\ stored' \in [Comp -> StoredInstance \cup {Absent}] /\ stored'[c] = new
        /\ \A b \in Comp \ {c} : stored'[b] = stored[b]
    BY <1>2, <2>2, <2>3 DEF TypeOK
  <2>6. c \notin overwritten => PlanInv(c)'
    <3> SUFFICES ASSUME c \notin overwritten PROVE PlanInv(c)'
      OBVIOUS
    <3>1. plan[c].attach \subseteq want.deps
      BY <1>6 DEF PlanInv, want
    <3>2. Progress(c, revisions[cur].desired[c])'
      BY <1>4, <1>5, <1>6, <1>7, <2>3, <2>4, <2>5, <3>1 DEF Progress
    <3> QED  BY <1>1, <1>4, <1>5, <1>6, <1>7, <1>8, <2>1, <3>1, <3>2 DEF PlanInv
  <2>7. NodeInv(c)'
    BY <1>1, <1>2, <1>4, <1>5, <2>6 DEF NodeInv
  <2>8. /\ c \in Code \ overwritten /\ Consumers(stored', c) # {} => cloud'[c] # NotDeployed
        /\ c \notin Code /\ stored'[c] # Absent => stored'[c].params = NoParams
    BY <1>1, <1>6, <1>8, <2>1, <2>3, <2>5
  <2> QED  BY <1>1, <1>2, <1>5, <2>5, <2>7, <2>8, NodeStep DEF TypeOK
<1>9. CASE plan[c].main = "delete"
  <2>1. stored' = [stored EXCEPT ![c] = Absent]
    BY <1>9 DEF SaveResult
  <2>2. /\ stored' \in [Comp -> StoredInstance \cup {Absent}] /\ stored'[c] = Absent
        /\ \A b \in Comp \ {c} : stored'[b] = stored[b]
    BY <1>2, <2>1 DEF TypeOK
  <2>3. Consumers(stored', c) = {} /\ Consumers(stored, c)' = {}
    BY <2>2 DEF Consumers
  <2>4. c \notin overwritten => PlanInv(c)'
    <3> SUFFICES ASSUME c \notin overwritten PROVE PlanInv(c)'
      OBVIOUS
    <3>1. want = Absent /\ plan[c].attach = {}
      BY <1>6, <1>9 DEF PlanInv
    <3> HIDE DEF want
    <3> QED  BY <1>4, <1>5, <1>7, <2>3, <3>1 DEF PlanInv
  <2>5. NodeInv(c)'
    BY <1>1, <1>2, <1>4, <1>5, <2>4 DEF NodeInv
  <2> QED  BY <1>1, <1>2, <1>5, <2>2, <2>3, <2>5, NodeStep DEF TypeOK
<1> QED  BY <1>8, <1>9 DEF SaveResult

LEMMA SaveUpdateInv == \A c \in Comp : Inv /\ SaveUpdate(c) => Inv'
<1> SUFFICES ASSUME Inv, NEW c \in Comp, SaveUpdate(c) PROVE Inv'
  OBVIOUS
<1> DEFINE want     == revisions[cur].desired[c]
           instance == [copy[c] EXCEPT !.params = want.params, !.upToDate = FALSE]
           rest     == [plan[c] EXCEPT !.main = "none"]
<1>1. plan[c].main = "update" /\ Save(c, instance, rest)
  BY DEF SaveUpdate
<1>2. /\ pc = "applying" /\ node[c] = "loaded"
      /\ stored' = [stored EXCEPT ![c] = instance] /\ plan' = [plan EXCEPT ![c] = rest]
      /\ UNCHANGED <<revisions, cloud, cur, err, overwritten>>
  BY <1>1 DEF Save, apiVars, refreshVars
<1>3. /\ copy[c] \in StoredInstance /\ plan[c] \in NodePlan
      /\ c \notin overwritten =>
              /\ PlanInv(c) /\ stored[c] # Absent
              /\ stored[c].deps = copy[c].deps
              /\ Consumers(stored, c) = copy[c].deps
              /\ c \in Code /\ copy[c].deps # {} => cloud[c] # NotDeployed
  BY <1>2, Loaded
<1>4. want # Absent /\ want.params \in Param /\ (c \notin Code => want.params = NoParams)
  <2>1. NodeInv(c)
    BY <1>2 DEF Inv
  <2>2. want # Absent
    BY <1>1, <2>1 DEF NodeInv
  <2> QED  BY <2>2, Wanted
<1>5. revisions'[cur'].desired[c] = want
  BY <1>2
<1> HIDE DEF want
<1>6. /\ instance \in StoredInstance /\ instance.deps = copy[c].deps
      /\ instance.params = want.params
      /\ rest \in NodePlan /\ rest.main = "none"
      /\ rest.detach = plan[c].detach /\ rest.attach = plan[c].attach
  BY <1>3, <1>4 DEF StoredInstance, NodePlan
<1> HIDE DEF instance, rest
<1>7. stored'[c] = instance /\ plan'[c] = rest /\ instance # Absent
  BY <1>2, <1>6, PoliciesAssumption DEF Inv, TypeOK
<1>8. c \notin overwritten => PlanInv(c)'
  <2> SUFFICES ASSUME c \notin overwritten PROVE PlanInv(c)'
    OBVIOUS
  <2>1. /\ plan[c].attach # {} => plan[c].attach \subseteq want.deps
        /\ c \in Code /\ plan[c].attach # {} => cloud[c] # NotDeployed
        /\ ~err[c] => (copy[c].deps \ plan[c].detach) \cup plan[c].attach = want.deps
    <3>1. PlanInv(c) /\ stored[c].deps = copy[c].deps
      BY <1>3
    <3> QED  BY <1>1, <1>4, <3>1 DEF PlanInv, Progress, want
  <2>2. ~err[c] => Progress(c, revisions[cur].desired[c])'
    BY <1>5, <1>6, <1>7, <2>1 DEF Progress
  <2> QED  BY <1>2, <1>4, <1>5, <1>6, <1>7, <2>1, <2>2 DEF PlanInv
<1>9. c \in Code \ overwritten /\ instance.deps # {} => cloud[c] # NotDeployed
  BY <1>3, <1>6
<1> QED
  BY <1>1, <1>4, <1>6, <1>8, <1>9, SaveInv DEF instance, rest, want

LEMMA NextInv == Inv /\ [Next]_vars => Inv'
<1> SUFFICES ASSUME Inv, [Next]_vars PROVE Inv'
  OBVIOUS
<1>1. CASE Enforcer
  <2>1. ASSUME NEW c \in Comp, Execute(c) PROVE Inv'
    BY <2>1, BeginInv, EndInv, LoadInv, UpdateParentInv, SaveUpdateInv, DetachInv, AttachInv,
       CallInv, PluginFailsInv, CannotCallInv, SaveResultInv
    DEF Execute
  <2> QED
    BY <1>1, <2>1, PickUnprocessedInv, PickForRetryInv, LookingInv, StartApplyInv, FinishInv
    DEF Enforcer
<1>2. CASE Updater
  BY <1>2, UpdaterInv
<1>3. CASE API
  BY <1>3, ChangePolicyInv, HandlerInv DEF API
<1>4. CASE Crash
  BY <1>4, CrashInv
<1>5. CASE UNCHANGED vars
  <2>1. UNCHANGED <<revisions, policy, policyGen, handler, stored, cloud, pc, cur, gen, plan,
                    node, copy, err, fetched, overwritten, faults, crashes, refreshes>>
    BY <1>5 DEF vars, apiVars, planVars, refreshVars, countVars
  <2>2. TypeOK' /\ EnforcerInv'
    BY <2>1 DEF Inv, TypeOK, EnforcerInv
  <2>3. RevisionsInOrder' /\ ConsumersDeployed' /\ RevisionsInv' /\ StoredInv'
    BY <2>1
    DEF Inv, RevisionsInOrder, ConsumersDeployed, RevisionsInv, StoredInv, Consumers, WellResolved
  <2>4. (IF pc = "applying" THEN \A c \in Comp : NodeInv(c)
         ELSE \A c \in Comp : node[c] = "ended")'
    BY <2>1 DEF Inv, NodeInv, PlanInv, Progress, Consumers, SameInstance
  <2> QED  BY <2>2, <2>3, <2>4 DEF Inv
<1> QED  BY <1>1, <1>2, <1>3, <1>4, <1>5 DEF Next

LEMMA AlwaysInv == Spec => []Inv
BY InitInv, NextInv, PTL DEF Spec

-----------------------------------------------------------------------------

(* The variables keep their types: in particular the enforcer always has   *)
(* a revision, that of an existing policy, the store only holds whole      *)
(* instances, and a node has a copy of one exactly between its load and    *)
(* its save.                                                               *)
THEOREM TypeCorrect == Spec => []TypeOK
<1>1. Inv => TypeOK
  BY DEF Inv
<1> QED  BY <1>1, AlwaysInv, PTL

(* Whatever crashes and is retried, a revision is only started when all    *)
(* the older ones have been completed (FindAndProcess, "we are processing  *)
(* revision sequentially").                                                *)
THEOREM ProcessedInOrder == Spec => []RevisionsInOrder
<1>1. Inv => RevisionsInOrder
  BY DEF Inv
<1> QED  BY <1>1, AlwaysInv, PTL

(* An instance that the store gives a consumer is deployed, whichever      *)
(* calls of the plugins fail or are refused, before or after their effect, *)
(* wherever the server dies, and whatever the endpoints updater saves      *)
(* between the loads and the saves of the enforcer, unless it has saved    *)
(* the instance over what was written since it loaded it.                  *)
THEOREM ConsumersAreDeployed == Spec => []ConsumersDeployed
<1>1. Inv => ConsumersDeployed
  BY DEF Inv
<1> QED  BY <1>1, AlwaysInv, PTL

(* When a revision is completed with no action failed, every instance it   *)
(* wants is stored as it wants it, with its consumers, and is deployed,    *)
(* and what it does not want has no consumer left, if the revision was     *)
(* compared with the stored state: all but the instances that the          *)
(* endpoints updater has overwritten.                                      *)
THEOREM CompletedRevisionsAreEnforced == Spec => CompletedMeansEnforced
<1> DEFINE Step == \A i \in DOMAIN revisions :
             /\ revisions[i].status = "inprogress"
             /\ revisions'[i].status = "completed"
             /\ ~revisions'[i].failed
             => /\ Enforced(revisions[i].desired, Comp \ overwritten)
                /\ ~revisions[i].recalculateAll =>
                     Released(revisions[i].desired, Comp \ overwritten)
<1>1. Inv /\ [Next]_vars => [Step]_vars
  <2> SUFFICES ASSUME Inv, Next, NEW i \in DOMAIN revisions,
                      revisions[i].status = "inprogress",
                      revisions'[i].status = "completed", ~revisions'[i].failed
               PROVE  /\ Enforced(revisions[i].desired, Comp \ overwritten)
                      /\ ~revisions[i].recalculateAll =>
                           Released(revisions[i].desired, Comp \ overwritten)
    OBVIOUS
  <2>1. /\ revisions \in Seq(RevisionRecord) /\ Len(revisions) \in Nat
        /\ DOMAIN revisions = 1..Len(revisions) /\ cur \in DOMAIN revisions
    BY LenProperties DEF Inv, TypeOK
  <2>2. revisions[i] \in RevisionRecord /\ revisions[cur] \in RevisionRecord
    BY <2>1, ElementOfSeq
  <2>3. CASE Finish
    <3>1. i = cur /\ ~revisions[cur].failed
      BY <2>1, <2>2, <2>3 DEF Finish, RevisionRecord
    <3>2. pc = "applying" /\ \A c \in Comp : node[c] = "ended"
      BY <2>3 DEF Finish
    <3>3. ASSUME NEW c \in Comp \ overwritten, revisions[cur].desired[c] # Absent
          PROVE  /\ SameInstance(stored[c], revisions[cur].desired[c])
                 /\ c \in Code => cloud[c] # NotDeployed
      <4> DEFINE want == revisions[cur].desired[c]
      <4>1. ~err[c] /\ plan[c] = NoActions /\ PlanInv(c)
        BY <3>1, <3>2 DEF Inv, NodeInv
      <4>2. Progress(c, want)
        BY <3>3, <4>1 DEF PlanInv
      <4>3. want.deps # {} /\ want # Absent
        BY <3>3, Wanted
      <4> HIDE DEF want
      <4>4. stored[c] # Absent /\ stored[c].deps = want.deps /\ stored[c].params = want.params
        <5>1. plan[c].main = "none" /\ plan[c].detach = {} /\ plan[c].attach = {}
          BY <4>1 DEF NoActions
        <5>2. /\ stored[c] # Absent /\ (stored[c].deps \ {}) \cup {} = want.deps
              /\ stored[c].params = want.params
          BY <4>2, <5>1 DEF Progress
        <5> QED  BY <5>2
      <4>5. SameInstance(stored[c], want)
        BY <4>3, <4>4 DEF SameInstance
      <4>6. c \in Code => cloud[c] # NotDeployed
        BY <4>3, <4>4 DEF Inv, ConsumersDeployed, Consumers
      <4> QED  BY <4>5, <4>6 DEF want
    <3>4. ASSUME NEW c \in Comp \ overwritten, revisions[cur].desired[c] = Absent,
                 ~revisions[cur].recalculateAll
          PROVE  Consumers(stored, c) = {}
      <4>1. ~err[c] /\ plan[c] = NoActions /\ PlanInv(c)
        BY <3>1, <3>2 DEF Inv, NodeInv
      <4>2. Consumers(stored, c) \subseteq NoActions.detach
        BY <3>4, <4>1 DEF PlanInv
      <4> QED  BY <4>2 DEF NoActions
    <3> QED  BY <3>1, <3>3, <3>4 DEF Enforced, Released
  <2>4. CASE ~Finish
    <3>1. \E j \in DOMAIN revisions : revisions' = [revisions EXCEPT ![j].failed = TRUE]
          \/ revisions' = [revisions EXCEPT ![j].status = "waiting", ![j].failed = FALSE]
          \/ revisions' = [revisions EXCEPT ![j].status = "inprogress"]
          \/ revisions' = [revisions EXCEPT ![j].saved = TRUE]
          \/ revisions' = revisions
          \/ \E r : revisions' = Append(revisions, r)
      <4>1. CASE Enforcer
        <5>1. CASE PickUnprocessed \/ PickForRetry
          <6>1. DOMAIN revisions # {} /\ \E j : Pick(j)
            BY <2>1, <5>1 DEF PickUnprocessed, PickForRetry
          <6> QED  BY <2>1, <6>1 DEF Pick
        <5>2. CASE \E c \in Comp : Execute(c)
          BY <2>1, <5>2
          DEF Execute, Begin, End, Load, Save, UpdateParent, Detach, Attach, Fail,
              CallPlugin, NoCall, PluginFails, CannotCall, SaveResult, SaveUpdate, apiVars
        <5>3. CASE ReadLatestPolicy \/ NothingToProcess \/ NoDesiredState \/ StartApply
          BY <2>1, <5>3 DEF ReadLatestPolicy, NothingToProcess, NoDesiredState, StartApply, apiVars
        <5> QED  BY <2>4, <4>1, <5>1, <5>2, <5>3 DEF Enforcer
      <4>2. CASE API
        <5>1. Len(revisions) \in DOMAIN revisions
          BY <2>1
        <5> QED
          BY <2>1, <4>2, <5>1
          DEF API, Handler, NewRevision, EnforceState, AddRevision, SaveDesiredState, ChangePolicy
      <4>3. CASE Updater \/ Crash
        BY <2>1, <4>3 DEF Updater, LoadForEndpoints, SaveEndpoints, Crash, apiVars
      <4> QED  BY <4>1, <4>2, <4>3 DEF Next
    <3>2. PICK j \in DOMAIN revisions :
            \/ revisions' = [revisions EXCEPT ![j].failed = TRUE]
            \/ revisions' = [revisions EXCEPT ![j].status = "waiting", ![j].failed = FALSE]
            \/ revisions' = [revisions EXCEPT ![j].status = "inprogress"]
            \/ revisions' = [revisions EXCEPT ![j].saved = TRUE]
            \/ revisions' = revisions
            \/ \E r : revisions' = Append(revisions, r)
      BY <3>1
    <3>3. revisions[j] \in RevisionRecord
      BY <2>1, ElementOfSeq
    <3>4. ~\E r : revisions' = Append(revisions, r)
      BY <2>1, <2>2
    <3>5. CASE j = i
      BY <2>1, <2>2, <3>2, <3>4, <3>5 DEF RevisionRecord
    <3>6. CASE j # i
      BY <2>1, <2>2, <3>2, <3>3, <3>4, <3>6
    <3> QED  BY <3>5, <3>6
  <2> QED  BY <2>3, <2>4
<1>2. Spec => [][Step]_vars
  BY <1>1, AlwaysInv, PTL DEF Spec
<1> QED  BY <1>2 DEF CompletedMeansEnforced

=============================================================================
