-------------------------- MODULE PolicyStoreProofs --------------------------
(***************************************************************************)
(* Proofs of the safety properties of PolicyStore, for any objects,        *)
(* handlers and requests and any number of crashes.                        *)
(***************************************************************************)
EXTENDS PolicyStore, SequenceTheorems, TLAPS

(* What the two saves of NewRevision do to the revisions.                  *)
LEMMA RevisionAdded ==
  ASSUME TypeOK, NEW g \in 1..LatestGen, AddRevision(g), UNCHANGED policyData
  PROVE  /\ revisions' \in Seq(Revision)
         /\ Len(revisions') = Len(revisions) + 1
         /\ \A i \in DOMAIN revisions' : revisions'[i].policyGen \in 1..LatestGen
         /\ revisions' # <<>>
         /\ revisions'[Len(revisions')] = [policyGen |-> g, desired |-> NoState]
         /\ \A i \in DOMAIN revisions : i \in DOMAIN revisions' /\ revisions'[i] = revisions[i]
         /\ \A k : Resolved(k) => Resolved(k)'
<1>1. revisions \in Seq(Revision) /\ LatestGen \in Nat
  BY DEF TypeOK, LatestGen
<1>2. [policyGen |-> g, desired |-> NoState] \in Revision
  BY <1>1 DEF Revision
<1>3. /\ revisions' \in Seq(Revision)
      /\ Len(revisions') = Len(revisions) + 1
      /\ revisions'[Len(revisions')] = [policyGen |-> g, desired |-> NoState]
      /\ \A i \in 1..Len(revisions) : revisions'[i] = revisions[i]
  BY <1>1, <1>2, AppendProperties DEF AddRevision
<1>4. \A i \in DOMAIN revisions : i \in DOMAIN revisions' /\ revisions'[i] = revisions[i]
  BY <1>1, <1>3
<1>5. \A i \in DOMAIN revisions' : revisions'[i].policyGen \in 1..LatestGen
  <2>1. TAKE i \in DOMAIN revisions'
  <2>2. i \in DOMAIN revisions \/ i = Len(revisions')
    BY <1>1, <1>3
  <2>3. \A j \in DOMAIN revisions : revisions[j].policyGen \in 1..LatestGen
    BY DEF TypeOK
  <2> QED  BY <1>3, <1>4, <2>2, <2>3
<1>6. \A k : Resolved(k) => Resolved(k)'
  BY <1>4 DEF Resolved, RevisionsFor
<1> QED  BY <1>1, <1>3, <1>4, <1>5, <1>6

LEMMA DesiredStateAdded ==
  ASSUME TypeOK, NEW s \in Policy, AddDesiredState(s), UNCHANGED policyData,
         revisions # <<>>, revisions[Len(revisions)].desired = NoState
  PROVE  /\ revisions' \in Seq(Revision)
         /\ Len(revisions') = Len(revisions)
         /\ \A i \in DOMAIN revisions : revisions'[i].policyGen = revisions[i].policyGen
         /\ \A i \in DOMAIN revisions : revisions[i].desired # NoState => revisions'[i] = revisions[i]
         /\ \A i \in DOMAIN revisions' : revisions'[i].policyGen \in 1..LatestGen
         /\ \A k : Resolved(k) => Resolved(k)'
         /\ Resolved(revisions[Len(revisions)].policyGen)'
<1> DEFINE last == Len(revisions)
<1>1. revisions \in Seq(Revision) /\ last \in 1..Len(revisions)
  BY EmptySeq, LenProperties DEF TypeOK
<1>2. revisions[last] \in Revision
  BY <1>1, ElementOfSeq
<1>3. revisions' = [revisions EXCEPT ![last] = [revisions[last] EXCEPT !.desired = s]]
  BY <1>1 DEF AddDesiredState
<1>4. [revisions[last] EXCEPT !.desired = s] \in Revision
  BY <1>2 DEF Revision
<1>5. revisions' \in Seq(Revision) /\ Len(revisions') = Len(revisions)
  BY <1>1, <1>3, <1>4, ExceptSeq
<1>6. \A i \in DOMAIN revisions : i # last => revisions'[i] = revisions[i]
  BY <1>1, <1>3
<1>7. revisions'[last].policyGen = revisions[last].policyGen /\ revisions'[last].desired = s
  BY <1>1, <1>2, <1>3 DEF Revision
<1>8. \A i \in DOMAIN revisions : revisions'[i].policyGen = revisions[i].policyGen
  BY <1>6, <1>7
<1>9. DOMAIN revisions' = DOMAIN revisions
  BY <1>1, <1>5
<1>10. \A i \in DOMAIN revisions' : revisions'[i].policyGen \in 1..LatestGen
  BY <1>8, <1>9 DEF TypeOK
<1>11. s # NoState
  BY StoreAssumption
<1>12. \A k : Resolved(k) => Resolved(k)'
  BY <1>6, <1>8, <1>9 DEF Resolved, RevisionsFor
<1>13. Resolved(revisions[last].policyGen)'
  BY <1>1, <1>7, <1>9, <1>11 DEF Resolved, RevisionsFor
<1> QED  BY <1>5, <1>6, <1>8, <1>10, <1>12, <1>13

(* Nothing that is resolved, loaded or in progress changes with the other  *)
(* variables.                                                              *)
LEMMA StoreFrame ==
  ASSUME UNCHANGED store
  PROVE  /\ LatestGen' = LatestGen
         /\ \A g : Resolved(g)' <=> Resolved(g)
         /\ PolicyLoads => PolicyLoads'
         /\ EveryPolicyIsResolved => EveryPolicyIsResolved'
BY DEF store, LatestGen, Resolved, RevisionsFor, PolicyLoads, EveryPolicyIsResolved

-----------------------------------------------------------------------------

LEMMA InitStoreInv == Init => StoreInv
<1> SUFFICES ASSUME Init PROVE StoreInv
  OBVIOUS
<1>1. TypeOK
  <2>1. gens \in [Obj -> Seq(Content \cup {Deleted})] /\ policyData \in Seq([Obj -> Nat])
    BY EmptySeq DEF Init
  <2>2. revisions \in Seq(Revision) /\ left \in Seq(Change)
    BY EmptySeq DEF Init
  <2>3. request \in [Handler -> Request]
    BY EmptySeq DEF Init, Request
  <2>4. LatestGen = 0 /\ Len(revisions) = 0 /\ DOMAIN revisions = {}
    BY DEF Init, LatestGen
  <2>5. desired \in [Handler -> Policy] /\ data \in [Obj -> Nat]
    BY DEF Init, EmptyPolicy, EmptyData, Policy
  <2>6. readGen \in [Handler -> 0..LatestGen] /\ processed \in 0..Len(revisions)
    BY <2>4 DEF Init
  <2>7. requests \in 0..MaxRequests /\ crashes \in 0..MaxCrashes
    BY StoreAssumption DEF Init
  <2>8. pc \in [Handler -> {"idle", "reading", "changing", "saving", "revision", "desired"}]
    BY DEF Init
  <2>9. /\ boot \in {"check", "revision", "desired", "up"}
        /\ mutex \in Handler \cup {NoHandler} /\ changed \in BOOLEAN
    BY DEF Init
  <2> QED
    BY <2>1, <2>2, <2>3, <2>4, <2>5, <2>6, <2>7, <2>8, <2>9 DEF TypeOK
<1>2. LatestGen = 0
  BY DEF Init, LatestGen
<1>3. PolicyLoads /\ EveryPolicyIsResolved /\ DataInv
  BY <1>2 DEF Init, PolicyLoads, EveryPolicyIsResolved, DataInv, EmptyData
<1>4. MutexInv /\ BootInv /\ SavingInv /\ BaseInv
  BY <1>2, StoreAssumption
  DEF Init, MutexInv, BootInv, SavingInv, HolderInv, BaseInv, CriticalSteps
<1> QED  BY <1>1, <1>3, <1>4 DEF StoreInv

LEMMA CheckPolicyStoreInv == StoreInv /\ CheckPolicy => StoreInv'
<1> SUFFICES ASSUME StoreInv, CheckPolicy PROVE StoreInv'
  OBVIOUS
<1>1. CASE policyData = <<>>
  <2>1. /\ policyData' = <<EmptyData>> /\ boot' = "revision"
        /\ UNCHANGED <<gens, revisions, processed, critical, handlers, bounds>>
    BY <1>1 DEF CheckPolicy
  <2>2. Len(policyData') = 1 /\ LatestGen = 0 /\ DOMAIN policyData' = {1}
    BY <1>1, <2>1 DEF LatestGen
  <2>3. EmptyData \in [Obj -> Nat] /\ policyData'[1] = EmptyData
    BY <2>1 DEF EmptyData
  <2>4. revisions = <<>>
    <3>1. revisions \in Seq(Revision) /\ DOMAIN revisions = 1..Len(revisions)
      BY LenProperties DEF StoreInv, TypeOK
    <3>2. \A i \in DOMAIN revisions : revisions[i].policyGen \in 1..0
      BY <2>2 DEF StoreInv, TypeOK
    <3>3. Len(revisions) \in Nat /\ 1 \notin 1..Len(revisions)
      BY <3>1, <3>2, LenProperties
    <3> QED  BY <3>1, <3>3, EmptySeq
  <2>5. TypeOK'
    BY <2>1, <2>2, <2>3, <2>4 DEF StoreInv, TypeOK, LatestGen, critical, handlers, bounds
  <2>6. PolicyLoads' /\ EveryPolicyIsResolved'
    BY <2>1, <2>2, <2>3 DEF PolicyLoads, EveryPolicyIsResolved, EmptyData, LatestGen
  <2>7. DataInv' /\ MutexInv'
    BY <2>1 DEF StoreInv, DataInv, MutexInv, critical, handlers
  <2>8. \A h \in Handler : pc[h] = "idle"
    BY DEF StoreInv, BootInv, CheckPolicy
  <2>9. BootInv' /\ SavingInv' /\ BaseInv'
    BY <2>1, <2>2, <2>8 DEF BootInv, SavingInv, HolderInv, BaseInv, LatestGen, handlers
  <2> QED  BY <2>5, <2>6, <2>7, <2>9 DEF StoreInv
<1>2. CASE policyData # <<>>
  <2>1. boot' = "up" /\ UNCHANGED <<store, processed, critical, handlers, bounds>>
    BY <1>2 DEF CheckPolicy, store
  <2>2. LatestGen > 0
    BY <1>2, EmptySeq, LenProperties DEF StoreInv, TypeOK, LatestGen
  <2>3. TypeOK' /\ DataInv' /\ MutexInv'
    BY <2>1 DEF StoreInv, TypeOK, DataInv, MutexInv, store, critical, handlers, bounds, LatestGen
  <2>4. PolicyLoads' /\ EveryPolicyIsResolved'
    BY <2>1, StoreFrame DEF StoreInv
  <2>5. BootInv' /\ SavingInv' /\ BaseInv'
    <3>1. \A h \in Handler : pc[h] = "idle" /\ pc'[h] = "idle"
      BY <2>1 DEF StoreInv, BootInv, CheckPolicy, handlers
    <3> QED  BY <2>1, <2>2, <3>1 DEF BootInv, SavingInv, HolderInv, BaseInv, LatestGen, store
  <2> QED  BY <2>3, <2>4, <2>5 DEF StoreInv
<1> QED  BY <1>1, <1>2

LEMMA InitRevisionStoreInv == StoreInv /\ InitRevision => StoreInv'
<1> SUFFICES ASSUME StoreInv, InitRevision PROVE StoreInv'
  OBVIOUS
<1>1. LatestGen = 1 /\ LatestGen' = LatestGen
  BY DEF StoreInv, BootInv, InitRevision, LatestGen
<1>2. /\ revisions' \in Seq(Revision)
      /\ Len(revisions') = Len(revisions) + 1
      /\ \A i \in DOMAIN revisions' : revisions'[i].policyGen \in 1..LatestGen
      /\ revisions' # <<>>
      /\ revisions'[Len(revisions')] = [policyGen |-> 1, desired |-> NoState]
  BY <1>1, RevisionAdded DEF StoreInv, InitRevision
<1>3. TypeOK'
  <2>1. processed' \in 0..Len(revisions')
    BY <1>2, LenProperties DEF StoreInv, TypeOK, InitRevision
  <2> QED
    BY <1>1, <1>2, <2>1
    DEF StoreInv, TypeOK, InitRevision, critical, handlers, bounds
<1>4. PolicyLoads' /\ EveryPolicyIsResolved' /\ DataInv' /\ MutexInv'
  BY <1>1
  DEF StoreInv, InitRevision, PolicyLoads, EveryPolicyIsResolved, DataInv, MutexInv, critical, handlers
<1>5. BootInv' /\ SavingInv' /\ BaseInv'
  <2>1. \A h \in Handler : pc[h] = "idle" /\ pc'[h] = "idle"
    BY DEF StoreInv, BootInv, InitRevision, handlers
  <2> QED
    BY <1>1, <1>2, <2>1 DEF BootInv, SavingInv, HolderInv, BaseInv, InitRevision
<1> QED  BY <1>3, <1>4, <1>5 DEF StoreInv

LEMMA InitDesiredStateStoreInv == StoreInv /\ InitDesiredState => StoreInv'
<1> SUFFICES ASSUME StoreInv, InitDesiredState PROVE StoreInv'
  OBVIOUS
<1>1. LatestGen = 1 /\ LatestGen' = LatestGen
  BY DEF StoreInv, BootInv, InitDesiredState, LatestGen
<1>2. EmptyPolicy \in Policy
  BY DEF EmptyPolicy, Policy
<1>3. /\ revisions' \in Seq(Revision)
      /\ Len(revisions') = Len(revisions)
      /\ \A i \in DOMAIN revisions' : revisions'[i].policyGen \in 1..LatestGen
  BY <1>2, DesiredStateAdded DEF StoreInv, BootInv, InitDesiredState
<1>4. TypeOK'
  BY <1>1, <1>3
  DEF StoreInv, TypeOK, InitDesiredState, critical, handlers, bounds
<1>5. PolicyLoads' /\ EveryPolicyIsResolved' /\ DataInv' /\ MutexInv'
  BY <1>1
  DEF StoreInv, InitDesiredState, PolicyLoads, EveryPolicyIsResolved, DataInv, MutexInv, critical, handlers
<1>6. BootInv' /\ SavingInv' /\ BaseInv'
  <2>1. \A h \in Handler : pc[h] = "idle" /\ pc'[h] = "idle"
    BY DEF StoreInv, BootInv, InitDesiredState, handlers
  <2> QED
    BY <1>1, <2>1 DEF BootInv, SavingInv, HolderInv, BaseInv, InitDesiredState
<1> QED  BY <1>4, <1>5, <1>6 DEF StoreInv

-----------------------------------------------------------------------------
(* A handler before it has the mutex.                                      *)

LEMMA PolicyOfInPolicy ==
  ASSUME TypeOK, PolicyLoads, NEW g \in 1..LatestGen
  PROVE  PolicyOf(policyData[g]) \in Policy
<1>1. g \in DOMAIN policyData /\ policyData[g] \in [Obj -> Nat]
  BY ElementOfSeq, LenProperties DEF TypeOK, LatestGen
<1>2. ASSUME NEW o \in Obj, policyData[g][o] # 0
      PROVE  gens[o][policyData[g][o]] \in Content
  <2>1. gens[o] \in Seq(Content \cup {Deleted})
    BY DEF TypeOK
  <2>2. policyData[g][o] \in 1..Len(gens[o]) /\ gens[o][policyData[g][o]] # Deleted
    BY <1>1, <1>2, <2>1, LenProperties DEF PolicyLoads
  <2> QED  BY <2>1, <2>2, ElementOfSeq
<1> QED  BY <1>1, <1>2 DEF PolicyOf, Policy

LEMMA UpdatedInPolicy ==
  ASSUME NEW p \in Policy, NEW r \in Request
  PROVE  Updated(p, r) \in Policy
<1> DEFINE named(o) == {i \in DOMAIN r.changes : r.changes[i].obj = o}
<1>1. r.changes \in Seq(Change)
  BY DEF Request
<1>2. ASSUME NEW o \in Obj, named(o) # {}
      PROVE  r.changes[CHOOSE i \in named(o) : TRUE].content \in Content
  <2>1. (CHOOSE i \in named(o) : TRUE) \in DOMAIN r.changes
    BY <1>2
  <2>2. r.changes[CHOOSE i \in named(o) : TRUE] \in Change
    BY <1>1, <2>1, ElementOfSeq, LenProperties
  <2> QED  BY <2>2 DEF Change
<1>3. ASSUME NEW o \in Obj
      PROVE  Updated(p, r)[o] \in Content \cup {Absent}
  <2>1. CASE named(o) = {}
    BY <2>1 DEF Updated, Policy
  <2>2. CASE named(o) # {} /\ r.kind = "update"
    BY <1>2, <2>2 DEF Updated
  <2>3. CASE named(o) # {} /\ r.kind # "update"
    BY <2>3 DEF Updated
  <2> QED  BY <2>1, <2>2, <2>3
<1>4. Updated(p, r) = [o \in Obj |-> Updated(p, r)[o]]
  BY DEF Updated
<1> QED  BY <1>3, <1>4 DEF Policy

LEMMA ReceiveStoreInv ==
  ASSUME StoreInv, NEW h \in Handler, NEW r \in Requests, Receive(h, r)
  PROVE  StoreInv'
<1>1. UNCHANGED store /\ LatestGen' = LatestGen
  BY StoreFrame DEF Receive
<1>2. LatestGen > 0 /\ LatestGen \in Nat
  BY LenProperties DEF StoreInv, TypeOK, BootInv, Receive, LatestGen
<1>3. TypeOK'
  <2>1. readGen' \in [Handler -> 0..LatestGen] /\ request' \in [Handler -> Request]
    BY <1>2, StoreAssumption DEF StoreInv, TypeOK, Receive
  <2>2. requests' \in 0..MaxRequests
    BY StoreAssumption DEF StoreInv, TypeOK, Receive
  <2>3. pc' \in [Handler -> {"idle", "reading", "changing", "saving", "revision", "desired"}]
    BY DEF StoreInv, TypeOK, Receive
  <2> QED
    BY <1>1, <2>1, <2>2, <2>3 DEF StoreInv, TypeOK, Receive, store, critical
<1>4. PolicyLoads' /\ EveryPolicyIsResolved'
  BY <1>1, StoreFrame DEF StoreInv
<1>5. DataInv' /\ MutexInv'
  BY <1>1 DEF StoreInv, TypeOK, DataInv, MutexInv, CriticalSteps, Receive, store, critical
<1>6. BootInv'
  BY <1>1, <1>2 DEF StoreInv, TypeOK, BootInv, Receive, store
<1>7. SavingInv'
  <2>1. SUFFICES ASSUME NEW j \in Handler
                 PROVE  HolderInv(j)'
    BY DEF SavingInv
  <2>2. CASE j = h
    BY <2>2 DEF StoreInv, TypeOK, HolderInv, Receive
  <2>3. CASE j # h
    <3>1. pc'[j] = pc[j] /\ request'[j] = request[j]
      BY <2>3 DEF StoreInv, TypeOK, Receive
    <3>2. Resolved(LatestGen) => Resolved(LatestGen)'
      BY <1>1, StoreFrame
    <3> QED
      BY <1>1, <3>1, <3>2 DEF StoreInv, SavingInv, HolderInv, Receive, store, critical, Named
  <2> QED  BY <2>2, <2>3
<1>8. InProgress => InProgress'
  BY DEF StoreInv, TypeOK, InProgress, Receive
<1>9. BaseInv'
  <2>1. ASSUME NEW j \in Handler,
               \/ pc'[j] = "changing" /\ request'[j].kind # "enforce"
               \/ pc'[j] \in {"reading", "changing"} /\ readGen'[j] < LatestGen'
        PROVE  Resolved(LatestGen) \/ InProgress
    BY <1>1, <1>2, <2>1 DEF StoreInv, TypeOK, BaseInv, Receive
  <2>2. Resolved(LatestGen) => Resolved(LatestGen)'
    BY <1>1, StoreFrame
  <2> QED  BY <1>8, <2>1, <2>2 DEF BaseInv
<1> QED  BY <1>3, <1>4, <1>5, <1>6, <1>7, <1>9 DEF StoreInv

LEMMA ResolveStoreInv ==
  ASSUME StoreInv, NEW h \in Handler, Resolve(h)
  PROVE  StoreInv'
<1>1. UNCHANGED store /\ LatestGen' = LatestGen
  BY StoreFrame DEF Resolve
<1>2. readGen[h] \in 1..LatestGen /\ LatestGen \in Nat
  <2>1. LatestGen \in Nat
    BY LenProperties DEF StoreInv, TypeOK, LatestGen
  <2>2. readGen[h] \in 0..LatestGen /\ readGen[h] > 0
    BY DEF StoreInv, TypeOK, BootInv, Resolve
  <2> QED  BY <2>1, <2>2
<1>3. TypeOK'
  <2>1. PolicyOf(policyData[readGen[h]]) \in Policy
    BY <1>2, PolicyOfInPolicy DEF StoreInv
  <2>2. request[h] \in Request
    BY DEF StoreInv, TypeOK
  <2>3. Updated(PolicyOf(policyData[readGen[h]]), request[h]) \in Policy
    BY <2>1, <2>2, UpdatedInPolicy
  <2>4. desired' \in [Handler -> Policy]
    BY <2>3 DEF StoreInv, TypeOK, Resolve
  <2>5. pc' \in [Handler -> {"idle", "reading", "changing", "saving", "revision", "desired"}]
    BY DEF StoreInv, TypeOK, Resolve
  <2> QED
    BY <1>1, <2>4, <2>5 DEF StoreInv, TypeOK, Resolve, store, critical, bounds
<1>4. PolicyLoads' /\ EveryPolicyIsResolved'
  BY <1>1, StoreFrame DEF StoreInv
<1>5. DataInv' /\ MutexInv'
  BY <1>1 DEF StoreInv, TypeOK, DataInv, MutexInv, CriticalSteps, Resolve, store, critical
<1>6. BootInv'
  BY <1>1, <1>2 DEF StoreInv, TypeOK, BootInv, Resolve, store
<1>7. SavingInv'
  <2>1. SUFFICES ASSUME NEW j \in Handler
                 PROVE  HolderInv(j)'
    BY DEF SavingInv
  <2>2. CASE j = h
    BY <2>2 DEF StoreInv, TypeOK, HolderInv, Resolve
  <2>3. CASE j # h
    <3>1. pc'[j] = pc[j] /\ request'[j] = request[j]
      BY <2>3 DEF StoreInv, TypeOK, Resolve
    <3>2. Resolved(LatestGen) => Resolved(LatestGen)'
      BY <1>1, StoreFrame
    <3> QED
      BY <1>1, <3>1, <3>2 DEF StoreInv, SavingInv, HolderInv, Resolve, store, critical, Named
  <2> QED  BY <2>2, <2>3
<1>8. InProgress => InProgress'
  BY DEF StoreInv, TypeOK, InProgress, Resolve
<1>9. BaseInv'
  <2>1. ASSUME request[h].kind # "enforce"
        PROVE  Resolved(readGen[h])
    BY <2>1 DEF Resolve, HasDesiredState, Resolved
  <2>2. ASSUME NEW j \in Handler,
               \/ pc'[j] = "changing" /\ request'[j].kind # "enforce"
               \/ pc'[j] \in {"reading", "changing"} /\ readGen'[j] < LatestGen'
        PROVE  Resolved(LatestGen) \/ InProgress
    <3>1. CASE j = h /\ readGen[h] = LatestGen
      BY <1>1, <1>2, <2>1, <2>2, <3>1 DEF Resolve
    <3>2. CASE j = h /\ readGen[h] < LatestGen
      BY <2>2, <3>2 DEF StoreInv, BaseInv, Resolve
    <3>3. CASE j # h
      BY <1>1, <2>2, <3>3 DEF StoreInv, TypeOK, BaseInv, Resolve
    <3> QED  BY <1>2, <3>1, <3>2, <3>3
  <2>3. Resolved(LatestGen) => Resolved(LatestGen)'
    BY <1>1, StoreFrame
  <2> QED  BY <1>8, <2>2, <2>3 DEF BaseInv
<1> QED  BY <1>3, <1>4, <1>5, <1>6, <1>7, <1>9 DEF StoreInv

LEMMA RejectStoreInv ==
  ASSUME StoreInv, NEW h \in Handler, Reject(h)
  PROVE  StoreInv'
<1>1. UNCHANGED store /\ LatestGen' = LatestGen
  BY StoreFrame DEF Reject
<1>2. /\ pc'[h] = "idle"
      /\ \A j \in Handler : j # h => pc'[j] = pc[j]
  BY DEF StoreInv, TypeOK, Reject
<1>3. TypeOK'
  BY <1>1 DEF StoreInv, TypeOK, Reject, store, critical, bounds
<1>4. PolicyLoads' /\ EveryPolicyIsResolved'
  BY <1>1, StoreFrame DEF StoreInv
<1>5. DataInv' /\ MutexInv'
  BY <1>1, <1>2 DEF StoreInv, DataInv, MutexInv, CriticalSteps, Reject, store, critical
<1>6. BootInv'
  BY <1>1, <1>2 DEF StoreInv, BootInv, Reject, store
<1>7. SavingInv' /\ BaseInv'
  <2>1. Resolved(LatestGen) => Resolved(LatestGen)'
    BY <1>1, StoreFrame
  <2>2. InProgress => InProgress'
    BY <1>2 DEF InProgress, Reject
  <2> QED
    BY <1>1, <1>2, <2>1, <2>2 DEF StoreInv, SavingInv, HolderInv, BaseInv, Reject, store, critical, Named
<1> QED  BY <1>3, <1>4, <1>5, <1>6, <1>7 DEF StoreInv

-----------------------------------------------------------------------------
(* The holder of the mutex.                                                *)

LEMMA LockStoreInv ==
  ASSUME StoreInv, NEW h \in Handler, Lock(h)
  PROVE  StoreInv'
<1>1. UNCHANGED store /\ LatestGen' = LatestGen
  BY StoreFrame DEF Lock
<1>2. LatestGen \in 1..Len(policyData)
  BY LenProperties DEF StoreInv, TypeOK, BootInv, Lock, LatestGen
<1>3. policyData[LatestGen] \in [Obj -> Nat] /\ LatestGen \in DOMAIN policyData
  BY <1>2, ElementOfSeq, LenProperties DEF StoreInv, TypeOK
<1>4. /\ pc'[h] = IF request[h].kind = "enforce" THEN "revision" ELSE "saving"
      /\ \A j \in Handler : j # h => pc'[j] = pc[j]
  BY DEF StoreInv, TypeOK, Lock
<1>5. \A j \in Handler : pc[j] \notin CriticalSteps
  BY StoreAssumption DEF StoreInv, MutexInv, Lock
<1>6. request[h].changes \in Seq(Change)
  BY DEF StoreInv, TypeOK, Request
<1>7. TypeOK'
  <2>1. pc' \in [Handler -> {"idle", "reading", "changing", "saving", "revision", "desired"}]
    BY DEF StoreInv, TypeOK, Lock
  <2> QED
    BY <1>1, <1>3, <1>6, <2>1 DEF StoreInv, TypeOK, Lock, store, bounds
<1>8. PolicyLoads' /\ EveryPolicyIsResolved'
  BY <1>1, StoreFrame DEF StoreInv
<1>9. DataInv' /\ MutexInv'
  <2>1. DataInv'
    BY <1>1, <1>3 DEF StoreInv, PolicyLoads, DataInv, Lock, store
  <2>2. MutexInv'
    BY <1>4, <1>5 DEF MutexInv, CriticalSteps, Lock
  <2> QED  BY <2>1, <2>2
<1>10. BootInv'
  BY <1>1, <1>4 DEF StoreInv, BootInv, Lock, store
<1>11. Resolved(LatestGen) => Resolved(LatestGen)'
  BY <1>1, StoreFrame
<1>12. ~ InProgress
  BY <1>5 DEF InProgress, CriticalSteps
<1>13. SavingInv'
  <2>1. SUFFICES ASSUME NEW j \in Handler
                 PROVE  HolderInv(j)'
    BY DEF SavingInv
  <2>2. CASE j # h
    BY <1>4, <1>5, <2>2 DEF HolderInv, CriticalSteps
  <2>3. CASE j = h
    <3>1. request[h].kind # "enforce" => Resolved(LatestGen)
      BY <1>12 DEF StoreInv, BaseInv, Lock
    <3>2. \A k \in DOMAIN left' : left'[k].obj \in Named(request[h])
      BY DEF Lock, Named
    <3>3. \A o \in Obj : data'[o] = policyData'[LatestGen'][o]
      BY <1>1 DEF Lock, store
    <3>4. pc'[h] # "desired" /\ (pc'[h] = "saving" => request[h].kind # "enforce")
      BY <1>4
    <3>5. request' = request
      BY DEF Lock
    <3> QED
      BY <1>11, <2>3, <3>1, <3>2, <3>3, <3>4, <3>5 DEF HolderInv, Named
  <2> QED  BY <2>2, <2>3
<1>14. BaseInv'
  BY <1>1, <1>4, <1>11, <1>12 DEF StoreInv, BaseInv, Lock
<1> QED  BY <1>7, <1>8, <1>9, <1>10, <1>13, <1>14 DEF StoreInv

(* A new generation of an object changes no other one.                     *)
LEMMA GenerationAdded ==
  ASSUME TypeOK, NEW o \in Obj, NEW c \in Content \cup {Deleted},
         gens' = [gens EXCEPT ![o] = Append(@, c)]
  PROVE  /\ gens' \in [Obj -> Seq(Content \cup {Deleted})]
         /\ \A p \in Obj : \A i \in DOMAIN gens[p] :
              i \in DOMAIN gens'[p] /\ gens'[p][i] = gens[p][i]
         /\ Len(gens[o]) + 1 \in DOMAIN gens'[o]
         /\ Len(gens[o]) + 1 \in Nat \ {0}
         /\ gens'[o][Len(gens[o]) + 1] = c
<1>1. gens[o] \in Seq(Content \cup {Deleted})
  BY DEF TypeOK
<1>2. /\ Append(gens[o], c) \in Seq(Content \cup {Deleted})
      /\ Len(Append(gens[o], c)) = Len(gens[o]) + 1
      /\ \A i \in 1..Len(gens[o]) : Append(gens[o], c)[i] = gens[o][i]
      /\ Append(gens[o], c)[Len(gens[o]) + 1] = c
  BY <1>1, AppendProperties
<1>3. /\ DOMAIN Append(gens[o], c) = 1..(Len(gens[o]) + 1)
      /\ DOMAIN gens[o] = 1..Len(gens[o]) /\ Len(gens[o]) \in Nat
  BY <1>1, <1>2, LenProperties
<1>4. gens'[o] = Append(gens[o], c) /\ \A p \in Obj : p # o => gens'[p] = gens[p]
  BY DEF TypeOK
<1>5. gens' \in [Obj -> Seq(Content \cup {Deleted})]
  BY <1>2 DEF TypeOK
<1>6. \A p \in Obj : \A i \in DOMAIN gens[p] :
        i \in DOMAIN gens'[p] /\ gens'[p][i] = gens[p][i]
  BY <1>2, <1>3, <1>4
<1> QED  BY <1>2, <1>3, <1>4, <1>5, <1>6

(* What saving and deleting an object have in common: generations are      *)
(* added, and the policy data changes for an object of the request.        *)
LEMMA ObjectStepStoreInv ==
  ASSUME StoreInv, NEW h \in Handler, pc[h] = "saving",
         left # <<>>, left' = Tail(left),
         gens' \in [Obj -> Seq(Content \cup {Deleted})],
         \A p \in Obj : \A i \in DOMAIN gens[p] :
           i \in DOMAIN gens'[p] /\ gens'[p][i] = gens[p][i],
         data' \in [Obj -> Nat], changed' \in BOOLEAN, DataInv',
         \A p \in Obj : p # Head(left).obj => data'[p] = data[p],
         UNCHANGED <<policyData, revisions, processed, boot, mutex, handlers, bounds>>
  PROVE  StoreInv'
<1>1. left \in Seq(Change) /\ Len(left) \in Nat \ {0}
  BY EmptySeq, LenProperties DEF StoreInv, TypeOK
<1>2. /\ Tail(left) \in Seq(Change) /\ Len(Tail(left)) = Len(left) - 1
      /\ \A k \in 1..Len(Tail(left)) : Tail(left)[k] = left[k + 1]
      /\ Head(left) = left[1]
  BY <1>1, HeadTailProperties
<1>3. LatestGen' = LatestGen
  BY DEF LatestGen
<1>4. TypeOK'
  BY <1>2, <1>3 DEF StoreInv, TypeOK, handlers, bounds
<1>5. PolicyLoads'
  BY DEF StoreInv, PolicyLoads
<1>6. \A g : Resolved(g)' <=> Resolved(g)
  BY DEF Resolved, RevisionsFor
<1>7. EveryPolicyIsResolved'
  BY <1>3 DEF StoreInv, EveryPolicyIsResolved, RevisionsFor
<1>8. MutexInv' /\ BootInv'
  BY <1>3 DEF StoreInv, MutexInv, BootInv, handlers
<1>9. \A j \in Handler : j # h => pc[j] \notin CriticalSteps
  BY DEF StoreInv, MutexInv, CriticalSteps
<1>10. SavingInv'
  <2>1. SUFFICES ASSUME NEW j \in Handler
                 PROVE  HolderInv(j)'
    BY DEF SavingInv
  <2>2. CASE j # h
    BY <1>9, <2>2 DEF HolderInv, CriticalSteps, handlers
  <2>3. CASE j = h
    <3>1. HolderInv(h)
      BY DEF StoreInv, SavingInv
    <3>2. 1 \in DOMAIN left /\ Head(left).obj \in Named(request[h])
      BY <1>1, <1>2, <3>1, LenProperties DEF HolderInv
    <3>3. \A k \in DOMAIN left' : left'[k].obj \in Named(request[h])
      <4>1. TAKE k \in DOMAIN left'
      <4>2. k \in 1..Len(Tail(left)) /\ k + 1 \in DOMAIN left
        BY <1>1, <1>2, LenProperties
      <4> QED  BY <1>2, <3>1, <4>2 DEF HolderInv
    <3>4. \A o \in Obj \ Named(request[h]) : data'[o] = policyData'[LatestGen'][o]
      BY <1>3, <3>1, <3>2 DEF HolderInv
    <3> QED
      BY <1>3, <1>6, <2>3, <3>1, <3>3, <3>4 DEF HolderInv, handlers, Named
  <2> QED  BY <2>2, <2>3
<1>11. BaseInv'
  <2>1. InProgress => InProgress'
    BY DEF InProgress, handlers
  <2> QED
    BY <1>3, <1>6, <2>1 DEF StoreInv, BaseInv, handlers
<1> QED  BY <1>4, <1>5, <1>7, <1>8, <1>10, <1>11 DEF StoreInv

LEMMA SaveObjectStoreInv ==
  ASSUME StoreInv, NEW h \in Handler, SaveObject(h)
  PROVE  StoreInv'
<1> DEFINE o == Head(left).obj
           c == Head(left).content
<1>1. o \in Obj /\ c \in Content
  <2>1. left \in Seq(Change) /\ left # <<>>
    BY DEF StoreInv, TypeOK, SaveObject
  <2>2. Head(left) \in Change
    BY <2>1, HeadTailProperties
  <2> QED  BY <2>2 DEF Change
<1>2. /\ pc[h] = "saving" /\ left # <<>> /\ left' = Tail(left)
      /\ UNCHANGED <<policyData, revisions, processed, boot, mutex, handlers, bounds>>
  BY DEF SaveObject
<1>3. CASE LastContent(o) = c
  <2>1. UNCHANGED <<gens, data, changed>>
    BY <1>3 DEF SaveObject
  <2>2. DataInv'
    BY <2>1 DEF StoreInv, DataInv
  <2>3. /\ gens' \in [Obj -> Seq(Content \cup {Deleted})]
        /\ data' \in [Obj -> Nat] /\ changed' \in BOOLEAN
    BY <2>1 DEF StoreInv, TypeOK
  <2> QED  BY <1>2, <2>1, <2>2, <2>3, ObjectStepStoreInv
<1>4. CASE LastContent(o) # c
  <2>1. /\ gens' = [gens EXCEPT ![o] = Append(@, c)]
        /\ data' = [data EXCEPT ![o] = Len(gens[o]) + 1]
        /\ changed' = TRUE
    BY <1>4 DEF SaveObject
  <2>2. /\ gens' \in [Obj -> Seq(Content \cup {Deleted})]
        /\ \A p \in Obj : \A i \in DOMAIN gens[p] :
             i \in DOMAIN gens'[p] /\ gens'[p][i] = gens[p][i]
        /\ Len(gens[o]) + 1 \in DOMAIN gens'[o]
        /\ Len(gens[o]) + 1 \in Nat \ {0}
        /\ gens'[o][Len(gens[o]) + 1] = c
    BY <1>1, <2>1, GenerationAdded DEF StoreInv
  <2>3. data' \in [Obj -> Nat] /\ data'[o] = Len(gens[o]) + 1
    BY <1>1, <2>1, <2>2 DEF StoreInv, TypeOK
  <2>4. \A p \in Obj : p # o => data'[p] = data[p]
    BY <2>1 DEF StoreInv, TypeOK
  <2>5. DataInv'
    BY <1>1, <2>2, <2>3, <2>4, StoreAssumption DEF StoreInv, DataInv
  <2>6. changed' \in BOOLEAN
    BY <2>1
  <2> QED  BY <1>2, <2>2, <2>3, <2>4, <2>5, <2>6, ObjectStepStoreInv
<1> QED  BY <1>3, <1>4

LEMMA DeleteObjectStoreInv ==
  ASSUME StoreInv, NEW h \in Handler, DeleteObject(h)
  PROVE  StoreInv'
<1> DEFINE o == Head(left).obj
<1>1. o \in Obj
  <2>1. left \in Seq(Change) /\ left # <<>>
    BY DEF StoreInv, TypeOK, DeleteObject
  <2>2. Head(left) \in Change
    BY <2>1, HeadTailProperties
  <2> QED  BY <2>2 DEF Change
<1>2. /\ pc[h] = "saving" /\ left # <<>> /\ left' = Tail(left)
      /\ UNCHANGED <<policyData, revisions, processed, boot, mutex, handlers, bounds>>
  BY DEF DeleteObject
<1>3. /\ gens' \in [Obj -> Seq(Content \cup {Deleted})]
      /\ \A p \in Obj : \A i \in DOMAIN gens[p] :
           i \in DOMAIN gens'[p] /\ gens'[p][i] = gens[p][i]
  <2>1. gens' = gens \/ gens' = [gens EXCEPT ![o] = Append(@, Deleted)]
    BY DEF DeleteObject
  <2>2. CASE gens' = gens
    BY <2>2 DEF StoreInv, TypeOK
  <2>3. CASE gens' = [gens EXCEPT ![o] = Append(@, Deleted)]
    BY <1>1, <2>3, GenerationAdded DEF StoreInv
  <2> QED  BY <2>1, <2>2, <2>3
<1>4. data' = [data EXCEPT ![o] = 0] /\ changed' = (changed \/ data[o] # 0)
  BY DEF DeleteObject
<1>5. data' \in [Obj -> Nat] /\ data'[o] = 0 /\ \A p \in Obj : p # o => data'[p] = data[p]
  BY <1>1, <1>4 DEF StoreInv, TypeOK
<1>6. changed' \in BOOLEAN
  BY <1>4 DEF StoreInv, TypeOK
<1>7. DataInv'
  BY <1>3, <1>5 DEF StoreInv, DataInv
<1> QED  BY <1>2, <1>3, <1>5, <1>6, <1>7, ObjectStepStoreInv

(* A handler that gives the mutex back before it has changed the policy.   *)
LEMMA GiveUpStoreInv ==
  ASSUME StoreInv, NEW h \in Handler, pc[h] = "saving", Unlock(h),
         UNCHANGED <<store, processed, boot, request, readGen, desired, bounds>>
  PROVE  StoreInv'
<1>1. UNCHANGED store /\ LatestGen' = LatestGen
  BY StoreFrame
<1>2. /\ pc'[h] = "idle"
      /\ \A j \in Handler : j # h => pc'[j] = pc[j] /\ pc[j] \notin CriticalSteps
  BY DEF StoreInv, TypeOK, MutexInv, CriticalSteps, Unlock
<1>3. TypeOK'
  <2>1. left' \in Seq(Change) /\ data' \in [Obj -> Nat]
    BY EmptySeq DEF Unlock, EmptyData
  <2> QED
    BY <1>1, <2>1 DEF StoreInv, TypeOK, Unlock, store, bounds
<1>4. PolicyLoads' /\ EveryPolicyIsResolved'
  BY <1>1, StoreFrame DEF StoreInv
<1>5. DataInv' /\ MutexInv'
  BY <1>2, StoreAssumption DEF DataInv, MutexInv, CriticalSteps, Unlock, EmptyData
<1>6. BootInv'
  BY <1>1, <1>2 DEF StoreInv, BootInv, store
<1>7. SavingInv'
  BY <1>2 DEF SavingInv, HolderInv, CriticalSteps
<1>8. BaseInv'
  <2>1. Resolved(LatestGen) => Resolved(LatestGen)'
    BY <1>1, StoreFrame
  <2>2. InProgress => InProgress'
    BY <1>2 DEF InProgress
  <2> QED  BY <1>1, <1>2, <2>1, <2>2 DEF StoreInv, BaseInv
<1> QED  BY <1>3, <1>4, <1>5, <1>6, <1>7, <1>8 DEF StoreInv

LEMMA SavePolicyDataStoreInv ==
  ASSUME StoreInv, NEW h \in Handler, SavePolicyData(h)
  PROVE  StoreInv'
<1>1. policyData \in Seq([Obj -> Nat]) /\ data \in [Obj -> Nat] /\ LatestGen \in Nat
  BY LenProperties DEF StoreInv, TypeOK, LatestGen
<1>2. /\ policyData' \in Seq([Obj -> Nat])
      /\ LatestGen' = LatestGen + 1
      /\ \A g \in 1..LatestGen : policyData'[g] = policyData[g]
      /\ policyData'[LatestGen + 1] = data
  BY <1>1, AppendProperties DEF SavePolicyData, LatestGen
<1>3. DOMAIN policyData' = 1..(LatestGen + 1) /\ DOMAIN policyData = 1..LatestGen
  BY <1>1, <1>2, LenProperties DEF LatestGen
<1>4. /\ pc'[h] = "revision"
      /\ \A j \in Handler : j # h => pc'[j] = pc[j] /\ pc[j] \notin CriticalSteps
  BY DEF StoreInv, TypeOK, MutexInv, CriticalSteps, SavePolicyData
<1>5. HolderInv(h) /\ Resolved(LatestGen) /\ request[h].kind # "enforce"
  BY DEF StoreInv, SavingInv, HolderInv, SavePolicyData
<1>6. TypeOK'
  <2>1. readGen' \in [Handler -> 0..LatestGen']
    BY <1>1, <1>2 DEF StoreInv, TypeOK, SavePolicyData
  <2>2. \A i \in DOMAIN revisions' : revisions'[i].policyGen \in 1..LatestGen'
    BY <1>1, <1>2 DEF StoreInv, TypeOK, SavePolicyData
  <2>3. pc' \in [Handler -> {"idle", "reading", "changing", "saving", "revision", "desired"}]
    BY DEF StoreInv, TypeOK, SavePolicyData
  <2> QED
    BY <1>2, <2>1, <2>2, <2>3 DEF StoreInv, TypeOK, SavePolicyData, critical, bounds
<1>7. PolicyLoads'
  <2>1. ASSUME NEW g \in DOMAIN policyData', NEW o \in Obj, policyData'[g][o] # 0
        PROVE  policyData'[g][o] \in DOMAIN gens[o] /\ gens[o][policyData'[g][o]] # Deleted
    <3>1. CASE g \in 1..LatestGen
      BY <1>2, <1>3, <2>1, <3>1 DEF StoreInv, PolicyLoads
    <3>2. CASE g = LatestGen + 1
      BY <1>2, <2>1, <3>2 DEF StoreInv, DataInv
    <3> QED  BY <1>1, <1>3, <3>1, <3>2
  <2> QED  BY <2>1 DEF PolicyLoads, SavePolicyData
<1>8. \A g : Resolved(g) => Resolved(g)'
  BY DEF Resolved, RevisionsFor, SavePolicyData
<1>9. EveryPolicyIsResolved'
  <2>1. ASSUME NEW g \in 1..(LatestGen' - 1)
        PROVE  Resolved(g)
    <3>1. g = LatestGen \/ g \in 1..(LatestGen - 1)
      BY <1>1, <1>2
    <3> QED  BY <1>5, <3>1 DEF StoreInv, EveryPolicyIsResolved, Resolved
  <2> QED
    BY <1>8, <2>1 DEF EveryPolicyIsResolved, Resolved
<1>10. DataInv' /\ MutexInv'
  BY <1>4 DEF StoreInv, DataInv, MutexInv, CriticalSteps, SavePolicyData, critical
<1>11. BootInv'
  <2>1. boot = "up"
    BY DEF StoreInv, BootInv, SavePolicyData
  <2> QED
    BY <1>1, <1>2, <1>4, <2>1 DEF StoreInv, BootInv, SavePolicyData
<1>12. SavingInv'
  BY <1>4 DEF SavingInv, HolderInv, CriticalSteps
<1>13. BaseInv'
  BY <1>4, <1>5 DEF BaseInv, InProgress, SavePolicyData
<1> QED
  BY <1>6, <1>7, <1>9, <1>10, <1>11, <1>12, <1>13 DEF StoreInv

LEMMA SaveRevisionStoreInv ==
  ASSUME StoreInv, NEW h \in Handler, SaveRevision(h)
  PROVE  StoreInv'
<1> DEFINE g == IF request[h].kind = "enforce" THEN readGen[h] ELSE LatestGen
<1>1. LatestGen' = LatestGen /\ LatestGen \in Nat
  BY LenProperties DEF StoreInv, TypeOK, SaveRevision, LatestGen
<1>2. boot = "up" /\ LatestGen > 0 /\ readGen[h] > 0 /\ readGen[h] \in 0..LatestGen
  BY DEF StoreInv, TypeOK, BootInv, SaveRevision
<1>3. g \in 1..LatestGen
  BY <1>1, <1>2
<1>4. AddRevision(g) /\ UNCHANGED policyData /\ TypeOK
  BY DEF StoreInv, SaveRevision
<1>5. /\ revisions' \in Seq(Revision)
      /\ Len(revisions') = Len(revisions) + 1
      /\ \A i \in DOMAIN revisions' : revisions'[i].policyGen \in 1..LatestGen
      /\ revisions' # <<>>
      /\ revisions'[Len(revisions')] = [policyGen |-> g, desired |-> NoState]
      /\ \A k : Resolved(k) => Resolved(k)'
  <2> HIDE DEF g
  <2> QED  BY <1>3, <1>4, RevisionAdded
<1>6. /\ pc'[h] = "desired"
      /\ \A j \in Handler : j # h => pc'[j] = pc[j] /\ pc[j] \notin CriticalSteps
  BY DEF StoreInv, TypeOK, MutexInv, CriticalSteps, SaveRevision
<1>7. TypeOK'
  <2>1. processed' \in 0..Len(revisions')
    BY <1>5, LenProperties DEF StoreInv, TypeOK, SaveRevision
  <2>2. pc' \in [Handler -> {"idle", "reading", "changing", "saving", "revision", "desired"}]
    BY DEF StoreInv, TypeOK, SaveRevision
  <2> QED
    BY <1>1, <1>5, <2>1, <2>2 DEF StoreInv, TypeOK, SaveRevision, critical, bounds
<1>8. PolicyLoads' /\ DataInv' /\ MutexInv'
  <2>1. PolicyLoads'
    BY DEF StoreInv, PolicyLoads, SaveRevision
  <2>2. DataInv' /\ MutexInv'
    BY <1>6 DEF StoreInv, DataInv, MutexInv, CriticalSteps, SaveRevision, critical
  <2> QED  BY <2>1, <2>2
<1>9. EveryPolicyIsResolved'
  BY <1>1, <1>5 DEF StoreInv, EveryPolicyIsResolved, Resolved
<1>10. BootInv'
  BY <1>1, <1>2, <1>6 DEF StoreInv, BootInv, SaveRevision
<1>11. SavingInv'
  <2>1. SUFFICES ASSUME NEW j \in Handler
                 PROVE  HolderInv(j)'
    BY DEF SavingInv
  <2>2. CASE j # h
    BY <1>6, <2>2 DEF HolderInv, CriticalSteps
  <2>3. CASE j = h
    <3>1. request' = request
      BY DEF SaveRevision
    <3>2. request[h].kind # "enforce" => g = LatestGen
      OBVIOUS
    <3> HIDE DEF g
    <3> QED  BY <1>1, <1>5, <1>6, <2>3, <3>1, <3>2 DEF HolderInv
  <2> QED  BY <2>2, <2>3
<1>12. BaseInv'
  <2>1. InProgress => InProgress'
    BY <1>6 DEF InProgress, SaveRevision
  <2> QED
    BY <1>1, <1>5, <1>6, <2>1 DEF StoreInv, BaseInv, SaveRevision
<1> QED  BY <1>7, <1>8, <1>9, <1>10, <1>11, <1>12 DEF StoreInv

LEMMA SaveDesiredStateStoreInv ==
  ASSUME StoreInv, NEW h \in Handler, SaveDesiredState(h)
  PROVE  StoreInv'
<1>1. LatestGen' = LatestGen /\ LatestGen \in Nat
  BY LenProperties DEF StoreInv, TypeOK, SaveDesiredState, LatestGen
<1>2. HolderInv(h) /\ revisions # <<>> /\ revisions[Len(revisions)].desired = NoState
  BY DEF StoreInv, SavingInv, HolderInv, SaveDesiredState
<1>3. desired[h] \in Policy /\ AddDesiredState(desired[h]) /\ UNCHANGED policyData /\ TypeOK
  BY DEF StoreInv, TypeOK, SaveDesiredState
<1>4. /\ revisions' \in Seq(Revision)
      /\ Len(revisions') = Len(revisions)
      /\ \A i \in DOMAIN revisions : revisions'[i].policyGen = revisions[i].policyGen
      /\ \A i \in DOMAIN revisions' : revisions'[i].policyGen \in 1..LatestGen
      /\ \A k : Resolved(k) => Resolved(k)'
      /\ Resolved(revisions[Len(revisions)].policyGen)'
  BY <1>2, <1>3, DesiredStateAdded
<1>5. /\ pc'[h] = "idle"
      /\ \A j \in Handler : j # h => pc'[j] = pc[j] /\ pc[j] \notin CriticalSteps
  BY DEF StoreInv, TypeOK, MutexInv, CriticalSteps, SaveDesiredState, Unlock
<1>6. TypeOK'
  <2>1. left' \in Seq(Change) /\ data' \in [Obj -> Nat]
    BY EmptySeq DEF SaveDesiredState, Unlock, EmptyData
  <2>2. processed' \in 0..Len(revisions')
    BY <1>4 DEF StoreInv, TypeOK, SaveDesiredState
  <2>3. /\ mutex' \in Handler \cup {NoHandler} /\ changed' \in BOOLEAN
        /\ pc' \in [Handler -> {"idle", "reading", "changing", "saving", "revision", "desired"}]
    BY DEF StoreInv, TypeOK, SaveDesiredState, Unlock
  <2> QED
    BY <1>1, <1>4, <2>1, <2>2, <2>3 DEF StoreInv, TypeOK, SaveDesiredState, bounds
<1>7. PolicyLoads' /\ DataInv' /\ MutexInv'
  <2>1. PolicyLoads'
    BY DEF StoreInv, PolicyLoads, SaveDesiredState
  <2>2. DataInv' /\ MutexInv'
    BY <1>5, StoreAssumption
    DEF DataInv, MutexInv, CriticalSteps, SaveDesiredState, Unlock, EmptyData
  <2> QED  BY <2>1, <2>2
<1>8. EveryPolicyIsResolved'
  BY <1>1, <1>4 DEF StoreInv, EveryPolicyIsResolved, Resolved
<1>9. BootInv'
  <2>1. boot = "up"
    BY DEF StoreInv, BootInv, SaveDesiredState
  <2> QED
    BY <1>1, <1>5, <2>1 DEF StoreInv, BootInv, SaveDesiredState
<1>10. SavingInv'
  BY <1>5 DEF SavingInv, HolderInv, CriticalSteps
<1>11. BaseInv'
  <2>1. ASSUME InProgress
        PROVE  Resolved(LatestGen)'
    <3>1. request[h].kind # "enforce"
      BY <1>5, <2>1 DEF InProgress, CriticalSteps
    <3>2. revisions[Len(revisions)].policyGen = LatestGen
      BY <1>2, <3>1 DEF HolderInv, SaveDesiredState
    <3>3. Len(revisions) \in DOMAIN revisions
      BY <1>2, EmptySeq, LenProperties DEF StoreInv, TypeOK
    <3>4. revisions'[Len(revisions')].policyGen = LatestGen'
      BY <1>1, <1>4, <3>2, <3>3
    <3> QED  BY <1>4, <3>4
  <2> QED
    BY <1>1, <1>4, <1>5, <2>1 DEF StoreInv, BaseInv, SaveDesiredState
<1> QED  BY <1>6, <1>7, <1>8, <1>9, <1>10, <1>11 DEF StoreInv

-----------------------------------------------------------------------------
(* The enforcer, and a crash.                                              *)

LEMMA ProcessStoreInv == StoreInv /\ Process => StoreInv'
<1> SUFFICES ASSUME StoreInv, Process PROVE StoreInv'
  OBVIOUS
<1>1. UNCHANGED store /\ LatestGen' = LatestGen
  BY StoreFrame DEF Process
<1>2. processed' \in 0..Len(revisions)
  BY LenProperties DEF StoreInv, TypeOK, Process
<1>3. TypeOK'
  BY <1>1, <1>2 DEF StoreInv, TypeOK, Process, store, critical, handlers, bounds
<1>4. PolicyLoads' /\ EveryPolicyIsResolved'
  BY <1>1, StoreFrame DEF StoreInv
<1>5. DataInv' /\ MutexInv' /\ BootInv'
  BY <1>1 DEF StoreInv, DataInv, MutexInv, BootInv, Process, store, critical, handlers
<1>6. SavingInv' /\ BaseInv'
  <2>1. Resolved(LatestGen) => Resolved(LatestGen)'
    BY <1>1, StoreFrame
  <2>2. InProgress => InProgress'
    BY DEF InProgress, Process, handlers
  <2> QED
    BY <1>1, <2>1, <2>2
    DEF StoreInv, SavingInv, HolderInv, BaseInv, Process, store, critical, handlers, Named
<1> QED  BY <1>3, <1>4, <1>5, <1>6 DEF StoreInv

LEMMA CrashStoreInv == StoreInv /\ Crash => StoreInv'
<1> SUFFICES ASSUME StoreInv, Crash PROVE StoreInv'
  OBVIOUS
<1>1. UNCHANGED store /\ LatestGen' = LatestGen
  BY StoreFrame DEF Crash
<1>2. TypeOK'
  <2>1. left' \in Seq(Change) /\ data' \in [Obj -> Nat] /\ crashes' \in 0..MaxCrashes
    BY EmptySeq, StoreAssumption DEF StoreInv, TypeOK, Crash, EmptyData
  <2> QED
    BY <1>1, <2>1 DEF StoreInv, TypeOK, Crash, store
<1>3. PolicyLoads' /\ EveryPolicyIsResolved'
  BY <1>1, StoreFrame DEF StoreInv
<1>4. \A h \in Handler : pc'[h] = "idle"
  BY DEF Crash
<1>5. DataInv' /\ MutexInv'
  BY <1>4, StoreAssumption DEF DataInv, MutexInv, CriticalSteps, Crash, EmptyData
<1>6. BootInv' /\ SavingInv' /\ BaseInv'
  BY <1>4 DEF BootInv, SavingInv, HolderInv, BaseInv, Crash
<1> QED  BY <1>2, <1>3, <1>5, <1>6 DEF StoreInv

LEMMA NextStoreInv == StoreInv /\ [Next]_vars => StoreInv'
<1> SUFFICES ASSUME StoreInv, [Next]_vars PROVE StoreInv'
  OBVIOUS
<1>1. CASE Boot
  BY <1>1, CheckPolicyStoreInv, InitRevisionStoreInv, InitDesiredStateStoreInv DEF Boot
<1>2. ASSUME NEW h \in Handler, NEW r \in Requests, Receive(h, r)
      PROVE  StoreInv'
  BY <1>2, ReceiveStoreInv
<1>3. ASSUME NEW h \in Handler, Serve(h)
      PROVE  StoreInv'
  <2>1. CASE Resolve(h)
    BY <2>1, ResolveStoreInv
  <2>2. CASE Reject(h)
    BY <2>2, RejectStoreInv
  <2>3. CASE Lock(h)
    BY <2>3, LockStoreInv
  <2>4. CASE SaveObject(h)
    BY <2>4, SaveObjectStoreInv
  <2>5. CASE DeleteObject(h)
    BY <2>5, DeleteObjectStoreInv
  <2>6. CASE DeleteFails(h)
    BY <2>6, GiveUpStoreInv DEF DeleteFails
  <2>7. CASE NothingChanged(h)
    BY <2>7, GiveUpStoreInv DEF NothingChanged
  <2>8. CASE SavePolicyData(h)
    BY <2>8, SavePolicyDataStoreInv
  <2>9. CASE SaveRevision(h)
    BY <2>9, SaveRevisionStoreInv
  <2>10. CASE SaveDesiredState(h)
    BY <2>10, SaveDesiredStateStoreInv
  <2>11. CASE UpdateFails(h)
    BY <2>11, GiveUpStoreInv DEF UpdateFails
  <2> QED
    BY <1>3, <2>1, <2>2, <2>3, <2>4, <2>5, <2>6, <2>7, <2>8, <2>9, <2>10, <2>11 DEF Serve
<1>4. CASE Process
  BY <1>4, ProcessStoreInv
<1>5. CASE Crash
  BY <1>5, CrashStoreInv
<1>6. CASE UNCHANGED vars
  <2>1. UNCHANGED store /\ LatestGen' = LatestGen
    BY <1>6, StoreFrame DEF vars, store
  <2>2. TypeOK' /\ DataInv' /\ MutexInv' /\ BootInv'
    BY <1>6, <2>1
    DEF StoreInv, TypeOK, DataInv, MutexInv, BootInv, vars, store, critical, handlers, bounds
  <2>3. PolicyLoads' /\ EveryPolicyIsResolved'
    BY <2>1, StoreFrame DEF StoreInv
  <2>4. Resolved(LatestGen) => Resolved(LatestGen)'
    BY <2>1, StoreFrame
  <2>5. InProgress => InProgress'
    BY <1>6 DEF InProgress, vars, handlers
  <2>6. SavingInv' /\ BaseInv'
    BY <1>6, <2>1, <2>4, <2>5
    DEF StoreInv, SavingInv, HolderInv, BaseInv, vars, store, critical, handlers, Named
  <2> QED  BY <2>2, <2>3, <2>6 DEF StoreInv
<1> QED  BY <1>1, <1>2, <1>3, <1>4, <1>5, <1>6 DEF Next

-----------------------------------------------------------------------------

(* StoreInv holds in every reachable state.                                *)
THEOREM StoreInvariant == Spec => []StoreInv
<1>1. StoreInv /\ [Next]_vars => StoreInv'
  BY NextStoreInv
<1> QED  BY InitStoreInv, <1>1, PTL DEF Spec

(* The variables have their types, and every revision, every request that  *)
(* is being answered is for a generation of the policy that exists.        *)
THEOREM TypeCorrect == Spec => []TypeOK
<1>1. StoreInv => TypeOK
  BY DEF StoreInv
<1> QED  BY StoreInvariant, <1>1, PTL

(* Whatever handlers do at the same time, and wherever the server dies,    *)
(* every generation of the policy can be loaded.                           *)
THEOREM PoliciesLoad == Spec => []PolicyLoads
<1>1. StoreInv => PolicyLoads
  BY DEF StoreInv
<1> QED  BY StoreInvariant, <1>1, PTL

(* Every generation of the policy but the last has been resolved.          *)
THEOREM PoliciesResolved == Spec => []EveryPolicyIsResolved
<1>1. StoreInv => EveryPolicyIsResolved
  BY DEF StoreInv
<1> QED  BY StoreInvariant, <1>1, PTL

-----------------------------------------------------------------------------
(* History: generations of objects, of the policy and of revisions are only *)
(* ever added, but for the desired state of the last revision.              *)

LEMMA ObjectHistory ==
  ASSUME StoreInv, Next
  PROVE  \A o \in Obj : \A i \in DOMAIN gens[o] :
           i \in DOMAIN gens'[o] /\ gens'[o][i] = gens[o][i]
<1>1. CASE gens' = gens
  BY <1>1
<1>2. ASSUME NEW h \in Handler, SaveObject(h) \/ DeleteObject(h), gens' # gens
      PROVE  \E o \in Obj, c \in Content \cup {Deleted} : gens' = [gens EXCEPT ![o] = Append(@, c)]
  <2>1. left \in Seq(Change) /\ left # <<>>
    BY <1>2 DEF StoreInv, TypeOK, SaveObject, DeleteObject
  <2>2. Head(left) \in Change
    BY <2>1, HeadTailProperties
  <2>3. Head(left).obj \in Obj /\ Head(left).content \in Content
    BY <2>2 DEF Change
  <2> QED  BY <1>2, <2>3 DEF SaveObject, DeleteObject
<1>3. ASSUME gens' # gens
      PROVE  \E h \in Handler : SaveObject(h) \/ DeleteObject(h)
  BY <1>3
  DEF Next, Boot, Serve, CheckPolicy, InitRevision, InitDesiredState, Receive, Resolve, Reject, Lock,
      UpdateFails, DeleteFails, NothingChanged, SavePolicyData, SaveRevision, SaveDesiredState, Process, Crash, store
<1>4. CASE gens' # gens
  <2>1. PICK o \in Obj, c \in Content \cup {Deleted} : gens' = [gens EXCEPT ![o] = Append(@, c)]
    BY <1>2, <1>3, <1>4
  <2> QED  BY <2>1, GenerationAdded DEF StoreInv
<1> QED  BY <1>1, <1>4

LEMMA PolicyDataHistory ==
  ASSUME StoreInv, Next
  PROVE  \A g \in DOMAIN policyData : g \in DOMAIN policyData' /\ policyData'[g] = policyData[g]
<1>1. policyData \in Seq([Obj -> Nat]) /\ data \in [Obj -> Nat] /\ EmptyData \in [Obj -> Nat]
  BY DEF StoreInv, TypeOK, EmptyData
<1>2. \/ policyData' = policyData
      \/ policyData = <<>>
      \/ policyData' = Append(policyData, data)
  BY DEF Next, Boot, Serve, CheckPolicy, InitRevision, InitDesiredState, Receive, Resolve, Reject, Lock,
         SaveObject, DeleteObject, UpdateFails, DeleteFails, NothingChanged, SavePolicyData, SaveRevision,
         SaveDesiredState, Process, Crash, store
<1>3. CASE policyData = <<>>
  BY <1>3
<1>4. CASE policyData' = Append(policyData, data)
  <2>1. /\ DOMAIN policyData = 1..Len(policyData) /\ Len(policyData) \in Nat
        /\ policyData' \in Seq([Obj -> Nat])
        /\ Len(policyData') = Len(policyData) + 1
        /\ \A g \in 1..Len(policyData) : policyData'[g] = policyData[g]
    BY <1>1, <1>4, AppendProperties, LenProperties
  <2>2. DOMAIN policyData' = 1..(Len(policyData) + 1)
    BY <2>1, LenProperties
  <2> QED  BY <2>1, <2>2
<1> QED  BY <1>2, <1>3, <1>4

LEMMA RevisionHistory ==
  ASSUME StoreInv, Next
  PROVE  \A i \in DOMAIN revisions :
           /\ i \in DOMAIN revisions'
           /\ revisions'[i].policyGen = revisions[i].policyGen
           /\ revisions[i].desired # NoState => revisions'[i] = revisions[i]
<1> DEFINE Kept ==
      \A i \in DOMAIN revisions :
        /\ i \in DOMAIN revisions'
        /\ revisions'[i].policyGen = revisions[i].policyGen
        /\ revisions[i].desired # NoState => revisions'[i] = revisions[i]
<1>1. ASSUME NEW g \in 1..LatestGen, AddRevision(g), UNCHANGED policyData
      PROVE  Kept
  BY <1>1, RevisionAdded DEF StoreInv
<1>2. ASSUME NEW s \in Policy, AddDesiredState(s), UNCHANGED policyData,
             revisions # <<>>, revisions[Len(revisions)].desired = NoState
      PROVE  Kept
  <2>1. /\ revisions' \in Seq(Revision)
        /\ Len(revisions') = Len(revisions)
        /\ \A i \in DOMAIN revisions : revisions'[i].policyGen = revisions[i].policyGen
        /\ \A i \in DOMAIN revisions : revisions[i].desired # NoState => revisions'[i] = revisions[i]
    BY <1>2, DesiredStateAdded DEF StoreInv
  <2>2. DOMAIN revisions' = DOMAIN revisions
    BY <2>1, LenProperties DEF StoreInv, TypeOK
  <2> QED  BY <2>1, <2>2
<1>3. CASE InitRevision
  <2>1. 1 \in 1..LatestGen
    BY <1>3 DEF StoreInv, BootInv, InitRevision
  <2> QED  BY <1>1, <1>3, <2>1 DEF InitRevision
<1>4. CASE InitDesiredState
  <2>1. EmptyPolicy \in Policy
    BY DEF EmptyPolicy, Policy
  <2> QED  BY <1>2, <1>4, <2>1 DEF StoreInv, BootInv, InitDesiredState
<1>5. ASSUME NEW h \in Handler, SaveRevision(h)
      PROVE  Kept
  <2> DEFINE g == IF request[h].kind = "enforce" THEN readGen[h] ELSE LatestGen
  <2>1. LatestGen \in Nat /\ LatestGen > 0 /\ readGen[h] > 0 /\ readGen[h] \in 0..LatestGen
    BY <1>5, LenProperties DEF StoreInv, TypeOK, BootInv, SaveRevision, LatestGen
  <2>2. g \in 1..LatestGen
    BY <2>1
  <2>3. AddRevision(g) /\ UNCHANGED policyData
    BY <1>5 DEF SaveRevision
  <2> HIDE DEF g, Kept
  <2> QED  BY <1>1, <2>2, <2>3
<1>6. ASSUME NEW h \in Handler, SaveDesiredState(h)
      PROVE  Kept
  BY <1>2, <1>6 DEF StoreInv, TypeOK, SavingInv, HolderInv, SaveDesiredState
<1>7. CASE revisions' = revisions
  BY <1>7
<1>8. \/ InitRevision \/ InitDesiredState
      \/ \E h \in Handler : SaveRevision(h) \/ SaveDesiredState(h)
      \/ revisions' = revisions
  BY DEF Next, Boot, Serve, CheckPolicy, Receive, Resolve, Reject, Lock, SaveObject, DeleteObject,
         UpdateFails, DeleteFails, NothingChanged, SavePolicyData, Process, Crash, store
<1> QED  BY <1>3, <1>4, <1>5, <1>6, <1>7, <1>8

LEMMA PolicyFixed ==
  ASSUME StoreInv, Next, NEW g \in DOMAIN policyData
  PROVE  g \in DOMAIN policyData' /\ PolicyOf(policyData[g])' = PolicyOf(policyData[g])
<1>1. g \in DOMAIN policyData' /\ policyData'[g] = policyData[g]
  BY PolicyDataHistory
<1>2. ASSUME NEW o \in Obj, policyData[g][o] # 0
      PROVE  gens'[o][policyData[g][o]] = gens[o][policyData[g][o]]
  BY <1>2, ObjectHistory DEF StoreInv, PolicyLoads
<1> QED  BY <1>1, <1>2 DEF PolicyOf

(* What a generation of the policy says, and what was enforced for a       *)
(* revision, never changes: the enforcer may load them at any time, again. *)
THEOREM HistoryFixed == Spec => PolicyHistoryFixed
<1> DEFINE Fixed ==
      /\ \A g \in DOMAIN policyData :
           g \in DOMAIN policyData' /\ PolicyOf(policyData[g])' = PolicyOf(policyData[g])
      /\ \A i \in DOMAIN revisions :
           /\ i \in DOMAIN revisions'
           /\ revisions'[i].policyGen = revisions[i].policyGen
           /\ revisions[i].desired # NoState => revisions'[i] = revisions[i]
<1>1. StoreInv /\ [Next]_vars => [Fixed]_vars
  <2> SUFFICES ASSUME StoreInv, Next
               PROVE  Fixed
    OBVIOUS
  <2> QED  BY PolicyFixed, RevisionHistory
<1> QED  BY <1>1, StoreInvariant, PTL DEF PolicyHistoryFixed, Spec

-----------------------------------------------------------------------------
(* The API stays usable until the server dies for the first time.          *)

(* The last revision of the latest policy has a desired state, or somebody *)
(* who has the mutex is about to see to that.                              *)
BeingResolved ==
  \E h \in Handler :
    \/ pc[h] = "revision" /\ request[h].kind # "enforce"
    \/ pc[h] = "desired" /\ revisions[Len(revisions)].policyGen = LatestGen

UsableInv ==
  crashes = 0 =>
    /\ boot = "check" => policyData = <<>>
    /\ boot = "up" => HasDesiredState(LatestGen) \/ BeingResolved

LEMMA UsableFrame ==
  ASSUME UsableInv, UNCHANGED <<policyData, revisions, boot, request, crashes>>,
         \A h \in Handler : pc[h] \in {"revision", "desired"} => pc'[h] = pc[h]
  PROVE  UsableInv'
<1>1. BeingResolved => BeingResolved'
  BY DEF BeingResolved, LatestGen
<1>2. HasDesiredState(LatestGen) => HasDesiredState(LatestGen)'
  BY DEF HasDesiredState, RevisionsFor, LatestGen
<1> QED  BY <1>1, <1>2 DEF UsableInv

(* Who is at these steps has the mutex, and nobody else is.                *)
LEMMA OnlyHolder ==
  ASSUME StoreInv, NEW h \in Handler, pc[h] \in CriticalSteps,
         NEW k \in Handler, pc[k] \in CriticalSteps
  PROVE  k = h
BY DEF StoreInv, MutexInv

LEMMA LockUsable ==
  ASSUME StoreInv, UsableInv, NEW h \in Handler, Lock(h)
  PROVE  UsableInv'
<1>1. /\ mutex = NoHandler /\ pc' = [pc EXCEPT ![h] = IF request[h].kind = "enforce"
                                                     THEN "revision" ELSE "saving"]
      /\ UNCHANGED <<policyData, revisions, boot, request, crashes>>
  BY DEF Lock, store, bounds
<1>2. \A k \in Handler : pc[k] \notin {"revision", "desired"}
  BY <1>1, StoreAssumption DEF StoreInv, MutexInv, CriticalSteps
<1> QED  BY <1>1, <1>2, UsableFrame

LEMMA SavePolicyDataUsable ==
  ASSUME StoreInv, UsableInv, NEW h \in Handler, SavePolicyData(h)
  PROVE  UsableInv'
<1>1. /\ pc[h] = "saving" /\ pc' = [pc EXCEPT ![h] = "revision"]
      /\ UNCHANGED <<boot, request, crashes>>
  BY DEF SavePolicyData, bounds
<1>2. boot = "up"
  BY <1>1 DEF StoreInv, BootInv
<1>3. request[h].kind # "enforce"
  BY <1>1 DEF StoreInv, SavingInv, HolderInv
<1>4. pc'[h] = "revision"
  BY <1>1 DEF StoreInv, TypeOK
<1>5. BeingResolved'
  BY <1>1, <1>3, <1>4 DEF BeingResolved
<1> QED  BY <1>1, <1>2, <1>5 DEF UsableInv

LEMMA SaveRevisionUsable ==
  ASSUME StoreInv, UsableInv, NEW h \in Handler, SaveRevision(h)
  PROVE  UsableInv'
<1> DEFINE g == IF request[h].kind = "enforce" THEN readGen[h] ELSE LatestGen
           r == [policyGen |-> g, desired |-> NoState]
<1>1. /\ pc[h] = "revision" /\ pc' = [pc EXCEPT ![h] = "desired"]
      /\ revisions' = Append(revisions, r)
      /\ UNCHANGED <<policyData, boot, request, crashes>>
  BY DEF SaveRevision, AddRevision, bounds
<1>2. boot = "up"
  BY <1>1 DEF StoreInv, BootInv
<1>3. pc'[h] = "desired" /\ revisions \in Seq(Revision) /\ LatestGen' = LatestGen
  BY <1>1 DEF StoreInv, TypeOK, LatestGen
<1>4. r.policyGen = g /\ r \in Revision
  <2>1. readGen[h] \in Nat \ {0} /\ LatestGen \in Nat \ {0}
    <3>1. LatestGen \in Nat
      BY LenProperties DEF StoreInv, TypeOK, LatestGen
    <3>2. readGen[h] \in 0..LatestGen /\ readGen[h] > 0 /\ LatestGen > 0
      BY <1>1, <1>2 DEF StoreInv, TypeOK, BootInv
    <3> QED  BY <3>1, <3>2
  <2> QED  BY <2>1 DEF Revision
<1> HIDE DEF r
<1>5. /\ Len(revisions) \in Nat /\ Len(revisions') = Len(revisions) + 1
      /\ revisions'[Len(revisions')] = r /\ revisions'[Len(revisions) + 1] = r
      /\ DOMAIN revisions = 1..Len(revisions) /\ DOMAIN revisions' = 1..(Len(revisions) + 1)
      /\ \A i \in 1..Len(revisions) : revisions'[i] = revisions[i]
  <2>1. revisions' \in Seq(Revision)
    BY <1>1, <1>3, <1>4, AppendProperties
  <2> QED  BY <1>1, <1>3, <1>4, <2>1, AppendProperties, LenProperties
<1>6. CASE g = LatestGen
  <2>1. BeingResolved'
    BY <1>3, <1>4, <1>5, <1>6 DEF BeingResolved
  <2> QED  BY <1>1, <1>2, <2>1 DEF UsableInv
<1>7. CASE g # LatestGen
  <2> SUFFICES ASSUME crashes = 0 PROVE HasDesiredState(LatestGen)'
    BY <1>1, <1>2 DEF UsableInv
  <2>1. request[h].kind = "enforce"
    BY <1>7
  <2>2. ~BeingResolved
    <3>1. ASSUME NEW k \in Handler, pc[k] \in {"revision", "desired"} PROVE k = h
      BY <1>1, <3>1, OnlyHolder DEF CriticalSteps
    <3> QED  BY <1>1, <2>1, <3>1 DEF BeingResolved
  <2>3. HasDesiredState(LatestGen)
    BY <1>2, <2>2 DEF UsableInv
  <2>4. RevisionsFor(LatestGen)' = RevisionsFor(LatestGen)
    BY <1>3, <1>4, <1>5, <1>7 DEF RevisionsFor
  <2>5. \A i \in RevisionsFor(LatestGen) : revisions'[i] = revisions[i]
    BY <1>5 DEF RevisionsFor
  <2> QED  BY <1>3, <2>3, <2>4, <2>5 DEF HasDesiredState
<1> QED  BY <1>6, <1>7

(* The desired state is added to the last of all revisions.                *)
LEMMA DesiredStateSettles ==
  ASSUME StoreInv, NEW s \in Policy, AddDesiredState(s), UNCHANGED policyData,
         revisions # <<>>, NEW g
  PROVE  /\ g = revisions[Len(revisions)].policyGen => HasDesiredState(g)'
         /\ g # revisions[Len(revisions)].policyGen /\ HasDesiredState(g)
              => HasDesiredState(g)'
<1> DEFINE n == Len(revisions)
<1>1. revisions \in Seq(Revision) /\ n \in Nat \ {0} /\ DOMAIN revisions = 1..n
  BY EmptySeq, LenProperties DEF StoreInv, TypeOK
<1>2. revisions' = [revisions EXCEPT ![n] = [revisions[n] EXCEPT !.desired = s]]
  BY <1>1 DEF AddDesiredState
<1>3. revisions[n] \in Revision
  BY <1>1, ElementOfSeq
<1>4. /\ DOMAIN revisions' = 1..n /\ revisions'[n].desired = s
      /\ revisions'[n].policyGen = revisions[n].policyGen
      /\ \A i \in 1..n : i # n => revisions'[i] = revisions[i]
  BY <1>1, <1>2, <1>3 DEF Revision
<1>5. s # NoState
  BY StoreAssumption
<1>6. RevisionsFor(g)' = RevisionsFor(g) /\ RevisionsFor(g) \subseteq 1..n
  BY <1>1, <1>4 DEF RevisionsFor
<1>7. ASSUME g = revisions[n].policyGen PROVE HasDesiredState(g)'
  <2>1. n \in RevisionsFor(g) /\ \A j \in 1..n : j <= n
    BY <1>1, <1>7 DEF RevisionsFor
  <2>2. n \in RevisionsFor(g)' /\ \A j \in RevisionsFor(g)' : j <= n
    BY <1>6, <2>1
  <2> QED  BY <1>4, <1>5, <2>2 DEF HasDesiredState
<1>8. ASSUME g # revisions[n].policyGen, HasDesiredState(g) PROVE HasDesiredState(g)'
  <2>1. n \notin RevisionsFor(g)
    BY <1>8 DEF RevisionsFor
  <2> QED  BY <1>4, <1>6, <1>8, <2>1 DEF HasDesiredState
<1> QED  BY <1>7, <1>8

LEMMA SaveDesiredStateUsable ==
  ASSUME StoreInv, UsableInv, NEW h \in Handler, SaveDesiredState(h)
  PROVE  UsableInv'
<1>1. /\ pc[h] = "desired" /\ AddDesiredState(desired[h])
      /\ UNCHANGED <<policyData, boot, request, crashes>>
  BY DEF SaveDesiredState, bounds
<1>2. boot = "up" /\ desired[h] \in Policy /\ revisions # <<>> /\ LatestGen' = LatestGen
  BY <1>1 DEF StoreInv, BootInv, TypeOK, SavingInv, HolderInv, LatestGen
<1> SUFFICES ASSUME crashes = 0 PROVE HasDesiredState(LatestGen)'
  BY <1>1, <1>2 DEF UsableInv
<1>3. PICK g : g = LatestGen
  OBVIOUS
<1>4. CASE revisions[Len(revisions)].policyGen = g
  <2>1. HasDesiredState(g)'
    BY <1>1, <1>2, <1>4, DesiredStateSettles
  <2> QED  BY <1>2, <1>3, <2>1 DEF HasDesiredState, RevisionsFor
<1>5. CASE revisions[Len(revisions)].policyGen # g
  <2>1. ~BeingResolved
    <3>1. ASSUME NEW k \in Handler, pc[k] \in {"revision", "desired"} PROVE k = h
      BY <1>1, <3>1, OnlyHolder DEF CriticalSteps
    <3> QED  BY <1>1, <1>3, <1>5, <3>1 DEF BeingResolved
  <2>2. HasDesiredState(g)
    BY <1>2, <1>3, <2>1 DEF UsableInv
  <2>3. HasDesiredState(g)'
    BY <1>1, <1>2, <1>5, <2>2, DesiredStateSettles
  <2> QED  BY <1>2, <1>3, <2>3 DEF HasDesiredState, RevisionsFor
<1> QED  BY <1>4, <1>5

LEMMA BootUsable ==
  ASSUME StoreInv, UsableInv, Boot
  PROVE  UsableInv'
<1>1. UNCHANGED crashes
  BY DEF Boot, CheckPolicy, InitRevision, InitDesiredState, bounds
<1>2. CASE CheckPolicy
  <2>1. crashes = 0 => boot' = "revision"
    BY <1>2 DEF CheckPolicy, UsableInv
  <2> QED  BY <1>1, <2>1 DEF UsableInv
<1>3. CASE InitRevision
  BY <1>1, <1>3 DEF InitRevision, UsableInv
<1>4. CASE InitDesiredState
  <2>1. /\ AddDesiredState(EmptyPolicy) /\ boot' = "up" /\ UNCHANGED policyData
        /\ LatestGen = 1 /\ LatestGen' = LatestGen /\ revisions # <<>>
    BY <1>4 DEF InitDesiredState, StoreInv, BootInv, LatestGen
  <2>2. EmptyPolicy \in Policy
    BY DEF EmptyPolicy, Policy
  <2>3. revisions[Len(revisions)].policyGen = 1
    <3>1. Len(revisions) \in DOMAIN revisions
      BY <2>1, EmptySeq, LenProperties DEF StoreInv, TypeOK
    <3> QED  BY <2>1, <3>1 DEF StoreInv, TypeOK
  <2>4. HasDesiredState(1)'
    BY <2>1, <2>2, <2>3, DesiredStateSettles
  <2>5. HasDesiredState(LatestGen)'
    BY <2>1, <2>4 DEF HasDesiredState, RevisionsFor
  <2> QED  BY <2>1, <2>5 DEF UsableInv
<1> QED  BY <1>2, <1>3, <1>4 DEF Boot

(* Every other step leaves the revisions and the policy alone, and nobody  *)
(* gives up what has been begun.                                           *)
LEMMA OtherUsable ==
  ASSUME StoreInv, UsableInv,
         \/ Process
         \/ \E h \in Handler :
              \/ \E r \in Requests : Receive(h, r)
              \/ Resolve(h) \/ Reject(h) \/ SaveObject(h) \/ DeleteObject(h)
              \/ UpdateFails(h) \/ DeleteFails(h) \/ NothingChanged(h)
  PROVE  UsableInv'
<1>0. pc \in [Handler -> {"idle", "reading", "changing", "saving", "revision", "desired"}]
  BY DEF StoreInv, TypeOK
<1>1. CASE Process
  BY <1>1, UsableFrame DEF Process, store, handlers, bounds
<1>2. ASSUME NEW h \in Handler, NEW r \in Requests, Receive(h, r) PROVE UsableInv'
  <2>1. /\ UNCHANGED <<policyData, revisions, boot, crashes>> /\ pc[h] = "idle"
        /\ pc' = [pc EXCEPT ![h] = "reading"] /\ request' = [request EXCEPT ![h] = r]
        /\ LatestGen' = LatestGen
    BY <1>2 DEF Receive, store, LatestGen
  <2>2. BeingResolved => BeingResolved'
    <3> SUFFICES ASSUME NEW k \in Handler,
                        \/ pc[k] = "revision" /\ request[k].kind # "enforce"
                        \/ pc[k] = "desired" /\ revisions[Len(revisions)].policyGen = LatestGen
                 PROVE  BeingResolved'
      BY DEF BeingResolved
    <3>1. k # h /\ pc'[k] = pc[k] /\ request'[k] = request[k]
      BY <1>0, <2>1 DEF StoreInv, TypeOK
    <3> QED  BY <2>1, <3>1 DEF BeingResolved
  <2>3. HasDesiredState(LatestGen) => HasDesiredState(LatestGen)'
    BY <2>1 DEF HasDesiredState, RevisionsFor
  <2> QED  BY <2>1, <2>2, <2>3 DEF UsableInv
<1>3. ASSUME NEW h \in Handler, Resolve(h) \/ Reject(h) PROVE UsableInv'
  BY <1>0, <1>3, UsableFrame DEF Resolve, Reject, store, bounds
<1>4. ASSUME NEW h \in Handler, SaveObject(h) \/ DeleteObject(h) PROVE UsableInv'
  BY <1>4, UsableFrame DEF SaveObject, DeleteObject, handlers, bounds
<1>5. ASSUME NEW h \in Handler, UpdateFails(h) \/ DeleteFails(h) \/ NothingChanged(h) PROVE UsableInv'
  BY <1>0, <1>5, UsableFrame DEF UpdateFails, DeleteFails, NothingChanged, Unlock, store, bounds
<1> QED  BY <1>1, <1>2, <1>3, <1>4, <1>5

(* Until the server dies, whoever has read the latest policy can change    *)
(* it, unless another handler is just doing so: the diff it has to report  *)
(* finds the desired state of the last revision (api/policy.go:148).       *)
THEOREM ChangesAreAccepted == Spec => []AcceptsChanges
<1>1. Init => UsableInv
  BY DEF Init, UsableInv
<1>2. StoreInv /\ UsableInv /\ [Next]_vars => UsableInv'
  <2> SUFFICES ASSUME StoreInv, UsableInv, [Next]_vars PROVE UsableInv'
    OBVIOUS
  <2>1. CASE Crash
    <3>1. crashes \in Nat /\ crashes' = crashes + 1
      BY <2>1 DEF Crash, StoreInv, TypeOK
    <3> QED  BY <3>1 DEF UsableInv
  <2>2. CASE UNCHANGED vars
    BY <2>2, UsableFrame DEF vars, store, handlers, bounds
  <2>3. CASE Boot
    BY <2>3, BootUsable
  <2>4. CASE Process \/ \E h \in Handler : Serve(h) \/ \E r \in Requests : Receive(h, r)
    BY <2>4, OtherUsable, LockUsable, SavePolicyDataUsable, SaveRevisionUsable,
       SaveDesiredStateUsable DEF Serve
  <2> QED  BY <2>1, <2>2, <2>3, <2>4 DEF Next
<1>3. StoreInv /\ UsableInv => AcceptsChanges
  BY StoreAssumption DEF StoreInv, MutexInv, CriticalSteps, UsableInv, BeingResolved, AcceptsChanges
<1> QED  BY <1>1, <1>2, <1>3, StoreInvariant, PTL DEF Spec

-----------------------------------------------------------------------------
(* That every request is answered (RequestsEnd) is a matter of fairness    *)
(* and left to TLC. What it rests on is proved here: nobody waits in a     *)
(* circle, and a request has a bounded number of steps left.               *)

(* The guards of Serve(h): only the mutex makes a handler wait.            *)
CanServe(h) ==
  \/ pc[h] \in {"reading", "revision", "desired"}
  \/ pc[h] = "changing" /\ mutex = NoHandler
  \/ pc[h] = "saving" /\ (left = <<>> \/ request[h].kind \in {"update", "delete"})

(* A handler with a request can go on, or the one that has the mutex can.  *)
SomebodyServes ==
  \A h \in Handler : pc[h] # "idle" =>
    \/ CanServe(h)
    \/ pc[h] = "changing" /\ mutex \in Handler /\ mutex # h /\ CanServe(mutex)

(* The steps h has left before its answer, at most.                        *)
StepsToAnswer(h) ==
  CASE pc[h] = "reading"  -> 5 + Len(request[h].changes)
    [] pc[h] = "changing" -> 4 + Len(request[h].changes)
    [] pc[h] = "saving"   -> 3 + Len(left)
    [] pc[h] = "revision" -> 2
    [] pc[h] = "desired"  -> 1
    [] OTHER              -> 0

StepsCounted == \A h \in Handler : StepsToAnswer(h) \in Nat

(* Nobody adds to them, and every step of the handler is one less.         *)
AnswersGetNearer ==
  /\ []StepsCounted
  /\ [][\A h \in Handler :
          /\ pc[h] # "idle" => StepsToAnswer(h)' <= StepsToAnswer(h)
          /\ Serve(h) => StepsToAnswer(h)' < StepsToAnswer(h)]_vars

LEMMA StepsAreCounted == StoreInv => StepsCounted
<1> SUFFICES ASSUME StoreInv, NEW h \in Handler PROVE StepsToAnswer(h) \in Nat
  BY DEF StepsCounted
<1>1. Len(request[h].changes) \in Nat /\ Len(left) \in Nat
  BY LenProperties DEF StoreInv, TypeOK, Request
<1>2. pc[h] \in {"idle", "reading", "changing", "saving", "revision", "desired"}
  BY DEF StoreInv, TypeOK
<1> QED  BY <1>1, <1>2 DEF StepsToAnswer

(* For whoever neither moves nor sees the objects left to the holder.      *)
LEMMA OthersWait ==
  ASSUME NEW k \in Handler, pc'[k] = pc[k], request'[k] = request[k],
         pc[k] = "saving" => left' = left
  PROVE  StepsToAnswer(k)' = StepsToAnswer(k)
BY DEF StepsToAnswer

LEMMA ServeComesNearer ==
  ASSUME StoreInv, NEW h \in Handler, Serve(h)
  PROVE  /\ StepsToAnswer(h)' < StepsToAnswer(h)
         /\ \A k \in Handler \ {h} : StepsToAnswer(k)' = StepsToAnswer(k)
<1> DEFINE n == Len(request[h].changes)
           m == Len(left)
<1>1. n \in Nat /\ m \in Nat
  BY LenProperties DEF StoreInv, TypeOK, Request
<1>2. pc \in [Handler -> {"idle", "reading", "changing", "saving", "revision", "desired"}]
  BY DEF StoreInv, TypeOK
<1>3. request' = request
  BY DEF Serve, Resolve, Reject, Lock, SaveObject, DeleteObject, UpdateFails, DeleteFails, NothingChanged,
         SavePolicyData, SaveRevision, SaveDesiredState, handlers
<1>4. \A k \in Handler \ {h} : pc'[k] = pc[k]
  BY <1>2 DEF Serve, Resolve, Reject, Lock, SaveObject, DeleteObject, UpdateFails, DeleteFails, NothingChanged,
         SavePolicyData, SaveRevision, SaveDesiredState, Unlock, handlers
<1>5. \A k \in Handler \ {h} : pc[k] = "saving" => left' = left
  <2> SUFFICES ASSUME NEW k \in Handler, k # h, pc[k] = "saving" PROVE left' = left
    OBVIOUS
  <2>1. mutex = k /\ mutex # NoHandler /\ ~(pc[h] \in CriticalSteps)
    BY StoreAssumption DEF StoreInv, MutexInv, CriticalSteps
  <2> QED
    BY <2>1 DEF Serve, Resolve, Reject, Lock, SaveObject, DeleteObject, UpdateFails, DeleteFails,
       NothingChanged, SavePolicyData, SaveRevision, SaveDesiredState, CriticalSteps, critical
<1>6. \A k \in Handler \ {h} : StepsToAnswer(k)' = StepsToAnswer(k)
  BY <1>3, <1>4, <1>5, OthersWait
<1>7. CASE Resolve(h)
  <2>1. pc[h] = "reading" /\ pc'[h] = "changing"
    BY <1>2, <1>7 DEF Resolve
  <2>2. StepsToAnswer(h) = 5 + n /\ StepsToAnswer(h)' = 4 + n
    BY <1>3, <2>1 DEF StepsToAnswer
  <2> QED  BY <1>1, <1>6, <2>2
<1>8. CASE Reject(h)
  <2>1. pc[h] = "reading" /\ pc'[h] = "idle"
    BY <1>2, <1>8 DEF Reject
  <2>2. StepsToAnswer(h) = 5 + n /\ StepsToAnswer(h)' = 0
    BY <2>1 DEF StepsToAnswer
  <2> QED  BY <1>1, <1>6, <2>2
<1>9. CASE Lock(h)
  <2>1. pc[h] = "changing" /\ pc'[h] \in {"saving", "revision"} /\ left' = request[h].changes
    BY <1>2, <1>9 DEF Lock
  <2>2. StepsToAnswer(h) = 4 + n /\ StepsToAnswer(h)' \in {3 + n, 2}
    BY <2>1 DEF StepsToAnswer
  <2> QED  BY <1>1, <1>6, <2>2
<1>10. CASE SaveObject(h) \/ DeleteObject(h)
  <2>1. pc[h] = "saving" /\ pc'[h] = "saving" /\ left # <<>> /\ left' = Tail(left)
    BY <1>10 DEF SaveObject, DeleteObject, handlers
  <2>2. Len(left') = m - 1
    BY <2>1, HeadTailProperties DEF StoreInv, TypeOK
  <2>3. StepsToAnswer(h) = 3 + m /\ StepsToAnswer(h)' = 3 + (m - 1)
    BY <2>1, <2>2 DEF StepsToAnswer
  <2> QED  BY <1>1, <1>6, <2>3
<1>11. CASE UpdateFails(h) \/ DeleteFails(h) \/ NothingChanged(h)
  <2>1. pc[h] = "saving" /\ pc'[h] = "idle"
    BY <1>2, <1>11 DEF UpdateFails, DeleteFails, NothingChanged, Unlock
  <2>2. StepsToAnswer(h) = 3 + m /\ StepsToAnswer(h)' = 0
    BY <2>1 DEF StepsToAnswer
  <2> QED  BY <1>1, <1>6, <2>2
<1>12. CASE SavePolicyData(h)
  <2>1. pc[h] = "saving" /\ pc'[h] = "revision"
    BY <1>2, <1>12 DEF SavePolicyData
  <2>2. StepsToAnswer(h) = 3 + m /\ StepsToAnswer(h)' = 2
    BY <2>1 DEF StepsToAnswer
  <2> QED  BY <1>1, <1>6, <2>2
<1>13. CASE SaveRevision(h)
  <2>1. pc[h] = "revision" /\ pc'[h] = "desired"
    BY <1>2, <1>13 DEF SaveRevision
  <2>2. StepsToAnswer(h) = 2 /\ StepsToAnswer(h)' = 1
    BY <2>1 DEF StepsToAnswer
  <2> QED  BY <1>6, <2>2
<1>14. CASE SaveDesiredState(h)
  <2>1. pc[h] = "desired" /\ pc'[h] = "idle"
    BY <1>2, <1>14 DEF SaveDesiredState, Unlock
  <2>2. StepsToAnswer(h) = 1 /\ StepsToAnswer(h)' = 0
    BY <2>1 DEF StepsToAnswer
  <2> QED  BY <1>6, <2>2
<1> QED
  BY <1>7, <1>8, <1>9, <1>10, <1>11, <1>12, <1>13, <1>14 DEF Serve

(* No request waits for ever for the mutex (core/policy.go:73,             *)
(* core/revision.go:14): the one who has it can always go on.              *)
THEOREM RequestsDoNotBlock == Spec => []SomebodyServes
<1>1. StoreInv => SomebodyServes
  <2> SUFFICES ASSUME StoreInv, NEW h \in Handler, pc[h] # "idle"
               PROVE  \/ CanServe(h)
                      \/ pc[h] = "changing" /\ mutex \in Handler /\ mutex # h /\ CanServe(mutex)
    BY DEF SomebodyServes
  <2>1. /\ pc \in [Handler -> {"idle", "reading", "changing", "saving", "revision", "desired"}]
        /\ mutex \in Handler \cup {NoHandler}
        /\ \A k \in Handler : request[k].kind \in {"update", "delete", "enforce"}
    BY DEF StoreInv, TypeOK, Request
  <2>2. \A k \in Handler : pc[k] \in CriticalSteps => CanServe(k)
    BY <2>1 DEF StoreInv, SavingInv, HolderInv, CanServe, CriticalSteps
  <2>3. \A k \in Handler : mutex = k => pc[k] \in CriticalSteps
    BY DEF StoreInv, MutexInv
  <2>4. pc[h] \in {"reading", "changing"} \/ pc[h] \in CriticalSteps
    BY <2>1 DEF CriticalSteps
  <2>5. CASE pc[h] = "changing" /\ mutex # NoHandler
    <3>1. mutex \in Handler /\ CanServe(mutex) /\ pc[mutex] \in CriticalSteps
      BY <2>1, <2>2, <2>3, <2>5
    <3> QED  BY <2>5, <3>1 DEF CriticalSteps
  <2> QED  BY <2>2, <2>4, <2>5 DEF CanServe
<1> QED  BY <1>1, StoreInvariant, PTL

(* A request is answered after a bounded number of steps of its own,       *)
(* whatever the other requests, the enforcer and a crash do in between.    *)
THEOREM AnswersAreFinite == Spec => AnswersGetNearer
<1> DEFINE Nearer == \A h \in Handler :
                       /\ pc[h] # "idle" => StepsToAnswer(h)' <= StepsToAnswer(h)
                       /\ Serve(h) => StepsToAnswer(h)' < StepsToAnswer(h)
<1>1. StoreInv => StepsCounted
  BY StepsAreCounted
<1>2. StoreInv /\ StoreInv' /\ [Next]_vars => Nearer
  <2> SUFFICES ASSUME StoreInv, StoreInv', [Next]_vars, NEW h \in Handler
               PROVE  /\ pc[h] # "idle" => StepsToAnswer(h)' <= StepsToAnswer(h)
                      /\ Serve(h) => StepsToAnswer(h)' < StepsToAnswer(h)
    OBVIOUS
  <2>1. StepsToAnswer(h) \in Nat
    BY StepsAreCounted DEF StepsCounted
  <2>2. StepsToAnswer(h)' \in Nat
    <3>1. StoreInv' => StepsCounted'
      BY StepsAreCounted, PTL
    <3> QED  BY <3>1 DEF StepsCounted
  <2>3. Serve(h) => StepsToAnswer(h)' < StepsToAnswer(h)
    BY ServeComesNearer
  <2>4. CASE StepsToAnswer(h)' = StepsToAnswer(h)
    BY <2>1, <2>3, <2>4
  <2>5. CASE UNCHANGED vars
    <3>1. StepsToAnswer(h)' = StepsToAnswer(h)
      BY <2>5 DEF vars, handlers, critical, StepsToAnswer
    <3> QED  BY <2>4, <3>1
  <2>6. CASE Boot \/ Process
    <3>1. UNCHANGED <<pc, request, left>>
      BY <2>6 DEF Boot, CheckPolicy, InitRevision, InitDesiredState, Process, handlers, critical
    <3>2. StepsToAnswer(h)' = StepsToAnswer(h)
      BY <3>1 DEF StepsToAnswer
    <3> QED  BY <2>4, <3>2
  <2>7. CASE Crash
    <3>1. pc'[h] = "idle"
      BY <2>7 DEF Crash
    <3>2. StepsToAnswer(h)' = 0
      BY <3>1 DEF StepsToAnswer
    <3> QED  BY <2>1, <2>3, <3>2
  <2>8. ASSUME NEW k \in Handler, NEW r \in Requests, Receive(k, r)
        PROVE  pc[h] # "idle" => StepsToAnswer(h)' <= StepsToAnswer(h)
    <3> HAVE pc[h] # "idle"
    <3>1. pc[k] = "idle" /\ pc' = [pc EXCEPT ![k] = "reading"]
          /\ request' = [request EXCEPT ![k] = r] /\ left' = left
      BY <2>8 DEF Receive, critical
    <3>2. pc'[h] = pc[h] /\ request'[h] = request[h]
      BY <3>1 DEF StoreInv, TypeOK
    <3>3. StepsToAnswer(h)' = StepsToAnswer(h)
      BY <3>1, <3>2, OthersWait
    <3> QED  BY <2>1, <3>3
  <2>9. ASSUME NEW k \in Handler, Serve(k)
        PROVE  StepsToAnswer(h)' <= StepsToAnswer(h)
    <3>1. CASE k = h
      <4>1. StepsToAnswer(h)' < StepsToAnswer(h)
        BY <2>9, <3>1, ServeComesNearer
      <4> QED  BY <2>1, <2>2, <4>1
    <3>2. CASE k # h
      <4>1. StepsToAnswer(h)' = StepsToAnswer(h)
        BY <2>9, <3>2, ServeComesNearer
      <4> QED  BY <2>1, <4>1
    <3> QED  BY <3>1, <3>2
  <2> QED  BY <2>3, <2>5, <2>6, <2>7, <2>8, <2>9 DEF Next
<1>3. []StepsCounted /\ [][Nearer]_vars => AnswersGetNearer
  BY PTL DEF AnswersGetNearer
<1> QED  BY <1>1, <1>2, <1>3, StoreInvariant, PTL DEF Spec

-----------------------------------------------------------------------------
(* The log of policies.                                                    *)

(* What a handler has done with the objects of its request so far, or will *)
(* have to do: an object that counts as unchanged is left as it was.       *)
Saved(r, i) ==
  LET o == r.changes[i].obj
  IN  \/ data[o] = policyData[LatestGen][o]
      \/ data[o] # 0 /\ gens[o][data[o]] = r.changes[i].content

Removed(r, i) ==
  \/ data[r.changes[i].obj] = 0
  \/ \E k \in DOMAIN left : left[k].obj = r.changes[i].obj

DoneInv(h) ==
  pc[h] = "saving" =>
    /\ \A k \in DOMAIN left : \E i \in DOMAIN request[h].changes : left[k] = request[h].changes[i]
    /\ \A i \in DOMAIN request[h].changes :
         IF request[h].kind = "update" THEN Saved(request[h], i) ELSE Removed(request[h], i)

(* The desired state is what the request makes of the policy that was read *)
(* before the mutex was taken, which may have been changed since.          *)
DesiredInv(h) ==
  pc[h] \in {"changing", "saving", "revision", "desired"} =>
    desired[h] = Updated(PolicyOf(policyData[readGen[h]]), request[h])

(* A change has made a newer policy than the one that was read; what is    *)
(* enforced is the policy that was read.                                   *)
BehindInv(h) ==
  /\ pc[h] \in {"revision", "desired"} /\ request[h].kind # "enforce" => readGen[h] < LatestGen
  /\ pc[h] = "desired" /\ request[h].kind = "enforce" =>
       revisions[Len(revisions)].policyGen = readGen[h]

HandlerInv(h) ==
  /\ pc[h] # "idle" => request[h] \in Requests
  /\ DoneInv(h) /\ DesiredInv(h) /\ BehindInv(h)

LogInv ==
  /\ policyData # <<>> => policyData[1] = EmptyData
  /\ \A h \in Handler : HandlerInv(h)

(* A handler that does not move, and whose policy data nobody touches.     *)
LEMMA HandlerFrame ==
  ASSUME StoreInv, Next, NEW j \in Handler, HandlerInv(j),
         pc'[j] = pc[j], request'[j] = request[j], readGen'[j] = readGen[j],
         desired'[j] = desired[j],
         pc[j] \in CriticalSteps => UNCHANGED <<policyData, data, left, revisions>>
  PROVE  HandlerInv(j)'
<1>1. DesiredInv(j)'
  <2> SUFFICES ASSUME pc[j] \in {"changing", "saving", "revision", "desired"}
               PROVE  DesiredInv(j)'
    BY DEF DesiredInv
  <2>1. readGen[j] \in DOMAIN policyData
    <3>1. readGen[j] \in 0..LatestGen /\ readGen[j] > 0
      BY DEF StoreInv, TypeOK, BootInv
    <3>2. DOMAIN policyData = 1..LatestGen /\ LatestGen \in Nat
      BY LenProperties DEF StoreInv, TypeOK, LatestGen
    <3> QED  BY <3>1, <3>2
  <2>2. PolicyOf(policyData[readGen[j]])' = PolicyOf(policyData[readGen[j]])
    <3>1. \A g \in DOMAIN policyData : PolicyOf(policyData[g])' = PolicyOf(policyData[g])
      BY PolicyFixed
    <3>2. PolicyOf(policyData[readGen[j]])' = [o \in Obj |->
            IF policyData'[readGen[j]][o] = 0 THEN Absent ELSE gens'[o][policyData'[readGen[j]][o]]]
      BY DEF PolicyOf
    <3>3. ASSUME NEW g \in DOMAIN policyData, g = readGen[j]
          PROVE  PolicyOf(policyData[readGen[j]])' = PolicyOf(policyData[readGen[j]])
      BY <3>1, <3>2, <3>3 DEF PolicyOf
    <3> QED  BY <2>1, <3>3
  <2>3. Updated(PolicyOf(policyData[readGen[j]]), request[j])'
          = Updated(PolicyOf(policyData[readGen[j]]), request[j])
    BY <2>2 DEF Updated
  <2> QED  BY <2>3 DEF HandlerInv, DesiredInv
<1>2. DoneInv(j)'
  <2> SUFFICES ASSUME pc[j] = "saving"
               PROVE  DoneInv(j)'
    BY DEF DoneInv
  <2>1. UNCHANGED <<policyData, data, left>> /\ LatestGen' = LatestGen
    BY DEF CriticalSteps, LatestGen
  <2>2. request[j] \in Request
    BY DEF StoreInv, TypeOK
  <2>3. ASSUME NEW i \in DOMAIN request[j].changes, Saved(request[j], i)
        PROVE  Saved(request[j], i)'
    <3> DEFINE o == request[j].changes[i].obj
    <3>1. o \in Obj
      <4>1. request[j].changes[i] \in Change
        BY <2>2, ElementOfSeq, LenProperties DEF Request
      <4> QED  BY <4>1 DEF Change
    <3>2. data[o] # 0 => gens'[o][data[o]] = gens[o][data[o]]
      BY <3>1, ObjectHistory DEF StoreInv, DataInv
    <3> QED  BY <2>1, <2>3, <3>2 DEF Saved
  <2>4. ASSUME NEW i \in DOMAIN request[j].changes, Removed(request[j], i)
        PROVE  Removed(request[j], i)'
    BY <2>1, <2>4 DEF Removed
  <2> QED  BY <2>1, <2>3, <2>4 DEF HandlerInv, DoneInv, Saved, Removed
<1>3. BehindInv(j)'
  BY DEF HandlerInv, BehindInv, CriticalSteps, LatestGen
<1> QED  BY <1>1, <1>2, <1>3 DEF HandlerInv

(* The object at the head of what is left, and what that makes of it.      *)
LEMMA HeadOfLeft ==
  ASSUME StoreInv, NEW h \in Handler, HandlerInv(h), pc[h] = "saving", left # <<>>
  PROVE  \E i \in DOMAIN request[h].changes :
           /\ Head(left) = request[h].changes[i]
           /\ \A j \in DOMAIN request[h].changes :
                request[h].changes[j].obj = Head(left).obj => j = i
<1>1. left \in Seq(Change) /\ Len(left) \in Nat \ {0} /\ DOMAIN left = 1..Len(left)
  BY EmptySeq, LenProperties DEF StoreInv, TypeOK
<1>2. 1 \in DOMAIN left /\ Head(left) = left[1]
  BY <1>1
<1>3. PICK i \in DOMAIN request[h].changes : left[1] = request[h].changes[i]
  BY <1>2 DEF HandlerInv, DoneInv
<1>4. request[h] \in Requests
  BY DEF HandlerInv
<1> QED  BY <1>2, <1>3, <1>4, RequestAssumption

LEMMA TailOfLeft ==
  ASSUME StoreInv, left # <<>>, left' = Tail(left)
  PROVE  /\ \A k \in DOMAIN left' : \E m \in DOMAIN left : left'[k] = left[m]
         /\ \A m \in DOMAIN left : left[m] = Head(left) \/ \E k \in DOMAIN left' : left'[k] = left[m]
<1>1. left \in Seq(Change) /\ Len(left) \in Nat \ {0} /\ DOMAIN left = 1..Len(left)
  BY EmptySeq, LenProperties DEF StoreInv, TypeOK
<1>2. /\ left' \in Seq(Change) /\ Len(left') = Len(left) - 1
      /\ \A k \in 1..Len(left') : left'[k] = left[k + 1]
      /\ Head(left) = left[1]
  BY <1>1, HeadTailProperties
<1>3. DOMAIN left' = 1..(Len(left) - 1)
  BY <1>1, <1>2, LenProperties
<1>4. \A k \in DOMAIN left' : k + 1 \in DOMAIN left /\ left'[k] = left[k + 1]
  BY <1>1, <1>2, <1>3
<1>5. ASSUME NEW m \in DOMAIN left, m # 1
      PROVE  \E k \in DOMAIN left' : left'[k] = left[m]
  <2>1. m - 1 \in DOMAIN left' /\ (m - 1) + 1 = m
    BY <1>1, <1>3, <1>5
  <2> QED  BY <1>4, <2>1
<1> QED  BY <1>2, <1>4, <1>5

LEMMA ObjectStepDone ==
  ASSUME StoreInv, Next, NEW h \in Handler, HandlerInv(h), SaveObject(h) \/ DeleteObject(h)
  PROVE  DoneInv(h)'
<1>1. /\ pc[h] = "saving" /\ left # <<>> /\ left' = Tail(left)
      /\ UNCHANGED <<policyData, revisions, handlers>>
  BY DEF SaveObject, DeleteObject
<1>2. LatestGen' = LatestGen /\ request' = request
  BY <1>1 DEF LatestGen, handlers
<1>3. /\ \A k \in DOMAIN left' : \E m \in DOMAIN left : left'[k] = left[m]
      /\ \A m \in DOMAIN left : left[m] = Head(left) \/ \E k \in DOMAIN left' : left'[k] = left[m]
  BY <1>1, TailOfLeft
<1>4. \A k \in DOMAIN left' : \E i \in DOMAIN request[h].changes : left'[k] = request[h].changes[i]
  BY <1>1, <1>3 DEF HandlerInv, DoneInv
<1>5. PICK n \in DOMAIN request[h].changes :
        /\ Head(left) = request[h].changes[n]
        /\ \A j \in DOMAIN request[h].changes :
             request[h].changes[j].obj = Head(left).obj => j = n
  BY <1>1, HeadOfLeft
<1>6. \A i \in DOMAIN request[h].changes : request[h].changes[i].obj \in Obj
  <2>1. TAKE i \in DOMAIN request[h].changes
  <2>2. request[h].changes \in Seq(Change)
    BY DEF StoreInv, TypeOK, Request
  <2>3. request[h].changes[i] \in Change
    BY <2>2, ElementOfSeq, LenProperties
  <2> QED  BY <2>3 DEF Change
<1> DEFINE o == Head(left).obj
           c == Head(left).content
<1>7. o \in Obj
  BY <1>5, <1>6
<1>8. CASE SaveObject(h)
  <2>1. request[h].kind = "update"
    BY <1>8 DEF SaveObject
  <2>2. \A p \in Obj : p # o => data'[p] = data[p]
    BY <1>8 DEF SaveObject, StoreInv, TypeOK
  <2>3. data'[o] = data[o] \/ (data'[o] # 0 /\ gens'[o][data'[o]] = c)
    <3>1. CASE LastContent(o) = c
      BY <1>8, <3>1 DEF SaveObject
    <3>2. CASE LastContent(o) # c
      <4>1. /\ gens' = [gens EXCEPT ![o] = Append(@, c)]
            /\ data' = [data EXCEPT ![o] = Len(gens[o]) + 1]
        BY <1>8, <3>2 DEF SaveObject
      <4>2. c \in Content
        <5>1. request[h].changes[n] \in Change
          BY ElementOfSeq, LenProperties DEF StoreInv, TypeOK, Request
        <5> QED  BY <1>5, <5>1 DEF Change
      <4>3. Len(gens[o]) + 1 \in Nat \ {0} /\ gens'[o][Len(gens[o]) + 1] = c
        BY <1>7, <4>1, <4>2, GenerationAdded DEF StoreInv
      <4>4. data'[o] = Len(gens[o]) + 1
        BY <1>7, <4>1 DEF StoreInv, TypeOK
      <4> QED  BY <4>3, <4>4
    <3> QED  BY <3>1, <3>2
  <2>4. \A p \in Obj : data[p] # 0 => gens'[p][data[p]] = gens[p][data[p]]
    BY ObjectHistory DEF StoreInv, DataInv
  <2>5. ASSUME NEW i \in DOMAIN request[h].changes PROVE Saved(request[h], i)'
    <3>1. Saved(request[h], i)
      BY <1>1, <2>1 DEF HandlerInv, DoneInv
    <3>2. CASE data'[request[h].changes[i].obj] = data[request[h].changes[i].obj]
      BY <1>1, <1>2, <1>6, <2>4, <3>1, <3>2 DEF Saved
    <3>3. CASE data'[request[h].changes[i].obj] # data[request[h].changes[i].obj]
      <4>1. request[h].changes[i].obj = o /\ i = n
        BY <1>5, <1>6, <2>2, <3>3
      <4>2. data'[o] # 0 /\ gens'[o][data'[o]] = request[h].changes[i].content
        BY <1>5, <2>3, <3>3, <4>1
      <4> QED  BY <1>2, <4>1, <4>2 DEF Saved
    <3> QED  BY <3>2, <3>3
  <2> QED  BY <1>2, <1>4, <2>1, <2>5 DEF DoneInv, Saved, Removed
<1>9. CASE DeleteObject(h)
  <2>1. request[h].kind # "update" /\ data' = [data EXCEPT ![o] = 0]
    BY <1>9 DEF DeleteObject
  <2>2. data'[o] = 0 /\ \A p \in Obj : p # o => data'[p] = data[p]
    BY <1>7, <2>1 DEF StoreInv, TypeOK
  <2>3. ASSUME NEW i \in DOMAIN request[h].changes PROVE Removed(request[h], i)'
    <3>1. Removed(request[h], i)
      BY <1>1, <2>1 DEF HandlerInv, DoneInv
    <3>2. CASE request[h].changes[i].obj = o
      BY <1>2, <2>2, <3>2 DEF Removed
    <3>3. CASE request[h].changes[i].obj # o /\ data[request[h].changes[i].obj] = 0
      BY <1>2, <1>6, <2>2, <3>3 DEF Removed
    <3>4. CASE /\ request[h].changes[i].obj # o
               /\ \E m \in DOMAIN left : left[m].obj = request[h].changes[i].obj
      <4>1. PICK m \in DOMAIN left : left[m].obj = request[h].changes[i].obj
        BY <3>4
      <4>2. PICK k \in DOMAIN left' : left'[k] = left[m]
        BY <1>3, <3>4, <4>1
      <4> QED  BY <1>2, <4>1, <4>2 DEF Removed
    <3> QED  BY <3>1, <3>2, <3>3, <3>4 DEF Removed
  <2> QED  BY <1>2, <1>4, <2>1, <2>3 DEF DoneInv, Saved, Removed
<1> QED  BY <1>8, <1>9

LEMMA ObjectStepLogged ==
  ASSUME StoreInv, Next, NEW h \in Handler, HandlerInv(h), SaveObject(h) \/ DeleteObject(h)
  PROVE  HandlerInv(h)'
<1>1. /\ pc[h] = "saving" /\ pc' = pc /\ request' = request /\ readGen' = readGen
      /\ desired' = desired /\ policyData' = policyData
  BY DEF SaveObject, DeleteObject, handlers
<1>2. DoneInv(h)'
  BY ObjectStepDone
<1>3. DesiredInv(h)'
  <2>1. readGen[h] \in DOMAIN policyData
    <3>1. readGen[h] \in 0..LatestGen /\ readGen[h] > 0
      BY <1>1 DEF StoreInv, TypeOK, BootInv
    <3>2. DOMAIN policyData = 1..LatestGen /\ LatestGen \in Nat
      BY LenProperties DEF StoreInv, TypeOK, LatestGen
    <3> QED  BY <3>1, <3>2
  <2>2. \A g \in DOMAIN policyData : PolicyOf(policyData[g])' = PolicyOf(policyData[g])
    BY PolicyFixed
  <2>3. PolicyOf(policyData[readGen[h]])' = PolicyOf(policyData[readGen[h]])
    BY <1>1, <2>1, <2>2 DEF PolicyOf
  <2>4. Updated(PolicyOf(policyData[readGen[h]]), request[h])'
          = Updated(PolicyOf(policyData[readGen[h]]), request[h])
    BY <1>1, <2>3 DEF Updated
  <2> QED  BY <1>1, <2>4 DEF HandlerInv, DesiredInv
<1>4. BehindInv(h)'
  BY <1>1 DEF BehindInv
<1> QED  BY <1>1, <1>2, <1>3, <1>4 DEF HandlerInv

LEMMA ServeLogged ==
  ASSUME StoreInv, Next, NEW h \in Handler, HandlerInv(h), Serve(h)
  PROVE  HandlerInv(h)'
<1>1. pc \in [Handler -> {"idle", "reading", "changing", "saving", "revision", "desired"}]
  BY DEF StoreInv, TypeOK
<1>2. CASE Reject(h) \/ UpdateFails(h) \/ DeleteFails(h) \/ NothingChanged(h) \/ SaveDesiredState(h)
  <2>1. pc'[h] = "idle"
    BY <1>1, <1>2 DEF Reject, UpdateFails, DeleteFails, NothingChanged, SaveDesiredState, Unlock
  <2> QED  BY <2>1 DEF HandlerInv, DoneInv, DesiredInv, BehindInv
<1>3. CASE SaveObject(h) \/ DeleteObject(h)
  BY <1>3, ObjectStepLogged
<1>4. CASE Resolve(h)
  <2>1. /\ pc[h] = "reading" /\ pc'[h] = "changing"
        /\ UNCHANGED <<gens, policyData, request, readGen>>
    BY <1>1, <1>4 DEF Resolve, store
  <2>2. desired'[h] = Updated(PolicyOf(policyData[readGen[h]]), request[h])
    BY <1>4 DEF Resolve, StoreInv, TypeOK
  <2>3. Updated(PolicyOf(policyData[readGen[h]]), request[h])'
          = Updated(PolicyOf(policyData[readGen[h]]), request[h])
    BY <2>1 DEF Updated, PolicyOf
  <2> QED  BY <2>1, <2>2, <2>3 DEF HandlerInv, DoneInv, DesiredInv, BehindInv
<1>5. CASE Lock(h)
  <2>1. /\ pc[h] = "changing"
        /\ pc'[h] = IF request[h].kind = "enforce" THEN "revision" ELSE "saving"
        /\ data' = policyData[LatestGen] /\ left' = request[h].changes
        /\ UNCHANGED <<gens, policyData, request, readGen, desired>>
    BY <1>1, <1>5 DEF Lock, store
  <2>2. Updated(PolicyOf(policyData[readGen[h]]), request[h])'
          = Updated(PolicyOf(policyData[readGen[h]]), request[h])
    BY <2>1 DEF Updated, PolicyOf
  <2>3. DesiredInv(h)'
    BY <2>1, <2>2 DEF HandlerInv, DesiredInv
  <2>4. DoneInv(h)'
    BY <2>1 DEF DoneInv, Saved, Removed, LatestGen
  <2>5. BehindInv(h)'
    BY <2>1 DEF BehindInv
  <2> QED  BY <2>1, <2>3, <2>4, <2>5 DEF HandlerInv
<1>6. CASE SavePolicyData(h) \/ SaveRevision(h)
  <2>1. /\ pc[h] \in {"saving", "revision"} /\ pc'[h] \in {"revision", "desired"}
        /\ UNCHANGED <<gens, request, readGen, desired>>
    BY <1>1, <1>6 DEF SavePolicyData, SaveRevision
  <2>2. /\ readGen[h] \in DOMAIN policyData /\ readGen[h] \in 1..LatestGen
        /\ LatestGen \in Nat /\ DOMAIN policyData = 1..LatestGen
    <3>1. readGen[h] \in 0..LatestGen /\ readGen[h] > 0
      BY <2>1 DEF StoreInv, TypeOK, BootInv
    <3>2. DOMAIN policyData = 1..LatestGen /\ LatestGen \in Nat
      BY LenProperties DEF StoreInv, TypeOK, LatestGen
    <3> QED  BY <3>1, <3>2
  <2>3. policyData'[readGen[h]] = policyData[readGen[h]]
    BY <2>2, PolicyDataHistory
  <2>4. Updated(PolicyOf(policyData[readGen[h]]), request[h])'
          = Updated(PolicyOf(policyData[readGen[h]]), request[h])
    BY <2>1, <2>3 DEF Updated, PolicyOf
  <2>5. DesiredInv(h)'
    BY <2>1, <2>4 DEF HandlerInv, DesiredInv
  <2>6. BehindInv(h)'
    <3>1. CASE SavePolicyData(h)
      <4>1. pc'[h] = "revision" /\ policyData' = Append(policyData, data)
        BY <1>1, <3>1 DEF SavePolicyData
      <4>2. LatestGen' = LatestGen + 1
        BY <4>1, AppendProperties DEF StoreInv, TypeOK, LatestGen
      <4> QED  BY <2>1, <2>2, <4>1, <4>2 DEF BehindInv
    <3>2. CASE SaveRevision(h)
      <4> DEFINE g == IF request[h].kind = "enforce" THEN readGen[h] ELSE LatestGen
      <4>1. pc[h] = "revision" /\ AddRevision(g) /\ policyData' = policyData
        BY <3>2 DEF SaveRevision
      <4>2. g \in 1..LatestGen
        BY <2>2
      <4> HIDE DEF g
      <4>3. revisions'[Len(revisions')] = [policyGen |-> g, desired |-> NoState]
        BY <4>1, <4>2, RevisionAdded DEF StoreInv
      <4>4. revisions'[Len(revisions')].policyGen = g /\ LatestGen' = LatestGen
        BY <4>1, <4>3 DEF LatestGen
      <4>5. request[h].kind = "enforce" => g = readGen[h]
        BY DEF g
      <4> QED  BY <2>1, <4>1, <4>4, <4>5 DEF HandlerInv, BehindInv
    <3> QED  BY <1>6, <3>1, <3>2
  <2> QED  BY <2>1, <2>5, <2>6 DEF HandlerInv, DoneInv
<1> QED  BY <1>2, <1>3, <1>4, <1>5, <1>6 DEF Serve

LEMMA OtherHandlers ==
  ASSUME StoreInv, Next, NEW h \in Handler, Serve(h) \/ \E r \in Requests : Receive(h, r),
         NEW j \in Handler, j # h, HandlerInv(j)
  PROVE  HandlerInv(j)'
<1>1. /\ pc'[j] = pc[j] /\ request'[j] = request[j] /\ readGen'[j] = readGen[j]
      /\ desired'[j] = desired[j]
  BY DEF Serve, Receive, Resolve, Reject, Lock, SaveObject, DeleteObject, UpdateFails, DeleteFails,
         NothingChanged, SavePolicyData, SaveRevision, SaveDesiredState, Unlock, handlers,
         StoreInv, TypeOK
<1>2. ASSUME pc[j] \in CriticalSteps
      PROVE  UNCHANGED <<policyData, data, left, revisions>>
  <2>1. mutex = j /\ mutex # NoHandler /\ ~(pc[h] \in CriticalSteps)
    BY <1>2, StoreAssumption DEF StoreInv, MutexInv
  <2> QED
    BY <2>1 DEF Serve, Receive, Resolve, Reject, Lock, SaveObject, DeleteObject, UpdateFails, DeleteFails,
       NothingChanged, SavePolicyData, SaveRevision, SaveDesiredState, CriticalSteps, critical, store
<1> QED  BY <1>1, <1>2, HandlerFrame

LEMMA FirstPolicyIsEmpty ==
  ASSUME StoreInv, Next, policyData # <<>> => policyData[1] = EmptyData
  PROVE  policyData' # <<>> => policyData'[1] = EmptyData
<1>1. CASE policyData = <<>>
  <2>1. \A h \in Handler : pc[h] = "idle"
    <3>1. LatestGen = 0
      BY <1>1 DEF LatestGen
    <3>2. \A h \in Handler : readGen[h] = 0
      BY <3>1 DEF StoreInv, TypeOK
    <3> QED  BY <3>2 DEF StoreInv, BootInv
  <2>2. policyData' \in {<<>>, <<EmptyData>>}
    BY <1>1, <2>1
    DEF Next, Boot, Serve, CheckPolicy, InitRevision, InitDesiredState, Receive, Resolve, Reject, Lock,
        SaveObject, DeleteObject, UpdateFails, DeleteFails, NothingChanged, SavePolicyData, SaveRevision,
        SaveDesiredState, Process, Crash, store
  <2> QED  BY <2>2
<1>2. CASE policyData # <<>>
  <2>1. 1 \in DOMAIN policyData
    BY <1>2, EmptySeq, LenProperties DEF StoreInv, TypeOK
  <2> QED  BY <1>2, <2>1, PolicyDataHistory
<1> QED  BY <1>1, <1>2

LEMMA NextLogInv == StoreInv /\ LogInv /\ [Next]_vars => LogInv'
<1> SUFFICES ASSUME StoreInv, LogInv, [Next]_vars PROVE LogInv'
  OBVIOUS
<1>1. CASE UNCHANGED vars
  <2>1. /\ UNCHANGED <<gens, policyData, revisions, data, left>>
        /\ UNCHANGED <<pc, request, readGen, desired>>
    BY <1>1 DEF vars, store, critical, handlers
  <2>2. ASSUME NEW j \in Handler PROVE HandlerInv(j)'
    <3>1. HandlerInv(j)
      BY DEF LogInv
    <3>2. DoneInv(j)'
      BY <2>1, <3>1 DEF HandlerInv, DoneInv, Saved, Removed, LatestGen
    <3>3. DesiredInv(j)'
      <4>1. Updated(PolicyOf(policyData[readGen[j]]), request[j])'
              = Updated(PolicyOf(policyData[readGen[j]]), request[j])
        BY <2>1 DEF Updated, PolicyOf
      <4> QED  BY <2>1, <3>1, <4>1 DEF HandlerInv, DesiredInv
    <3>4. BehindInv(j)'
      BY <2>1 DEF LogInv, HandlerInv, BehindInv, LatestGen
    <3> QED  BY <2>1, <3>2, <3>3, <3>4 DEF LogInv, HandlerInv
  <2> QED  BY <2>1, <2>2 DEF LogInv
<1>2. CASE Next
  <2>1. policyData' # <<>> => policyData'[1] = EmptyData
    BY <1>2, FirstPolicyIsEmpty DEF LogInv
  <2>2. ASSUME NEW j \in Handler PROVE HandlerInv(j)'
    <3>1. HandlerInv(j)
      BY DEF LogInv
    <3>2. CASE Boot \/ Crash
      <4>1. pc'[j] = "idle"
        BY <3>2 DEF Boot, CheckPolicy, InitRevision, InitDesiredState, Crash, handlers,
                    StoreInv, BootInv
      <4> QED  BY <4>1 DEF HandlerInv, DoneInv, DesiredInv, BehindInv
    <3>3. CASE Process
      BY <1>2, <3>1, <3>3, HandlerFrame DEF Process, store, critical, handlers
    <3>4. ASSUME NEW h \in Handler, Serve(h) \/ \E r \in Requests : Receive(h, r)
          PROVE  HandlerInv(j)'
      <4>1. CASE j # h
        BY <1>2, <3>1, <3>4, <4>1, OtherHandlers
      <4>2. CASE j = h /\ Serve(h)
        BY <1>2, <3>1, <4>2, ServeLogged
      <4>3. ASSUME j = h, NEW r \in Requests, Receive(h, r)
            PROVE  HandlerInv(j)'
        <5>1. pc'[j] = "reading" /\ request'[j] = r
          BY <4>3 DEF Receive, StoreInv, TypeOK
        <5> QED  BY <5>1 DEF HandlerInv, DoneInv, DesiredInv, BehindInv
      <4> QED  BY <3>4, <4>1, <4>2, <4>3
    <3> QED  BY <1>2, <3>2, <3>3, <3>4 DEF Next
  <2> QED  BY <2>1, <2>2 DEF LogInv
<1> QED  BY <1>1, <1>2

LEMMA InitLogInv == Init => LogInv
BY DEF Init, LogInv, HandlerInv, DoneInv, DesiredInv, BehindInv

(* The policies, as the log has them.                                      *)
InLog ==
  /\ Policies \in Seq(Policy) /\ Len(Policies) = LatestGen
  /\ \A g \in 1..LatestGen : Policies[g] = PolicyOf(policyData[g])
  /\ DOMAIN Policies = 1..LatestGen /\ LatestGen \in Nat

LEMMA PoliciesSeq == StoreInv => InLog
<1> SUFFICES ASSUME StoreInv PROVE InLog
  OBVIOUS
<1>1. DOMAIN policyData = 1..LatestGen /\ LatestGen \in Nat
  BY LenProperties DEF StoreInv, TypeOK, LatestGen
<1>2. \A g \in 1..LatestGen : PolicyOf(policyData[g]) \in Policy
  BY PolicyOfInPolicy DEF StoreInv
<1>3. Policies = [g \in 1..LatestGen |-> PolicyOf(policyData[g])]
  BY <1>1 DEF Policies
<1>4. Policies \in [1..LatestGen -> Policy]
  BY <1>2, <1>3
<1>5. Policies \in Seq(Policy)
  BY <1>1, <1>4, SeqDef
<1>6. DOMAIN Policies = 1..LatestGen
  BY <1>3
<1>7. Len(Policies) = LatestGen
  BY <1>1, <1>5, <1>6, LenProperties
<1> QED  BY <1>1, <1>3, <1>5, <1>6, <1>7 DEF InLog

(* The same in the next state, in which the old policies are still there.  *)
LEMMA PoliciesKept ==
  ASSUME StoreInv, StoreInv', Next
  PROVE  /\ Policies' \in Seq(Policy) /\ Len(Policies') = LatestGen'
         /\ \A g \in 1..LatestGen : g \in 1..LatestGen' /\ Policies'[g] = Policies[g]
         /\ \A g \in 1..LatestGen' : Policies'[g] = PolicyOf(policyData[g])'
         /\ policyData' = policyData => Policies' = Policies
<1>1. InLog
  BY PoliciesSeq
<1>2. StoreInv' => InLog'
  BY PoliciesSeq, PTL
<1>3. Policy' = Policy
  BY DEF Policy
<1>4. \A g \in 1..LatestGen' : Policies'[g] = PolicyOf(policyData[g])'
  BY <1>2 DEF InLog
<1>5. DOMAIN policyData = 1..LatestGen /\ DOMAIN policyData' = 1..LatestGen'
  <2>1. DOMAIN policyData = 1..LatestGen
    BY LenProperties DEF StoreInv, TypeOK, LatestGen
  <2>2. DOMAIN policyData' = 1..LatestGen'
    BY LenProperties DEF StoreInv, TypeOK, LatestGen
  <2> QED  BY <2>1, <2>2
<1>6. ASSUME NEW g \in 1..LatestGen
      PROVE  g \in 1..LatestGen' /\ Policies'[g] = Policies[g]
  <2>1. g \in 1..LatestGen' /\ PolicyOf(policyData[g])' = PolicyOf(policyData[g])
    BY <1>5, PolicyFixed
  <2> QED  BY <1>1, <1>4, <2>1 DEF InLog
<1>7. ASSUME policyData' = policyData PROVE Policies' = Policies
  <2>1. LatestGen' = LatestGen
    BY <1>7 DEF LatestGen
  <2>2. Policies \in Seq(Policy) /\ Policies' \in Seq(Policy) /\ Len(Policies) = Len(Policies')
    BY <1>1, <1>2, <1>3, <2>1 DEF InLog
  <2>3. \A g \in 1..Len(Policies) : Policies[g] = Policies'[g]
    BY <1>1, <1>6 DEF InLog
  <2> QED  BY <2>2, <2>3, SeqEqual
<1> QED  BY <1>2, <1>3, <1>4, <1>6, <1>7 DEF InLog

(* What a request makes of a policy, in the words of the log.              *)
LEMMA UpdatedIsResult ==
  ASSUME NEW p \in Policy, NEW r \in Requests
  PROVE  /\ Log!IsResult(Updated(p, r), p, r)
         /\ r.kind = "enforce" => Updated(p, r) = p
<1> DEFINE named(o) == {i \in DOMAIN r.changes : r.changes[i].obj = o}
<1>1. r \in Request
  BY StoreAssumption
<1>2. \A i \in DOMAIN r.changes : r.changes[i].obj \in Obj
  <2>1. TAKE i \in DOMAIN r.changes
  <2>2. r.changes[i] \in Change
    BY <1>1, ElementOfSeq, LenProperties DEF Request
  <2> QED  BY <2>2 DEF Change
<1>3. ASSUME NEW o \in Obj, named(o) = {} PROVE Updated(p, r)[o] = p[o]
  BY <1>3 DEF Updated
<1>4. ASSUME NEW i \in DOMAIN r.changes
      PROVE  Updated(p, r)[r.changes[i].obj] = Log!Asked(r, i)
  <2> DEFINE o == r.changes[i].obj
  <2>1. o \in Obj /\ i \in named(o)
    BY <1>2
  <2>2. (CHOOSE j \in named(o) : TRUE) \in named(o)
    BY <2>1
  <2>3. (CHOOSE j \in named(o) : TRUE) = i
    BY <2>2, RequestAssumption
  <2>4. Updated(p, r)[o] =
          IF r.kind = "update" THEN r.changes[CHOOSE j \in named(o) : TRUE].content ELSE Absent
    BY <2>1 DEF Updated
  <2> QED  BY <2>3, <2>4 DEF Log!Asked
<1>5. \A o \in Obj \ Log!Named(r) : named(o) = {}
  BY DEF Log!Named
<1>6. r.kind = "enforce" => Updated(p, r) = p
  <2> HAVE r.kind = "enforce"
  <2>1. DOMAIN r.changes = {}
    BY RequestAssumption
  <2>2. \A o \in Obj : Updated(p, r)[o] = p[o]
    BY <1>3, <2>1
  <2>3. Updated(p, r) = [o \in Obj |-> Updated(p, r)[o]] /\ p = [o \in Obj |-> p[o]]
    BY DEF Updated, Policy
  <2> QED  BY <2>2, <2>3
<1> QED  BY <1>3, <1>4, <1>5, <1>6 DEF Log!IsResult

(* A change of the policy that is saved follows the latest one, and comes  *)
(* from the request of the handler that has the mutex.                     *)
LEMMA SavePolicyDataLogged ==
  ASSUME StoreInv, StoreInv', LogInv, Next, NEW h \in Handler, SavePolicyData(h)
  PROVE  Log!Change(request[h])
<1>1. /\ pc[h] = "saving" /\ left = <<>> /\ policyData' = Append(policyData, data)
      /\ UNCHANGED <<gens, revisions, processed>>
  BY DEF SavePolicyData
<1>2. HandlerInv(h) /\ HolderInv(h) /\ request[h] \in Requests /\ request[h] \in Request
  BY <1>1 DEF LogInv, HandlerInv, StoreInv, TypeOK, SavingInv
<1>3. /\ Policies \in Seq(Policy) /\ Len(Policies) = LatestGen
      /\ \A g \in 1..LatestGen : Policies[g] = PolicyOf(policyData[g])
      /\ LatestGen \in Nat
  BY PoliciesSeq DEF InLog
<1>4. LatestGen \in 1..LatestGen
  <2>1. boot # "check"
    BY <1>1 DEF StoreInv, BootInv
  <2> QED  BY <1>3, <2>1 DEF StoreInv, BootInv
<1> DEFINE q == PolicyOf(data)
           p == Policies[LatestGen]
           r == request[h]
<1>5. LatestGen' = LatestGen + 1 /\ policyData'[LatestGen + 1] = data
  BY <1>1, AppendProperties DEF StoreInv, TypeOK, LatestGen
<1>6. q \in Policy /\ Policies' = Append(Policies, q)
  <2>1. /\ Policies' \in Seq(Policy) /\ Len(Policies') = LatestGen'
        /\ \A g \in 1..LatestGen : Policies'[g] = Policies[g]
        /\ \A g \in 1..LatestGen' : Policies'[g] = PolicyOf(policyData[g])'
    BY PoliciesKept
  <2>2. ASSUME NEW g \in {LatestGen'} PROVE PolicyOf(policyData[g])' = q
    BY <1>1, <1>5, <2>2 DEF PolicyOf
  <2>3. Policies'[LatestGen'] = q /\ q \in Policy
    <3>1. LatestGen' \in 1..LatestGen'
      BY <1>3, <1>5
    <3>2. Policies'[LatestGen'] = q
      BY <2>1, <2>2, <3>1
    <3> QED  BY <2>1, <3>1, <3>2, ElementOfSeq
  <2>4. /\ Append(Policies, q) \in Seq(Policy) /\ Len(Append(Policies, q)) = LatestGen + 1
        /\ \A g \in 1..LatestGen : Append(Policies, q)[g] = Policies[g]
        /\ Append(Policies, q)[LatestGen + 1] = q
    BY <1>3, <2>3, AppendProperties
  <2>5. \A g \in 1..Len(Policies') : Policies'[g] = Append(Policies, q)[g]
    BY <1>3, <1>5, <2>1, <2>3, <2>4
  <2> QED  BY <1>5, <2>1, <2>3, <2>4, <2>5, SeqEqual
<1>7. \A o \in Obj \ Log!Named(r) : q[o] = p[o]
  <2>1. TAKE o \in Obj \ Log!Named(r)
  <2>2. data[o] = policyData[LatestGen][o]
    BY <1>1, <1>2 DEF HolderInv, Named, Log!Named
  <2>3. p = PolicyOf(policyData[LatestGen])
    BY <1>3, <1>4
  <2> QED  BY <2>2, <2>3 DEF PolicyOf
<1>8. ASSUME NEW i \in DOMAIN r.changes
      PROVE  \/ q[r.changes[i].obj] = Log!Asked(r, i)
             \/ r.kind = "update" /\ q[r.changes[i].obj] = p[r.changes[i].obj]
  <2> DEFINE o == r.changes[i].obj
  <2>1. o \in Obj
    <3>1. r.changes[i] \in Change
      BY <1>2, ElementOfSeq, LenProperties DEF Request
    <3> QED  BY <3>1 DEF Change
  <2>2. p = PolicyOf(policyData[LatestGen])
    BY <1>3, <1>4
  <2>3. q[o] = (IF data[o] = 0 THEN Absent ELSE gens[o][data[o]])
    BY <2>1 DEF PolicyOf
  <2>4. CASE r.kind = "update"
    <3>1. Saved(r, i)
      BY <1>1, <1>2, <2>4 DEF HandlerInv, DoneInv
    <3>2. CASE data[o] = policyData[LatestGen][o]
      BY <2>1, <2>2, <2>4, <3>2 DEF PolicyOf
    <3>3. CASE data[o] # 0 /\ gens[o][data[o]] = r.changes[i].content
      BY <2>3, <2>4, <3>3 DEF Log!Asked
    <3> QED  BY <3>1, <3>2, <3>3 DEF Saved
  <2>5. CASE r.kind # "update"
    <3>1. Removed(r, i)
      BY <1>1, <1>2, <2>5 DEF HandlerInv, DoneInv
    <3>2. data[o] = 0
      BY <1>1, <3>1 DEF Removed
    <3> QED  BY <2>3, <2>5, <3>2 DEF Log!Asked
  <2> QED  BY <2>4, <2>5
<1>9. Log!MayFollow(q, p, r)
  BY <1>7, <1>8 DEF Log!MayFollow
<1>10. Log!Resolved(Len(Policies))
  BY <1>1, <1>2, <1>3 DEF HolderInv, Resolved, RevisionsFor, Log!Resolved
<1>11. Policies # <<>>
  BY <1>3, <1>4
<1>12. Log!Policy = Policy
  BY DEF Log!Policy, Policy
<1> HIDE DEF q
<1> QED  BY <1>1, <1>3, <1>6, <1>9, <1>10, <1>11, <1>12 DEF Log!Change

(* The first policy, which is saved when the server starts.                *)
LEMMA CheckPolicyLogged ==
  ASSUME StoreInv, StoreInv', Next, CheckPolicy, policyData = <<>>
  PROVE  Log!Start
<1>1. policyData' = <<EmptyData>> /\ UNCHANGED <<revisions, processed>>
  BY DEF CheckPolicy
<1>2. LatestGen = 0 /\ LatestGen' = 1 /\ policyData'[1] = EmptyData
  BY <1>1 DEF LatestGen
<1>3. Policies = <<>>
  BY <1>2, EmptySeq, PoliciesSeq DEF InLog
<1>4. Policies' \in Seq(Policy) /\ Len(Policies') = 1 /\ Policies'[1] = PolicyOf(policyData[1])'
  <2>1. 1 \in 1..LatestGen'
    BY <1>2
  <2> QED  BY <1>2, <2>1, PoliciesKept
<1>5. PolicyOf(policyData[1])' = EmptyPolicy
  BY <1>2 DEF PolicyOf, EmptyPolicy, EmptyData
<1>6. EmptyPolicy \in Policy /\ Log!EmptyPolicy = EmptyPolicy
  BY DEF EmptyPolicy, Log!EmptyPolicy, Policy
<1>7. Policies' = <<EmptyPolicy>>
  <2>1. <<EmptyPolicy>> \in Seq(Policy) /\ Len(<<EmptyPolicy>>) = 1
    BY <1>6
  <2>2. \A g \in 1..Len(Policies') : Policies'[g] = <<EmptyPolicy>>[g]
    BY <1>4, <1>5
  <2> QED  BY <1>4, <2>1, <2>2, SeqEqual
<1> QED  BY <1>1, <1>3, <1>6, <1>7 DEF Log!Start

LEMMA RevisionLogged ==
  ASSUME StoreInv, StoreInv', Next, NEW g \in 1..LatestGen, AddRevision(g),
         UNCHANGED <<policyData, processed>>
  PROVE  Log!Next
<1>1. Policies' = Policies /\ g \in DOMAIN Policies
  BY PoliciesKept, PoliciesSeq DEF InLog
<1>2. Log!Revise(g)
  BY <1>1 DEF AddRevision, Log!Revise
<1> QED  BY <1>1, <1>2 DEF Log!Next

LEMMA DesiredStateLogged ==
  ASSUME StoreInv, StoreInv', Next, NEW s \in Policy, AddDesiredState(s),
         revisions # <<>>, revisions[Len(revisions)].desired = NoState,
         Log!IsDesired(s, revisions[Len(revisions)].policyGen),
         UNCHANGED <<policyData, processed>>
  PROVE  Log!Next
<1>1. Policies' = Policies
  BY PoliciesKept
<1>2. Log!Policy = Policy
  BY DEF Log!Policy, Policy
<1>3. Log!Resolve
  BY <1>1, <1>2 DEF AddDesiredState, Log!Resolve
<1> QED  BY <1>3 DEF Log!Next

LEMMA LastRevision ==
  ASSUME StoreInv, revisions # <<>>
  PROVE  revisions[Len(revisions)].policyGen \in 1..LatestGen
<1>1. revisions \in Seq(Revision) /\ Len(revisions) \in DOMAIN revisions
  BY EmptySeq, LenProperties DEF StoreInv, TypeOK
<1> QED  BY <1>1 DEF StoreInv, TypeOK

LEMMA InitDesiredStateLogged ==
  ASSUME StoreInv, StoreInv', LogInv, Next, InitDesiredState
  PROVE  Log!Next
<1>1. /\ LatestGen = 1 /\ revisions # <<>> /\ revisions[Len(revisions)].desired = NoState
      /\ AddDesiredState(EmptyPolicy) /\ UNCHANGED <<policyData, processed>>
  BY DEF InitDesiredState, StoreInv, BootInv
<1>2. revisions[Len(revisions)].policyGen = 1
  BY <1>1, LastRevision
<1>3. policyData # <<>>
  BY <1>1 DEF LatestGen
<1>4. Policies[1] = EmptyPolicy
  <2>1. policyData[1] = EmptyData
    BY <1>3 DEF LogInv
  <2>2. PolicyOf(policyData[1]) = EmptyPolicy
    BY <2>1 DEF PolicyOf, EmptyPolicy, EmptyData
  <2>3. 1 \in 1..LatestGen
    BY <1>1
  <2> QED  BY <2>2, <2>3, PoliciesSeq DEF InLog
<1>5. EmptyPolicy \in Policy
  BY DEF EmptyPolicy, Policy
<1>6. Log!IsDesired(EmptyPolicy, revisions[Len(revisions)].policyGen)
  BY <1>2, <1>4 DEF Log!IsDesired
<1> QED  BY <1>1, <1>5, <1>6, DesiredStateLogged

LEMMA SaveDesiredStateLogged ==
  ASSUME StoreInv, StoreInv', LogInv, Next, NEW h \in Handler, SaveDesiredState(h)
  PROVE  Log!Next
<1> DEFINE last == revisions[Len(revisions)]
           r == request[h]
           k == readGen[h]
<1>1. /\ pc[h] = "desired" /\ AddDesiredState(desired[h])
      /\ UNCHANGED <<policyData, processed>>
  BY DEF SaveDesiredState
<1>2. /\ HolderInv(h) /\ HandlerInv(h) /\ r \in Requests /\ desired[h] \in Policy
  BY <1>1 DEF LogInv, HandlerInv, StoreInv, TypeOK, SavingInv
<1>3. revisions # <<>> /\ last.desired = NoState /\ last.policyGen \in 1..LatestGen
  BY <1>1, <1>2, LastRevision DEF HolderInv
<1>4. k \in 1..LatestGen /\ LatestGen \in Nat
  <2>1. k \in 0..LatestGen /\ k > 0
    BY <1>1 DEF StoreInv, TypeOK, BootInv
  <2> QED  BY <2>1, PoliciesSeq DEF InLog
<1>5. Policies[k] = PolicyOf(policyData[k]) /\ Policies[k] \in Policy
  BY <1>4, PoliciesSeq, ElementOfSeq DEF InLog
<1>6. desired[h] = Updated(Policies[k], r)
  BY <1>1, <1>2, <1>5 DEF HandlerInv, DesiredInv
<1>7. CASE r.kind = "enforce"
  <2>1. last.policyGen = k
    BY <1>1, <1>2, <1>7 DEF HandlerInv, BehindInv
  <2>2. desired[h] = Policies[k]
    BY <1>2, <1>5, <1>6, <1>7, UpdatedIsResult
  <2>3. Log!IsDesired(desired[h], last.policyGen)
    BY <2>1, <2>2 DEF Log!IsDesired
  <2> QED  BY <1>1, <1>2, <1>3, <2>3, DesiredStateLogged
<1>8. CASE r.kind # "enforce"
  <2>1. last.policyGen = LatestGen /\ k < LatestGen
    BY <1>1, <1>2, <1>8 DEF HolderInv, HandlerInv, BehindInv
  <2>2. k \in 1..(last.policyGen - 1)
    BY <1>4, <2>1
  <2>3. Log!IsResult(desired[h], Policies[k], r)
    BY <1>2, <1>5, <1>6, UpdatedIsResult
  <2>4. Log!IsDesired(desired[h], last.policyGen)
    BY <1>2, <2>2, <2>3 DEF Log!IsDesired
  <2> QED  BY <1>1, <1>2, <1>3, <2>4, DesiredStateLogged
<1> QED  BY <1>7, <1>8

LEMMA NextLogged ==
  StoreInv /\ StoreInv' /\ LogInv /\ [Next]_vars => [Log!Next]_(Log!vars)
<1> SUFFICES ASSUME StoreInv, StoreInv', LogInv, [Next]_vars
             PROVE  Log!Next \/ UNCHANGED Log!vars
  OBVIOUS
<1>1. CASE UNCHANGED vars
  BY <1>1 DEF vars, store, Log!vars, Policies, PolicyOf
<1>2. ASSUME Next, UNCHANGED <<policyData, revisions, processed>>
      PROVE  UNCHANGED Log!vars
  BY <1>2, PoliciesKept DEF Log!vars
<1>3. CASE Next
  <2>1. CASE CheckPolicy
    BY <1>2, <1>3, <2>1, CheckPolicyLogged DEF CheckPolicy, Log!Next
  <2>2. CASE InitRevision
    <3>1. 1 \in 1..LatestGen
      BY <2>2 DEF StoreInv, BootInv, InitRevision
    <3> QED  BY <1>3, <2>2, <3>1, RevisionLogged DEF InitRevision
  <2>3. CASE InitDesiredState
    BY <1>3, <2>3, InitDesiredStateLogged
  <2>4. CASE Process
    <3>1. Policies' = Policies
      BY <1>3, <2>4, PoliciesKept DEF Process, store
    <3>2. Log!Process
      BY <2>4, <3>1 DEF Process, store, Log!Process
    <3> QED  BY <3>2 DEF Log!Next
  <2>5. CASE Crash
    BY <1>2, <1>3, <2>5 DEF Crash, store
  <2>6. ASSUME NEW h \in Handler,
               \/ \E r \in Requests : Receive(h, r)
               \/ Resolve(h) \/ Reject(h) \/ Lock(h) \/ SaveObject(h) \/ DeleteObject(h)
               \/ UpdateFails(h) \/ DeleteFails(h) \/ NothingChanged(h)
        PROVE  UNCHANGED Log!vars
    BY <1>2, <1>3, <2>6 DEF Receive, Resolve, Reject, Lock, SaveObject, DeleteObject, UpdateFails, DeleteFails,
                            NothingChanged, store
  <2>7. ASSUME NEW h \in Handler, SavePolicyData(h)
        PROVE  Log!Next
    <3>1. request[h] \in Requests
      BY <2>7 DEF LogInv, HandlerInv, SavePolicyData
    <3>2. Log!Change(request[h])
      BY <1>3, <2>7, SavePolicyDataLogged
    <3> QED  BY <3>1, <3>2 DEF Log!Next
  <2>8. ASSUME NEW h \in Handler, SaveRevision(h)
        PROVE  Log!Next
    <3> DEFINE g == IF request[h].kind = "enforce" THEN readGen[h] ELSE LatestGen
    <3>1. LatestGen \in Nat /\ LatestGen > 0 /\ readGen[h] > 0 /\ readGen[h] \in 0..LatestGen
      BY <2>8, LenProperties DEF StoreInv, TypeOK, BootInv, SaveRevision, LatestGen
    <3>2. g \in 1..LatestGen
      BY <3>1
    <3>3. AddRevision(g) /\ UNCHANGED <<policyData, processed>>
      BY <2>8 DEF SaveRevision
    <3> HIDE DEF g
    <3> QED  BY <1>3, <3>2, <3>3, RevisionLogged
  <2>9. ASSUME NEW h \in Handler, SaveDesiredState(h)
        PROVE  Log!Next
    BY <1>3, <2>9, SaveDesiredStateLogged
  <2> QED
    BY <1>3, <2>1, <2>2, <2>3, <2>4, <2>5, <2>6, <2>7, <2>8, <2>9 DEF Next, Boot, Serve
<1> QED  BY <1>1, <1>3

(* For any objects, contents, handlers, requests and crashes, the store    *)
(* with its generations, its mutex and its separate saves implements the   *)
(* log of policies (UpdatePolicy and DeleteFromPolicy, core/policy.go;     *)
(* NewRevision, core/revision.go).                                         *)
THEOREM StoreImplementsLog == Spec => ImplementsPolicyLog
<1>1. Init => Log!Init
  <2> SUFFICES ASSUME Init PROVE Log!Init
    OBVIOUS
  <2>1. policyData = <<>> /\ revisions = <<>> /\ processed = 0
    BY DEF Init
  <2>2. Policies = <<>>
    <3>1. LatestGen = 0
      BY <2>1 DEF LatestGen
    <3> QED  BY <3>1, EmptySeq, InitStoreInv, PoliciesSeq DEF InLog
  <2> QED  BY <2>1, <2>2 DEF Log!Init
<1> QED
  BY <1>1, InitLogInv, NextLogInv, NextLogged, StoreInvariant, PTL
  DEF Spec, ImplementsPolicyLog, Log!Spec

=============================================================================
