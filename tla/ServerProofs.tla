---------------------------- MODULE ServerProofs ----------------------------
(***************************************************************************)
(* Proofs of the safety properties of Server, for any components and       *)
(* clients, any number of changes of the policy, faults and restarts.      *)
(***************************************************************************)
EXTENDS Server, ExtremesProofs, SequenceTheorems, FiniteSetTheorems, TLAPS

-----------------------------------------------------------------------------
(* The inductive invariant.                                                *)

ServerStep ==
  {"initPolicy", "initRevision", "initDesired", "startHTTP", "startEnforcer",
   "startUpdater", "wait", "exited"}

PolicyStep == {"none", "saved", "resolved"}

(* A revision is only started when those before it have been applied, and  *)
(* what has been applied once stays so.                                    *)
RevisionsInv ==
  /\ \A i \in DOMAIN revisions :
       revisions[i].status = "completed" => revisions[i].applied
  /\ \A i, j \in DOMAIN revisions :
       j < i /\ revisions[i].status # "waiting" => revisions[j].applied

(* While a revision is applied, only what it wants is created or updated,  *)
(* and what has been loaded was there.                                     *)
WorkInv ==
  enforcer = "applying" =>
    /\ cur \in DOMAIN revisions
    /\ revisions[cur].status # "waiting"
    /\ \A c \in Code :
         /\ work[c].op \in {"create", "update"} => revisions[cur].desired[c] # Absent
         /\ work[c].step = "loaded" => work[c].copy # Absent

TaskInv == \A c \in Code : task[c].step = "loaded" => task[c].copy # Absent

ClientsInv ==
  /\ \A k \in Client :
       client[k].step \in {"revision", "polling"} => client[k].revision >= 1
  /\ CompletedIsApplied

Inv == TypeOK /\ RevisionsInv /\ WorkInv /\ TaskInv /\ ClientsInv

-----------------------------------------------------------------------------
(* What the parts of the invariant depend on.                              *)

LEMMA RevisionFacts ==
  ASSUME TypeOK
  PROVE  /\ Len(revisions) \in Nat /\ DOMAIN revisions = 1..Len(revisions)
         /\ \A i \in DOMAIN revisions : revisions[i] \in RevisionRecord
BY LenProperties, ElementOfSeq DEF TypeOK

LEMMA WorkFrame ==
  ASSUME WorkInv, enforcer' = "applying" => enforcer = "applying",
         UNCHANGED <<revisions, cur, work>>
  PROVE  WorkInv'
BY DEF WorkInv

(* Steps of the control of the server.                                     *)
LEMMA ControlInv ==
  ASSUME Inv, UNCHANGED <<disabled, revisions, stored, cloud, cur, success, work,
                          task, client>>,
         server' \in ServerStep, policy' \in PolicyStep,
         http' \in {"off", "serving", "failed", "reported"},
         enforcer' \in {"pass", "applying", "notifySelf", "notifyUpdater", "waiting"},
         enforcer' = "applying" => enforcer = "applying",
         updater' \in {"pass", "refreshing", "waiting"},
         enforceChan' \in 0..EnforceCap, updateChan' \in 0..UpdateCap,
         faults' \in 0..MaxFaults
  PROVE  Inv'
<1>1. TypeOK'
  BY DEF Inv, TypeOK, ServerStep, PolicyStep
<1>2. RevisionsInv' /\ TaskInv' /\ ClientsInv'
  BY DEF Inv, RevisionsInv, TaskInv, ClientsInv, CompletedIsApplied, IsApplied
<1>3. WorkInv'
  BY WorkFrame DEF Inv
<1> QED  BY <1>1, <1>2, <1>3 DEF Inv

(* Steps of the enforcer, but for what they do to revisions and work.      *)
LEMMA EnforcerStep ==
  ASSUME Inv, UNCHANGED <<serverVars, policy, chanVars, updaterVars, client>>,
         revisions' \in Seq(RevisionRecord), Len(revisions') = Len(revisions),
         work' \in [Code -> WorkRecord], cur' \in Nat,
         RevisionsInv', WorkInv', ClientsInv',
         stored' \in [Code -> Instance \cup {Absent}],
         cloud' \in [Code -> Param \cup {NotDeployed}],
         enforcer' \in {"pass", "applying", "notifySelf", "notifyUpdater", "waiting"},
         success' \in BOOLEAN, faults' \in 0..MaxFaults
  PROVE  Inv'
<1>1. TypeOK'
  BY DEF Inv, TypeOK, serverVars, chanVars, updaterVars
<1>2. TaskInv'
  BY DEF Inv, TaskInv, updaterVars
<1> QED  BY <1>1, <1>2 DEF Inv

(* Steps of the updater.                                                   *)
LEMMA UpdaterStep ==
  ASSUME Inv, UNCHANGED <<serverVars, storeVars, cloud, chanVars, enforcerVars, client>>,
         task' \in [Code -> TaskRecord], TaskInv',
         stored' \in [Code -> Instance \cup {Absent}],
         updater' \in {"pass", "refreshing", "waiting"}, faults' \in 0..MaxFaults
  PROVE  Inv'
<1>1. TypeOK'
  BY DEF Inv, TypeOK, serverVars, storeVars, chanVars, enforcerVars
<1>2. RevisionsInv' /\ ClientsInv'
  BY DEF Inv, RevisionsInv, ClientsInv, CompletedIsApplied, IsApplied, storeVars
<1>3. WorkInv'
  BY WorkFrame DEF Inv, enforcerVars, storeVars
<1> QED  BY <1>1, <1>2, <1>3 DEF Inv

(* Steps of clients and of the handlers of their requests.                 *)
LEMMA ClientStep ==
  ASSUME Inv, UNCHANGED <<serverVars, revisions, stored, cloud, updateChan, enforcerVars,
                          updaterVars, faults>>,
         enforceChan' \in 0..EnforceCap, policy' \in PolicyStep,
         client' \in [Client -> ClientRecord],
         \A k \in Client :
           /\ client'[k].revision = client[k].revision
           /\ client'[k].step \in {"revision", "polling"} => client[k].step = client'[k].step,
         CompletedIsApplied'
  PROVE  Inv'
<1>1. TypeOK'
  BY DEF Inv, TypeOK, serverVars, enforcerVars, updaterVars, PolicyStep
<1>2. RevisionsInv' /\ TaskInv' /\ ClientsInv'
  BY DEF Inv, RevisionsInv, TaskInv, ClientsInv, updaterVars
<1>3. WorkInv'
  BY WorkFrame DEF Inv, enforcerVars
<1> QED  BY <1>1, <1>2, <1>3 DEF Inv

-----------------------------------------------------------------------------
(* Changes of the revisions.                                               *)

LEMMA RevisionMarked ==
  ASSUME Inv, NEW i \in DOMAIN revisions, NEW r \in RevisionRecord,
         revisions' = [revisions EXCEPT ![i] = r],
         r.desired = revisions[i].desired, revisions[i].applied => r.applied,
         r.status = "completed" => r.applied,
         r.status # "waiting" => \A j \in DOMAIN revisions : j < i => revisions[j].applied
  PROVE  /\ revisions' \in Seq(RevisionRecord) /\ Len(revisions') = Len(revisions)
         /\ DOMAIN revisions' = DOMAIN revisions /\ revisions'[i] = r
         /\ \A j \in DOMAIN revisions : revisions'[j].desired = revisions[j].desired
         /\ RevisionsInv'
         /\ UNCHANGED client => ClientsInv'
<1>1. /\ revisions \in Seq(RevisionRecord) /\ DOMAIN revisions = 1..Len(revisions)
      /\ Len(revisions) \in Nat
  BY RevisionFacts DEF Inv, TypeOK
<1>2. revisions' \in Seq(RevisionRecord) /\ Len(revisions') = Len(revisions)
  BY <1>1, ExceptSeq
<1>3. /\ DOMAIN revisions' = DOMAIN revisions /\ revisions'[i] = r
      /\ \A j \in DOMAIN revisions : j # i => revisions'[j] = revisions[j]
  BY <1>1
<1>4. \A j \in DOMAIN revisions : /\ revisions'[j].desired = revisions[j].desired
                                  /\ revisions[j].applied => revisions'[j].applied
  BY <1>3
<1>5. RevisionsInv'
  <2>1. \A j \in DOMAIN revisions :
          revisions'[j].status = "completed" => revisions'[j].applied
    BY <1>3 DEF Inv, RevisionsInv
  <2>2. ASSUME NEW k \in DOMAIN revisions, NEW j \in DOMAIN revisions,
               j < k, revisions'[k].status # "waiting"
        PROVE  revisions'[j].applied
    <3>1. CASE k = i
      BY <1>3, <1>4, <2>2, <3>1
    <3>2. CASE k # i
      <4>1. revisions[j].applied
        BY <1>3, <2>2, <3>2 DEF Inv, RevisionsInv
      <4> QED  BY <1>4, <4>1
    <3> QED  BY <3>1, <3>2
  <2> QED  BY <1>3, <2>1, <2>2 DEF RevisionsInv
<1>6. UNCHANGED client => ClientsInv'
  BY <1>3, <1>4 DEF Inv, ClientsInv, CompletedIsApplied, IsApplied
<1> QED  BY <1>2, <1>3, <1>4, <1>5, <1>6

LEMMA RevisionAppended ==
  ASSUME Inv, NEW desired \in [Code -> Param \cup {Absent}],
         AddRevision(desired)
  PROVE  /\ revisions' \in Seq(RevisionRecord) /\ Len(revisions') = Len(revisions) + 1
         /\ \A i \in DOMAIN revisions : i \in DOMAIN revisions' /\ revisions'[i] = revisions[i]
         /\ RevisionsInv'
         /\ UNCHANGED enforcerVars => WorkInv'
<1> DEFINE n == Len(revisions)
           r == NewRevision(desired)
<1>1. r \in RevisionRecord /\ r.status = "waiting"
  BY DEF NewRevision, RevisionRecord
<1>2. revisions \in Seq(RevisionRecord) /\ n \in Nat /\ DOMAIN revisions = 1..n
  BY RevisionFacts DEF Inv, TypeOK
<1> HIDE DEF r
<1>3. /\ revisions' \in Seq(RevisionRecord) /\ Len(revisions') = n + 1
      /\ \A i \in 1..n : revisions'[i] = revisions[i]
      /\ revisions'[n + 1] = r
  BY <1>1, <1>2, AppendProperties DEF r, AddRevision
<1>4. DOMAIN revisions' = 1..(n + 1)
  BY <1>3, LenProperties
<1> HIDE DEF n
<1>5. \A i \in DOMAIN revisions : i \in DOMAIN revisions' /\ revisions'[i] = revisions[i]
  BY <1>2, <1>3, <1>4
<1>6. RevisionsInv'
  <2>1. ASSUME NEW i \in DOMAIN revisions', revisions'[i].status # "waiting"
        PROVE  i \in DOMAIN revisions /\ revisions'[i] = revisions[i]
    BY <1>1, <1>2, <1>3, <1>4, <2>1
  <2>2. ASSUME NEW i \in DOMAIN revisions', NEW j \in DOMAIN revisions',
               j < i, revisions'[i].status # "waiting"
        PROVE  revisions'[j].applied
    <3>1. i \in DOMAIN revisions /\ revisions'[i] = revisions[i] /\ j \in DOMAIN revisions
      BY <1>2, <1>4, <2>1, <2>2
    <3> QED  BY <1>5, <2>2, <3>1 DEF Inv, RevisionsInv
  <2>3. ASSUME NEW i \in DOMAIN revisions', revisions'[i].status = "completed"
        PROVE  revisions'[i].applied
    BY <2>1, <2>3 DEF Inv, RevisionsInv
  <2> QED  BY <2>2, <2>3 DEF RevisionsInv
<1>7. UNCHANGED enforcerVars => WorkInv'
  BY <1>5 DEF Inv, WorkInv, enforcerVars
<1> QED  BY <1>3, <1>5, <1>6, <1>7 DEF n

-----------------------------------------------------------------------------
(* The actions, one by one.                                                *)

LEMMA NothingYet ==
  /\ NoWork \in WorkRecord /\ NoWork.op = "none" /\ NoWork.step = "todo"
  /\ NoTask \in TaskRecord /\ NoTask.step = "none"
  /\ Nothing \in [Code -> Param \cup {Absent}]
BY DEF NoWork, WorkRecord, WorkOp, NoTask, TaskRecord, Nothing

LEMMA InitInv == Init => Inv
<1> SUFFICES ASSUME Init PROVE Inv
  OBVIOUS
<1> DEFINE AtMostTwo ==
             /\ revisions \in Seq(RevisionRecord) /\ Len(revisions) \in Nat
             /\ \A i \in DOMAIN revisions : i \in 1..2
             /\ \A i \in DOMAIN revisions :
                  /\ i = 1 /\ 2 \in DOMAIN revisions => revisions[i].applied
                  /\ revisions[i].status = "completed" => revisions[i].applied
<1>1. AtMostTwo
  <2>1. CASE revisions = << >>
    BY <2>1
  <2>2. ASSUME NEW desired \in [Code -> Param \cup {Absent}],
               revisions = <<[NewRevision(Nothing) EXCEPT
                                !.saved = TRUE, !.status = "completed", !.applied = TRUE],
                             [NewRevision(desired) EXCEPT !.saved = TRUE]>>
        PROVE  AtMostTwo
    <3> DEFINE a == [NewRevision(Nothing) EXCEPT
                       !.saved = TRUE, !.status = "completed", !.applied = TRUE]
               b == [NewRevision(desired) EXCEPT !.saved = TRUE]
    <3>1. /\ a \in RevisionRecord /\ a.status = "completed" /\ a.applied
          /\ b \in RevisionRecord /\ b.status = "waiting"
      BY NothingYet DEF NewRevision, RevisionRecord
    <3>2. revisions = <<a, b>>
      BY <2>2
    <3> HIDE DEF a, b
    <3> QED  BY <3>1, <3>2
  <2>3. \/ revisions = << >>
        \/ \E desired \in [Code -> Param \cup {Absent}] :
             revisions = <<[NewRevision(Nothing) EXCEPT
                              !.saved = TRUE, !.status = "completed", !.applied = TRUE],
                           [NewRevision(desired) EXCEPT !.saved = TRUE]>>
    BY DEF Init
  <2> HIDE DEF AtMostTwo
  <2> QED  BY <2>1, <2>2, <2>3
<1>2. TypeOK
  <2>1. 0 \in 0..EnforceCap /\ 0 \in 0..UpdateCap /\ 0 \in 0..MaxFaults
    BY ServerAssumption
  <2>2. client \in [Client -> ClientRecord] /\ \A k \in Client : client[k].revision = 0
    BY DEF Init, ClientRecord
  <2>3. work \in [Code -> WorkRecord] /\ task \in [Code -> TaskRecord]
    BY NothingYet DEF Init
  <2>4. /\ stored \in [Code -> Instance \cup {Absent}]
        /\ cloud \in [Code -> Param \cup {NotDeployed}]
    BY DEF Init, Nothing
  <2>5. \A k \in Client : client[k].revision <= Len(revisions)
    BY <1>1, <2>2
  <2> QED  BY <1>1, <2>1, <2>2, <2>3, <2>4, <2>5 DEF Init, TypeOK
<1>3. RevisionsInv
  <2>1. ASSUME NEW i \in DOMAIN revisions, NEW j \in DOMAIN revisions,
               j < i, revisions[i].status # "waiting"
        PROVE  revisions[j].applied
    <3>1. j = 1 /\ i = 2
      BY <1>1, <2>1
    <3> QED  BY <1>1, <3>1
  <2> QED  BY <1>1, <2>1 DEF RevisionsInv
<1>4. WorkInv /\ TaskInv
  BY NothingYet DEF Init, WorkInv, TaskInv
<1>5. ClientsInv
  BY DEF Init, ClientsInv, CompletedIsApplied
<1> QED  BY <1>2, <1>3, <1>4, <1>5 DEF Inv

LEMMA MainInv ==
  ASSUME Inv, StartJobs \/ Wait \/ HTTPFails \/ Killed
  PROVE  Inv'
<1>1. UNCHANGED <<disabled, policy, revisions, stored, cloud, cur, success, work, task,
                  client, enforcer, updater, enforceChan, updateChan>>
  BY DEF StartJobs, Wait, HTTPFails, Killed, chanVars, storeVars, enforcerVars, updaterVars
<1>2. /\ server' \in ServerStep
      /\ http' \in {"off", "serving", "failed", "reported"}
  BY DEF Inv, TypeOK, ServerStep, StartJobs, Wait, HTTPFails, Killed
<1>3. faults' \in 0..MaxFaults
  BY ServerAssumption DEF Inv, TypeOK, StartJobs, Wait, HTTPFails, Killed
<1>4. /\ enforcer' \in {"pass", "applying", "notifySelf", "notifyUpdater", "waiting"}
      /\ updater' \in {"pass", "refreshing", "waiting"}
      /\ enforceChan' \in 0..EnforceCap /\ updateChan' \in 0..UpdateCap
      /\ policy' \in PolicyStep
  BY <1>1 DEF Inv, TypeOK, PolicyStep
<1> QED  BY <1>1, <1>2, <1>3, <1>4, ControlInv

LEMMA RestartInv ==
  ASSUME Inv, Restart
  PROVE  Inv'
<1>1. /\ server' = "initPolicy" /\ http' = "off" /\ enforceChan' = 0 /\ updateChan' = 0
      /\ enforcer' = "pass" /\ success' = FALSE /\ work' = [c \in Code |-> NoWork]
      /\ updater' = "pass" /\ task' = [c \in Code |-> NoTask]
      /\ client' = [k \in Client |->
           [client[k] EXCEPT !.step = IF @ \in {"policy", "revision"} THEN "failed" ELSE @,
                             !.handling = FALSE]]
      /\ UNCHANGED <<disabled, policy, revisions, stored, cloud, cur, faults>>
  BY DEF Restart, storeVars
<1>2. /\ client' \in [Client -> ClientRecord]
      /\ \A k \in Client : /\ client'[k].step \in {client[k].step, "failed"}
                           /\ client'[k].revision = client[k].revision
  <2>1. \A k \in Client : client[k] \in ClientRecord
    BY DEF Inv, TypeOK
  <2> QED  BY <1>1, <2>1 DEF ClientRecord
<1>3. TypeOK'
  <2>1. 0 \in 0..EnforceCap /\ 0 \in 0..UpdateCap
    BY ServerAssumption
  <2>2. work' \in [Code -> WorkRecord] /\ task' \in [Code -> TaskRecord]
    BY <1>1, NothingYet
  <2> QED  BY <1>1, <1>2, <2>1, <2>2 DEF Inv, TypeOK
<1>4. RevisionsInv'
  BY <1>1 DEF Inv, RevisionsInv
<1>5. WorkInv' /\ TaskInv'
  BY <1>1, NothingYet DEF WorkInv, TaskInv
<1>6. ClientsInv'
  BY <1>1, <1>2 DEF Inv, ClientsInv, CompletedIsApplied, IsApplied
<1> QED  BY <1>3, <1>4, <1>5, <1>6 DEF Inv

(* A revision is appended: what is known of the others stays so.           *)
LEMMA AppendInv ==
  ASSUME Inv, NEW desired \in [Code -> Param \cup {Absent}], AddRevision(desired),
         UNCHANGED <<disabled, http, stored, cloud, chanVars, enforcerVars, updaterVars, faults>>,
         server' \in ServerStep, client' \in [Client -> ClientRecord],
         \A k \in Client :
           /\ client'[k].revision \in {client[k].revision, Len(revisions')}
           /\ client'[k].step \in {client[k].step, "revision"}
           /\ client'[k].step = "revision" => client[k] = client'[k]
                                              \/ client'[k].revision = Len(revisions')
           /\ client'[k].step # "revision" => client[k] = client'[k]
  PROVE  Inv'
<1>1. /\ revisions' \in Seq(RevisionRecord) /\ Len(revisions') = Len(revisions) + 1
      /\ \A i \in DOMAIN revisions : i \in DOMAIN revisions' /\ revisions'[i] = revisions[i]
      /\ RevisionsInv' /\ WorkInv'
  BY RevisionAppended
<1>2. Len(revisions) \in Nat
  BY RevisionFacts DEF Inv
<1>3. \A k \in Client : client[k].revision \in Nat /\ client[k].revision <= Len(revisions)
  BY DEF Inv, TypeOK, ClientRecord
<1>4. \A k \in Client : client'[k].revision <= Len(revisions')
  BY <1>1, <1>2, <1>3
<1>5. policy' \in PolicyStep
  BY DEF AddRevision, PolicyStep
<1>6. TypeOK'
  BY <1>1, <1>4, <1>5
     DEF Inv, TypeOK, chanVars, enforcerVars, updaterVars, ServerStep, PolicyStep
<1>7. TaskInv'
  BY DEF Inv, TaskInv, updaterVars
<1>8. ClientsInv'
  <2>1. \A i : IsApplied(i) => IsApplied(i)'
    BY <1>1 DEF IsApplied
  <2>2. CompletedIsApplied'
    BY <2>1 DEF Inv, ClientsInv, CompletedIsApplied
  <2>3. \A k \in Client :
          client'[k].step \in {"revision", "polling"} => client'[k].revision >= 1
    BY <1>1, <1>2 DEF Inv, ClientsInv
  <2> QED  BY <2>2, <2>3 DEF ClientsInv
<1> QED  BY <1>1, <1>6, <1>7, <1>8 DEF Inv

(* A desired state is saved.                                               *)
LEMMA SaveDesiredInv ==
  ASSUME Inv, SaveDesired,
         UNCHANGED <<disabled, http, stored, cloud, chanVars, enforcerVars, updaterVars, faults>>,
         server' \in ServerStep, client' \in [Client -> ClientRecord],
         \A k \in Client :
           /\ client'[k].revision = client[k].revision
           /\ client'[k].step = "completed" => client[k].step = "completed"
           /\ client'[k].step \in {"revision", "polling"} =>
                client[k].step \in {"revision", "polling"}
  PROVE  Inv'
<1> DEFINE n == Len(revisions)
           r == [revisions[n] EXCEPT !.saved = TRUE]
<1>1. /\ n \in Nat /\ DOMAIN revisions = 1..n
      /\ \A i \in DOMAIN revisions : revisions[i] \in RevisionRecord
  BY RevisionFacts DEF Inv
<1>2. revisions \in Seq(RevisionRecord)
  BY DEF Inv, TypeOK
<1>3. /\ revisions' \in Seq(RevisionRecord) /\ Len(revisions') = Len(revisions)
      /\ DOMAIN revisions' = DOMAIN revisions
      /\ \A i \in DOMAIN revisions :
           /\ revisions'[i].desired = revisions[i].desired
           /\ revisions'[i].status = revisions[i].status
           /\ revisions'[i].applied = revisions[i].applied
  <2>1. CASE n \in DOMAIN revisions
    <3>1. /\ r \in RevisionRecord /\ r.desired = revisions[n].desired
          /\ r.status = revisions[n].status /\ r.applied = revisions[n].applied
      BY <1>1, <2>1 DEF RevisionRecord
    <3>2. revisions' = [revisions EXCEPT ![n] = r]
      BY DEF SaveDesired
    <3> HIDE DEF r, n
    <3>3. /\ revisions' \in Seq(RevisionRecord) /\ Len(revisions') = Len(revisions)
          /\ DOMAIN revisions' = DOMAIN revisions /\ revisions'[n] = r
          /\ \A i \in DOMAIN revisions : i # n => revisions'[i] = revisions[i]
      <4>1. Len(revisions') = Len(revisions) /\ revisions' \in Seq(RevisionRecord)
        BY <1>1, <1>2, <2>1, <3>1, <3>2, ExceptSeq
      <4> QED  BY <3>2, <2>1, <4>1
    <3> QED  BY <3>1, <3>3
  <2>2. CASE n \notin DOMAIN revisions
    <3>1. revisions' = [revisions EXCEPT ![n].saved = TRUE]
      BY DEF SaveDesired
    <3>2. revisions' = revisions
      <4>1. revisions = [i \in DOMAIN revisions |-> revisions[i]]
        BY <1>2
      <4> HIDE DEF n
      <4> QED  BY <2>2, <3>1, <4>1
    <3> QED  BY <1>2, <3>2
  <2> QED  BY <2>1, <2>2
<1> HIDE DEF n, r
<1>4. policy' = policy
  BY DEF SaveDesired
<1>5. TypeOK'
  BY <1>3, <1>4 DEF Inv, TypeOK, chanVars, enforcerVars, updaterVars, ServerStep
<1>6. RevisionsInv'
  BY <1>3 DEF Inv, RevisionsInv
<1>7. WorkInv'
  BY <1>3 DEF Inv, WorkInv, enforcerVars
<1>8. TaskInv'
  BY DEF Inv, TaskInv, updaterVars
<1>9. ClientsInv'
  <2>1. \A i : IsApplied(i) => IsApplied(i)'
    BY <1>3 DEF IsApplied
  <2>2. CompletedIsApplied'
    BY <2>1 DEF Inv, ClientsInv, CompletedIsApplied
  <2> QED  BY <2>2 DEF Inv, ClientsInv
<1> QED  BY <1>5, <1>6, <1>7, <1>8, <1>9 DEF Inv

LEMMA InitPolicyInv ==
  ASSUME Inv, InitPolicy
  PROVE  Inv'
<1>1. /\ UNCHANGED <<disabled, http, stored, cloud, chanVars, enforcerVars, updaterVars,
                     client, faults>>
      /\ server' \in ServerStep
  BY DEF InitPolicy, ServerStep
<1>2. UNCHANGED <<cur, success, work, task, enforcer, updater, enforceChan, updateChan>>
  BY <1>1 DEF chanVars, enforcerVars, updaterVars
<1>3. client' \in [Client -> ClientRecord]
  BY <1>1 DEF Inv, TypeOK
<1>4. CASE AddRevision(Nothing)
  <2>1. Nothing \in [Code -> Param \cup {Absent}]
    BY NothingYet
  <2>2. \A k \in Client : client'[k] = client[k]
    BY <1>1
  <2> QED  BY <1>1, <1>3, <1>4, <2>1, <2>2, AppendInv
<1>5. CASE SaveDesired
  <2>1. \A k \in Client : client'[k] = client[k]
    BY <1>1
  <2> QED  BY <1>1, <1>3, <1>5, <2>1, SaveDesiredInv
<1>6. CASE UNCHANGED revisions /\ policy' \in {policy, "saved"}
  <2>1. /\ enforcer' \in {"pass", "applying", "notifySelf", "notifyUpdater", "waiting"}
        /\ updater' \in {"pass", "refreshing", "waiting"}
        /\ enforceChan' \in 0..EnforceCap /\ updateChan' \in 0..UpdateCap
        /\ http' \in {"off", "serving", "failed", "reported"} /\ faults' \in 0..MaxFaults
        /\ policy' \in PolicyStep
    BY <1>1, <1>2, <1>6 DEF Inv, TypeOK, PolicyStep
  <2> QED  BY <1>1, <1>2, <1>6, <2>1, ControlInv
<1> QED  BY <1>4, <1>5, <1>6 DEF InitPolicy, storeVars

LEMMA ChangePolicyInv ==
  ASSUME Inv, NEW k \in Client, ChangePolicy(k) \/ RequestFails(k)
  PROVE  Inv'
<1>1. /\ UNCHANGED <<serverVars, revisions, stored, cloud, chanVars, enforcerVars, updaterVars,
                     faults>>
      /\ \E step \in {"policy", "failed"} : client' = [client EXCEPT ![k].step = step]
      /\ policy' \in {policy, "saved"}
  BY DEF ChangePolicy, RequestFails, storeVars
<1>2. policy' \in PolicyStep /\ enforceChan' \in 0..EnforceCap /\ updateChan' = updateChan
  BY <1>1 DEF Inv, TypeOK, PolicyStep, chanVars
<1>3. /\ client' \in [Client -> ClientRecord]
      /\ \A l \in Client :
           /\ client'[l].revision = client[l].revision
           /\ client'[l].step \in {"revision", "polling", "completed"} =>
                client'[l].step = client[l].step
  <2>1. \A l \in Client : client[l] \in ClientRecord
    BY DEF Inv, TypeOK
  <2>2. client \in [Client -> ClientRecord]
    BY DEF Inv, TypeOK
  <2>3. PICK step \in {"policy", "failed"} : client' = [client EXCEPT ![k].step = step]
    BY <1>1
  <2> DEFINE r == [client[k] EXCEPT !.step = step]
  <2>4. r \in ClientRecord /\ r.revision = client[k].revision /\ r.step = step
    BY <2>1 DEF ClientRecord
  <2>5. client' = [client EXCEPT ![k] = r]
    BY <2>3
  <2> HIDE DEF r
  <2> QED  BY <2>2, <2>4, <2>5
<1>4. CompletedIsApplied'
  BY <1>1, <1>3 DEF Inv, ClientsInv, CompletedIsApplied, IsApplied
<1> QED  BY <1>1, <1>2, <1>3, <1>4, ClientStep

LEMMA SaveRevisionInv ==
  ASSUME Inv, NEW k \in Client, SaveRevision(k)
  PROVE  Inv'
<1>1. PICK desired \in [Code -> Param \cup {Absent}] : AddRevision(desired)
  BY DEF SaveRevision
<1>2. /\ UNCHANGED <<serverVars, stored, cloud, chanVars, enforcerVars, updaterVars, faults>>
      /\ client' = [client EXCEPT ![k].step = "revision", ![k].revision = Len(revisions')]
  BY DEF SaveRevision
<1>3. Len(revisions') \in Nat
  BY <1>1, RevisionAppended, RevisionFacts DEF Inv
<1> DEFINE r == [client[k] EXCEPT !.step = "revision", !.revision = Len(revisions')]
<1>4. r \in ClientRecord /\ r.revision = Len(revisions') /\ r.step = "revision"
  <2>1. client[k] \in ClientRecord
    BY DEF Inv, TypeOK
  <2> QED  BY <1>3, <2>1 DEF ClientRecord
<1>5. client' = [client EXCEPT ![k] = r] /\ client \in [Client -> ClientRecord]
  BY <1>2 DEF Inv, TypeOK
<1> HIDE DEF r
<1>6. /\ client' \in [Client -> ClientRecord] /\ client'[k] = r
      /\ \A l \in Client : l # k => client'[l] = client[l]
  BY <1>4, <1>5
<1>7. /\ server' \in ServerStep
      /\ UNCHANGED <<disabled, http, stored, cloud, chanVars, enforcerVars, updaterVars, faults>>
  BY <1>2 DEF Inv, TypeOK, serverVars, ServerStep
<1>8. \A l \in Client :
        /\ client'[l].revision \in {client[l].revision, Len(revisions')}
        /\ client'[l].step \in {client[l].step, "revision"}
        /\ client'[l].step = "revision" => client[l] = client'[l]
                                           \/ client'[l].revision = Len(revisions')
        /\ client'[l].step # "revision" => client[l] = client'[l]
  BY <1>4, <1>6
<1> QED  BY <1>1, <1>6, <1>7, <1>8, AppendInv

LEMMA SaveDesiredStateInv ==
  ASSUME Inv, NEW k \in Client, SaveDesiredState(k)
  PROVE  Inv'
<1>1. /\ SaveDesired /\ client[k].step = "revision"
      /\ UNCHANGED <<serverVars, stored, cloud, chanVars, enforcerVars, updaterVars, faults>>
      /\ client' = [client EXCEPT ![k].step = "polling", ![k].handling = TRUE]
  BY DEF SaveDesiredState
<1> DEFINE r == [client[k] EXCEPT !.step = "polling", !.handling = TRUE]
<1>2. r \in ClientRecord /\ r.revision = client[k].revision /\ r.step = "polling"
  <2>1. client[k] \in ClientRecord
    BY DEF Inv, TypeOK
  <2> QED  BY <2>1 DEF ClientRecord
<1>3. client' = [client EXCEPT ![k] = r] /\ client \in [Client -> ClientRecord]
  BY <1>1 DEF Inv, TypeOK
<1> HIDE DEF r
<1>4. /\ client' \in [Client -> ClientRecord] /\ client'[k] = r
      /\ \A l \in Client : l # k => client'[l] = client[l]
  BY <1>2, <1>3
<1>5. /\ server' \in ServerStep
      /\ UNCHANGED <<disabled, http, stored, cloud, chanVars, enforcerVars, updaterVars, faults>>
  BY <1>1 DEF Inv, TypeOK, serverVars, ServerStep
<1>6. \A l \in Client :
        /\ client'[l].revision = client[l].revision
        /\ client'[l].step = "completed" => client[l].step = "completed"
        /\ client'[l].step \in {"revision", "polling"} =>
             client[l].step \in {"revision", "polling"}
  BY <1>1, <1>2, <1>4
<1> QED  BY <1>1, <1>4, <1>5, <1>6, SaveDesiredInv

LEMMA LoopsInv ==
  ASSUME Inv,
         \/ EndPass \/ NotifySelf \/ NotifyUpdater \/ EnforcerNotified \/ EnforcerTimer
         \/ RefreshDone \/ UpdaterNotified \/ UpdaterTimer
  PROVE  Inv'
<1>1. /\ enforceChan \in 0..EnforceCap /\ updateChan \in 0..UpdateCap
      /\ faults \in 0..MaxFaults /\ EnforceCap \in Nat /\ UpdateCap \in Nat /\ MaxFaults \in Nat
      /\ enforcer \in {"pass", "applying", "notifySelf", "notifyUpdater", "waiting"}
      /\ updater \in {"pass", "refreshing", "waiting"}
  BY ServerAssumption DEF Inv, TypeOK
<1>2. UNCHANGED <<disabled, server, http, policy, revisions, stored, cloud, cur, success, work,
                  task, client>>
  BY DEF EndPass, NotifySelf, NotifyUpdater, EnforcerNotified, EnforcerTimer,
         RefreshDone, UpdaterNotified, UpdaterTimer, serverVars, storeVars, enforcerVars,
         updaterVars
<1>3. /\ enforcer' \in {enforcer, "pass", "notifyUpdater", "waiting"}
      /\ updater' \in {updater, "pass", "waiting"}
  BY DEF EndPass, NotifySelf, NotifyUpdater, EnforcerNotified, EnforcerTimer,
         RefreshDone, UpdaterNotified, UpdaterTimer, enforcerVars, updaterVars
<1>4. /\ enforceChan' = enforceChan \/ (enforceChan < EnforceCap /\ enforceChan' = enforceChan + 1)
           \/ (enforceChan > 0 /\ enforceChan' = enforceChan - 1)
      /\ updateChan' = updateChan \/ (updateChan < UpdateCap /\ updateChan' = updateChan + 1)
           \/ (updateChan > 0 /\ updateChan' = updateChan - 1)
      /\ faults' = faults \/ (faults < MaxFaults /\ faults' = faults + 1)
  BY DEF EndPass, NotifySelf, NotifyUpdater, EnforcerNotified, EnforcerTimer,
         RefreshDone, UpdaterNotified, UpdaterTimer, chanVars
<1>5. /\ enforceChan' \in 0..EnforceCap /\ updateChan' \in 0..UpdateCap
      /\ faults' \in 0..MaxFaults
  BY <1>1, <1>4
<1>6. /\ server' \in ServerStep /\ policy' \in PolicyStep
      /\ http' \in {"off", "serving", "failed", "reported"}
  BY <1>2 DEF Inv, TypeOK, ServerStep, PolicyStep
<1>7. /\ enforcer' \in {"pass", "applying", "notifySelf", "notifyUpdater", "waiting"}
      /\ updater' \in {"pass", "refreshing", "waiting"}
      /\ enforcer' = "applying" => enforcer = "applying"
  BY <1>1, <1>3
<1> QED  BY <1>2, <1>5, <1>6, <1>7, ControlInv

(* The revision of a pass is the first that is not completed, or the last  *)
(* one when all are.                                                       *)
LEMMA ProcessedFirst ==
  ASSUME Inv, NEW i \in ForProcessing
  PROVE  /\ i \in DOMAIN revisions
         /\ \A j \in DOMAIN revisions : j < i => revisions[j].applied
<1>1. Len(revisions) \in Nat /\ DOMAIN revisions = 1..Len(revisions)
  BY RevisionFacts DEF Inv
<1>2. CASE Unprocessed # {}
  <2>1. Unprocessed \in SUBSET Nat
    BY <1>1 DEF Unprocessed
  <2>2. i = Min(Unprocessed)
    BY <1>2 DEF ForProcessing
  <2>3. i \in Unprocessed /\ \A j \in Unprocessed : i <= j
    BY <1>2, <2>1, <2>2, MinOfNats
  <2>4. ASSUME NEW j \in DOMAIN revisions, j < i PROVE revisions[j].applied
    <3>1. i \in Nat /\ j \in Nat /\ ~(i <= j)
      BY <1>1, <2>1, <2>3, <2>4
    <3>2. revisions[j].status = "completed"
      BY <2>3, <2>4, <3>1 DEF Unprocessed
    <3> QED  BY <2>4, <3>2 DEF Inv, RevisionsInv
  <2> QED  BY <2>3, <2>4 DEF Unprocessed
<1>3. CASE Unprocessed = {}
  <2>1. i \in DOMAIN revisions
    BY <1>3 DEF ForProcessing
  <2>2. \A j \in DOMAIN revisions : revisions[j].status = "completed"
    BY <1>3 DEF Unprocessed
  <2> QED  BY <2>1, <2>2 DEF Inv, RevisionsInv
<1> QED  BY <1>2, <1>3

LEMMA OperationFacts ==
  ASSUME NEW desired, NEW actual, NEW op \in Operations(desired, actual)
  PROVE  op \in {"create", "update"} => desired # Absent
BY DEF Operations

LEMMA StartPassInv ==
  ASSUME Inv, StartPass
  PROVE  Inv'
<1>1. PICK i \in ForProcessing :
        /\ cur' = i
        /\ revisions' = [revisions EXCEPT ![i].status = "inprogress", ![i].failed = FALSE]
        /\ work' \in [Code -> {[NoWork EXCEPT !.op = op] : op \in WorkOp}]
        /\ \A c \in Code : work'[c].op \in Operations(revisions[i].desired[c], stored[c])
  BY DEF StartPass
<1>2. /\ success' = FALSE /\ enforcer' = "applying"
      /\ UNCHANGED <<serverVars, policy, stored, cloud, chanVars, updaterVars, client, faults>>
  BY DEF StartPass
<1>3. i \in DOMAIN revisions /\ \A j \in DOMAIN revisions : j < i => revisions[j].applied
  BY ProcessedFirst
<1> DEFINE r == [revisions[i] EXCEPT !.status = "inprogress", !.failed = FALSE]
<1>4. /\ r \in RevisionRecord /\ r.desired = revisions[i].desired
      /\ r.applied = revisions[i].applied /\ r.status = "inprogress"
  <2>1. revisions[i] \in RevisionRecord
    BY <1>3, RevisionFacts DEF Inv
  <2> QED  BY <2>1 DEF RevisionRecord
<1>5. revisions' = [revisions EXCEPT ![i] = r]
  BY <1>1
<1> HIDE DEF r
<1>6. /\ revisions' \in Seq(RevisionRecord) /\ Len(revisions') = Len(revisions)
      /\ DOMAIN revisions' = DOMAIN revisions /\ revisions'[i] = r
      /\ RevisionsInv' /\ ClientsInv'
  BY <1>2, <1>3, <1>4, <1>5, RevisionMarked
<1>7. /\ work' \in [Code -> WorkRecord]
      /\ \A c \in Code :
           /\ work'[c].op \in {"create", "update"} => revisions[i].desired[c] # Absent
           /\ work'[c].step = "todo"
  <2>1. ASSUME NEW op \in WorkOp
        PROVE  /\ [NoWork EXCEPT !.op = op] \in WorkRecord
               /\ [NoWork EXCEPT !.op = op].step = "todo"
    BY DEF NoWork, WorkRecord
  <2>2. ASSUME NEW c \in Code
        PROVE  /\ work'[c] \in WorkRecord /\ work'[c].step = "todo"
               /\ work'[c].op \in {"create", "update"} => revisions[i].desired[c] # Absent
    <3>1. PICK op \in WorkOp : work'[c] = [NoWork EXCEPT !.op = op]
      BY <1>1
    <3>2. work'[c].op \in {"create", "update"} => revisions[i].desired[c] # Absent
      <4>1. work'[c].op \in Operations(revisions[i].desired[c], stored[c])
        BY <1>1
      <4> QED  BY <4>1, OperationFacts
    <3> QED  BY <2>1, <3>1, <3>2
  <2>3. work' = [c \in Code |-> work'[c]]
    BY <1>1
  <2> QED  BY <2>2, <2>3
<1>8. WorkInv'
  BY <1>1, <1>3, <1>4, <1>6, <1>7 DEF WorkInv
<1>9. i \in Nat
  BY <1>3, RevisionFacts DEF Inv
<1> QED  BY <1>1, <1>2, <1>6, <1>7, <1>8, <1>9, EnforcerStep DEF Inv, TypeOK

LEMMA FinishInv ==
  ASSUME Inv, Finish
  PROVE  Inv'
<1>1. /\ enforcer = "applying"
      /\ revisions' = [revisions EXCEPT ![cur].status = "completed", ![cur].applied = TRUE]
      /\ enforcer' \in {"notifySelf", "waiting"}
      /\ UNCHANGED <<serverVars, policy, stored, cloud, chanVars, cur, success, work,
                     updaterVars, client, faults>>
  BY DEF Finish
<1>2. /\ cur \in DOMAIN revisions
      /\ \A j \in DOMAIN revisions : j < cur => revisions[j].applied
  BY <1>1 DEF Inv, WorkInv, RevisionsInv
<1> DEFINE r == [revisions[cur] EXCEPT !.status = "completed", !.applied = TRUE]
<1>3. /\ r \in RevisionRecord /\ r.desired = revisions[cur].desired /\ r.applied
  <2>1. revisions[cur] \in RevisionRecord
    BY <1>2, RevisionFacts DEF Inv
  <2> QED  BY <2>1 DEF RevisionRecord
<1>4. revisions' = [revisions EXCEPT ![cur] = r]
  BY <1>1
<1> HIDE DEF r
<1>5. /\ revisions' \in Seq(RevisionRecord) /\ Len(revisions') = Len(revisions)
      /\ RevisionsInv' /\ ClientsInv'
  BY <1>1, <1>2, <1>3, <1>4, RevisionMarked
<1>6. WorkInv'
  BY <1>1 DEF WorkInv
<1> QED  BY <1>1, <1>5, <1>6, EnforcerStep DEF Inv, TypeOK

(* The failure of an action is remembered in its revision.                 *)
LEMMA ActionFailsInv ==
  ASSUME Inv, NEW c \in Code, enforcer = "applying", ActionFails(c),
         UNCHANGED <<serverVars, policy, stored, chanVars, enforcer, cur, success, updaterVars,
                     client>>,
         cloud' \in [Code -> Param \cup {NotDeployed}], faults' \in 0..MaxFaults
  PROVE  Inv'
<1>1. /\ work' = [work EXCEPT ![c] = NoWork]
      /\ revisions' = [revisions EXCEPT ![cur].failed = TRUE]
  BY DEF ActionFails
<1>2. /\ cur \in DOMAIN revisions /\ revisions[cur].status # "waiting"
      /\ \A j \in DOMAIN revisions : j < cur => revisions[j].applied
      /\ revisions[cur].status = "completed" => revisions[cur].applied
  BY DEF Inv, WorkInv, RevisionsInv
<1> DEFINE r == [revisions[cur] EXCEPT !.failed = TRUE]
<1>3. /\ r \in RevisionRecord /\ r.desired = revisions[cur].desired
      /\ r.applied = revisions[cur].applied /\ r.status = revisions[cur].status
  <2>1. revisions[cur] \in RevisionRecord
    BY <1>2, RevisionFacts DEF Inv
  <2> QED  BY <2>1 DEF RevisionRecord
<1>4. revisions' = [revisions EXCEPT ![cur] = r]
  BY <1>1
<1> HIDE DEF r
<1>5. /\ revisions' \in Seq(RevisionRecord) /\ Len(revisions') = Len(revisions)
      /\ DOMAIN revisions' = DOMAIN revisions /\ revisions'[cur] = r
      /\ RevisionsInv' /\ ClientsInv'
  BY <1>2, <1>3, <1>4, RevisionMarked
<1>6. /\ work' \in [Code -> WorkRecord] /\ work'[c] = NoWork
      /\ \A d \in Code \ {c} : work'[d] = work[d]
  BY <1>1, NothingYet DEF Inv, TypeOK
<1>7. WorkInv'
  <2>1. \A d \in Code :
          /\ work'[d].op \in {"create", "update"} => revisions[cur].desired[d] # Absent
          /\ work'[d].step = "loaded" => work'[d].copy # Absent
    <3>1. TAKE d \in Code
    <3>2. CASE d = c
      BY <1>6, <3>2, NothingYet
    <3>3. CASE d # c
      BY <1>6, <3>3 DEF Inv, WorkInv
    <3> QED  BY <3>2, <3>3
  <2> QED  BY <1>2, <1>3, <1>5, <2>1 DEF WorkInv
<1> QED  BY <1>5, <1>6, <1>7, EnforcerStep DEF Inv, TypeOK

(* The work on a component, when the store or the cloud may change too.    *)
LEMMA WorkStep ==
  ASSUME Inv, NEW c \in Code, NEW w \in WorkRecord, enforcer = "applying",
         work' = [work EXCEPT ![c] = w],
         w.op \in {"create", "update"} => revisions[cur].desired[c] # Absent,
         w.step = "loaded" => w.copy # Absent,
         UNCHANGED <<serverVars, storeVars, chanVars, enforcer, cur, updaterVars, client,
                     faults>>,
         stored' \in [Code -> Instance \cup {Absent}],
         cloud' \in [Code -> Param \cup {NotDeployed}], success' \in BOOLEAN
  PROVE  Inv'
<1>1. /\ work' \in [Code -> WorkRecord] /\ work'[c] = w
      /\ \A d \in Code \ {c} : work'[d] = work[d]
  BY DEF Inv, TypeOK
<1>2. WorkInv'
  BY <1>1 DEF Inv, WorkInv, storeVars
<1>3. RevisionsInv' /\ ClientsInv'
  BY DEF Inv, RevisionsInv, ClientsInv, CompletedIsApplied, IsApplied, storeVars
<1> QED  BY <1>1, <1>2, <1>3, EnforcerStep DEF Inv, TypeOK, storeVars

(* What is known where an action is applied.                               *)
LEMMA WorkFacts ==
  ASSUME Inv, enforcer = "applying", NEW c \in Code
  PROVE  /\ work[c] \in WorkRecord /\ stored[c] \in Instance \cup {Absent}
         /\ work[c].op \in {"create", "update"} =>
              revisions[cur].desired[c] \in Param
         /\ revisions[cur].desired[c] \in Param \cup {Absent}
         /\ work[c].step = "loaded" => work[c].copy \in Instance
<1>1. cur \in DOMAIN revisions /\ revisions[cur] \in RevisionRecord
  BY RevisionFacts DEF Inv, WorkInv
<1>2. revisions[cur].desired[c] \in Param \cup {Absent}
  BY <1>1 DEF RevisionRecord
<1>3. work[c] \in WorkRecord /\ stored[c] \in Instance \cup {Absent}
  BY DEF Inv, TypeOK
<1> QED  BY <1>2, <1>3 DEF Inv, WorkInv, WorkRecord

LEMMA CallPluginInv ==
  ASSUME Inv, NEW c \in Code, CallPlugin(c)
  PROVE  Inv'
<1>1. /\ enforcer = "applying" /\ work[c].step = "todo"
      /\ work[c].op \in {"create", "update", "delete"}
      /\ \E deployed \in Applied(c) : cloud' = [cloud EXCEPT ![c] = deployed]
      /\ work' = [work EXCEPT ![c] = [work[c] EXCEPT !.step = "called"]]
      /\ UNCHANGED <<serverVars, storeVars, stored, chanVars, enforcer, cur, success,
                     updaterVars, client, faults>>
  BY DEF CallPlugin, At
<1>2. /\ work[c] \in WorkRecord
      /\ work[c].op \in {"create", "update"} => revisions[cur].desired[c] \in Param
  BY <1>1, WorkFacts
<1>3. cloud' \in [Code -> Param \cup {NotDeployed}]
  <2>1. cloud \in [Code -> Param \cup {NotDeployed}]
    BY DEF Inv, TypeOK
  <2>2. Applied(c) \subseteq Param \cup {NotDeployed}
    BY <1>1, <1>2, <2>1 DEF Applied
  <2> QED  BY <1>1, <2>1, <2>2
<1> DEFINE w == [work[c] EXCEPT !.step = "called"]
<1>4. w \in WorkRecord /\ w.op = work[c].op /\ w.step = "called"
  BY <1>2 DEF WorkRecord
<1>5. work' = [work EXCEPT ![c] = w]
  BY <1>1
<1> HIDE DEF w
<1>6. w.op \in {"create", "update"} => revisions[cur].desired[c] # Absent
  BY <1>2, <1>4, ServerAssumption
<1>7. stored' \in [Code -> Instance \cup {Absent}] /\ success' \in BOOLEAN
  BY <1>1 DEF Inv, TypeOK
<1> QED  BY <1>1, <1>3, <1>4, <1>5, <1>6, <1>7, WorkStep

LEMMA PluginFailsInv ==
  ASSUME Inv, NEW c \in Code, PluginFails(c)
  PROVE  Inv'
<1>1. /\ enforcer = "applying" /\ work[c].op \in {"create", "update", "delete"}
      /\ \E deployed \in {cloud[c]} \cup Applied(c) : cloud' = [cloud EXCEPT ![c] = deployed]
      /\ faults' = faults \/ (faults < MaxFaults /\ faults' = faults + 1)
      /\ ActionFails(c)
      /\ UNCHANGED <<serverVars, policy, stored, chanVars, enforcer, cur, success, updaterVars,
                     client>>
  <2>1. MayRefuse(c) /\ UNCHANGED <<cloud, faults>> =>
          \E deployed \in {cloud[c]} \cup Applied(c) : cloud' = [cloud EXCEPT ![c] = deployed]
    BY DEF Inv, TypeOK
  <2> QED  BY <2>1 DEF PluginFails, At
<1>2. work[c].op \in {"create", "update"} => revisions[cur].desired[c] \in Param
  BY <1>1, WorkFacts
<1>3. cloud' \in [Code -> Param \cup {NotDeployed}]
  <2>1. cloud \in [Code -> Param \cup {NotDeployed}]
    BY DEF Inv, TypeOK
  <2>2. Applied(c) \subseteq Param \cup {NotDeployed}
    BY <1>1, <1>2, <2>1 DEF Applied
  <2> QED  BY <1>1, <2>1, <2>2
<1>4. faults' \in 0..MaxFaults
  BY <1>1, ServerAssumption DEF Inv, TypeOK
<1> QED  BY <1>1, <1>3, <1>4, ActionFailsInv

LEMMA LoadInv ==
  ASSUME Inv, NEW c \in Code, Load(c)
  PROVE  Inv'
<1>1. /\ enforcer = "applying" /\ work[c].op \in {"attach", "detach", "update"}
      /\ UNCHANGED <<serverVars, policy, stored, cloud, chanVars, enforcer, cur, success,
                     updaterVars, client, faults>>
  BY DEF Load, At
<1>2. /\ work[c] \in WorkRecord /\ stored[c] \in Instance \cup {Absent}
      /\ work[c].op \in {"create", "update"} => revisions[cur].desired[c] \in Param
  BY <1>1, WorkFacts
<1>3. /\ stored' \in [Code -> Instance \cup {Absent}] /\ success' \in BOOLEAN
      /\ cloud' \in [Code -> Param \cup {NotDeployed}] /\ faults' \in 0..MaxFaults
  BY <1>1 DEF Inv, TypeOK
<1>4. CASE stored[c] = Absent /\ ActionFails(c)
  BY <1>1, <1>3, <1>4, ActionFailsInv
<1>5. CASE /\ stored[c] # Absent /\ UNCHANGED revisions
           /\ work' = [work EXCEPT ![c].step = "loaded", ![c].copy = stored[c]]
  <2> DEFINE w == [work[c] EXCEPT !.step = "loaded", !.copy = stored[c]]
  <2>1. /\ w \in WorkRecord /\ w.op = work[c].op /\ w.copy = stored[c]
    BY <1>2 DEF WorkRecord
  <2>2. work' = [work EXCEPT ![c] = w]
    BY <1>5
  <2> HIDE DEF w
  <2>3. w.op \in {"create", "update"} => revisions[cur].desired[c] # Absent
    BY <1>2, <2>1, ServerAssumption
  <2>4. UNCHANGED storeVars
    BY <1>1, <1>5 DEF storeVars
  <2> QED  BY <1>1, <1>3, <1>5, <2>1, <2>2, <2>3, <2>4, WorkStep
<1> QED  BY <1>4, <1>5 DEF Load

(* What an action makes of an instance is an instance.                     *)
LEMMA ResultFacts ==
  ASSUME Inv, enforcer = "applying", NEW c \in Code,
         \/ work[c].op \in {"create", "delete"}
         \/ work[c].op \in {"update", "attach", "detach"} /\ work[c].step = "loaded"
  PROVE  Result(c) \in Instance \cup {Absent}
<1>1. /\ work[c].op \in {"create", "update"} => revisions[cur].desired[c] \in Param
      /\ work[c].step = "loaded" => work[c].copy \in Instance
  BY WorkFacts
<1>2. CASE work[c].op = "create"
  BY <1>1, <1>2 DEF Result, Instance
<1>3. CASE work[c].op = "update"
  BY <1>1, <1>3 DEF Result, Instance
<1>4. CASE work[c].op = "attach"
  BY <1>1, <1>4 DEF Result, Instance
<1>5. CASE work[c].op = "detach"
  BY <1>1, <1>5 DEF Result, Instance
<1>6. CASE work[c].op = "delete"
  BY <1>6 DEF Result
<1> QED  BY <1>2, <1>3, <1>4, <1>5, <1>6

LEMMA NextOpsFacts ==
  ASSUME NEW c, NEW op \in NextOps(c)
  PROVE  /\ [NoWork EXCEPT !.op = op] \in WorkRecord
         /\ [NoWork EXCEPT !.op = op].step = "todo"
         /\ [NoWork EXCEPT !.op = op].op \notin {"create", "update"}
<1>1. op \in {"none", "attach", "delete"}
  BY DEF NextOps
<1> QED  BY <1>1 DEF NoWork, WorkRecord, WorkOp

LEMMA SaveInv ==
  ASSUME Inv, NEW c \in Code, Save(c)
  PROVE  Inv'
<1>1. /\ enforcer = "applying"
      /\ \/ work[c].op \in {"create", "delete"}
         \/ work[c].op \in {"update", "attach", "detach"} /\ work[c].step = "loaded"
      /\ stored' = [stored EXCEPT ![c] = Result(c)]
      /\ \E op \in NextOps(c) : work' = [work EXCEPT ![c] = [NoWork EXCEPT !.op = op]]
      /\ success' = TRUE
      /\ UNCHANGED <<serverVars, storeVars, cloud, chanVars, enforcer, cur, updaterVars,
                     client, faults>>
  BY DEF Save, At
<1>2. Result(c) \in Instance \cup {Absent}
  BY <1>1, ResultFacts
<1>3. /\ stored' \in [Code -> Instance \cup {Absent}] /\ success' \in BOOLEAN
      /\ cloud' \in [Code -> Param \cup {NotDeployed}]
  BY <1>1, <1>2 DEF Inv, TypeOK
<1>4. PICK op \in NextOps(c) : work' = [work EXCEPT ![c] = [NoWork EXCEPT !.op = op]]
  BY <1>1
<1>5. /\ [NoWork EXCEPT !.op = op] \in WorkRecord
      /\ [NoWork EXCEPT !.op = op].step # "loaded"
      /\ [NoWork EXCEPT !.op = op].op \notin {"create", "update"}
  BY NextOpsFacts
<1> QED  BY <1>1, <1>3, <1>4, <1>5, WorkStep

-----------------------------------------------------------------------------

(* The task for a component, when the store may change too.                *)
LEMMA TaskStep ==
  ASSUME Inv, NEW c \in Code, NEW t \in TaskRecord, task' = [task EXCEPT ![c] = t],
         t.step = "loaded" => t.copy # Absent,
         UNCHANGED <<serverVars, storeVars, cloud, chanVars, enforcerVars, updater, client>>,
         stored' \in [Code -> Instance \cup {Absent}], faults' \in 0..MaxFaults
  PROVE  Inv'
<1>1. /\ task' \in [Code -> TaskRecord] /\ task'[c] = t
      /\ \A d \in Code \ {c} : task'[d] = task[d]
  BY DEF Inv, TypeOK
<1>2. TaskInv'
  BY <1>1 DEF Inv, TaskInv
<1>3. updater' \in {"pass", "refreshing", "waiting"}
  BY DEF Inv, TypeOK
<1> QED  BY <1>1, <1>2, <1>3, UpdaterStep

LEMMA StartRefreshInv ==
  ASSUME Inv, StartRefresh
  PROVE  Inv'
<1>1. /\ task' = [c \in Code |-> [NoTask EXCEPT !.step =
           IF stored[c] # Absent /\ ~stored[c].upToDate THEN "todo" ELSE "none"]]
      /\ updater' = "refreshing"
      /\ UNCHANGED <<serverVars, storeVars, stored, cloud, chanVars, enforcerVars, client, faults>>
  BY DEF StartRefresh
<1>2. \A c \in Code :
        \E step \in {"todo", "none"} : task'[c] = [NoTask EXCEPT !.step = step]
  BY <1>1
<1>3. \A step \in {"todo", "none"} :
        /\ [NoTask EXCEPT !.step = step] \in TaskRecord
        /\ [NoTask EXCEPT !.step = step].step # "loaded"
  BY DEF NoTask, TaskRecord
<1>4. \A c \in Code : task'[c] \in TaskRecord /\ task'[c].step # "loaded"
  BY <1>2, <1>3
<1>5. task' \in [Code -> TaskRecord]
  <2>1. task' = [c \in Code |-> task'[c]]
    BY <1>1
  <2> QED  BY <1>4, <2>1
<1> QED  BY <1>1, <1>4, <1>5, UpdaterStep DEF Inv, TypeOK, TaskInv

LEMMA TasksInv ==
  ASSUME Inv, NEW c \in Code, AskEndpoints(c) \/ LoadForEndpoints(c) \/ SaveEndpoints(c)
  PROVE  Inv'
<1>1. /\ task[c] \in TaskRecord /\ cloud[c] \in Param \cup {NotDeployed}
      /\ stored[c] \in Instance \cup {Absent} /\ stored \in [Code -> Instance \cup {Absent}]
      /\ faults \in 0..MaxFaults /\ MaxFaults \in Nat
  BY ServerAssumption DEF Inv, TypeOK
<1>2. UNCHANGED <<serverVars, storeVars, cloud, chanVars, enforcerVars, updater, client>>
  BY DEF AskEndpoints, LoadForEndpoints, SaveEndpoints
<1>3. CASE AskEndpoints(c)
  <2>1. /\ UNCHANGED stored
        /\ faults' = faults \/ (faults < MaxFaults /\ faults' = faults + 1)
        /\ \/ task' = [task EXCEPT ![c] = [task[c] EXCEPT !.step = "asked", !.answer = cloud[c]]]
           \/ task' = [task EXCEPT ![c] = NoTask]
    BY <1>3 DEF AskEndpoints
  <2>2. faults' \in 0..MaxFaults
    BY <1>1, <2>1
  <2> DEFINE t == [task[c] EXCEPT !.step = "asked", !.answer = cloud[c]]
  <2>3. t \in TaskRecord /\ t.step = "asked"
    BY <1>1 DEF TaskRecord
  <2>4. task' = [task EXCEPT ![c] = t] \/ task' = [task EXCEPT ![c] = NoTask]
    BY <2>1
  <2> HIDE DEF t
  <2> QED  BY <1>1, <1>2, <2>1, <2>2, <2>3, <2>4, NothingYet, TaskStep
<1>4. CASE LoadForEndpoints(c)
  <2> DEFINE t == [task[c] EXCEPT !.step = "loaded", !.copy = stored[c]]
  <2>1. /\ UNCHANGED <<stored, faults>>
        /\ \/ stored[c] # Absent /\ task' = [task EXCEPT ![c] = t]
           \/ task' = [task EXCEPT ![c] = NoTask]
    BY <1>4 DEF LoadForEndpoints
  <2>2. t \in TaskRecord /\ t.copy = stored[c]
    BY <1>1 DEF TaskRecord
  <2> HIDE DEF t
  <2> QED  BY <1>1, <1>2, <2>1, <2>2, NothingYet, TaskStep
<1>5. CASE SaveEndpoints(c)
  <2> DEFINE copy == [task[c].copy EXCEPT !.upToDate = TRUE, !.endpoints = task[c].answer]
  <2>1. /\ task[c].step = "loaded" /\ stored' = [stored EXCEPT ![c] = copy]
        /\ task' = [task EXCEPT ![c] = NoTask] /\ UNCHANGED faults
    BY <1>5 DEF SaveEndpoints, TaskAt
  <2>2. task[c].copy \in Instance /\ task[c].answer \in Param \cup {NotDeployed}
    BY <1>1, <2>1 DEF Inv, TaskInv, TaskRecord
  <2>3. copy \in Instance
    BY <2>2 DEF Instance
  <2> HIDE DEF copy
  <2>4. stored' \in [Code -> Instance \cup {Absent}]
    BY <1>1, <2>1, <2>3
  <2> QED  BY <1>1, <1>2, <2>1, <2>4, NothingYet, TaskStep
<1> QED  BY <1>3, <1>4, <1>5

-----------------------------------------------------------------------------

LEMMA ClientInv ==
  ASSUME Inv, NEW k \in Client, Notify(k) \/ Poll(k) \/ TimeOut(k)
  PROVE  Inv'
<1>1. /\ UNCHANGED <<serverVars, policy, revisions, stored, cloud, updateChan, enforcerVars,
                     updaterVars, faults>>
      /\ enforceChan' = enforceChan \/ (enforceChan < EnforceCap /\ enforceChan' = enforceChan + 1)
  BY DEF Notify, Poll, TimeOut, chanVars, storeVars
<1>2. enforceChan' \in 0..EnforceCap /\ policy' \in PolicyStep
  BY <1>1, ServerAssumption DEF Inv, TypeOK, PolicyStep
<1>3. client \in [Client -> ClientRecord] /\ client[k] \in ClientRecord
  BY DEF Inv, TypeOK
<1>4. /\ client' \in [Client -> ClientRecord]
      /\ client'[k].revision = client[k].revision
      /\ client'[k].step \in {client[k].step, "completed", "failed"}
      /\ client'[k].step = "completed" => client[k].step = "completed" \/ Poll(k)
      /\ \A l \in Client \ {k} : client'[l] = client[l]
  <2>1. CASE Notify(k)
    BY <1>3, <2>1 DEF Notify, ClientRecord
  <2>2. CASE Poll(k)
    BY <1>3, <2>2 DEF Poll, ClientRecord
  <2>3. CASE TimeOut(k)
    BY <1>3, <2>3 DEF TimeOut, ClientRecord
  <2> QED  BY <2>1, <2>2, <2>3
<1>5. ASSUME Poll(k), NEW i \in 1..client[k].revision PROVE IsApplied(i)
  <2> DEFINE n == client[k].revision
  <2>1. /\ n \in Nat /\ n >= 1 /\ n <= Len(revisions) /\ revisions[n].status = "completed"
    BY <1>3, <1>5 DEF Poll, Inv, ClientsInv, TypeOK, ClientRecord
  <2>2. n \in DOMAIN revisions /\ i \in DOMAIN revisions /\ (i = n \/ i < n)
    BY <1>5, <2>1, RevisionFacts DEF Inv
  <2> QED  BY <2>1, <2>2 DEF Inv, RevisionsInv, IsApplied
<1>6. CompletedIsApplied'
  <2>1. \A i : IsApplied(i)' <=> IsApplied(i)
    BY <1>1 DEF IsApplied
  <2>2. ASSUME NEW l \in Client, client'[l].step = "completed",
               NEW i \in 1..client'[l].revision
        PROVE  IsApplied(i)
    <3>1. CASE client[l].step = "completed"
      <4>1. client'[l].revision = client[l].revision
        BY <1>4
      <4> QED  BY <2>2, <3>1, <4>1 DEF Inv, ClientsInv, CompletedIsApplied
    <3>2. CASE client[l].step # "completed"
      <4>1. l = k /\ Poll(k)
        BY <1>4, <2>2, <3>2
      <4> QED  BY <1>4, <1>5, <2>2, <4>1
    <3> QED  BY <3>1, <3>2
  <2> QED  BY <2>1, <2>2 DEF CompletedIsApplied
<1>7. \A l \in Client :
        /\ client'[l].revision = client[l].revision
        /\ client'[l].step \in {"revision", "polling"} => client[l].step = client'[l].step
  BY <1>4
<1> QED  BY <1>1, <1>2, <1>4, <1>6, <1>7, ClientStep

LEMMA StutterInv ==
  ASSUME Inv, UNCHANGED vars
  PROVE  Inv'
<1>1. UNCHANGED <<disabled, server, http, policy, revisions, stored, cloud, cur, success, work,
                  task, client, enforcer, updater, enforceChan, updateChan, faults>>
  BY DEF vars, serverVars, storeVars, chanVars, enforcerVars, updaterVars
<1> QED  BY <1>1, ControlInv DEF Inv, TypeOK, ServerStep, PolicyStep

LEMMA NextInv == Inv /\ [Next]_vars => Inv'
<1> SUFFICES ASSUME Inv, [Next]_vars PROVE Inv'
  OBVIOUS
<1>1. CASE Main
  BY <1>1, InitPolicyInv, MainInv DEF Main
<1>2. CASE Enforce
  BY <1>2, StartPassInv, CallPluginInv, PluginFailsInv, LoadInv, SaveInv, FinishInv, LoopsInv
     DEF Enforce
<1>3. CASE Refresh
  BY <1>3, StartRefreshInv, TasksInv, LoopsInv DEF Refresh
<1>4. CASE Handle
  BY <1>4, SaveRevisionInv, SaveDesiredStateInv DEF Handle
<1>5. CASE Environment
  BY <1>5, MainInv, RestartInv, ChangePolicyInv, ClientInv DEF Environment
<1>6. CASE UNCHANGED vars
  BY <1>6, StutterInv
<1> QED  BY <1>1, <1>2, <1>3, <1>4, <1>5, <1>6 DEF Next

LEMMA AlwaysInv == Spec => []Inv
BY InitInv, NextInv, PTL DEF Spec

-----------------------------------------------------------------------------

(* The variables keep their types, whichever loop overwrites whose         *)
(* instance and wherever the server dies: in particular the store only     *)
(* holds whole instances, and neither channel more than its capacity.      *)
THEOREM TypeCorrect == Spec => []TypeOK
<1>1. Inv => TypeOK
  BY DEF Inv
<1> QED  BY <1>1, AlwaysInv, PTL

(* What aptomictl reports as completed has been applied, with all that     *)
(* came before it, although the enforcer sets the status of a revision it  *)
(* retries back and the server may die at any time (common.go:59).         *)
THEOREM ReportedIsApplied == Spec => []CompletedIsApplied
<1>1. Inv => CompletedIsApplied
  BY DEF Inv, ClientsInv
<1> QED  BY <1>1, AlwaysInv, PTL

-----------------------------------------------------------------------------
(* The two loops never wait for ever.                                      *)

(* The enforcer can go on with the action on c: it has a plugin to call,   *)
(* gets the mutex of its updater, or holds it.                             *)
ActionReady(c) ==
  \/ work[c].op \in {"create", "update", "delete"} /\ work[c].step = "todo"
  \/ /\ \/ work[c].op \in {"attach", "detach"} /\ work[c].step = "todo"
        \/ work[c].op = "update" /\ work[c].step = "called"
     /\ \A d \in Code : work[d].step # "loaded"
  \/ work[c].op \in {"create", "delete"} /\ work[c].step = "called"
  \/ work[c].op \in {"update", "attach", "detach"} /\ work[c].step = "loaded"

EnforcerReady ==
  \/ enforcer \in {"pass", "waiting"}
  \/ enforcer = "applying" /\ \A c \in Code : work[c].op = "none"
  \/ enforcer = "applying" /\ \E c \in Code : ActionReady(c)
  \/ enforcer = "notifySelf" /\ enforceChan < EnforceCap
  \/ enforcer = "notifyUpdater" /\ updateChan < UpdateCap

(* The same of the actual state updater: a place in the semaphore to ask   *)
(* for endpoints, the mutex to load, nothing to save.                      *)
UpdaterReady ==
  \/ updater \in {"pass", "waiting"}
  \/ updater = "refreshing" /\ \A c \in Code : task[c].step = "none"
  \/ /\ updater = "refreshing"
     /\ \E c \in Code :
          \/ task[c].step = "todo" /\ Cardinality(Busy) < MaxConcurrentActions
          \/ task[c].step = "asked" /\ \A d \in Code : task[d].step # "loaded"
          \/ task[c].step = "loaded"

(* The request has made its revision and has been answered.                *)
Handled(k) ==
  client[k].step \in {"polling", "completed", "failed"} /\ client[k].revision # 0

(* The requests whose message has been sent, or lost with a server.        *)
Answered == {k \in Client : Handled(k) /\ ~client[k].handling}

(* The updater can always go on. The enforcer can, unless the channel of   *)
(* the updater is full, or its own, which nobody else empties: that takes  *)
(* as many requests as the channel holds, as no more than one message in   *)
(* it is the enforcer's when it sends the next.                            *)
LoopsGoOn ==
  /\ Running("updater") => UpdaterReady
  /\ Running("enforcer") =>
       \/ EnforcerReady
       \/ enforcer = "notifyUpdater" /\ updateChan = UpdateCap
       \/ WaitsForItself /\ Cardinality(Answered) >= EnforceCap

(* The steps of each kind of action.                                       *)
StepsInv ==
  \A c \in Code :
    /\ work[c].step = "called" => work[c].op \in {"create", "update", "delete"}
    /\ work[c].step = "loaded" => work[c].op \in {"update", "attach", "detach"}

(* There is a message of each of them in the channel at most, and one that *)
(* the enforcer has sent itself since it last took one, or will send.      *)
RoomInv ==
  /\ \A k \in Client : client[k].handling => Handled(k)
  /\ enforceChan <= Cardinality(Answered) + 1
  /\ enforcer \in {"pass", "applying", "notifySelf"} => enforceChan <= Cardinality(Answered)

LEMMA WorkStepsInv ==
  ASSUME TypeOK, StepsInv, NEW c \in Code,
         CallPlugin(c) \/ PluginFails(c) \/ Load(c) \/ Save(c)
  PROVE  StepsInv'
<1>1. work[c] \in WorkRecord /\ work \in [Code -> WorkRecord]
  BY DEF TypeOK
<1>2. NoWork.op = "none" /\ NoWork.step = "todo"
  BY DEF NoWork
<1>3. ASSUME NEW w \in WorkRecord, work' = [work EXCEPT ![c] = w],
             w.step = "called" => w.op \in {"create", "update", "delete"},
             w.step = "loaded" => w.op \in {"update", "attach", "detach"}
      PROVE  StepsInv'
  BY <1>1, <1>3 DEF StepsInv
<1>4. NoWork \in WorkRecord
  BY NothingYet
<1>5. CASE CallPlugin(c)
  <2> DEFINE w == [work[c] EXCEPT !.step = "called"]
  <2>1. w \in WorkRecord /\ w.step = "called" /\ w.op = work[c].op
    BY <1>1 DEF WorkRecord
  <2>2. work' = [work EXCEPT ![c] = w] /\ work[c].op \in {"create", "update", "delete"}
    BY <1>5 DEF CallPlugin, At
  <2> HIDE DEF w
  <2> QED BY <1>3, <2>1, <2>2
<1>6. CASE work' = [work EXCEPT ![c] = NoWork]
  BY <1>2, <1>3, <1>4, <1>6
<1>7. CASE Load(c) /\ stored[c] # Absent
  <2> DEFINE w == [work[c] EXCEPT !.step = "loaded", !.copy = stored[c]]
  <2>1. stored[c] \in Instance
    BY <1>7 DEF TypeOK
  <2>2. w \in WorkRecord /\ w.step = "loaded" /\ w.op = work[c].op
    BY <1>1, <2>1 DEF WorkRecord
  <2>3. work' = [work EXCEPT ![c] = w] /\ work[c].op \in {"update", "attach", "detach"}
    BY <1>7 DEF Load, At
  <2> HIDE DEF w
  <2> QED BY <1>3, <2>2, <2>3
<1>8. CASE Save(c)
  <2>1. PICK op \in NextOps(c) : work' = [work EXCEPT ![c] = [NoWork EXCEPT !.op = op]]
    BY <1>8 DEF Save
  <2> DEFINE w == [NoWork EXCEPT !.op = op]
  <2>2. w \in WorkRecord /\ w.step = "todo"
    BY NextOpsFacts DEF NoWork, WorkRecord
  <2> HIDE DEF w
  <2>3. work' = [work EXCEPT ![c] = w]
    BY <2>1 DEF w
  <2> QED BY <1>3, <2>2, <2>3
<1> QED BY <1>5, <1>6, <1>7, <1>8 DEF PluginFails, ActionFails, Load

LEMMA NextStepsInv == Inv /\ StepsInv /\ [Next]_vars => StepsInv'
<1> SUFFICES ASSUME Inv, StepsInv, [Next]_vars PROVE StepsInv'
  OBVIOUS
<1>1. TypeOK
  BY DEF Inv
<1>2. CASE UNCHANGED work
  BY <1>2 DEF StepsInv
<1>3. CASE StartPass
  <2>1. work' \in [Code -> {[NoWork EXCEPT !.op = op] : op \in WorkOp}]
    BY <1>3 DEF StartPass
  <2>2. \A c \in Code : work'[c].step = "todo"
    <3>1. \A op \in WorkOp : [NoWork EXCEPT !.op = op].step = "todo"
      BY DEF NoWork
    <3>2. ASSUME NEW c \in Code PROVE work'[c].step = "todo"
      <4>1. PICK op \in WorkOp : work'[c] = [NoWork EXCEPT !.op = op]
        BY <2>1
      <4> QED BY <3>1, <4>1
    <3> QED BY <3>2
  <2> QED BY <2>2 DEF StepsInv
<1>4. CASE \E c \in Code : CallPlugin(c) \/ PluginFails(c) \/ Load(c) \/ Save(c)
  BY <1>1, <1>4, WorkStepsInv
<1>5. CASE Restart
  BY <1>5 DEF Restart, NoWork, StepsInv
<1>6. CASE Main \/ Refresh \/ Handle
  BY <1>2, <1>6 DEF Main, InitPolicy, StartJobs, Wait, Refresh, StartRefresh, AskEndpoints,
     LoadForEndpoints, SaveEndpoints, RefreshDone, UpdaterNotified, UpdaterTimer, Handle,
     SaveRevision, SaveDesiredState, enforcerVars
<1>7. CASE EndPass \/ Finish \/ NotifySelf \/ NotifyUpdater \/ EnforcerNotified \/ EnforcerTimer
  BY <1>2, <1>7 DEF EndPass, Finish, NotifySelf, NotifyUpdater, EnforcerNotified, EnforcerTimer,
     enforcerVars
<1>8. CASE Environment /\ ~Restart
  BY <1>2, <1>8 DEF Environment, HTTPFails, Killed, ChangePolicy, RequestFails, Notify, Poll,
     TimeOut, enforcerVars
<1>9. CASE UNCHANGED vars
  BY <1>2, <1>9 DEF vars, enforcerVars
<1> QED BY <1>3, <1>4, <1>5, <1>6, <1>7, <1>8, <1>9 DEF Next, Enforce

(* A message more in the channel is the message of one client more.        *)
LEMMA AnsweredFacts ==
  /\ IsFiniteSet(Answered) /\ Cardinality(Answered) \in Nat
  /\ Cardinality(Answered) <= Cardinality(Client)
BY ServerAssumption, FS_Subset, FS_CardinalityType DEF Answered

LEMMA InitLoops == Init => StepsInv /\ RoomInv
<1> SUFFICES ASSUME Init PROVE StepsInv /\ RoomInv
  OBVIOUS
<1>1. StepsInv
  BY DEF Init, StepsInv, NoWork
<1>2. enforceChan = 0 /\ \A k \in Client : client[k].handling = FALSE
  BY DEF Init
<1>3. RoomInv
  BY <1>2, AnsweredFacts DEF RoomInv
<1> QED BY <1>1, <1>3

LEMMA RoomKept ==
  ASSUME RoomInv, TypeOK, enforceChan' = enforceChan, Answered \subseteq Answered',
         \A k \in Client : client'[k].handling => Handled(k)',
         enforcer' \in {"pass", "applying", "notifySelf"} =>
           enforcer \in {"pass", "applying", "notifySelf"}
  PROVE  RoomInv'
<1> DEFINE n == Cardinality(Answered)
           m == Cardinality(Answered')
<1>1. n \in Nat /\ m \in Nat /\ n <= m
  <2>1. Answered' \in SUBSET Client
    BY DEF Answered
  <2>2. IsFiniteSet(Answered')
    BY <2>1, ServerAssumption, FS_Subset
  <2> QED BY <2>2, FS_Subset, FS_CardinalityType
<1>2. enforceChan \in Nat
  BY ServerAssumption DEF TypeOK
<1>3. enforceChan <= n + 1 /\ (enforcer \in {"pass", "applying", "notifySelf"} => enforceChan <= n)
  BY DEF RoomInv
<1> HIDE DEF n, m
<1>4. /\ enforceChan <= m + 1
      /\ enforcer \in {"pass", "applying", "notifySelf"} => enforceChan <= m
  BY <1>1, <1>2, <1>3
<1>5. Cardinality(Answered)' = m
  BY DEF m
<1> QED BY <1>4, <1>5 DEF RoomInv

LEMMA LoopsRoomInv ==
  ASSUME Inv, RoomInv, NotifySelf \/ EnforcerNotified \/ EnforcerTimer
  PROVE  RoomInv'
<1> DEFINE n == Cardinality(Answered)
<1>1. n \in Nat /\ enforceChan \in Nat
  BY AnsweredFacts, ServerAssumption DEF Inv, TypeOK
<1>2. client' = client
  BY DEF NotifySelf, EnforcerNotified, EnforcerTimer
<1>3. Answered' = Answered /\ \A k \in Client : client'[k].handling => Handled(k)'
  BY <1>2 DEF Answered, Handled, RoomInv
<1>4. n' = n
  BY <1>3
<1>5. CASE NotifySelf
  <2>1. enforcer = "notifySelf" /\ enforceChan' = enforceChan + 1 /\ enforcer' = "notifyUpdater"
    BY <1>5 DEF NotifySelf
  <2>2. enforceChan <= n
    BY <2>1 DEF RoomInv
  <2> HIDE DEF n
  <2>3. enforceChan' <= n' + 1
    BY <1>1, <1>4, <2>1, <2>2
  <2> QED BY <1>3, <2>1, <2>3 DEF RoomInv, n
<1>6. CASE EnforcerNotified
  <2>1. enforcer = "waiting" /\ enforceChan' = enforceChan - 1 /\ enforcer' = "pass"
    BY <1>6 DEF EnforcerNotified
  <2>2. enforceChan <= n + 1
    BY <2>1 DEF RoomInv
  <2> HIDE DEF n
  <2>3. enforceChan' <= n' /\ enforceChan' <= n' + 1
    BY <1>1, <1>4, <2>1, <2>2
  <2> QED BY <1>3, <2>1, <2>3 DEF RoomInv, n
<1>7. CASE EnforcerTimer
  <2>1. enforceChan' = 0 /\ enforcer' = "pass"
    BY <1>7 DEF EnforcerTimer, chanVars
  <2> HIDE DEF n
  <2>2. enforceChan' <= n' /\ enforceChan' <= n' + 1
    BY <1>1, <1>4, <2>1
  <2> QED BY <1>3, <2>1, <2>2 DEF RoomInv, n
<1> QED BY <1>5, <1>6, <1>7

LEMMA NotifyRoomInv ==
  ASSUME Inv, RoomInv, NEW k \in Client, Notify(k)
  PROVE  RoomInv'
<1>1. /\ client[k].handling /\ client' = [client EXCEPT ![k].handling = FALSE]
      /\ enforceChan' = enforceChan + 1 /\ enforcer' = enforcer
  BY DEF Notify, enforcerVars
<1>2. client \in [Client -> ClientRecord] /\ client[k] \in ClientRecord
  BY DEF Inv, TypeOK
<1>3. /\ client'[k].handling = FALSE /\ client'[k].step = client[k].step
      /\ client'[k].revision = client[k].revision
      /\ \A l \in Client \ {k} : client'[l] = client[l]
  BY <1>1, <1>2 DEF ClientRecord
<1>4. \A l \in Client : Handled(l)' <=> Handled(l)
  BY <1>3 DEF Handled
<1>5. k \notin Answered /\ Answered' = Answered \cup {k}
  BY <1>1, <1>3, <1>4 DEF Answered, RoomInv
<1>6. \A l \in Client : client'[l].handling => Handled(l)'
  BY <1>3, <1>4 DEF RoomInv
<1> DEFINE n == Cardinality(Answered)
<1>7. Cardinality(Answered') = n + 1
  <2>1. Cardinality(Answered \cup {k}) = n + 1
    BY <1>5, AnsweredFacts, FS_AddElement
  <2> QED BY <1>5, <2>1
<1>8. n \in Nat /\ enforceChan \in Nat /\ n' = n + 1
  BY <1>7, AnsweredFacts, ServerAssumption DEF Inv, TypeOK
<1>9. /\ enforceChan <= n + 1 => enforceChan' <= n' + 1
      /\ enforceChan <= n => enforceChan' <= n'
  BY <1>1, <1>8
<1> QED BY <1>1, <1>6, <1>9 DEF RoomInv

LEMMA ClientRoomInv ==
  ASSUME Inv, RoomInv, NEW k \in Client,
         \/ ChangePolicy(k) \/ RequestFails(k) \/ SaveRevision(k) \/ SaveDesiredState(k)
         \/ Poll(k) \/ TimeOut(k)
  PROVE  RoomInv'
<1>1. client \in [Client -> ClientRecord] /\ client[k] \in ClientRecord
  BY DEF Inv, TypeOK
<1>2. enforcer' = enforcer /\ enforceChan' = enforceChan
  BY DEF ChangePolicy, RequestFails, SaveRevision, SaveDesiredState, Poll, TimeOut, enforcerVars,
         chanVars
<1>3. \A l \in Client : l # k => client'[l] = client[l]
  BY <1>1 DEF ChangePolicy, RequestFails, SaveRevision, SaveDesiredState, Poll, TimeOut
<1>4. \/ /\ client[k].step \in {"idle", "policy"} /\ client'[k].handling = client[k].handling
      \/ /\ client[k].step = "revision" /\ client'[k].step = "polling"
         /\ client'[k].revision = client[k].revision
      \/ /\ client[k].step = "polling" /\ client'[k].step \in {"completed", "failed"}
         /\ client'[k].revision = client[k].revision
         /\ client'[k].handling = client[k].handling
  <2>1. CASE ChangePolicy(k) \/ RequestFails(k)
    BY <1>1, <2>1 DEF ChangePolicy, RequestFails, ClientRecord
  <2>2. CASE SaveRevision(k)
    BY <1>1, <2>2 DEF SaveRevision, ClientRecord
  <2>3. CASE SaveDesiredState(k)
    BY <1>1, <2>3 DEF SaveDesiredState, ClientRecord
  <2>4. CASE Poll(k) \/ TimeOut(k)
    BY <1>1, <2>4 DEF Poll, TimeOut, ClientRecord
  <2> QED BY <2>1, <2>2, <2>3, <2>4
<1>5. client[k].step \in {"revision", "polling"} => client[k].revision # 0
  BY <1>1 DEF Inv, ClientsInv, ClientRecord
<1>6. client'[k].handling => Handled(k)'
  BY <1>4, <1>5 DEF RoomInv, Handled
<1>7. \A l \in Client : client'[l].handling => Handled(l)'
  BY <1>3, <1>6 DEF RoomInv, Handled
<1>8. Answered \subseteq Answered'
  <2>1. ASSUME k \in Answered PROVE k \in Answered'
    BY <1>4, <2>1 DEF Answered, Handled
  <2>2. ASSUME NEW l \in Answered, l # k PROVE l \in Answered'
    BY <1>3, <2>2 DEF Answered, Handled
  <2> QED BY <2>1, <2>2
<1> QED BY <1>2, <1>7, <1>8, RoomKept DEF Inv

LEMMA NextRoomInv == Inv /\ RoomInv /\ [Next]_vars => RoomInv'
<1> SUFFICES ASSUME Inv, RoomInv, [Next]_vars PROVE RoomInv'
  OBVIOUS
<1>1. CASE /\ UNCHANGED <<enforceChan, client>>
           /\ enforcer' \in {"pass", "applying", "notifySelf"} =>
                enforcer \in {"pass", "applying", "notifySelf"}
  <2>1. Answered' = Answered /\ \A k \in Client : client'[k].handling => Handled(k)'
    BY <1>1 DEF Answered, Handled, RoomInv
  <2> QED BY <1>1, <2>1, RoomKept DEF Inv
<1>2. CASE Main \/ Refresh
  BY <1>1, <1>2 DEF Main, InitPolicy, StartJobs, Wait, Refresh, StartRefresh, AskEndpoints,
     LoadForEndpoints, SaveEndpoints, RefreshDone, UpdaterNotified, UpdaterTimer,
     enforcerVars, chanVars
<1>3. CASE \E c \in Code : CallPlugin(c) \/ PluginFails(c) \/ Load(c) \/ Save(c)
  BY <1>1, <1>3 DEF CallPlugin, PluginFails, Load, Save, chanVars
<1>4. CASE StartPass \/ EndPass \/ Finish \/ NotifyUpdater
  BY <1>1, <1>4 DEF StartPass, EndPass, Finish, NotifyUpdater, chanVars
<1>5. CASE HTTPFails \/ Killed \/ UNCHANGED vars
  BY <1>1, <1>5 DEF HTTPFails, Killed, vars, enforcerVars, chanVars
<1>6. CASE Restart
  <2>1. /\ enforceChan' = 0
        /\ client' = [k \in Client |->
             [client[k] EXCEPT !.step = IF @ \in {"policy", "revision"} THEN "failed" ELSE @,
                               !.handling = FALSE]]
    BY <1>6 DEF Restart
  <2>2. \A k \in Client : client'[k].handling = FALSE
    <3>1. \A k \in Client : client[k] \in ClientRecord
      BY DEF Inv, TypeOK
    <3> QED BY <2>1, <3>1 DEF ClientRecord
  <2>3. Cardinality(Answered') \in Nat
    <3>1. Answered' \in SUBSET Client
      BY DEF Answered
    <3> QED BY <3>1, ServerAssumption, FS_Subset, FS_CardinalityType
  <2> DEFINE n == Cardinality(Answered')
  <2>4. Cardinality(Answered)' = n
    OBVIOUS
  <2> HIDE DEF n
  <2>5. enforceChan' <= n /\ enforceChan' <= n + 1
    <3>1. n \in Nat
      BY <2>3 DEF n
    <3>2. enforceChan' = 0
      BY <2>1
    <3> QED BY ONLY <3>1, <3>2
  <2> QED BY <2>2, <2>4, <2>5 DEF RoomInv
<1> QED BY <1>2, <1>3, <1>4, <1>5, <1>6, LoopsRoomInv, NotifyRoomInv, ClientRoomInv
        DEF Next, Enforce, Environment, Handle

LEMMA SomeActionReady ==
  ASSUME TypeOK, StepsInv, NEW c \in Code, work[c].op # "none"
  PROVE  \E d \in Code : ActionReady(d)
<1>1. \A d \in Code : work[d] \in WorkRecord
  BY DEF TypeOK
<1>2. CASE \E d \in Code : work[d].step = "loaded"
  BY <1>2 DEF StepsInv, ActionReady
<1>3. CASE \A d \in Code : work[d].step # "loaded"
  <2>1. work[c].step \in {"todo", "called"}
    BY <1>1, <1>3 DEF WorkRecord
  <2>2. work[c].op \in {"create", "update", "attach", "detach", "delete"}
    BY <1>1 DEF WorkRecord, WorkOp
  <2>3. ActionReady(c)
    BY <1>3, <2>1, <2>2 DEF ActionReady, StepsInv
  <2> QED BY <2>3
<1> QED BY <1>2, <1>3

LEMMA SomeLoopGoesOn == Inv /\ StepsInv /\ RoomInv => LoopsGoOn
<1> SUFFICES ASSUME Inv, StepsInv, RoomInv PROVE LoopsGoOn
  OBVIOUS
<1>1. TypeOK
  BY DEF Inv
<1>2. UpdaterReady
  <2>1. CASE updater # "refreshing" \/ \A c \in Code : task[c].step = "none"
    BY <1>1, <2>1 DEF TypeOK, UpdaterReady
  <2>2. CASE updater = "refreshing" /\ \E c \in Code : task[c].step # "none"
    <3>1. PICK c \in Code : task[c].step # "none"
      BY <2>2
    <3>2. \A d \in Code : task[d].step \in {"none", "todo", "asked", "loaded"}
      BY <1>1 DEF TypeOK, TaskRecord
    <3>3. CASE \E d \in Code : task[d].step = "loaded"
      BY <2>2, <3>3 DEF UpdaterReady
    <3>4. CASE (\A d \in Code : task[d].step # "loaded") /\ \E d \in Code : task[d].step = "asked"
      BY <2>2, <3>4 DEF UpdaterReady
    <3>5. CASE \A d \in Code : task[d].step \notin {"asked", "loaded"}
      <4>1. Busy = {}
        BY <3>5 DEF Busy
      <4>2. Cardinality(Busy) < MaxConcurrentActions
        <5>1. Cardinality(Busy) = 0
          BY <4>1, FS_EmptySet
        <5>2. MaxConcurrentActions \in Nat /\ MaxConcurrentActions # 0
          BY ServerAssumption
        <5> QED BY <5>1, <5>2
      <4>3. task[c].step = "todo"
        BY <3>1, <3>2, <3>5
      <4> QED BY <2>2, <4>2, <4>3 DEF UpdaterReady
    <3> QED BY <3>3, <3>4, <3>5
  <2> QED BY <2>1, <2>2
<1>3. \/ EnforcerReady
      \/ enforcer = "notifyUpdater" /\ updateChan = UpdateCap
      \/ WaitsForItself /\ Cardinality(Answered) >= EnforceCap
  <2>1. CASE enforcer \in {"pass", "waiting"}
    BY <2>1 DEF EnforcerReady
  <2>2. CASE enforcer = "applying"
    BY <1>1, <2>2, SomeActionReady DEF EnforcerReady
  <2>3. CASE enforcer = "notifySelf"
    <3>1. enforceChan <= Cardinality(Answered) /\ Cardinality(Answered) \in Nat
      BY <2>3, AnsweredFacts DEF RoomInv
    <3>2. enforceChan \in 0..EnforceCap /\ EnforceCap \in Nat
      BY <1>1, ServerAssumption DEF TypeOK
    <3>3. CASE enforceChan < EnforceCap
      BY <2>3, <3>3 DEF EnforcerReady
    <3>4. CASE ~(enforceChan < EnforceCap)
      <4>1. enforceChan = EnforceCap /\ Cardinality(Answered) >= EnforceCap
        BY <3>1, <3>2, <3>4
      <4> QED BY <2>3, <4>1 DEF WaitsForItself
    <3> QED BY <3>3, <3>4
  <2>4. CASE enforcer = "notifyUpdater"
    <3>1. updateChan \in 0..UpdateCap /\ UpdateCap \in Nat
      BY <1>1, ServerAssumption DEF TypeOK
    <3>2. updateChan < UpdateCap \/ updateChan = UpdateCap
      BY <3>1
    <3> QED BY <2>4, <3>2 DEF EnforcerReady
  <2> QED BY <1>1, <2>1, <2>2, <2>3, <2>4 DEF TypeOK
<1> QED BY <1>2, <1>3 DEF LoopsGoOn

(* Neither loop is ever stuck on a mutex or on the semaphore. The enforcer *)
(* is stuck in a send (desired_state_enforcer.go:180-185) in two cases     *)
(* only: the channel of the updater is full, which the updater empties if  *)
(* it runs; or its own channel is, and then for no fewer than EnforceCap   *)
(* requests the message has been sent: a loop that sends itself one        *)
(* message a pass, and takes one for each pass, never fills it alone.      *)
THEOREM LoopsAreNotStuck == Spec => []LoopsGoOn
BY InitInv, NextInv, InitLoops, NextStepsInv, NextRoomInv, SomeLoopGoesOn, PTL DEF Spec

=============================================================================
