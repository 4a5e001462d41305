-------------------------- MODULE DeploymentProofs --------------------------
(***************************************************************************)
(* Proofs of the safety properties of Deployment, for any instances,       *)
(* manifests and resources, any number of passes and requests, and calls   *)
(* that fail at any point.                                                 *)
(***************************************************************************)
EXTENDS Deployment, TLAPS

-----------------------------------------------------------------------------
(* The inductive invariant.                                                *)

Initializing == {"cluster", "cluster run", "open"}

(* sync.Init: who holds the lock is in the initializer, which runs once;   *)
(* what is open was initialised without an error; a code plugin is only    *)
(* open over a cluster plugin that is.                                     *)
RegistryInv ==
  /\ \A p \in {"cluster", "helm", "raw"} :
       /\ once[p].runs = IF once[p].done \/ once[p].holder # "nobody" THEN 1 ELSE 0
       /\ once[p].done => once[p].holder = "nobody"
       /\ once[p].open <=> once[p].done /\ ~once[p].err
       /\ once[p].open => once["cluster"].open
  /\ \A i \in Instances :
       /\ once["cluster"].holder = i <=> At(i, "cluster run")
       /\ once[CodeType[i]].holder = i <=> pc[i] \in Initializing
       /\ At(i, "open") => once["cluster"].done
       /\ pc[i] \in Calls => once[CodeType[i]].open
  /\ \A p \in {"helm", "raw"}, i \in Instances :
       once[p].holder = i => CodeType[i] = p

(* What is recorded when the operation of an instance succeeds.            *)
Target(i) == IF Deletes(i) THEN None ELSE op[i].manifest

Resources(m) == IF m = None THEN {} ELSE ResourcesOf[m]

IsDeployed(i, m) ==
  CASE CodeType[i] = "helm" -> release[i] = m
    [] CodeType[i] = "raw" -> stored[i] = m /\ Resources(m) \subseteq objects[i]

(* The calls of an operation are those of its kind and type of code, and   *)
(* each has what the ones before it have left. A drop makes none.          *)
CallsInv(i) ==
  /\ pc[i] \in {"plugin"} \cup Initializing \cup Calls =>
       op[i].kind \in {"create", "update", "destroy"}
  /\ At(i, "detach") => op[i].kind \in {"destroy", "drop", "stuck"}
  /\ pc[i] \in {"prepare", "install", "upgrade", "purge"} => CodeType[i] = "helm"
  /\ pc[i] \in {"create", "load", "update", "store", "delete", "unstore"} =>
       CodeType[i] = "raw"
  /\ pc[i] \in {"prepare", "install", "upgrade", "store"} =>
       op[i].kind \in {"create", "update"}
  /\ At(i, "create") => op[i].kind = "create"
  /\ pc[i] \in {"load", "update"} => op[i].kind = "update"
  /\ pc[i] \in {"purge", "delete", "unstore"} => op[i].kind = "destroy"
  /\ At(i, "update") => stored[i] # None
  /\ At(i, "store") => ResourcesOf[op[i].manifest] \subseteq objects[i]
  /\ At(i, "record") /\ op[i].kind # "drop" => IsDeployed(i, Target(i))
  /\ At(i, "off") /\ outcome[i] = "ok" => IsDeployed(i, recorded[i])

(* An instance of k8sraw of which nothing has failed has the resources of  *)
(* what is recorded, up to the call that replaces them by those of the     *)
(* target of its operation.                                                *)
NothingFailed(i) ==
  /\ op[i].kind = "create" => recorded[i] = None
  /\ op[i].kind = "destroy" => recorded[i] = op[i].manifest
  /\ op[i].kind = "drop" \/ pc[i] \notin {"store", "unstore", "record"} =>
       stored[i] = recorded[i] /\ objects[i] = Resources(recorded[i])
  /\ op[i].kind # "drop" /\ pc[i] \in {"store", "unstore", "record"} =>
       objects[i] = Resources(Target(i))

InstanceInv(i) ==
  CallsInv(i) /\ (CodeType[i] = "raw" /\ i \notin tainted => NothingFailed(i))

(* What an error has not made worthless: the answers that are still to be  *)
(* given, and those given so far, make up the instances asked about.       *)
AskedAbout == {i \in Instances : request.actual[i] # None}

RequestInv ==
  /\ request.state # "asking" => request.found = {} /\ request.todo = {}
  /\ request.state = "asking" =>
       /\ request.kind = "status" /\ request.ready => request.desired = request.actual
       /\ /\ ~request.failed
          /\ request.kind = "resources" \/ request.ready
          => request.found \cup request.todo = AskedAbout

Inv == TypeOK /\ RegistryInv /\ (\A i \in Instances : InstanceInv(i)) /\ RequestInv

-----------------------------------------------------------------------------
(* Operators.                                                              *)

LEMMA ManifestResources ==
  \A m \in Manifests : /\ m # None
                       /\ ResourcesOf[m] \subseteq UNION Range(ResourcesOf)
                       /\ Resources(m) = ResourcesOf[m]
BY PluginsAssumption DEF Manifests, Range, Resources

(* A goroutine that works has an operation with a manifest.                *)
LEMMA OperationAtWork ==
  ASSUME TypeOK, NEW i \in Instances, pc[i] # "off"
  PROVE  /\ op[i].kind \in {"create", "update", "destroy", "drop", "stuck"}
         /\ op[i].manifest \in Manifests
BY DEF TypeOK, At

LEMMA FirstCallOfKind ==
  ASSUME NEW i \in Instances, InstanceInv(i), pc[i] \in {"plugin"} \cup Initializing
  PROVE  /\ FirstCall(i) \in {"prepare", "purge", "create", "load", "delete"}
         /\ FirstCall(i) \in {"prepare", "purge"} <=> CodeType[i] = "helm"
         /\ FirstCall(i) = "prepare" => op[i].kind \in {"create", "update"}
         /\ FirstCall(i) = "create" => op[i].kind = "create"
         /\ FirstCall(i) = "load" => op[i].kind = "update"
         /\ FirstCall(i) \in {"purge", "delete"} => op[i].kind = "destroy"
<1>1. op[i].kind \in {"create", "update", "destroy"} /\ CodeType[i] \in {"helm", "raw"}
  BY PluginsAssumption DEF InstanceInv, CallsInv
<1>2. CASE CodeType[i] = "helm"
  BY <1>1, <1>2 DEF FirstCall
<1>3. CASE CodeType[i] = "raw"
  BY <1>1, <1>3 DEF FirstCall
<1> QED  BY <1>1, <1>2, <1>3

(* What is said of an instance only depends on what concerns it.           *)
LEMMA InstanceFrame ==
  ASSUME NEW j \in Instances, InstanceInv(j),
         pc'[j] = pc[j], op'[j] = op[j], release'[j] = release[j],
         objects'[j] = objects[j], stored'[j] = stored[j],
         recorded'[j] = recorded[j], outcome'[j] = outcome[j],
         j \in tainted => j \in tainted'
  PROVE  InstanceInv(j)'
<1>1. IsDeployed(j, Target(j))' <=> IsDeployed(j, Target(j))
  BY DEF IsDeployed, Target, Deletes, Resources
<1>2. IsDeployed(j, recorded[j])' <=> IsDeployed(j, recorded[j])
  BY DEF IsDeployed, Resources
<1>3. CallsInv(j)'
  BY <1>1, <1>2 DEF InstanceInv, CallsInv, At
<1>4. CodeType[j] = "raw" /\ j \notin tainted' => NothingFailed(j)'
  BY DEF InstanceInv, NothingFailed, Target, Deletes, Resources
<1> QED  BY <1>3, <1>4 DEF InstanceInv

-----------------------------------------------------------------------------

LEMMA InitInv == Init => Inv
<1> SUFFICES ASSUME Init PROVE Inv
  OBVIOUS
<1>1. PICK m \in Manifests : desired = [i \in Instances |-> m]
  BY DEF Init
<1>2. /\ recorded = [i \in Instances |-> m] /\ used = Instances /\ upToDate = Instances
      /\ finds = [i \in Instances |-> "plugin"] /\ loaded = [i \in Instances |-> NotLoaded]
      /\ outcome = [i \in Instances |-> "ok"] /\ request = Idle
      /\ pc = [i \in Instances |-> "off"] /\ op = [i \in Instances |-> NoOp]
      /\ once = NewRegistry /\ tainted = {}
  BY <1>1 DEF Init, PluginsInit
<1>3. /\ release = [i \in Instances |-> IF CodeType[i] = "helm" THEN m ELSE None]
      /\ stored = [i \in Instances |-> IF CodeType[i] = "raw" THEN m ELSE None]
      /\ objects = [i \in Instances |-> Resources(stored[i])]
  BY <1>2 DEF Init, PluginsInit, Resources
<1>4. m # None /\ ResourcesOf[m] \subseteq UNION Range(ResourcesOf) /\ Resources(m) = ResourcesOf[m]
  BY ManifestResources
<1>5. TypeOK
  <2>1. request \in
          [state : {"idle", "desired", "asking"}, kind : {"status", "resources"},
           desired : [Instances -> Manifests \cup {None}], code : SUBSET Instances,
           actual : [Instances -> Manifests \cup {None}],
           todo : SUBSET Instances, ready : BOOLEAN, found : SUBSET Instances,
           failed : BOOLEAN]
    BY <1>2 DEF Idle, Nothing
  <2>2. once \in [{"cluster", "helm", "raw"} -> SyncInit]
    BY <1>2 DEF NewRegistry, NewInit, SyncInit
  <2>3. objects \in [Instances -> SUBSET UNION Range(ResourcesOf)]
    BY <1>3, <1>4 DEF Resources
  <2>4. /\ release \in [Instances -> Manifests \cup {None}]
        /\ stored \in [Instances -> Manifests \cup {None}]
        /\ desired \in [Instances -> Manifests \cup {None}]
        /\ recorded \in [Instances -> Manifests \cup {None}]
    BY <1>1, <1>2, <1>3
  <2>5. \A i \in Instances : At(i, "off") <=> op[i] = NoOp
    BY <1>2 DEF At
  <2>6. used \cup upToDate \subseteq {i \in Instances : recorded[i] # None}
    BY <1>2, <1>4
  <2> QED  BY <1>2, <2>1, <2>2, <2>3, <2>4, <2>5, <2>6 DEF TypeOK
<1>6. RegistryInv
  BY <1>2, PluginsAssumption DEF RegistryInv, NewRegistry, NewInit, At, Initializing, Calls
<1>7. ASSUME NEW i \in Instances PROVE InstanceInv(i)
  <2>1. CASE CodeType[i] = "helm"
    BY <1>2, <1>3, <2>1 DEF InstanceInv, CallsInv, IsDeployed, At, Initializing, Calls
  <2>2. CASE CodeType[i] = "raw"
    <3>1. pc[i] = "off" /\ stored[i] = m /\ objects[i] = Resources(m) /\ recorded[i] = m
      BY <1>2, <1>3, <2>2
    <3>2. op[i].kind = "none"
      BY <1>2 DEF NoOp
    <3> QED
      BY <2>2, <3>1, <3>2 DEF InstanceInv, CallsInv, IsDeployed, NothingFailed, At,
                              Initializing, Calls
  <2> QED  BY <2>1, <2>2, PluginsAssumption
<1>8. RequestInv
  BY <1>2 DEF RequestInv, Idle
<1> QED  BY <1>5, <1>6, <1>7, <1>8 DEF Inv

-----------------------------------------------------------------------------
(* Initialisation.                                                         *)

(* A step towards the first call of an operation, up to what it does to    *)
(* the registry.                                                           *)
LEMMA TowardsFirstCall ==
  ASSUME Inv, NEW i \in Instances, pc[i] \in {"plugin"} \cup Initializing,
         NEW to \in {"failed", FirstCall(i)} \cup Initializing, Goto(i, to),
         once' \in [{"cluster", "helm", "raw"} -> SyncInit],
         RegistryInv',
         UNCHANGED <<op, release, objects, stored, tainted, desired, finds,
                     recorded, used, upToDate, loaded, outcome, request>>
  PROVE  Inv'
<1>1. TypeOK /\ pc[i] # "off"
  BY DEF Inv, Initializing
<1>2. /\ FirstCall(i) \in {"prepare", "purge", "create", "load", "delete"}
      /\ FirstCall(i) \in {"prepare", "purge"} <=> CodeType[i] = "helm"
      /\ FirstCall(i) = "prepare" => op[i].kind \in {"create", "update"}
      /\ FirstCall(i) = "create" => op[i].kind = "create"
      /\ FirstCall(i) = "load" => op[i].kind = "update"
      /\ FirstCall(i) \in {"purge", "delete"} => op[i].kind = "destroy"
  BY FirstCallOfKind DEF Inv
<1>3. /\ pc' = [pc EXCEPT ![i] = to] /\ pc'[i] = to
      /\ \A j \in Instances \ {i} : pc'[j] = pc[j]
      /\ to \in {"failed", "prepare", "purge", "create", "load", "delete"} \cup Initializing
  BY <1>1, <1>2 DEF Goto, TypeOK
<1>4. TypeOK'
  <2>1. pc' \in [Instances -> Calls \cup {"off", "detach", "plugin", "cluster", "cluster run",
                                          "open", "record", "failed"}]
    BY <1>1, <1>3 DEF TypeOK, Calls, Initializing
  <2>2. \A j \in Instances : (At(j, "off") <=> op[j] = NoOp)'
    BY <1>1, <1>3 DEF TypeOK, At, Initializing
  <2> QED  BY <1>1, <2>1, <2>2 DEF TypeOK
<1>5. InstanceInv(i)'
  <2>1. InstanceInv(i)
    BY DEF Inv
  <2>2. CallsInv(i)'
    <3>1. CodeType[i] \in {"helm", "raw"}
      BY PluginsAssumption
    <3>2. CASE to \in {"failed"} \cup Initializing
      <4>1. op[i].kind \in {"create", "update", "destroy"}
        BY <2>1 DEF InstanceInv, CallsInv
      <4> QED  BY <1>3, <3>2, <4>1 DEF CallsInv, At, Initializing, Calls
    <3>3. CASE to = FirstCall(i)
      <4>1. op[i].kind \in {"create", "update", "destroy"}
        BY <2>1 DEF InstanceInv, CallsInv
      <4> QED  BY <1>2, <1>3, <3>1, <3>3, <4>1 DEF CallsInv, At, Initializing, Calls
    <3> QED  BY <3>2, <3>3
  <2>3. CodeType[i] = "raw" /\ i \notin tainted' => NothingFailed(i)'
    BY <1>3, <2>1 DEF InstanceInv, NothingFailed, Resources, Target, Deletes, Initializing
  <2> QED  BY <2>2, <2>3 DEF InstanceInv
<1>6. ASSUME NEW j \in Instances PROVE InstanceInv(j)'
  <2>1. CASE j # i
    BY <1>3, <2>1, InstanceFrame DEF Inv
  <2> QED  BY <1>5, <2>1
<1>7. RequestInv'
  BY DEF Inv, RequestInv, AskedAbout
<1> QED  BY <1>4, <1>6, <1>7 DEF Inv

(* Where a goroutine asks for a plugin, and runs its initializer.          *)
RunOf(p) == IF p = "cluster" THEN "cluster run" ELSE "cluster"

AsksFor(i, p, at) == <<p, at>> \in {<<"cluster", "cluster">>, <<CodeType[i], "plugin">>}

(* Once a plugin is initialised, Do returns at once with its error.        *)
LEMMA DoneInv ==
  ASSUME Inv, NEW i \in Instances, NEW p, NEW at, AsksFor(i, p, at), At(i, at),
         once[p].done, Goto(i, Returned(i, p, once[p].err)),
         UNCHANGED <<once, op, release, objects, stored, tainted, desired, finds,
                     recorded, used, upToDate, loaded, outcome, request>>
  PROVE  Inv'
<1> DEFINE to == Returned(i, p, once[p].err)
<1>1. TypeOK /\ RegistryInv /\ CodeType[i] \in {"helm", "raw"}
  BY PluginsAssumption DEF Inv
<1>2. \/ p = "cluster" /\ pc[i] = "cluster" /\ to = "open"
      \/ p = CodeType[i] /\ pc[i] = "plugin" /\ to = "failed" /\ once[p].err
      \/ p = CodeType[i] /\ pc[i] = "plugin" /\ to = FirstCall(i) /\ ~once[p].err
  BY <1>1 DEF AsksFor, At, Returned
<1>3. FirstCall(i) \in {"prepare", "purge", "create", "load", "delete"}
  BY <1>1, <1>2, FirstCallOfKind DEF Inv, Initializing
<1>4. pc'[i] = to /\ \A j \in Instances \ {i} : pc'[j] = pc[j]
  BY <1>1 DEF Goto, TypeOK
<1> HIDE DEF to
<1>5. RegistryInv'
  <2>1. \A j \in Instances :
          /\ once["cluster"].holder = j <=> At(j, "cluster run")'
          /\ once[CodeType[j]].holder = j <=> pc'[j] \in Initializing
          /\ At(j, "open")' => once["cluster"].done
          /\ pc'[j] \in Calls => once[CodeType[j]].open
    <3>1. TAKE j \in Instances
    <3>2. CASE j # i
      <4>1. /\ once["cluster"].holder = j <=> pc[j] = "cluster run"
            /\ once[CodeType[j]].holder = j <=> pc[j] \in Initializing
            /\ pc[j] = "open" => once["cluster"].done
            /\ pc[j] \in Calls => once[CodeType[j]].open
        BY <1>1 DEF RegistryInv, At
      <4>2. pc'[j] = pc[j]
        BY <1>4, <3>2
      <4> QED  BY <4>1, <4>2 DEF At
    <3>3. CASE j = i
      <4>1. /\ once["cluster"].holder = i <=> pc[i] = "cluster run"
            /\ once[CodeType[i]].holder = i <=> pc[i] \in Initializing
            /\ once[CodeType[i]].open <=> once[CodeType[i]].done /\ ~once[CodeType[i]].err
        BY <1>1 DEF RegistryInv, At
      <4> QED  BY <1>2, <1>3, <1>4, <3>3, <4>1 DEF Initializing, Calls, At
    <3> QED  BY <3>2, <3>3
  <2> QED  BY <1>1, <2>1 DEF RegistryInv
<1>6. pc[i] \in {"plugin"} \cup Initializing /\ to \in {"failed", FirstCall(i)} \cup Initializing
  BY <1>2 DEF Initializing
<1>7. Goto(i, to)
  BY DEF to
<1> QED  BY <1>1, <1>5, <1>6, <1>7, TowardsFirstCall DEF TypeOK

Held(r, i) == [r EXCEPT !.holder = i, !.runs = @ + 1]

LEMMA HeldInit ==
  ASSUME NEW r \in SyncInit, NEW i \in Instances
  PROVE  /\ Held(r, i) \in SyncInit /\ Held(r, i).holder = i
         /\ Held(r, i).runs = r.runs + 1 /\ Held(r, i).done = r.done
         /\ Held(r, i).err = r.err /\ Held(r, i).open = r.open
<1> DEFINE n == r.runs + 1
           q == Held(r, i)
<1>1. n \in Nat /\ q = [r EXCEPT !.holder = i, !.runs = n]
  BY DEF SyncInit, Held
<1> HIDE DEF n, q
<1>2. /\ q \in SyncInit /\ q.holder = i /\ q.runs = n
      /\ q.done = r.done /\ q.err = r.err /\ q.open = r.open
  BY <1>1 DEF SyncInit
<1> QED  BY <1>2 DEF n, q

(* Whoever gets the lock of a plugin that is not initialised runs its      *)
(* initializer, and nobody else has run it.                                *)
LEMMA LockInv ==
  ASSUME Inv, NEW i \in Instances, NEW p, NEW at, AsksFor(i, p, at),
         NEW run, run = RunOf(p), Lock(i, p, at, run),
         UNCHANGED <<desired, finds,
                     recorded, used, upToDate, loaded, outcome, request>>
  PROVE  Inv'
<1>1. TypeOK /\ RegistryInv /\ CodeType[i] \in {"helm", "raw"}
  BY PluginsAssumption DEF Inv
<1>2. At(i, at) /\ once[p].holder = "nobody"
      /\ UNCHANGED <<op, release, objects, stored, tainted>>
  BY DEF Lock, cloud
<1>3. CASE once[p].done
  BY <1>2, <1>3, DoneInv DEF Lock
<1>4. CASE ~once[p].done
  <2>1. /\ Goto(i, run)
        /\ once' = [once EXCEPT ![p].holder = i, ![p].runs = @ + 1]
    BY <1>4 DEF Lock
  <2>2. /\ p \in {"cluster", "helm", "raw"}
        /\ \/ p = "cluster" /\ pc[i] = "cluster" /\ run = "cluster run"
           \/ p = CodeType[i] /\ pc[i] = "plugin" /\ run = "cluster"
    BY <1>1, <1>2 DEF AsksFor, At, RunOf
  <2>3. pc'[i] = run /\ \A j \in Instances \ {i} : pc'[j] = pc[j]
    BY <1>1, <2>1 DEF Goto, TypeOK
  <2> DEFINE new == Held(once[p], i)
  <2>4. once \in [{"cluster", "helm", "raw"} -> SyncInit] /\ once[p] \in SyncInit
    BY <1>1, <2>2 DEF TypeOK
  <2>5. /\ new \in SyncInit /\ new.holder = i /\ new.runs = once[p].runs + 1
        /\ new.done = once[p].done /\ new.err = once[p].err /\ new.open = once[p].open
    BY <2>4, HeldInit
  <2>6. once' = [once EXCEPT ![p] = new]
    BY <2>1 DEF Held
  <2> HIDE DEF new
  <2>7. /\ once' \in [{"cluster", "helm", "raw"} -> SyncInit] /\ once'[p] = new
        /\ \A q \in {"cluster", "helm", "raw"} : q # p => once'[q] = once[q]
    BY <2>2, <2>4, <2>5, <2>6
  <2>8. i # "nobody"
    BY PluginsAssumption
  <2>9. RegistryInv'
    <3>1. \A q \in {"cluster", "helm", "raw"} :
            /\ once'[q].runs = IF once'[q].done \/ once'[q].holder # "nobody" THEN 1 ELSE 0
            /\ once'[q].done => once'[q].holder = "nobody"
            /\ once'[q].open <=> once'[q].done /\ ~once'[q].err
            /\ once'[q].open => once'["cluster"].open
      <4>1. once[p].runs = 0
        BY <1>1, <1>2, <1>4, <2>2 DEF RegistryInv
      <4>2. TAKE q \in {"cluster", "helm", "raw"}
      <4>3. /\ once[q].runs = IF once[q].done \/ once[q].holder # "nobody" THEN 1 ELSE 0
            /\ once[q].done => once[q].holder = "nobody"
            /\ once[q].open <=> once[q].done /\ ~once[q].err
            /\ once[q].open => once["cluster"].open
        BY <1>1 DEF RegistryInv
      <4>4. once'[q].open = once[q].open /\ once'["cluster"].open = once["cluster"].open
        BY <2>5, <2>7
      <4>5. CASE q = p
        <5>1. once'[q] = new /\ new.holder # "nobody" /\ ~new.done /\ new.runs = 1
          <6>1. once'[q] = new /\ new.holder # "nobody" /\ ~new.done
            BY <1>4, <2>5, <2>7, <2>8, <4>5
          <6>2. new.runs = 1
            <7>1. new.runs = 0 + 1
              BY <2>5, <4>1
            <7> QED  BY <7>1
          <6> QED  BY <6>1, <6>2
        <5>2. ~once'[q].open
          BY <1>4, <4>3, <4>4, <4>5
        <5> QED  BY <5>1, <5>2
      <4>6. CASE q # p
        BY <2>7, <4>3, <4>4, <4>6
      <4> QED  BY <4>5, <4>6
    <3>2. \A j \in Instances :
            /\ once'["cluster"].holder = j <=> At(j, "cluster run")'
            /\ once'[CodeType[j]].holder = j <=> pc'[j] \in Initializing
            /\ At(j, "open")' => once'["cluster"].done
            /\ pc'[j] \in Calls => once'[CodeType[j]].open
      <4>1. TAKE j \in Instances
      <4>2. CodeType[j] \in {"helm", "raw"} /\ j # "nobody"
        BY PluginsAssumption
      <4>3. /\ once["cluster"].holder = j <=> At(j, "cluster run")
            /\ once[CodeType[j]].holder = j <=> pc[j] \in Initializing
            /\ At(j, "open") => once["cluster"].done
            /\ pc[j] \in Calls => once[CodeType[j]].open
        BY <1>1 DEF RegistryInv
      <4>4. \A q \in {"cluster", "helm", "raw"} :
              once'[q].open = once[q].open /\ once'[q].done = once[q].done
        BY <2>5, <2>7
      <4>5. CASE j # i
        <5>1. pc'[j] = pc[j]
          BY <2>3, <4>5
        <5>2. \A q \in {"cluster", "helm", "raw"} : once'[q].holder = j <=> once[q].holder = j
          BY <1>2, <2>5, <2>7, <4>2, <4>5
        <5> QED  BY <4>2, <4>3, <4>4, <5>1, <5>2 DEF At
      <4>6. CASE j = i
        <5>1. CASE p = "cluster"
          <6>1. pc'[j] = "cluster run" /\ once'["cluster"].holder = j
            BY <1>1, <2>2, <2>3, <2>5, <2>7, <4>6, <5>1
          <6>2. once'[CodeType[j]] = once[CodeType[j]] /\ pc[j] = "cluster"
            BY <1>1, <2>2, <2>7, <4>2, <4>6, <5>1
          <6> QED  BY <4>3, <6>1, <6>2 DEF At, Initializing, Calls
        <5>2. CASE p = CodeType[i]
          BY <1>1, <2>2, <2>3, <2>5, <2>7, <4>3, <4>6, <5>2 DEF At, Initializing, Calls
        <5> QED  BY <2>2, <5>1, <5>2
      <4> QED  BY <4>5, <4>6
    <3>3. \A q \in {"helm", "raw"}, j \in Instances : once'[q].holder = j => CodeType[j] = q
      <4>1. \A q \in {"helm", "raw"}, j \in Instances : once[q].holder = j => CodeType[j] = q
        BY <1>1 DEF RegistryInv
      <4> TAKE q \in {"helm", "raw"}, j \in Instances
      <4>2. CASE q = p
        BY <1>1, <2>2, <2>5, <2>7, <4>2
      <4>3. CASE q # p
        <5>1. once'[q] = once[q]
          BY <2>7, <4>3
        <5> QED  BY <4>1, <5>1
      <4> QED  BY <4>2, <4>3
    <3> QED  BY <3>1, <3>2, <3>3 DEF RegistryInv
  <2>10. run \in Initializing /\ pc[i] \in {"plugin"} \cup Initializing
    BY <2>2 DEF Initializing
  <2> QED  BY <1>2, <2>1, <2>7, <2>9, <2>10, TowardsFirstCall
<1> QED  BY <1>3, <1>4

Finished(r, err) ==
  [r EXCEPT !.done = TRUE, !.err = err, !.open = ~err, !.holder = "nobody"]

LEMMA FinishedInit ==
  ASSUME NEW r \in SyncInit, NEW err \in BOOLEAN
  PROVE  /\ Finished(r, err) \in SyncInit /\ Finished(r, err).holder = "nobody"
         /\ Finished(r, err).runs = r.runs /\ Finished(r, err).done
         /\ Finished(r, err).err = err /\ Finished(r, err).open = ~err
<1>1. (~err) \in BOOLEAN
  OBVIOUS
<1> QED  BY <1>1 DEF SyncInit, Finished

(* The initializer that has the lock ends, and leaves what it found to     *)
(* everybody; a code plugin is only open over an open cluster plugin.      *)
LEMMA InitializedInv ==
  ASSUME Inv, NEW i \in Instances, NEW p, NEW err \in BOOLEAN, Initialized(i, p, err),
         \/ p = "cluster" /\ At(i, "cluster run")
         \/ p = CodeType[i] /\ At(i, "open") /\ (once["cluster"].err => err),
         UNCHANGED <<desired, finds,
                     recorded, used, upToDate, loaded, outcome, request>>
  PROVE  Inv'
<1> DEFINE to  == Returned(i, p, err)
           new == Finished(once[p], err)
<1>1. TypeOK /\ RegistryInv /\ CodeType[i] \in {"helm", "raw"} /\ i # "nobody"
  BY PluginsAssumption DEF Inv
<1>2. /\ Goto(i, to) /\ once' = [once EXCEPT ![p] = new]
      /\ UNCHANGED <<op, release, objects, stored, tainted>>
  BY DEF Initialized, cloud, Finished
<1>3. /\ p \in {"cluster", "helm", "raw"}
      /\ \/ p = "cluster" /\ pc[i] = "cluster run" /\ to = "open"
         \/ p = CodeType[i] /\ pc[i] = "open" /\ to = "failed" /\ err
         \/ p = CodeType[i] /\ pc[i] = "open" /\ to = FirstCall(i) /\ ~err
  BY <1>1 DEF At, Returned
<1>4. FirstCall(i) \in {"prepare", "purge", "create", "load", "delete"}
  BY <1>1, <1>3, FirstCallOfKind DEF Inv, Initializing
<1>5. pc'[i] = to /\ \A j \in Instances \ {i} : pc'[j] = pc[j]
  BY <1>1, <1>2 DEF Goto, TypeOK
<1>6. once \in [{"cluster", "helm", "raw"} -> SyncInit] /\ once[p] \in SyncInit
  BY <1>1, <1>3 DEF TypeOK
<1>7. /\ new \in SyncInit /\ new.holder = "nobody" /\ new.runs = once[p].runs
      /\ new.done /\ new.err = err /\ new.open = ~err
  BY <1>6, FinishedInit
<1>8. once[p].holder = i
  <2>1. /\ once["cluster"].holder = i <=> pc[i] = "cluster run"
        /\ once[CodeType[i]].holder = i <=> pc[i] \in Initializing
    BY <1>1 DEF RegistryInv, At
  <2> QED  BY <1>3, <2>1 DEF Initializing
<1>9. once[p].runs = 1 /\ ~once[p].done /\ ~once[p].open
  <2>1. /\ once[p].runs = IF once[p].done \/ once[p].holder # "nobody" THEN 1 ELSE 0
        /\ once[p].done => once[p].holder = "nobody"
        /\ once[p].open <=> once[p].done /\ ~once[p].err
    BY <1>1, <1>3 DEF RegistryInv
  <2>2. ~once[p].done
    BY <1>1, <1>8, <2>1
  <2>3. once[p].runs = 1
    BY <1>1, <1>8, <2>1
  <2> QED  BY <2>1, <2>2, <2>3
<1> HIDE DEF to, new
<1>10. /\ once' \in [{"cluster", "helm", "raw"} -> SyncInit] /\ once'[p] = new
       /\ \A q \in {"cluster", "helm", "raw"} : q # p => once'[q] = once[q]
  BY <1>2, <1>3, <1>6, <1>7
<1>11. p = CodeType[i] /\ ~err => once["cluster"].open
  <2>1. /\ once["cluster"].open <=> once["cluster"].done /\ ~once["cluster"].err
        /\ pc[i] = "open" => once["cluster"].done
    BY <1>1 DEF RegistryInv, At
  <2> QED  BY <1>1, <1>3, <2>1
<1>12. RegistryInv'
  <2>1. \A q \in {"cluster", "helm", "raw"} :
          /\ once'[q].runs = IF once'[q].done \/ once'[q].holder # "nobody" THEN 1 ELSE 0
          /\ once'[q].done => once'[q].holder = "nobody"
          /\ once'[q].open <=> once'[q].done /\ ~once'[q].err
          /\ once'[q].open => once'["cluster"].open
    <3> TAKE q \in {"cluster", "helm", "raw"}
    <3>1. /\ once[q].runs = IF once[q].done \/ once[q].holder # "nobody" THEN 1 ELSE 0
          /\ once[q].done => once[q].holder = "nobody"
          /\ once[q].open <=> once[q].done /\ ~once[q].err
          /\ once[q].open => once["cluster"].open
      BY <1>1 DEF RegistryInv
    <3>2. CASE q = p
      <4>1. once'[q].runs = 1 /\ once'[q].done /\ once'[q].holder = "nobody"
        BY <1>7, <1>9, <1>10, <3>2
      <4>2. once'[q].open <=> ~once'[q].err
        BY <1>7, <1>10, <3>2
      <4>3. once'[q].open => once'["cluster"].open
        <5>1. CASE p = "cluster"
          BY <3>2, <5>1
        <5>2. CASE p = CodeType[i]
          <6>1. once'["cluster"] = once["cluster"]
            BY <1>1, <1>10, <5>2
          <6> QED  BY <1>7, <1>10, <1>11, <3>2, <5>2, <6>1
        <5> QED  BY <1>3, <5>1, <5>2
      <4> QED  BY <4>1, <4>2, <4>3
    <3>3. CASE q # p
      <4>1. once'[q] = once[q]
        BY <1>10, <3>3
      <4>2. once["cluster"].open => once'["cluster"].open
        BY <1>9, <1>10
      <4> QED  BY <3>1, <4>1, <4>2
    <3> QED  BY <3>2, <3>3
  <2>2. \A j \in Instances :
          /\ once'["cluster"].holder = j <=> At(j, "cluster run")'
          /\ once'[CodeType[j]].holder = j <=> pc'[j] \in Initializing
          /\ At(j, "open")' => once'["cluster"].done
          /\ pc'[j] \in Calls => once'[CodeType[j]].open
    <3> TAKE j \in Instances
    <3>1. CodeType[j] \in {"helm", "raw"} /\ j # "nobody"
      BY PluginsAssumption
    <3>2. /\ once["cluster"].holder = j <=> pc[j] = "cluster run"
          /\ once[CodeType[j]].holder = j <=> pc[j] \in Initializing
          /\ pc[j] = "open" => once["cluster"].done
          /\ pc[j] \in Calls => once[CodeType[j]].open
      BY <1>1 DEF RegistryInv, At
    <3>3. CASE j # i
      <4>1. pc'[j] = pc[j]
        BY <1>5, <3>3
      <4>2. \A q \in {"cluster", "helm", "raw"} : once'[q].holder = j <=> once[q].holder = j
        BY <1>7, <1>8, <1>10, <3>1, <3>3
      <4>3. \A q \in {"cluster", "helm", "raw"} : once[q].done => once'[q].done
        BY <1>7, <1>10
      <4>4. \A q \in {"cluster", "helm", "raw"} : once[q].open => once'[q].open
        BY <1>9, <1>10
      <4> QED  BY <3>1, <3>2, <4>1, <4>2, <4>3, <4>4 DEF At
    <3>4. CASE j = i
      <4>1. CASE p = "cluster"
        <5>1. pc'[j] = "open" /\ pc[j] = "cluster run"
          BY <1>1, <1>3, <1>5, <3>4, <4>1
        <5>2. once'[CodeType[j]] = once[CodeType[j]] /\ once'["cluster"] = new
          BY <1>10, <3>1, <4>1
        <5> QED  BY <1>7, <3>1, <3>2, <5>1, <5>2 DEF At, Initializing, Calls
      <4>2. CASE p = CodeType[i]
        <5>1. pc[j] = "open" /\ pc'[j] = to /\ to \in {"failed", FirstCall(i)} /\ (err <=> to = "failed")
          BY <1>1, <1>3, <1>4, <1>5, <3>4, <4>2
        <5>2. once'["cluster"] = once["cluster"] /\ once'[CodeType[j]] = new
          BY <1>1, <1>10, <3>4, <4>2
        <5> QED  BY <1>4, <1>7, <3>1, <3>2, <5>1, <5>2 DEF At, Initializing, Calls
      <4> QED  BY <1>3, <4>1, <4>2
    <3> QED  BY <3>3, <3>4
  <2>3. \A q \in {"helm", "raw"}, j \in Instances : once'[q].holder = j => CodeType[j] = q
    <3>1. \A q \in {"helm", "raw"}, j \in Instances : once[q].holder = j => CodeType[j] = q
      BY <1>1 DEF RegistryInv
    <3> TAKE q \in {"helm", "raw"}, j \in Instances
    <3>2. j # "nobody"
      BY PluginsAssumption
    <3>3. once'[q].holder = j => once'[q] = once[q]
      BY <1>7, <1>10, <3>2
    <3> QED  BY <3>1, <3>3
  <2> QED  BY <2>1, <2>2, <2>3 DEF RegistryInv
<1>13. pc[i] \in {"plugin"} \cup Initializing /\ to \in {"failed", FirstCall(i)} \cup Initializing
  BY <1>3 DEF Initializing
<1>14. Goto(i, to)
  BY <1>2 DEF to
<1> QED  BY <1>2, <1>10, <1>12, <1>13, <1>14, TowardsFirstCall

LEMMA InitializeInv ==
  ASSUME Inv, NEW i \in Instances, Initialize(i),
         UNCHANGED <<policy, actual, loaded, outcome, request, counters>>
  PROVE  Inv'
<1>1. UNCHANGED <<desired, finds,
                     recorded, used, upToDate, loaded, outcome, request>>
  BY DEF policy, actual
<1>2. \A p, at : AsksFor(i, p, at) /\ Load(i, p, at) => Inv'
  BY <1>1, DoneInv DEF Load, cloud
<1>3. \A p, at, run : AsksFor(i, p, at) /\ Lock(i, p, at, run) /\ run = RunOf(p) => Inv'
  BY <1>1, LockInv
<1>4. CodeType[i] # "cluster"
  BY PluginsAssumption
<1>5. CASE Load(i, CodeType[i], "plugin") \/ Load(i, "cluster", "cluster")
  BY <1>2, <1>5 DEF AsksFor
<1>6. CASE Lock(i, CodeType[i], "plugin", "cluster")
  BY <1>3, <1>4, <1>6 DEF AsksFor, RunOf
<1>7. CASE Lock(i, "cluster", "cluster", "cluster run")
  BY <1>3, <1>7 DEF AsksFor, RunOf
<1>8. CASE InitCluster(i)
  BY <1>1, <1>8, InitializedInv DEF InitCluster
<1>9. CASE Open(i)
  <2>1. /\ At(i, "open")
        /\ \/ Initialized(i, CodeType[i], TRUE)
           \/ Initialized(i, CodeType[i], FALSE) /\ ~once["cluster"].err
    BY <1>9 DEF Open
  <2>2. CASE Initialized(i, CodeType[i], TRUE)
    BY <1>1, <2>1, <2>2, InitializedInv
  <2>3. CASE Initialized(i, CodeType[i], FALSE) /\ ~once["cluster"].err
    BY <1>1, <2>1, <2>3, InitializedInv
  <2> QED  BY <2>1, <2>2, <2>3
<1> QED  BY <1>5, <1>6, <1>7, <1>8, <1>9 DEF Initialize

-----------------------------------------------------------------------------
(* Calls.                                                                  *)

CloudType ==
  /\ release \in [Instances -> Manifests \cup {None}]
  /\ stored \in [Instances -> Manifests \cup {None}]
  /\ objects \in [Instances -> SUBSET UNION Range(ResourcesOf)]

(* A call about instance i leaves the others alone.                        *)
LEMMA CallStep ==
  ASSUME Inv, NEW i \in Instances, pc[i] \in Calls,
         NEW to \in Calls \cup {"record", "failed"}, Goto(i, to),
         tainted' \in {tainted, tainted \cup {i}}, CloudType',
         \A j \in Instances \ {i} :
           release'[j] = release[j] /\ stored'[j] = stored[j] /\ objects'[j] = objects[j],
         UNCHANGED <<op, once, desired, finds,
                     recorded, used, upToDate, loaded, outcome, request>>,
         InstanceInv(i)'
  PROVE  Inv'
<1>1. TypeOK /\ RegistryInv
  BY DEF Inv
<1>2. pc' = [pc EXCEPT ![i] = to] /\ pc'[i] = to /\ \A j \in Instances \ {i} : pc'[j] = pc[j]
  BY <1>1 DEF Goto, TypeOK
<1>3. TypeOK'
  <2>1. pc' \in [Instances -> Calls \cup {"off", "detach", "plugin", "cluster", "cluster run",
                                          "open", "record", "failed"}]
    BY <1>1, <1>2 DEF TypeOK
  <2>2. \A j \in Instances : (At(j, "off") <=> op[j] = NoOp)'
    BY <1>1, <1>2 DEF TypeOK, At, Calls
  <2> QED  BY <1>1, <2>1, <2>2 DEF TypeOK, CloudType
<1>4. RegistryInv'
  <2>1. \A j \in Instances :
          /\ once["cluster"].holder = j <=> At(j, "cluster run")'
          /\ once[CodeType[j]].holder = j <=> pc'[j] \in Initializing
          /\ At(j, "open")' => once["cluster"].done
          /\ pc'[j] \in Calls => once[CodeType[j]].open
    <3> TAKE j \in Instances
    <3>1. /\ once["cluster"].holder = j <=> pc[j] = "cluster run"
          /\ once[CodeType[j]].holder = j <=> pc[j] \in Initializing
          /\ pc[j] = "open" => once["cluster"].done
          /\ pc[j] \in Calls => once[CodeType[j]].open
      BY <1>1 DEF RegistryInv, At
    <3>2. CASE j # i
      BY <1>2, <3>1, <3>2 DEF At
    <3>3. CASE j = i
      BY <1>2, <3>1, <3>3 DEF At, Calls, Initializing
    <3> QED  BY <3>2, <3>3
  <2>2. once' = once
    OBVIOUS
  <2> QED  BY ONLY <1>1, <2>1, <2>2 DEF RegistryInv
<1>5. ASSUME NEW j \in Instances PROVE InstanceInv(j)'
  <2>1. CASE j # i
    BY <1>2, <2>1, InstanceFrame DEF Inv
  <2> QED  BY <2>1
<1>6. RequestInv'
  BY DEF Inv, RequestInv, AskedAbout
<1> QED  BY <1>3, <1>4, <1>5, <1>6 DEF Inv

(* Of an instance with a call that has failed nothing is said until the    *)
(* next success, whatever the call has done to it.                         *)
LEMMA FailedCall ==
  ASSUME Inv, NEW i \in Instances, pc[i] \in Calls, Goto(i, "failed"),
         tainted' = tainted \cup {i}, CloudType',
         \A j \in Instances \ {i} :
           release'[j] = release[j] /\ stored'[j] = stored[j] /\ objects'[j] = objects[j],
         UNCHANGED <<op, once, desired, finds,
                     recorded, used, upToDate, loaded, outcome, request>>
  PROVE  Inv'
<1>1. pc'[i] = "failed"
  BY DEF Inv, TypeOK, Goto
<1>2. InstanceInv(i)'
  BY <1>1 DEF InstanceInv, CallsInv, At, Initializing, Calls
<1> QED  BY <1>2, CallStep

(* What every call starts from.                                            *)
LEMMA CallStarts ==
  ASSUME Inv, NEW i \in Instances, pc[i] \in Calls
  PROVE  /\ op[i].kind \in {"create", "update", "destroy"} /\ op[i].manifest \in Manifests
         /\ op[i].manifest # None /\ Wanted(i) \subseteq UNION Range(ResourcesOf)
         /\ Wanted(i) = Resources(op[i].manifest)
         /\ CloudType /\ InstanceInv(i) /\ CodeType[i] \in {"helm", "raw"}
<1>1. pc[i] # "off" /\ TypeOK
  BY DEF Calls, Inv
<1>2. op[i].kind \in {"create", "update", "destroy"} /\ op[i].manifest \in Manifests
  BY <1>1, OperationAtWork DEF Inv, InstanceInv, CallsInv
<1> QED
  BY <1>1, <1>2, ManifestResources, PluginsAssumption DEF Wanted, CloudType, TypeOK, Inv

LEMMA HelmInv ==
  ASSUME Inv, NEW i \in Instances,
         Prepare(i) \/ Install(i) \/ Upgrade(i) \/ Purge(i),
         UNCHANGED <<desired, finds,
                     recorded, used, upToDate, loaded, outcome, request>>
  PROVE  Inv'
<1>1. pc[i] \in {"prepare", "install", "upgrade", "purge"}
  BY DEF Prepare, Install, Upgrade, Purge, Called, At
<1>2. pc[i] \in Calls /\ pc \in [Instances -> Calls \cup {"off", "detach", "plugin", "cluster",
                                   "cluster run", "open", "record", "failed"}]
  BY <1>1 DEF Calls, Inv, TypeOK
<1>3. /\ op[i].kind \in {"create", "update", "destroy"} /\ op[i].manifest \in Manifests
      /\ op[i].manifest # None /\ CloudType /\ InstanceInv(i)
  BY <1>2, CallStarts
<1>4. /\ CodeType[i] = "helm"
      /\ pc[i] # "purge" => op[i].kind \in {"create", "update"}
      /\ pc[i] = "purge" => op[i].kind = "destroy"
  BY <1>1, <1>3 DEF InstanceInv, CallsInv
<1>5. UNCHANGED <<op, once>>
  BY DEF Prepare, Install, Upgrade, Purge, Called, Refused
<1>6. CASE Prepare(i)
  <2>1. PICK to \in {"install", "upgrade"} : Goto(i, to) /\ pc[i] = "prepare"
    BY <1>6 DEF Prepare, Called, At
  <2>2. UNCHANGED <<release, objects, stored, tainted>>
    BY <1>6 DEF Prepare, Called, cloud
  <2>3. pc'[i] = to
    BY <1>2, <2>1 DEF Goto
  <2>4. InstanceInv(i)'
    BY <1>3, <1>4, <1>5, <2>1, <2>3 DEF InstanceInv, CallsInv, At
  <2>5. to \in Calls \cup {"record", "failed"} /\ CloudType'
    BY <1>3, <2>1, <2>2 DEF Calls, CloudType
  <2> QED  BY <1>2, <1>5, <2>1, <2>2, <2>4, <2>5, CallStep
<1>7. CASE (Upgrade(i) \/ Purge(i)) /\ release[i] = None
  <2>1. Goto(i, "failed") /\ tainted' = tainted \cup {i} /\ UNCHANGED <<release, objects, stored>>
    BY <1>7 DEF Upgrade, Purge, Refused, cloud
  <2>2. CloudType'
    BY <1>3, <2>1 DEF CloudType
  <2> QED  BY <1>2, <1>5, <2>1, <2>2, FailedCall
<1>8. CASE Install(i) \/ ((Upgrade(i) \/ Purge(i)) /\ release[i] # None)
  <2>1. /\ Goto(i, "record") /\ UNCHANGED <<objects, stored, tainted>>
        /\ release' = [release EXCEPT ![i] = Target(i)]
    BY <1>4, <1>8 DEF Install, Upgrade, Purge, Called, Target, Deletes, At
  <2>2. Target(i) \in Manifests \cup {None}
    BY <1>3 DEF Target, Deletes
  <2>3. pc'[i] = "record"
    BY <1>2, <2>1 DEF Goto
  <2>4. CloudType' /\ release'[i] = Target(i) /\ \A j \in Instances \ {i} : release'[j] = release[j]
    BY <1>3, <2>1, <2>2 DEF CloudType
  <2>5. Target(i)' = Target(i)
    BY <1>5 DEF Target, Deletes
  <2>6. InstanceInv(i)'
    BY <1>4, <2>3, <2>4, <2>5 DEF InstanceInv, CallsInv, IsDeployed, At, Initializing, Calls
  <2> QED  BY <1>2, <1>5, <2>1, <2>4, <2>6, CallStep
<1> QED  BY <1>6, <1>7, <1>8

(* The calls of k8sraw that are not refused: what each does to the         *)
(* resources and to the stored manifest, and where it leads.               *)
LEMMA RawStep ==
  ASSUME Inv, NEW i \in Instances, pc[i] \in Calls, CodeType[i] = "raw",
         NEW to \in {"update", "store", "unstore", "record"}, Called(i, pc[i], to),
         NEW o \in SUBSET UNION Range(ResourcesOf), NEW s \in Manifests \cup {None},
         objects' = [objects EXCEPT ![i] = o], stored' = [stored EXCEPT ![i] = s],
         UNCHANGED <<release, desired, finds,
                     recorded, used, upToDate, loaded, outcome, request>>,
         to = "update" => op[i].kind = "update" /\ s # None,
         to = "store" => op[i].kind \in {"create", "update"} /\ Wanted(i) \subseteq o,
         to = "unstore" => op[i].kind = "destroy",
         to = "record" => s = Target(i) /\ Resources(s) \subseteq o,
         i \notin tainted => IF to = "update" THEN o = objects[i] /\ s = stored[i] /\ pc[i] = "load"
                             ELSE o = Resources(Target(i))
  PROVE  Inv'
<1>1. /\ Goto(i, to) /\ UNCHANGED <<op, once, tainted>>
  BY DEF Called
<1>2. /\ op[i].kind \in {"create", "update", "destroy"}
      /\ op[i].manifest \in Manifests /\ Wanted(i) = Resources(op[i].manifest)
      /\ CloudType /\ InstanceInv(i)
  BY CallStarts
<1>3. pc'[i] = to
  BY <1>1 DEF Goto, Inv, TypeOK
<1>4. /\ CloudType' /\ objects'[i] = o /\ stored'[i] = s /\ release'[i] = release[i]
      /\ \A j \in Instances \ {i} : stored'[j] = stored[j] /\ objects'[j] = objects[j]
  BY <1>2 DEF CloudType
<1>5. Target(i)' = Target(i) /\ op'[i] = op[i] /\ recorded'[i] = recorded[i]
  BY <1>1 DEF Target, Deletes
<1>6. CallsInv(i)'
  <2>1. to = "record" => IsDeployed(i, Target(i))'
    BY <1>4, <1>5 DEF IsDeployed, Resources
  <2> QED  BY <1>2, <1>3, <1>4, <1>5, <2>1 DEF CallsInv, At, Wanted, Initializing, Calls
<1>7. i \notin tainted' => NothingFailed(i)'
  <2> SUFFICES ASSUME i \notin tainted PROVE NothingFailed(i)'
    BY <1>1
  <2>1. NothingFailed(i)
    BY <1>2 DEF InstanceInv
  <2>2. CASE to = "update"
    BY <1>3, <1>4, <1>5, <2>1, <2>2 DEF NothingFailed, Resources
  <2>3. CASE to # "update"
    BY <1>2, <1>3, <1>4, <1>5, <2>1, <2>3 DEF NothingFailed, Resources
  <2> QED  BY <2>2, <2>3
<1>8. InstanceInv(i)'
  BY <1>6, <1>7 DEF InstanceInv
<1>9. to \in Calls \cup {"record", "failed"}
  BY DEF Calls
<1> QED  BY <1>1, <1>4, <1>8, <1>9, CallStep

LEMMA RawInv ==
  ASSUME Inv, NEW i \in Instances,
         \/ Create(i) \/ LoadManifest(i) \/ Update(i)
         \/ Store(i) \/ Delete(i) \/ Unstore(i),
         UNCHANGED <<desired, finds,
                     recorded, used, upToDate, loaded, outcome, request>>
  PROVE  Inv'
<1>1. pc[i] \in {"create", "load", "update", "store", "delete", "unstore"}
  BY DEF Create, LoadManifest, Update, Store, Delete, Unstore, Called, At
<1>2. pc[i] \in Calls
  BY <1>1 DEF Calls
<1>3. /\ op[i].kind \in {"create", "update", "destroy"} /\ op[i].manifest \in Manifests
      /\ op[i].manifest # None /\ Wanted(i) \subseteq UNION Range(ResourcesOf)
      /\ Wanted(i) = Resources(op[i].manifest)
      /\ CloudType /\ InstanceInv(i)
  BY <1>2, CallStarts
<1>4. /\ CodeType[i] = "raw" /\ CallsInv(i) /\ (i \notin tainted => NothingFailed(i))
  BY <1>1, <1>3 DEF InstanceInv, CallsInv
<1>5. /\ objects[i] \in SUBSET UNION Range(ResourcesOf) /\ stored[i] \in Manifests \cup {None}
      /\ stored = [stored EXCEPT ![i] = stored[i]] /\ objects = [objects EXCEPT ![i] = objects[i]]
  BY <1>3 DEF CloudType
<1>6. op[i].kind # "destroy" => Target(i) = op[i].manifest
  BY <1>3 DEF Target, Deletes
<1>7. op[i].kind = "destroy" => Target(i) = None /\ Resources(Target(i)) = {}
  BY DEF Target, Deletes, Resources
<1>8. CASE Create(i)
  <2>1. pc[i] = "create" /\ op[i].kind = "create" /\ UNCHANGED <<release, stored>>
    BY <1>4, <1>8 DEF Create, At, CallsInv
  <2>2. CASE objects[i] \cap Wanted(i) = {}
    <3>1. Called(i, pc[i], "store") /\ objects' = [objects EXCEPT ![i] = objects[i] \cup Wanted(i)]
      BY <1>8, <2>1, <2>2 DEF Create
    <3>2. i \notin tainted => objects[i] \cup Wanted(i) = Resources(Target(i))
      <4> SUFFICES ASSUME i \notin tainted PROVE objects[i] \cup Wanted(i) = Resources(Target(i))
        OBVIOUS
      <4>1. recorded[i] = None /\ objects[i] = Resources(recorded[i])
        BY <1>4, <2>1 DEF NothingFailed
      <4>2. objects[i] = {}
        BY <4>1 DEF Resources
      <4> QED  BY <1>3, <1>6, <2>1, <4>2
    <3>3. objects[i] \cup Wanted(i) \in SUBSET UNION Range(ResourcesOf)
      BY <1>3, <1>5
    <3> QED  BY <1>2, <1>4, <1>5, <2>1, <3>1, <3>2, <3>3, RawStep
  <2>3. CASE objects[i] \cap Wanted(i) # {}
    <3>1. Refused(i) /\ \E some \in SUBSET (Wanted(i) \ objects[i]) :
                          objects' = [objects EXCEPT ![i] = objects[i] \cup some]
      BY <1>8, <2>3 DEF Create
    <3>2. CloudType' /\ \A j \in Instances \ {i} : objects'[j] = objects[j]
      BY <1>3, <2>1, <3>1 DEF CloudType
    <3> QED  BY <1>2, <2>1, <3>1, <3>2, FailedCall DEF Refused
  <2> QED  BY <2>2, <2>3
<1>9. CASE LoadManifest(i)
  <2>1. pc[i] = "load" /\ op[i].kind = "update" /\ UNCHANGED <<release, objects, stored>>
    BY <1>4, <1>9 DEF LoadManifest, At, CallsInv, Called, cloud
  <2>2. CASE stored[i] = None
    <3>1. Refused(i) /\ CloudType'
      BY <1>3, <1>9, <2>1, <2>2 DEF LoadManifest, CloudType
    <3> QED  BY <1>2, <2>1, <3>1, FailedCall DEF Refused
  <2>3. CASE stored[i] # None
    <3>1. Called(i, pc[i], "update")
      BY <1>9, <2>1, <2>3 DEF LoadManifest
    <3> QED  BY <1>2, <1>4, <1>5, <2>1, <2>3, <3>1, RawStep
  <2> QED  BY <2>2, <2>3
<1>10. CASE Update(i)
  <2>1. /\ pc[i] = "update" /\ op[i].kind = "update" /\ stored[i] # None
        /\ UNCHANGED <<release, stored>> /\ Called(i, pc[i], "store")
        /\ objects' = [objects EXCEPT ![i] = Updated(i)]
    BY <1>4, <1>10 DEF Update, At, CallsInv, Called
  <2>2. Updated(i) \in SUBSET UNION Range(ResourcesOf) /\ Wanted(i) \subseteq Updated(i)
    BY <1>3, <1>5 DEF Updated
  <2>3. i \notin tainted => Updated(i) = Resources(Target(i))
    <3> SUFFICES ASSUME i \notin tainted PROVE Updated(i) = Resources(Target(i))
      OBVIOUS
    <3>1. stored[i] = recorded[i] /\ objects[i] = Resources(recorded[i])
      BY <1>4, <2>1 DEF NothingFailed
    <3>2. objects[i] = ResourcesOf[stored[i]]
      BY <1>5, <2>1, <3>1 DEF Resources
    <3> QED  BY <1>3, <1>6, <2>1, <3>2 DEF Updated
  <2> QED  BY <1>2, <1>4, <1>5, <2>1, <2>2, <2>3, RawStep
<1>11. CASE Store(i)
  <2>1. /\ pc[i] = "store" /\ op[i].kind \in {"create", "update"}
        /\ UNCHANGED <<release, objects>> /\ Called(i, pc[i], "record")
        /\ stored' = [stored EXCEPT ![i] = op[i].manifest]
        /\ Wanted(i) \subseteq objects[i]
    BY <1>4, <1>11 DEF Store, At, CallsInv, Called, Wanted
  <2>2. i \notin tainted => objects[i] = Resources(Target(i))
    BY <1>4, <2>1 DEF NothingFailed
  <2>3. op[i].manifest = Target(i) /\ Resources(op[i].manifest) \subseteq objects[i]
    BY <1>3, <1>6, <2>1
  <2> QED  BY <1>2, <1>3, <1>4, <1>5, <2>1, <2>2, <2>3, RawStep
<1>12. CASE Delete(i)
  <2>1. /\ pc[i] = "delete" /\ op[i].kind = "destroy"
        /\ UNCHANGED <<release, stored>> /\ Called(i, pc[i], "unstore")
        /\ objects' = [objects EXCEPT ![i] = objects[i] \ Wanted(i)]
    BY <1>4, <1>12 DEF Delete, At, CallsInv, Called
  <2>2. i \notin tainted => objects[i] \ Wanted(i) = Resources(Target(i))
    <3> SUFFICES ASSUME i \notin tainted PROVE objects[i] \ Wanted(i) = Resources(Target(i))
      OBVIOUS
    <3>1. recorded[i] = op[i].manifest /\ objects[i] = Resources(recorded[i])
      BY <1>4, <2>1 DEF NothingFailed
    <3> QED  BY <1>3, <1>7, <2>1, <3>1
  <2>3. objects[i] \ Wanted(i) \in SUBSET UNION Range(ResourcesOf)
    BY <1>5
  <2> QED  BY <1>2, <1>4, <1>5, <2>1, <2>2, <2>3, RawStep
<1>13. CASE Unstore(i)
  <2>1. /\ pc[i] = "unstore" /\ op[i].kind = "destroy"
        /\ UNCHANGED <<release, objects>> /\ Called(i, pc[i], "record")
        /\ stored' = [stored EXCEPT ![i] = None]
    BY <1>4, <1>13 DEF Unstore, At, CallsInv, Called
  <2>2. i \notin tainted => objects[i] = Resources(Target(i))
    BY <1>4, <2>1 DEF NothingFailed
  <2>3. None = Target(i) /\ Resources(None) \subseteq objects[i] /\ None \in Manifests \cup {None}
    BY <1>7, <2>1
  <2> QED  BY <1>2, <1>4, <1>5, <2>1, <2>2, <2>3, RawStep
<1> QED  BY <1>8, <1>9, <1>10, <1>11, <1>12, <1>13

(* A call that fails may have done some or all of its work.                *)
LEMMA CallFailsInv ==
  ASSUME Inv, NEW i \in Instances, CallFails(i),
         UNCHANGED <<desired, finds,
                     recorded, used, upToDate, loaded, outcome, request>>
  PROVE  Inv'
<1>1. /\ pc[i] \in Calls /\ PartlyDone(i) /\ Goto(i, "failed")
      /\ tainted' = tainted \cup {i} /\ UNCHANGED <<op, once>>
  BY DEF CallFails
<1>2. /\ op[i].manifest \in Manifests /\ Wanted(i) \subseteq UNION Range(ResourcesOf)
      /\ CloudType
  BY <1>1, CallStarts
<1>3. /\ \A j \in Instances \ {i} :
           release'[j] = release[j] /\ stored'[j] = stored[j] /\ objects'[j] = objects[j]
      /\ CloudType'
  <2>1. /\ release[i] \in Manifests \cup {None} /\ stored[i] \in Manifests \cup {None}
        /\ objects[i] \in SUBSET UNION Range(ResourcesOf)
    BY <1>2 DEF CloudType
  <2>2. ASSUME NEW after \in SUBSET UNION Range(ResourcesOf),
               \E gone \in SUBSET (objects[i] \ after), new \in SUBSET (after \ objects[i]) :
                 objects' = [objects EXCEPT ![i] = (objects[i] \ gone) \cup new],
               UNCHANGED <<release, stored>>
        PROVE  CloudType' /\ \A j \in Instances \ {i} : objects'[j] = objects[j]
    BY <1>2, <2>1, <2>2 DEF CloudType
  <2>3. CASE pc[i] \in {"install", "upgrade", "purge"}
    BY <1>1, <1>2, <2>1, <2>3 DEF PartlyDone, CloudType
  <2>4. CASE pc[i] = "create"
    <3>1. objects[i] \cup Wanted(i) \in SUBSET UNION Range(ResourcesOf)
      BY <1>2, <2>1
    <3> QED  BY <1>1, <2>2, <2>4, <3>1 DEF PartlyDone
  <2>5. CASE pc[i] = "update"
    <3>1. Updated(i) \in SUBSET UNION Range(ResourcesOf)
      BY <1>2, <2>1 DEF Updated
    <3> QED  BY <1>1, <2>2, <2>5, <3>1 DEF PartlyDone
  <2>6. CASE pc[i] = "delete"
    <3>1. objects[i] \ Wanted(i) \in SUBSET UNION Range(ResourcesOf)
      BY <1>2, <2>1
    <3> QED  BY <1>1, <2>2, <2>6, <3>1 DEF PartlyDone
  <2>7. CASE pc[i] \in {"store", "unstore"}
    BY <1>1, <1>2, <2>1, <2>7 DEF PartlyDone, CloudType
  <2>8. CASE pc[i] \in {"prepare", "load"}
    BY <1>1, <1>2, <2>8 DEF PartlyDone, CloudType, cloud
  <2> QED  BY <1>1, <2>3, <2>4, <2>5, <2>6, <2>7, <2>8 DEF Calls
<1> QED  BY <1>1, <1>3, FailedCall

-----------------------------------------------------------------------------
(* Passes and kills.                                                       *)

(* A pass starts and ends away from the initializers.                      *)
RestingPlaces == {"off", "plugin", "detach", "record", "failed"}

LEMMA RegistryAtRest ==
  ASSUME RegistryInv, once' = once,
         \A j \in Instances :
           pc'[j] = pc[j] \/ (pc[j] \notin Initializing /\ pc'[j] \in RestingPlaces)
  PROVE  RegistryInv'
<1>1. \A j \in Instances :
        /\ once["cluster"].holder = j <=> At(j, "cluster run")'
        /\ once[CodeType[j]].holder = j <=> pc'[j] \in Initializing
        /\ At(j, "open")' => once["cluster"].done
        /\ pc'[j] \in Calls => once[CodeType[j]].open
  <2> TAKE j \in Instances
  <2>1. /\ once["cluster"].holder = j <=> pc[j] = "cluster run"
        /\ once[CodeType[j]].holder = j <=> pc[j] \in Initializing
        /\ pc[j] = "open" => once["cluster"].done
        /\ pc[j] \in Calls => once[CodeType[j]].open
    BY DEF RegistryInv, At
  <2>2. CASE pc'[j] = pc[j]
    BY <2>1, <2>2 DEF At
  <2>3. CASE pc[j] \notin Initializing /\ pc'[j] \in RestingPlaces
    BY <2>1, <2>3 DEF At, Initializing, Calls, RestingPlaces
  <2> QED  BY <2>2, <2>3
<1> QED  BY ONLY <1>1, RegistryInv, once' = once DEF RegistryInv

LEMMA RegistryNew ==
  ASSUME once' = NewRegistry, \A j \in Instances : pc'[j] = "off"
  PROVE  RegistryInv'
BY PluginsAssumption DEF RegistryInv, NewRegistry, NewInit, At, Initializing, Calls

LEMMA NewRegistryType == NewRegistry \in [{"cluster", "helm", "raw"} -> SyncInit]
BY DEF NewRegistry, NewInit, SyncInit

LEMMA ChangePolicyInv ==
  ASSUME Inv, ChangePolicy
  PROVE  Inv'
<1>1. UNCHANGED <<pc, op, once, release, objects, stored, tainted, recorded, used, upToDate, loaded, outcome, request>>
  BY DEF ChangePolicy, pluginVars, cloud, policy, actual
<1>2. TypeOK'
  <2>1. /\ desired' \in [Instances -> Manifests \cup {None}]
        /\ finds' \in [Instances -> {"plugin", "nothing", "error"}]
    <3>1. PICK i \in Instances, m \in Manifests \cup {None}, found \in {"plugin", "nothing", "error"} :
            /\ desired' = [desired EXCEPT ![i] = m]
            /\ finds' = [finds EXCEPT ![i] = found]
      BY DEF ChangePolicy
    <3> QED  BY <3>1 DEF Inv, TypeOK
  <2> QED  BY <1>1, <2>1 DEF Inv, TypeOK, At
<1>3. RegistryInv'
  BY <1>1, RegistryAtRest DEF Inv
<1>4. \A i \in Instances : InstanceInv(i)'
  BY <1>1, InstanceFrame DEF Inv
<1>5. RequestInv'
  BY <1>1 DEF Inv, RequestInv, AskedAbout
<1> QED  BY <1>2, <1>3, <1>4, <1>5 DEF Inv

(* What the diff makes of an instance.                                     *)
LEMMA PlannedOperation ==
  ASSUME TypeOK, NEW i \in Instances, NEW all \in BOOLEAN
  PROVE  /\ Planned(i, all) \in
              [kind : {"create", "update", "destroy", "drop", "stuck"}, manifest : Manifests]
                \cup {NoOp}
         /\ Planned(i, all).kind \notin {"create", "update", "none"} =>
              recorded[i] = Planned(i, all).manifest
<1>1. /\ desired[i] \in Manifests \cup {None} /\ recorded[i] \in Manifests \cup {None}
      /\ i \in used => recorded[i] # None
      /\ Removal(i) \in {"destroy", "drop", "stuck"}
  BY DEF TypeOK, Removal
<1> DEFINE had == ~all /\ i \in used
<1>2. had => recorded[i] \in Manifests
  BY <1>1
<1>3. Planned(i, all) =
        CASE desired[i] # None /\ ~had -> [kind |-> "create", manifest |-> desired[i]]
          [] desired[i] # None /\ had /\ desired[i] # recorded[i] ->
               [kind |-> "update", manifest |-> desired[i]]
          [] ~(desired[i] # None) /\ had -> [kind |-> Removal(i), manifest |-> recorded[i]]
          [] OTHER -> NoOp
  BY DEF Planned
<1> HIDE DEF had
<1>4. CASE desired[i] # None /\ ~had
  BY <1>1, <1>3, <1>4
<1>5. CASE desired[i] # None /\ had /\ desired[i] # recorded[i]
  BY <1>1, <1>3, <1>5
<1>6. CASE desired[i] = None /\ had
  BY <1>1, <1>2, <1>3, <1>6
<1>7. CASE (desired[i] = None /\ ~had) \/ (desired[i] # None /\ had /\ desired[i] = recorded[i])
  BY <1>3, <1>7 DEF NoOp
<1> QED  BY <1>4, <1>5, <1>6, <1>7

LEMMA StartPassInv ==
  ASSUME Inv, NEW all \in BOOLEAN, StartPass(all)
  PROVE  Inv'
<1>1. TypeOK /\ RegistryInv /\ \A i \in Instances : pc[i] = "off"
  BY DEF StartPass, Still, At, Inv
<1>2. UNCHANGED <<once, release, objects, stored, desired, finds, recorded, used,
                  upToDate, loaded, outcome, request>>
  BY DEF StartPass, cloud, policy, actual
<1>3. /\ op' = [i \in Instances |-> Planned(i, all)]
      /\ pc' = [i \in Instances |->
                  CASE op'[i] = NoOp -> "off"
                    [] op'[i].kind \in {"create", "update"} -> "plugin"
                    [] OTHER -> "detach"]
      /\ tainted' = tainted \cup
           {i \in Instances : op'[i].kind = "create" /\ recorded[i] # None}
  BY DEF StartPass
<1>4. ASSUME NEW i \in Instances
      PROVE  /\ op'[i] \in
                  [kind : {"create", "update", "destroy", "drop", "stuck"},
                   manifest : Manifests] \cup {NoOp}
             /\ op'[i].kind \notin {"create", "update", "none"} => recorded[i] = op'[i].manifest
             /\ pc'[i] \in {"off", "plugin", "detach"}
             /\ pc'[i] = "off" <=> op'[i] = NoOp
             /\ pc'[i] = "plugin" => op'[i].kind \in {"create", "update"}
             /\ pc'[i] = "detach" => op'[i].kind \in {"destroy", "drop", "stuck"}
  <2>1. op'[i] = Planned(i, all)
    BY <1>3
  <2>2. /\ op'[i] \in [kind : {"create", "update", "destroy", "drop", "stuck"},
                        manifest : Manifests] \cup {NoOp}
        /\ op'[i].kind \notin {"create", "update", "none"} => recorded[i] = op'[i].manifest
    BY <1>1, <2>1, PlannedOperation
  <2>3. pc'[i] = CASE op'[i] = NoOp -> "off"
                   [] op'[i].kind \in {"create", "update"} -> "plugin"
                   [] OTHER -> "detach"
    BY <1>3
  <2>4. CASE op'[i] = NoOp
    BY <2>2, <2>3, <2>4 DEF NoOp
  <2>5. CASE op'[i] # NoOp /\ op'[i].kind \in {"create", "update"}
    BY <2>2, <2>3, <2>5
  <2>6. CASE op'[i] # NoOp /\ op'[i].kind \notin {"create", "update"}
    BY <2>2, <2>3, <2>6
  <2> QED  BY <2>4, <2>5, <2>6
<1>5. TypeOK'
  <2>1. op' \in [Instances ->
              [kind : {"create", "update", "destroy", "drop", "stuck"}, manifest : Manifests]
                \cup {NoOp}]
    BY <1>3, <1>4
  <2>2. \A i \in Instances : (At(i, "off") <=> op[i] = NoOp)'
    <3>1. \A i \in Instances : pc'[i] = "off" <=> op'[i] = NoOp
      BY <1>4
    <3> QED  BY <3>1 DEF At, NoOp
  <2>3. pc' \in [Instances -> Calls \cup {"off", "detach", "plugin", "cluster", "cluster run",
                                          "open", "record", "failed"}]
    BY <1>3, <1>4
  <2>4. tainted' \subseteq Instances
    BY <1>1, <1>3 DEF TypeOK
  <2> QED  BY <1>1, <1>2, <2>1, <2>2, <2>3, <2>4 DEF TypeOK
<1>6. RegistryInv'
  <2>1. \A j \in Instances :
          pc'[j] = pc[j] \/ (pc[j] \notin Initializing /\ pc'[j] \in RestingPlaces)
    BY <1>1, <1>4 DEF Initializing, RestingPlaces
  <2> QED  BY <1>1, <1>2, <2>1, RegistryAtRest
<1>7. ASSUME NEW i \in Instances PROVE InstanceInv(i)'
  <2>1. InstanceInv(i) /\ pc[i] = "off"
    BY <1>1 DEF Inv
  <2>2. CASE op'[i] = NoOp
    <3>1. pc'[i] = "off" /\ op[i] = NoOp
      BY <1>1, <1>4, <2>2 DEF TypeOK, At
    <3> QED  BY <1>2, <1>3, <2>1, <2>2, <3>1, InstanceFrame
  <2>3. CASE op'[i] # NoOp
    <3>1. pc'[i] \in {"plugin", "detach"}
      BY <1>4, <2>3
    <3>2. CallsInv(i)'
      BY <1>4, <3>1 DEF CallsInv, At, Initializing, Calls
    <3>3. CodeType[i] = "raw" /\ i \notin tainted' => NothingFailed(i)'
      <4> SUFFICES ASSUME CodeType[i] = "raw", i \notin tainted' PROVE NothingFailed(i)'
        OBVIOUS
      <4>1. /\ stored[i] = recorded[i] /\ objects[i] = Resources(recorded[i])
            /\ op'[i].kind = "create" => recorded[i] = None
        BY <1>3, <2>1 DEF InstanceInv, NothingFailed
      <4>2. op'[i].kind = "destroy" => recorded[i] = op'[i].manifest
        BY <1>4
      <4> QED  BY <1>2, <3>1, <4>1, <4>2 DEF NothingFailed, Resources
    <3> QED  BY <3>2, <3>3 DEF InstanceInv
  <2> QED  BY <2>2, <2>3
<1>8. RequestInv'
  BY <1>2 DEF Inv, RequestInv, AskedAbout
<1> QED  BY <1>5, <1>6, <1>7, <1>8 DEF Inv

(* The Detach before a Delete only takes consumers away.                   *)
LEMMA DetachInv ==
  ASSUME Inv, NEW i \in Instances, Detach(i)
  PROVE  Inv'
<1>1. /\ TypeOK /\ RegistryInv /\ pc[i] = "detach" /\ used' = used \ {i}
      /\ UNCHANGED <<op, once, release, objects, stored, tainted, desired, finds, recorded,
                     upToDate, loaded, outcome, request>>
  BY DEF Detach, At, Inv, cloud, policy
<1>2. op[i].kind \in {"destroy", "drop", "stuck"} /\ InstanceInv(i)
  BY <1>1 DEF Inv, InstanceInv, CallsInv, At
<1> DEFINE to == CASE op[i].kind = "destroy" -> "plugin"
                   [] op[i].kind = "drop"    -> "record"
                   [] op[i].kind = "stuck"   -> "failed"
<1>3. pc' = [pc EXCEPT ![i] = to]
  BY DEF Detach, Goto
<1>4. /\ to \in {"plugin", "record", "failed"}
      /\ to = "plugin" => op[i].kind = "destroy"
      /\ to = "record" => op[i].kind = "drop"
  BY <1>2
<1> HIDE DEF to
<1>5. pc'[i] = to /\ \A j \in Instances \ {i} : pc'[j] = pc[j]
  BY <1>1, <1>3 DEF TypeOK
<1>6. TypeOK'
  <2>1. pc' \in [Instances -> Calls \cup {"off", "detach", "plugin", "cluster", "cluster run",
                                          "open", "record", "failed"}]
    BY <1>1, <1>3, <1>4 DEF TypeOK
  <2>2. \A j \in Instances : (At(j, "off") <=> op[j] = NoOp)'
    BY <1>1, <1>4, <1>5 DEF TypeOK, At
  <2>3. used' \cup upToDate' \subseteq {j \in Instances : recorded'[j] # None}
    BY <1>1 DEF TypeOK
  <2> QED  BY <1>1, <2>1, <2>2, <2>3 DEF TypeOK
<1>7. RegistryInv'
  <2>1. \A j \in Instances :
          pc'[j] = pc[j] \/ (pc[j] \notin Initializing /\ pc'[j] \in RestingPlaces)
    BY <1>1, <1>4, <1>5 DEF Initializing, RestingPlaces
  <2> QED  BY <1>1, <2>1, RegistryAtRest
<1>8. ASSUME NEW j \in Instances PROVE InstanceInv(j)'
  <2>1. CASE j # i
    BY <1>1, <1>5, <2>1, InstanceFrame DEF Inv
  <2>2. CASE j = i
    <3>1. CallsInv(i)'
      BY <1>1, <1>2, <1>4, <1>5 DEF CallsInv, At, Initializing, Calls
    <3>2. CodeType[i] = "raw" /\ i \notin tainted' => NothingFailed(i)'
      BY <1>1, <1>2, <1>4, <1>5 DEF InstanceInv, NothingFailed, Resources
    <3> QED  BY <2>2, <3>1, <3>2 DEF InstanceInv
  <2> QED  BY <2>1, <2>2
<1>9. RequestInv'
  BY <1>1 DEF Inv, RequestInv, AskedAbout
<1> QED  BY <1>6, <1>7, <1>8, <1>9 DEF Inv

(* An action that ends leaves the registry to the others, or is the last.  *)
LEMMA EndsInv ==
  ASSUME Inv, NEW i \in Instances, Ends(i),
         UNCHANGED <<release, objects, stored, desired, finds, loaded, request>>,
         tainted \subseteq tainted', tainted' \subseteq Instances,
         recorded' \in [Instances -> Manifests \cup {None}],
         used' \cup upToDate' \subseteq {j \in Instances : recorded'[j] # None},
         outcome' \in [Instances -> {"ok", "failed", "dropped", "overwritten"}],
         \A j \in Instances \ {i} : recorded'[j] = recorded[j] /\ outcome'[j] = outcome[j],
         pc'[i] = "off" /\ op'[i] = NoOp => InstanceInv(i)'
  PROVE  Inv'
<1>1. TypeOK /\ RegistryInv /\ pc[i] \in {"record", "failed"}
  BY DEF Ends, At, Inv
<1>2. pc' = [pc EXCEPT ![i] = "off"] /\ op' = [op EXCEPT ![i] = NoOp]
  BY DEF Ends, Goto
<1>3. /\ pc'[i] = "off" /\ op'[i] = NoOp
      /\ \A j \in Instances \ {i} : pc'[j] = pc[j] /\ op'[j] = op[j]
  BY <1>1, <1>2 DEF TypeOK
<1>4. RegistryInv' /\ once' \in [{"cluster", "helm", "raw"} -> SyncInit]
  <2>1. CASE \A j \in Instances \ {i} : At(j, "off")
    <3>1. once' = NewRegistry /\ \A j \in Instances : pc'[j] = "off"
      BY <1>3, <2>1 DEF Ends, At
    <3> QED  BY <3>1, RegistryNew, NewRegistryType
  <2>2. CASE ~\A j \in Instances \ {i} : At(j, "off")
    <3>1. once' = once
      BY <2>2 DEF Ends
    <3>2. \A j \in Instances :
            pc'[j] = pc[j] \/ (pc[j] \notin Initializing /\ pc'[j] \in RestingPlaces)
      BY <1>1, <1>3 DEF Initializing, RestingPlaces
    <3> QED  BY <1>1, <3>1, <3>2, RegistryAtRest DEF TypeOK
  <2> QED  BY <2>1, <2>2
<1>5. TypeOK'
  <2>1. pc' \in [Instances -> Calls \cup {"off", "detach", "plugin", "cluster", "cluster run",
                                          "open", "record", "failed"}]
    BY <1>1, <1>2 DEF TypeOK
  <2>2. op' \in [Instances ->
              [kind : {"create", "update", "destroy", "drop", "stuck"}, manifest : Manifests] \cup {NoOp}]
    BY <1>1, <1>2 DEF TypeOK
  <2>3. \A j \in Instances : (At(j, "off") <=> op[j] = NoOp)'
    <3>1. \A j \in Instances : pc[j] = "off" <=> op[j] = NoOp
      BY <1>1 DEF TypeOK, At
    <3>2. \A j \in Instances : pc'[j] = "off" <=> op'[j] = NoOp
      <4> TAKE j \in Instances
      <4>1. CASE j = i
        BY <1>3, <4>1
      <4>2. CASE j # i
        BY <1>3, <3>1, <4>2
      <4> QED  BY <4>1, <4>2
    <3> QED  BY <3>2 DEF At, NoOp
  <2> QED  BY <1>1, <1>4, <2>1, <2>2, <2>3 DEF TypeOK
<1>6. ASSUME NEW j \in Instances PROVE InstanceInv(j)'
  <2>1. CASE j = i
    BY <1>3, <2>1
  <2>2. CASE j # i
    BY <1>3, <2>2, InstanceFrame DEF Inv
  <2> QED  BY <2>1, <2>2
<1>7. RequestInv'
  BY DEF Inv, RequestInv, AskedAbout
<1> QED  BY <1>4, <1>5, <1>6, <1>7 DEF Inv

LEMMA RecordActionInv ==
  ASSUME Inv, NEW i \in Instances, RecordAction(i)
  PROVE  Inv'
<1>1. /\ TypeOK /\ InstanceInv(i) /\ pc[i] = "record" /\ Ends(i)
      /\ UNCHANGED <<release, objects, stored, desired, finds, loaded, request>>
      /\ recorded' = [recorded EXCEPT ![i] = Target(i)] /\ upToDate' = upToDate \ {i}
      /\ used' = IF op[i].kind = "create" THEN used \cup {i}
                 ELSE IF Deletes(i) THEN used \ {i} ELSE used
  BY DEF RecordAction, Recorded, At, Inv, cloud, policy, Target
<1>2. /\ Target(i) \in Manifests \cup {None}
      /\ Target(i) = None => Deletes(i) /\ op[i].kind # "create"
  BY <1>1, OperationAtWork, PluginsAssumption DEF Target, Deletes
<1>3. \/ /\ op[i].kind = "drop" /\ tainted' = tainted \cup {i}
         /\ outcome' = [outcome EXCEPT ![i] = "dropped"]
      \/ /\ op[i].kind # "drop" /\ tainted' = tainted
         /\ outcome' = [outcome EXCEPT ![i] = "ok"]
  BY DEF RecordAction
<1>4. /\ recorded' \in [Instances -> Manifests \cup {None}]
      /\ recorded'[i] = Target(i)
      /\ outcome' \in [Instances -> {"ok", "failed", "dropped", "overwritten"}]
      /\ \A j \in Instances \ {i} : recorded'[j] = recorded[j] /\ outcome'[j] = outcome[j]
      /\ op[i].kind = "drop" => outcome'[i] = "dropped"
  BY <1>1, <1>2, <1>3 DEF TypeOK
<1>5. used' \cup upToDate' \subseteq {j \in Instances : recorded'[j] # None}
  <2>1. used \cup upToDate \subseteq {j \in Instances : recorded[j] # None}
    BY <1>1 DEF TypeOK
  <2>2. ASSUME NEW j \in used' \cup upToDate' PROVE j \in Instances /\ recorded'[j] # None
    <3>1. CASE j = i
      <4>1. i \in used' /\ ~Deletes(i)
        BY <1>1, <1>2, <2>2, <3>1 DEF Deletes
      <4> QED  BY <1>2, <1>4, <3>1, <4>1
    <3>2. CASE j # i
      BY <1>1, <1>4, <2>1, <2>2, <3>2
    <3> QED  BY <3>1, <3>2
  <2> QED  BY <2>2
<1>6. ASSUME pc'[i] = "off", op'[i] = NoOp PROVE InstanceInv(i)'
  <2>1. CASE op[i].kind = "drop"
    <3>1. i \in tainted' /\ outcome'[i] = "dropped"
      BY <1>3, <1>4, <2>1
    <3> QED  BY <1>6, <3>1 DEF InstanceInv, CallsInv, At, Initializing, Calls
  <2>2. CASE op[i].kind # "drop"
    <3>1. IsDeployed(i, Target(i))
      BY <1>1, <2>2 DEF InstanceInv, CallsInv, At
    <3>2. IsDeployed(i, recorded[i])'
      BY <1>1, <1>4, <3>1 DEF IsDeployed, Resources
    <3>3. CallsInv(i)'
      BY <1>6, <3>2 DEF CallsInv, At, Initializing, Calls
    <3>4. CodeType[i] = "raw" /\ i \notin tainted' => NothingFailed(i)'
      <4> SUFFICES ASSUME CodeType[i] = "raw", i \notin tainted PROVE NothingFailed(i)'
        BY <1>3, <2>2
      <4>1. objects[i] = Resources(Target(i))
        BY <1>1, <2>2 DEF InstanceInv, NothingFailed
      <4>2. stored[i] = Target(i)
        BY <3>1 DEF IsDeployed
      <4> QED  BY <1>1, <1>4, <1>6, <4>1, <4>2 DEF NothingFailed, Resources, NoOp
    <3> QED  BY <3>3, <3>4 DEF InstanceInv
  <2> QED  BY <2>1, <2>2
<1>7. tainted \subseteq tainted' /\ tainted' \subseteq Instances
  BY <1>1, <1>3 DEF TypeOK
<1> QED  BY <1>1, <1>4, <1>5, <1>6, <1>7, EndsInv

LEMMA ActionFailsInv ==
  ASSUME Inv, NEW i \in Instances, ActionFails(i)
  PROVE  Inv'
<1>1. /\ TypeOK /\ InstanceInv(i) /\ pc[i] = "failed" /\ Ends(i)
      /\ UNCHANGED <<release, objects, stored, tainted, desired, finds, recorded, used,
                     upToDate, loaded, request>>
      /\ outcome' = [outcome EXCEPT ![i] = "failed"]
  BY DEF ActionFails, At, Inv, cloud, policy, actual
<1>2. /\ outcome'[i] = "failed"
      /\ outcome' \in [Instances -> {"ok", "failed", "dropped", "overwritten"}]
      /\ \A j \in Instances \ {i} : outcome'[j] = outcome[j]
  BY <1>1 DEF TypeOK
<1>3. ASSUME pc'[i] = "off", op'[i] = NoOp PROVE InstanceInv(i)'
  <2>1. CallsInv(i)'
    BY <1>2, <1>3 DEF CallsInv, At, Initializing, Calls
  <2>2. CodeType[i] = "raw" /\ i \notin tainted' => NothingFailed(i)'
    BY <1>1, <1>3 DEF InstanceInv, NothingFailed, Resources, NoOp
  <2> QED  BY <2>1, <2>2 DEF InstanceInv
<1>4. /\ recorded' \in [Instances -> Manifests \cup {None}]
      /\ used' \cup upToDate' \subseteq {j \in Instances : recorded'[j] # None}
      /\ \A j \in Instances \ {i} : recorded'[j] = recorded[j]
      /\ tainted \subseteq tainted' /\ tainted' \subseteq Instances
  BY <1>1 DEF TypeOK
<1> QED  BY <1>1, <1>2, <1>3, <1>4, EndsInv

LEMMA LoadForEndpointsInv ==
  ASSUME Inv, NEW i \in Instances, AskForEndpoints(i) \/ LoadForEndpoints(i)
  PROVE  Inv'
<1>1. /\ UNCHANGED <<pc, op, once, release, objects, stored, tainted, desired, finds,
                     recorded, used, upToDate, outcome, request>>
  BY DEF AskForEndpoints, LoadForEndpoints, pluginVars, cloud, policy, actual
<1>2. TypeOK'
  <2>1. ASSUME recorded[i] # None
        PROVE  [manifest |-> recorded[i], used |-> i \in used] \in [manifest : Manifests, used : BOOLEAN]
    <3>1. recorded[i] \in Manifests
      BY <2>1 DEF Inv, TypeOK
    <3>2. (i \in used) \in BOOLEAN
      OBVIOUS
    <3> QED  BY <3>1, <3>2
  <2>2. loaded' \in [Instances -> [manifest : Manifests, used : BOOLEAN] \cup {NotLoaded, AskedOnly}]
    <3>1. PICK l \in [manifest : Manifests, used : BOOLEAN] \cup {NotLoaded, AskedOnly} :
            loaded' = [loaded EXCEPT ![i] = l]
      BY <2>1 DEF AskForEndpoints, LoadForEndpoints
    <3> QED  BY <3>1 DEF Inv, TypeOK
  <2> QED  BY <1>1, <2>2 DEF Inv, TypeOK, At
<1>3. RegistryInv'
  BY <1>1, RegistryAtRest DEF Inv
<1>4. \A j \in Instances : InstanceInv(j)'
  BY <1>1, InstanceFrame DEF Inv
<1>5. RequestInv'
  BY <1>1 DEF Inv, RequestInv, AskedAbout
<1> QED  BY <1>2, <1>3, <1>4, <1>5 DEF Inv

(* A save that changes what is recorded of an instance makes what was      *)
(* known of its deployment worthless.                                      *)
LEMMA SaveEndpointsInv ==
  ASSUME Inv, NEW i \in Instances, SaveEndpoints(i)
  PROVE  Inv'
<1> DEFINE manifest == loaded[i].manifest
<1>1. /\ UNCHANGED <<pc, op, once, release, objects, stored, desired, finds, request>>
      /\ loaded[i] \notin {NotLoaded, AskedOnly} /\ loaded' = [loaded EXCEPT ![i] = NotLoaded]
      /\ recorded' = [recorded EXCEPT ![i] = manifest]
      /\ used' \subseteq used \cup {i} /\ upToDate' = upToDate \cup {i}
  BY DEF SaveEndpoints, cloud, policy
<1>2. \/ manifest = recorded[i] /\ UNCHANGED <<outcome, tainted>>
      \/ /\ outcome' = [outcome EXCEPT ![i] = "overwritten"]
         /\ tainted' = tainted \cup {i}
  BY DEF SaveEndpoints
<1>3. TypeOK /\ manifest \in Manifests /\ manifest # None
  <2>1. TypeOK /\ loaded[i] \in [manifest : Manifests, used : BOOLEAN]
    BY <1>1 DEF Inv, TypeOK
  <2> QED  BY <2>1, PluginsAssumption
<1> HIDE DEF manifest
<1>4. recorded'[i] = manifest /\ \A j \in Instances \ {i} : recorded'[j] = recorded[j]
  BY <1>1, <1>3 DEF TypeOK
<1>5. TypeOK'
  <2>1. recorded' \in [Instances -> Manifests \cup {None}]
    BY <1>1, <1>3 DEF TypeOK
  <2>2. used' \cup upToDate' \subseteq {j \in Instances : recorded'[j] # None}
    <3>1. used \cup upToDate \subseteq {j \in Instances : recorded[j] # None}
      BY <1>3 DEF TypeOK
    <3>2. ASSUME NEW j \in used' \cup upToDate' PROVE j \in Instances /\ recorded'[j] # None
      BY <1>1, <1>3, <1>4, <3>1, <3>2
    <3> QED  BY <3>2
  <2>3. loaded' \in [Instances -> [manifest : Manifests, used : BOOLEAN] \cup {NotLoaded, AskedOnly}]
    BY <1>1, <1>3 DEF TypeOK
  <2>4. outcome' \in [Instances -> {"ok", "failed", "dropped", "overwritten"}]
        /\ tainted' \subseteq Instances
    BY <1>2, <1>3 DEF TypeOK
  <2>5. \A j \in Instances : (At(j, "off") <=> op[j] = NoOp)'
    BY <1>1, <1>3 DEF TypeOK, At
  <2>6. {desired', recorded'} \subseteq [Instances -> Manifests \cup {None}]
    BY <1>1, <1>3, <2>1 DEF TypeOK
  <2> QED  BY <1>1, <1>3, <2>2, <2>3, <2>4, <2>5, <2>6 DEF TypeOK
<1>6. RegistryInv'
  BY <1>1, RegistryAtRest DEF Inv
<1>7. ASSUME NEW j \in Instances PROVE InstanceInv(j)'
  <2>1. CASE outcome'[j] = outcome[j] /\ recorded'[j] = recorded[j]
    <3>1. j \in tainted => j \in tainted'
      BY <1>2
    <3> QED  BY <1>1, <2>1, <3>1, InstanceFrame DEF Inv
  <2>2. CASE ~(outcome'[j] = outcome[j] /\ recorded'[j] = recorded[j])
    <3>1. j = i
      BY <1>2, <1>3, <1>4, <2>2 DEF TypeOK
    <3>2. outcome'[i] = "overwritten" /\ i \in tainted'
      BY <1>2, <1>3, <1>4, <2>2, <3>1 DEF TypeOK
    <3>3. CallsInv(i)
      BY DEF Inv, InstanceInv
    <3>4. IsDeployed(i, Target(i))' <=> IsDeployed(i, Target(i))
      BY <1>1 DEF IsDeployed, Target, Deletes, Resources
    <3>5. CallsInv(i)'
      BY <1>1, <3>2, <3>3, <3>4 DEF CallsInv, At
    <3> QED  BY <3>1, <3>2, <3>5 DEF InstanceInv
  <2> QED  BY <2>1, <2>2
<1>8. RequestInv'
  BY <1>1 DEF Inv, RequestInv, AskedAbout
<1> QED  BY <1>5, <1>6, <1>7, <1>8 DEF Inv

LEMMA IdleRequest ==
  /\ Idle \in
       [state : {"idle", "desired", "asking"}, kind : {"status", "resources"},
        desired : [Instances -> Manifests \cup {None}], code : SUBSET Instances,
        actual : [Instances -> Manifests \cup {None}],
        todo : SUBSET Instances, ready : BOOLEAN, found : SUBSET Instances,
        failed : BOOLEAN]
  /\ Idle.state = "idle" /\ Idle.found = {} /\ Idle.todo = {}
BY DEF Idle, Nothing

LEMMA KillInv ==
  ASSUME Inv, Kill
  PROVE  Inv'
<1> DEFINE hit == {i \in Instances : pc[i] # "off"}
<1>1. /\ TypeOK
      /\ tainted' = tainted \cup hit
      /\ outcome' = [i \in Instances |-> IF i \in hit THEN "failed" ELSE outcome[i]]
      /\ pc' = [i \in Instances |-> "off"] /\ op' = [i \in Instances |-> NoOp]
      /\ once' = NewRegistry /\ request' = Idle
      /\ loaded' = [i \in Instances |-> NotLoaded]
      /\ UNCHANGED <<release, objects, stored, desired, finds, recorded, used, upToDate>>
  BY DEF Kill, At, Inv, cloud, policy, actual
<1>2. TypeOK'
  <2>1. outcome' \in [Instances -> {"ok", "failed", "dropped", "overwritten"}] /\ tainted' \subseteq Instances
    BY <1>1 DEF TypeOK
  <2>2. \A i \in Instances : (At(i, "off") <=> op[i] = NoOp)'
    BY <1>1 DEF At
  <2> QED  BY <1>1, <2>1, <2>2, IdleRequest, NewRegistryType DEF TypeOK
<1>3. RegistryInv'
  BY <1>1, RegistryNew
<1>4. ASSUME NEW i \in Instances PROVE InstanceInv(i)'
  <2>1. CASE i \in hit
    <3>1. outcome'[i] = "failed" /\ i \in tainted' /\ pc'[i] = "off"
      BY <1>1, <2>1
    <3> QED  BY <3>1 DEF InstanceInv, CallsInv, At, Initializing, Calls
  <2>2. CASE i \notin hit
    <3>1. /\ pc'[i] = pc[i] /\ op'[i] = op[i] /\ outcome'[i] = outcome[i]
          /\ i \in tainted => i \in tainted'
      BY <1>1, <2>2 DEF TypeOK, At
    <3> QED  BY <1>1, <3>1, InstanceFrame DEF Inv
  <2> QED  BY <2>1, <2>2
<1>5. RequestInv'
  BY <1>1, IdleRequest DEF RequestInv
<1> QED  BY <1>2, <1>3, <1>4, <1>5 DEF Inv

-----------------------------------------------------------------------------
(* API requests.                                                           *)

RequestType ==
  [state : {"idle", "desired", "asking"}, kind : {"status", "resources"},
   desired : [Instances -> Manifests \cup {None}], code : SUBSET Instances,
   actual : [Instances -> Manifests \cup {None}],
   todo : SUBSET Instances, ready : BOOLEAN, found : SUBSET Instances,
   failed : BOOLEAN]

(* A request only reads the state of the enforcer.                         *)
LEMMA RequestFrame ==
  ASSUME Inv, request' \in RequestType, RequestInv',
         UNCHANGED <<pc, op, once, release, objects, stored, tainted, desired, finds,
                     recorded, used, upToDate, loaded, outcome>>
  PROVE  Inv'
<1>1. TypeOK'
  BY DEF Inv, TypeOK, At, RequestType
<1>2. RegistryInv'
  BY RegistryAtRest DEF Inv
<1>3. \A i \in Instances : InstanceInv(i)'
  BY InstanceFrame DEF Inv
<1> QED  BY <1>1, <1>2, <1>3 DEF Inv

LEMMA ReceiveInv ==
  ASSUME Inv, Receive \/ Answer
  PROVE  Inv'
<1>1. UNCHANGED <<pc, op, once, release, objects, stored, tainted, desired, finds,
                     recorded, used, upToDate, loaded, outcome>>
  BY DEF Receive, Answer, pluginVars, cloud, policy, actual
<1>2. \/ request' = Idle
      \/ request' = [Idle EXCEPT !.state = "desired", !.desired = desired,
                                 !.code = {i \in Instances : finds[i] = "plugin"}]
  BY DEF Receive, Answer
<1>3. desired \in [Instances -> Manifests \cup {None}]
  BY DEF Inv, TypeOK
<1>4. Idle \in RequestType /\ Idle.state = "idle" /\ Idle.found = {} /\ Idle.todo = {}
  BY IdleRequest DEF RequestType
<1>5. request' \in RequestType
  BY <1>2, <1>3, <1>4 DEF RequestType
<1>6. request'.state # "asking" /\ request'.found = {} /\ request'.todo = {}
  BY <1>2, <1>4 DEF RequestType
<1>7. RequestInv'
  BY <1>6 DEF RequestInv
<1> QED  BY <1>1, <1>5, <1>7, RequestFrame

(* The request that has read the actual state.                             *)
Looking(kind, ready, todo) ==
  [request EXCEPT !.state = "asking", !.kind = kind, !.actual = Consumed,
                  !.ready = ready, !.todo = todo]

LEMMA LookingRequest ==
  ASSUME request \in RequestType, NEW kind \in {"status", "resources"},
         NEW ready \in BOOLEAN, NEW todo \in SUBSET Instances,
         Consumed \in [Instances -> Manifests \cup {None}],
         NEW r, r = Looking(kind, ready, todo)
  PROVE  /\ r \in RequestType /\ r.state = "asking" /\ r.kind = kind
         /\ r.actual = Consumed /\ r.ready = ready /\ r.todo = todo
         /\ r.desired = request.desired /\ r.found = request.found
BY DEF Looking, RequestType

LEMMA ReadActualInv ==
  ASSUME Inv, NEW kind \in {"status", "resources"}, ReadActual(kind)
  PROVE  Inv'
<1> DEFINE todo == IF kind = "status" /\ ~Deployed THEN {} ELSE used
<1>1. UNCHANGED <<pc, op, once, release, objects, stored, tainted, desired, finds,
                  recorded, used, upToDate, loaded, outcome>>
  BY DEF ReadActual, pluginVars, cloud, policy, actual
<1>2. /\ request \in RequestType /\ recorded \in [Instances -> Manifests \cup {None}]
      /\ used \subseteq {i \in Instances : recorded[i] # None}
      /\ request.state = "desired" /\ request.found = {}
  BY DEF Inv, TypeOK, RequestType, ReadActual, RequestInv
<1>3. Deployed \in BOOLEAN /\ todo \in SUBSET Instances
  BY <1>2 DEF Deployed
<1>4. /\ Consumed \in [Instances -> Manifests \cup {None}]
      /\ \A i \in Instances : Consumed[i] # None <=> i \in used
  BY <1>2 DEF Consumed
<1>5. request' = Looking(kind, Deployed, todo)
  BY DEF ReadActual, Looking
<1>6. Deployed => request.desired = Consumed
  BY DEF Deployed
<1>7. /\ request' \in RequestType /\ request'.state = "asking" /\ request'.kind = kind
      /\ request'.actual = Consumed /\ request'.ready = Deployed /\ request'.todo = todo
      /\ request'.desired = request.desired /\ request'.found = {}
  BY <1>2, <1>3, <1>4, <1>5, LookingRequest
<1>8. AskedAbout' = used
  BY <1>2, <1>4, <1>7 DEF AskedAbout
<1>9. kind = "resources" \/ Deployed => todo = used
  OBVIOUS
<1> HIDE DEF todo
<1>10. RequestInv'
  <2>1. request'.kind = "status" /\ request'.ready => request'.desired = request'.actual
    BY <1>6, <1>7
  <2>2. request'.kind = "resources" \/ request'.ready
        => request'.found \cup request'.todo = AskedAbout'
    BY <1>7, <1>8, <1>9
  <2> QED  BY <1>7, <2>1, <2>2 DEF RequestInv
<1> QED  BY <1>1, <1>7, <1>10, RequestFrame

(* What an answer does to a request.                                       *)
FoundBy(i, answer) == IF answer = "ready" THEN request.found \cup {i} ELSE request.found

Reported(i, answer) ==
  [request EXCEPT !.todo = @ \ {i},
                  !.ready = @ /\ answer # "not ready",
                  !.found = FoundBy(i, answer),
                  !.failed = @ \/ answer = "error"]

LEMMA ReportedRequest ==
  ASSUME request \in RequestType, NEW i \in Instances, NEW answer
  PROVE  LET r == Reported(i, answer)
         IN
         /\ r \in RequestType /\ r.state = request.state /\ r.kind = request.kind
         /\ r.desired = request.desired /\ r.actual = request.actual
         /\ r.todo = request.todo \ {i}
         /\ r.ready <=> (request.ready /\ answer # "not ready")
         /\ r.found = FoundBy(i, answer)
         /\ r.failed <=> (request.failed \/ answer = "error")
<1> DEFINE r == Reported(i, answer)
           todo == request.todo \ {i}
           ready == request.ready /\ answer # "not ready"
           found == FoundBy(i, answer)
           failed == request.failed \/ answer = "error"
<1>1. r = [request EXCEPT !.todo = todo, !.ready = ready, !.found = found, !.failed = failed]
  BY Zenon DEF Reported
<1>2. todo \in SUBSET Instances /\ found \in SUBSET Instances
  BY DEF RequestType, FoundBy
<1>3. ready \in BOOLEAN /\ failed \in BOOLEAN
  OBVIOUS
<1> HIDE DEF r, todo, ready, found, failed
<1>4. /\ r \in RequestType /\ r.state = request.state /\ r.kind = request.kind
      /\ r.desired = request.desired /\ r.actual = request.actual
      /\ r.todo = todo /\ r.ready = ready /\ r.found = found /\ r.failed = failed
  BY <1>1, <1>2, <1>3 DEF RequestType
<1>5. r.ready <=> request.ready /\ answer # "not ready"
  BY <1>4, Zenon DEF ready
<1>6. r.failed <=> request.failed \/ answer = "error"
  BY <1>4, Zenon DEF failed
<1>7. /\ r.todo = request.todo \ {i}
      /\ r.found = FoundBy(i, answer)
  BY <1>4 DEF todo, found
<1> QED  BY <1>4, <1>5, <1>6, <1>7 DEF r

LEMMA SaysOnly ==
  ASSUME NEW i \in Instances, request.kind \in {"status", "resources"}
  PROVE  /\ Says(i) \subseteq {"ready", "not ready", "error"}
         /\ request.kind = "resources" => "not ready" \notin Says(i)
BY DEF Says, Answers

LEMMA AskInv ==
  ASSUME Inv, NEW i \in Instances, Ask(i)
  PROVE  Inv'
<1>1. UNCHANGED <<pc, op, once, release, objects, stored, tainted, desired, finds,
                     recorded, used, upToDate, loaded, outcome>>
  BY DEF Ask, cloud, policy, actual
<1>2. request \in RequestType /\ RequestInv /\ i \in request.todo
  BY DEF Inv, TypeOK, RequestType, Ask
<1>3. PICK answer \in {"ready", "not ready", "error"} :
        /\ Report(i, answer)
        /\ request.kind = "resources" => answer # "not ready"
  BY <1>2, SaysOnly DEF Ask, RequestType
<1>4. request' = Reported(i, answer)
  BY <1>3 DEF Report, Reported, FoundBy
<1>5. /\ request' \in RequestType /\ request'.state = request.state /\ request'.kind = request.kind
      /\ request'.desired = request.desired /\ request'.actual = request.actual
      /\ request'.todo = request.todo \ {i}
      /\ request'.ready <=> (request.ready /\ answer # "not ready")
      /\ request'.found = FoundBy(i, answer)
      /\ request'.failed <=> (request.failed \/ answer = "error")
  BY <1>2, <1>4, ReportedRequest
<1>6. AskedAbout' = AskedAbout /\ request'.state = "asking"
  BY <1>2, <1>5 DEF AskedAbout, RequestInv, RequestType
<1>7. RequestInv'
  <2>1. request'.kind = "status" /\ request'.ready => request'.desired = request'.actual
    BY <1>2, <1>5, <1>6 DEF RequestInv
  <2>2. ASSUME ~request'.failed, request'.kind = "resources" \/ request'.ready
        PROVE  request'.found \cup request'.todo = AskedAbout'
    <3>1. answer = "ready" /\ ~request.failed /\ (request.kind = "resources" \/ request.ready)
      BY <1>3, <1>5, <2>2
    <3>2. request.found \cup request.todo = AskedAbout
      BY <1>2, <1>5, <1>6, <3>1 DEF RequestInv
    <3>3. request'.found = request.found \cup {i} /\ request'.todo = request.todo \ {i}
      BY <1>5, <3>1 DEF FoundBy
    <3> QED  BY <1>2, <1>6, <3>2, <3>3
  <2> QED  BY <1>6, <2>1, <2>2 DEF RequestInv
<1> QED  BY <1>1, <1>5, <1>7, RequestFrame

LEMMA SkipInv ==
  ASSUME Inv, NEW i \in Instances, Skip(i)
  PROVE  Inv'
<1>1. UNCHANGED <<pc, op, once, release, objects, stored, tainted, desired, finds,
                     recorded, used, upToDate, loaded, outcome>>
  BY DEF Skip, pluginVars, cloud, policy, actual
<1>2. /\ request \in RequestType /\ RequestInv /\ i \in request.todo
      /\ request.kind = "status" /\ ~request.ready
  BY DEF Inv, TypeOK, RequestType, Skip
<1>3. request' = [request EXCEPT !.todo = request.todo \ {i}]
  BY DEF Skip
<1>4. /\ request' \in RequestType /\ request'.state = request.state
      /\ request'.kind = request.kind /\ request'.ready = request.ready
  BY <1>2, <1>3 DEF RequestType
<1>5. RequestInv'
  BY <1>2, <1>4 DEF RequestInv
<1> QED  BY <1>1, <1>4, <1>5, RequestFrame

-----------------------------------------------------------------------------

LEMMA PluginInv ==
  ASSUME Inv, Plugin
  PROVE  Inv'
<1>1. PICK i \in Instances : Initialize(i) \/ Call(i)
  BY DEF Plugin
<1>2. UNCHANGED <<policy, actual, loaded, outcome, request, counters>>
  BY DEF Plugin
<1>3. UNCHANGED <<desired, finds, recorded, used, upToDate, loaded, outcome, request>>
  BY <1>2 DEF policy, actual
<1>4. CASE Initialize(i)
  BY <1>2, <1>4, InitializeInv
<1>5. CASE Prepare(i) \/ Install(i) \/ Upgrade(i) \/ Purge(i)
  BY <1>2, <1>3, <1>5, HelmInv
<1>6. CASE \/ Create(i) \/ LoadManifest(i) \/ Update(i)
           \/ Store(i) \/ Delete(i) \/ Unstore(i)
  BY <1>2, <1>3, <1>6, RawInv
<1>7. CASE CallFails(i)
  BY <1>2, <1>3, <1>7, CallFailsInv
<1> QED  BY <1>1, <1>4, <1>5, <1>6, <1>7 DEF Call

LEMMA StutterInv ==
  ASSUME Inv, UNCHANGED vars
  PROVE  Inv'
<1>1. UNCHANGED <<pc, op, once, release, objects, stored, tainted, desired, finds,
                     recorded, used, upToDate, loaded, outcome, request>>
  BY DEF vars, pluginVars, cloud, policy, actual
<1>2. request' \in RequestType /\ RequestInv'
  BY <1>1 DEF Inv, TypeOK, RequestType, RequestInv, AskedAbout
<1> QED  BY <1>1, <1>2, RequestFrame

LEMMA NextInv == Inv /\ [Next]_vars => Inv'
<1> SUFFICES ASSUME Inv, [Next]_vars PROVE Inv'
  OBVIOUS
<1>1. CASE ChangePolicy
  BY <1>1, ChangePolicyInv
<1>2. CASE Enforcer
  BY <1>2, StartPassInv, DetachInv, RecordActionInv, ActionFailsInv DEF Enforcer
<1>3. CASE EndpointsUpdater
  BY <1>3, LoadForEndpointsInv, SaveEndpointsInv DEF EndpointsUpdater
<1>4. CASE Kill
  BY <1>4, KillInv
<1>5. CASE API
  BY <1>5, ReceiveInv, ReadActualInv, AskInv, SkipInv DEF API
<1>6. CASE Plugin
  BY <1>6, PluginInv
<1>7. CASE UNCHANGED vars
  BY <1>7, StutterInv
<1> QED  BY <1>1, <1>2, <1>3, <1>4, <1>5, <1>6, <1>7 DEF Next

LEMMA AlwaysInv == Spec => []Inv
BY InitInv, NextInv, PTL DEF Spec

-----------------------------------------------------------------------------

(* The variables keep their types; in particular what is recorded of an    *)
(* instance, and what is deployed, is a manifest that some policy has had. *)
THEOREM TypeCorrect == Spec => []TypeOK
<1>1. Inv => TypeOK
  BY DEF Inv
<1> QED  BY <1>1, AlwaysInv, PTL

(* The initializer of a plugin runs once, however many goroutines ask for  *)
(* the plugin at once, and its error reaches them all (sync.Init).         *)
THEOREM InitializerRunsOnce == Spec => []InitializedOnce
<1>1. Inv => InitializedOnce
  <2> SUFFICES ASSUME Inv, NEW i \in Instances, NEW p \in {"cluster", CodeType[i]}
               PROVE  /\ once[p].runs <= 1
                      /\ once[p].done /\ once[p].err => pc[i] \notin Calls
    BY DEF InitializedOnce
  <2>1. p \in {"cluster", "helm", "raw"} /\ CodeType[i] \in {"helm", "raw"}
    BY PluginsAssumption
  <2>2. /\ once[p].runs = IF once[p].done \/ once[p].holder # "nobody" THEN 1 ELSE 0
        /\ once[p].open <=> once[p].done /\ ~once[p].err
        /\ once[CodeType[i]].open => once["cluster"].open
        /\ pc[i] \in Calls => once[CodeType[i]].open
    BY <2>1 DEF Inv, RegistryInv
  <2>3. once[p].runs <= 1
    BY <2>2
  <2>4. once[p].done /\ once[p].err => pc[i] \notin Calls
    BY <2>1, <2>2
  <2> QED  BY <2>3, <2>4
<1> QED  BY <1>1, AlwaysInv, PTL

(* A call is only made when its plugin and that of its cluster are         *)
(* initialised, whoever has done it.                                       *)
THEOREM UsedWhenInitialized == Spec => []InitializedBeforeUse
<1>1. Inv => InitializedBeforeUse
  BY PluginsAssumption DEF Inv, RegistryInv, InitializedBeforeUse
<1> QED  BY <1>1, AlwaysInv, PTL

(* After an action that has succeeded, whatever calls have failed and      *)
(* however often the process was killed before it, the actual state is     *)
(* true of the cloud, unless the endpoints updater has overwritten it      *)
(* since. An action that deletes the record of an instance and calls no    *)
(* plugin (component/delete.go) is not among them: what it has left in the *)
(* cloud is in no record any more.                                         *)
THEOREM ActualStateIsDeployed == Spec => []RecordedIsDeployed
<1>1. Inv => RecordedIsDeployed
  <2> SUFFICES ASSUME Inv, NEW i \in Instances, outcome[i] = "ok", pc[i] = "off"
               PROVE  CASE CodeType[i] = "helm" -> release[i] = recorded[i]
                        [] CodeType[i] = "raw" ->
                             /\ stored[i] = recorded[i]
                             /\ recorded[i] # None =>
                                  ResourcesOf[recorded[i]] \subseteq objects[i]
    BY DEF RecordedIsDeployed, Working, At
  <2>1. IsDeployed(i, recorded[i]) /\ CodeType[i] \in {"helm", "raw"}
    BY PluginsAssumption DEF Inv, InstanceInv, CallsInv, At
  <2> QED  BY <2>1 DEF IsDeployed, Resources
<1> QED  BY <1>1, AlwaysInv, PTL

(* Updates and deletions leave no resource of an earlier manifest in the   *)
(* cluster, however many there are (k8sraw/plugin.go), of an instance of   *)
(* which no call has failed, that was neither created over what it had nor *)
(* deleted without its plugin, and whose record was not overwritten.       *)
THEOREM UpdatesLeaveNothingBehind == Spec => []NothingLeftBehind
<1>1. Inv => NothingLeftBehind
  <2> SUFFICES ASSUME Inv, NEW i \in Instances, i \notin tainted,
                      CodeType[i] = "raw", pc[i] = "off"
               PROVE  objects[i] = Resources(recorded[i])
    BY DEF NothingLeftBehind, Working, At, Resources
  <2> QED  BY DEF Inv, InstanceInv, NothingFailed
<1> QED  BY <1>1, AlwaysInv, PTL

(* A request is not answered "ready", or with resources, on part of the    *)
(* answers, whatever happens to the instances while it is handled.         *)
THEOREM RequestsGetAllAnswers == Spec => []AnswersComplete
<1>1. Inv => AnswersComplete
  BY DEF Inv, RequestInv, AskedAbout, AnswersComplete, Answered
<1> QED  BY <1>1, AlwaysInv, PTL

=============================================================================
