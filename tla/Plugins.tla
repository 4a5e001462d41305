------------------------------- MODULE Plugins -------------------------------
(***************************************************************************)
(* The plugins that change and look at the cloud (pkg/plugin): the registry *)
(* of a pass or of a request, the one-time initialisation of its plugins,  *)
(* and the operations of the two code plugins, helm and k8sraw, call by    *)
(* call of the Kubernetes and Tiller APIs.                                 *)
(*                                                                         *)
(* Every pass of the enforcer and every API request has a registry of its  *)
(* own, with one plugin for the cluster and one for each type of code on   *)
(* it; its goroutines, one per instance, share them (ForCluster and        *)
(* ForCodeType make them under a mutex). There is one cluster here, and    *)
(* only the registry of a pass: that of a request works in the same way,   *)
(* and its goroutines are here from the first call on, which may fail.     *)
(***************************************************************************)
EXTENDS Integers, FiniteSets, Functions

CONSTANTS
  Instances,         (* component instances with code                      *)
  CodeType,          (* instance -> "helm" or "raw"                        *)
  ResourcesOf,       (* manifest -> the resources it has                   *)
  Workloads,         (* those that are deployments or stateful sets; the   *)
                     (* others are services                                *)
  None,              (* no manifest                                        *)
  ConfigNamespace,   (* data namespace in the configuration of k8sraw      *)
  ClusterNamespace,  (* data namespace in the configuration of the cluster *)
  MaxFaults          (* bound on calls that fail and on kills              *)

Manifests == DOMAIN ResourcesOf

ASSUME PluginsAssumption ==
  /\ "nobody" \notin Instances
  /\ CodeType \in [Instances -> {"helm", "raw"}]
  /\ None \notin Manifests
  /\ MaxFaults \in Nat

VARIABLES
  pc,        (* instance -> where the goroutine of its action is           *)
  op,        (* what it does: [kind, manifest]                             *)
  once,      (* registry: plugin -> sync.Init and what it initialises      *)
  release,   (* Tiller: helm instance -> manifest of its release, or None  *)
  objects,   (* the cluster: raw instance -> resources that exist          *)
  stored,    (* config maps of k8sraw: instance -> manifest, or None       *)
  tainted,   (* history: instances of which a call has failed or may have, *)
             (* that were created again over what they had, deleted        *)
             (* without their plugin, or whose record was overwritten      *)
  faults

cloud == <<release, objects, stored>>
pluginVars == <<pc, op, once, cloud, tainted, faults>>

(* sync.Init, and whether the initializer has done its work (open).        *)
NewInit == [done |-> FALSE, err |-> FALSE, holder |-> "nobody", runs |-> 0,
            open |-> FALSE]

NewRegistry == [plugin \in {"cluster", "helm", "raw"} |-> NewInit]

NoOp == [kind |-> "none", manifest |-> None]

PluginsInit(deployed) ==
  /\ pc = [i \in Instances |-> "off"]
  /\ op = [i \in Instances |-> NoOp]
  /\ once = NewRegistry
  /\ release = [i \in Instances |->
                  IF CodeType[i] = "helm" THEN deployed[i] ELSE None]
  /\ stored = [i \in Instances |->
                 IF CodeType[i] = "raw" THEN deployed[i] ELSE None]
  /\ objects = [i \in Instances |->
                  IF stored[i] = None THEN {} ELSE ResourcesOf[stored[i]]]
  /\ tainted = {}
  /\ faults = 0

Goto(i, step) == pc' = [pc EXCEPT ![i] = step]

At(i, step) == pc[i] = step

-----------------------------------------------------------------------------
(* The first call of an operation, when its plugin is initialised. (A      *)
(* Delete that finds no component in the policy never comes here.)         *)
FirstCall(i) ==
  LET kind == op[i].kind
  IN  CASE kind \in {"create", "update"} /\ CodeType[i] = "helm" -> "prepare"
        [] kind = "destroy" /\ CodeType[i] = "helm" -> "purge"
        [] kind = "create" /\ CodeType[i] = "raw" -> "create"
        [] kind = "update" /\ CodeType[i] = "raw" -> "load"
        [] kind = "destroy" /\ CodeType[i] = "raw" -> "delete"

(* What Do returns: init of the code plugin fails the operation, that of   *)
(* the cluster plugin is looked at by the initializer that asked for it.   *)
Returned(i, plugin, err) ==
  CASE plugin = "cluster" -> "open"
    [] plugin # "cluster" /\ err -> "failed"
    [] OTHER -> FirstCall(i)

(* sync.Init.Do: a look at done without the lock is enough if it is set    *)
(* ...                                                                     *)
Load(i, plugin, at) ==
  /\ At(i, at)
  /\ once[plugin].done
  /\ Goto(i, Returned(i, plugin, once[plugin].err))
  /\ UNCHANGED <<op, once, cloud, tainted, faults>>

(* Mutant of Lock: done is not looked at again.                            *)
LockUnchecked(i, plugin, at, run) ==
  /\ At(i, at)
  /\ once[plugin].holder = "nobody"
  /\ Goto(i, run)
  /\ once' = [once EXCEPT ![plugin].holder = i,
                          ![plugin].runs = @ + 1]
  /\ UNCHANGED <<op, cloud, tainted, faults>>

(* Mutant of Lock: done is stored at once, not when the initializer ends.  *)
LockDone(i, plugin, at, run) ==
  /\ At(i, at)
  /\ once[plugin].holder = "nobody"
  /\ IF once[plugin].done
     THEN /\ Goto(i, Returned(i, plugin, once[plugin].err))
          /\ UNCHANGED once
     ELSE /\ Goto(i, run)
          /\ once' = [once EXCEPT ![plugin].holder = i,
                                  ![plugin].done = TRUE,
                                  ![plugin].runs = @ + 1]
  /\ UNCHANGED <<op, cloud, tainted, faults>>

(* ... and if it was not, which may be long ago, there is another one with *)
(* the lock, after which the initializer runs.                             *)
Lock(i, plugin, at, run) ==
  /\ At(i, at)
  /\ once[plugin].holder = "nobody"
  /\ IF once[plugin].done
     THEN /\ Goto(i, Returned(i, plugin, once[plugin].err))
          /\ UNCHANGED once
     ELSE /\ Goto(i, run)
          /\ once' = [once EXCEPT ![plugin].holder = i,
                                  ![plugin].runs = @ + 1]
  /\ UNCHANGED <<op, cloud, tainted, faults>>

(* The initializer ends, with an error that is kept or without; done is    *)
(* stored before the lock is released.                                     *)
Initialized(i, plugin, err) ==
  /\ once' = [once EXCEPT ![plugin] =
                [@ EXCEPT !.done = TRUE, !.err = err, !.open = ~err,
                          !.holder = "nobody"]]
  /\ Goto(i, Returned(i, plugin, err))
  /\ UNCHANGED <<op, cloud, tainted>>

Fault == faults < MaxFaults /\ faults' = faults + 1

(* k8s.Plugin.Init: the configuration of the cluster, then its nodes, for  *)
(* the external address. An initializer that panics fails too.             *)
InitCluster(i) ==
  /\ At(i, "cluster run")
  /\ \/ Initialized(i, "cluster", FALSE) /\ UNCHANGED faults
     \/ Initialized(i, "cluster", TRUE) /\ Fault

(* parseClusterConfig of k8sraw.                                           *)
DataNamespace ==
  CASE ClusterNamespace # "" -> ClusterNamespace
    [] ClusterNamespace = "" /\ ConfigNamespace # "" -> ClusterNamespace
    [] OTHER -> "aptomi"

(* The rest of the initializer of a code plugin: ensureTillerTunnel, which *)
(* installs Tiller if it is not there, and tries again for two minutes, or *)
(* the data namespace of k8sraw.                                           *)
Open(i) ==
  /\ At(i, "open")
  /\ IF once["cluster"].err \/ (CodeType[i] = "raw" /\ DataNamespace = "")
     THEN Initialized(i, CodeType[i], TRUE) /\ UNCHANGED faults
     ELSE \/ Initialized(i, CodeType[i], FALSE) /\ UNCHANGED faults
          \/ Initialized(i, CodeType[i], TRUE) /\ Fault

Initialize(i) ==
  \/ Load(i, CodeType[i], "plugin")
  \/ Lock(i, CodeType[i], "plugin", "cluster")
  \/ Load(i, "cluster", "cluster")
  \/ Lock(i, "cluster", "cluster", "cluster run")
  \/ InitCluster(i)
  \/ Open(i)

-----------------------------------------------------------------------------
(* Calls that succeed, call by call.                                       *)

Called(i, from, to) ==
  /\ At(i, from)
  /\ Goto(i, to)
  /\ UNCHANGED <<op, once, tainted, faults>>

(* A call that is refused, for a reason that is in the cloud.              *)
Refused(i) ==
  /\ Goto(i, "failed")
  /\ tainted' = tainted \cup {i}
  /\ UNCHANGED <<op, once, faults>>

(* createOrUpdate of helm: the namespace and the chart; the release, if    *)
(* there is one. One that is to be created and exists is updated.          *)
Prepare(i) ==
  /\ LET create == op[i].kind = "create" /\ release[i] = None
     IN  Called(i, "prepare", IF create THEN "install" ELSE "upgrade")
  /\ UNCHANGED cloud

Install(i) ==
  /\ Called(i, "install", "record")
  /\ release' = [release EXCEPT ![i] = op[i].manifest]
  /\ UNCHANGED <<objects, stored>>

(* ReleaseStatus and UpdateRelease.                                        *)
Upgrade(i) ==
  /\ IF release[i] = None
     THEN At(i, "upgrade") /\ Refused(i) /\ UNCHANGED cloud
     ELSE /\ Called(i, "upgrade", "record")
          /\ release' = [release EXCEPT ![i] = op[i].manifest]
          /\ UNCHANGED <<objects, stored>>

Purge(i) ==
  /\ IF release[i] = None
     THEN At(i, "purge") /\ Refused(i) /\ UNCHANGED cloud
     ELSE /\ Called(i, "purge", "record")
          /\ release' = [release EXCEPT ![i] = None]
          /\ UNCHANGED <<objects, stored>>

-----------------------------------------------------------------------------
(* k8sraw. A resource that exists cannot be created: creation stops there. *)

Wanted(i) == ResourcesOf[op[i].manifest]

Create(i) ==
  /\ At(i, "create")
  /\ IF objects[i] \cap Wanted(i) = {}
     THEN /\ Called(i, "create", "store")
          /\ objects' = [objects EXCEPT ![i] = @ \cup Wanted(i)]
     ELSE /\ Refused(i)
          /\ \E some \in SUBSET (Wanted(i) \ objects[i]) :
               objects' = [objects EXCEPT ![i] = @ \cup some]
  /\ UNCHANGED <<release, stored>>

(* loadManifest: the manifest that was deployed last.                      *)
LoadManifest(i) ==
  /\ IF stored[i] = None
     THEN At(i, "load") /\ Refused(i)
     ELSE Called(i, "load", "update")
  /\ UNCHANGED cloud

(* Of the resources that exist, what the target does not have any more is  *)
(* deleted.                                                                *)
Updated(i) ==
  Wanted(i) \cup (objects[i] \ ResourcesOf[stored[i]])

Update(i) ==
  /\ Called(i, "update", "store")
  /\ objects' = [objects EXCEPT ![i] = Updated(i)]
  /\ UNCHANGED <<release, stored>>

(* Mutant of Store: the manifest of an update is not stored.               *)
StoreCreated(i) ==
  /\ Called(i, "store", "record")
  /\ stored' = IF op[i].kind = "update" THEN stored
               ELSE [stored EXCEPT ![i] = op[i].manifest]
  /\ UNCHANGED <<release, objects>>

(* storeManifest.                                                          *)
Store(i) ==
  /\ Called(i, "store", "record")
  /\ stored' = [stored EXCEPT ![i] = op[i].manifest]
  /\ UNCHANGED <<release, objects>>

(* Destroy: the resources of the manifest in the actual state; what is not *)
(* there is skipped.                                                       *)
Delete(i) ==
  /\ Called(i, "delete", "unstore")
  /\ objects' = [objects EXCEPT ![i] = @ \ Wanted(i)]
  /\ UNCHANGED <<release, stored>>

Unstore(i) ==
  /\ Called(i, "unstore", "record")
  /\ stored' = [stored EXCEPT ![i] = None]
  /\ UNCHANGED <<release, objects>>

-----------------------------------------------------------------------------
(* What API requests and the endpoints updater ask for. Each looks up some *)
(* kinds of resources, of the release or of the manifest in the actual     *)
(* state: Endpoints the services, Resources the workloads, and Status both *)
(* (kinds that none of them looks up are left out). Of a resource that is  *)
(* there, only the cloud knows whether it is ready; one that is not there  *)
(* is an error, but a workload is not ready for Status.                    *)
Missing(i, resources) ==
  IF CodeType[i] = "helm" THEN release[i] = None ELSE ~(resources \subseteq objects[i])

HasServices(i, manifest) == ~Missing(i, ResourcesOf[manifest] \ Workloads)

HasWorkloads(i, manifest) == ~Missing(i, ResourcesOf[manifest] \cap Workloads)

Answers(i, manifest, kind) ==
  CASE kind = "resources" -> IF HasWorkloads(i, manifest) THEN {"ready"} ELSE {"error"}
    [] kind = "status" /\ CodeType[i] = "helm" /\ release[i] = None -> {"error"}
    [] OTHER -> {"not ready"}
         \cup (IF HasServices(i, manifest) THEN {} ELSE {"error"})
         \cup (IF HasServices(i, manifest) /\ HasWorkloads(i, manifest) THEN {"ready"} ELSE {})

-----------------------------------------------------------------------------
(* Any call can fail, before or after it has done some or all of its work. *)

Calls == {"prepare", "install", "upgrade", "purge", "create",
          "load", "update", "store", "delete", "unstore"}

PartlyDone(i) ==
  LET some(before, after) ==
        \E gone \in SUBSET (before \ after), new \in SUBSET (after \ before) :
          objects' = [objects EXCEPT ![i] = (@ \ gone) \cup new]
  IN  CASE pc[i] \in {"install", "upgrade", "purge"} ->
             /\ \E m \in {release[i], IF pc[i] = "purge" THEN None
                                      ELSE op[i].manifest} :
                  release' = [release EXCEPT ![i] = m]
             /\ UNCHANGED <<objects, stored>>
        [] pc[i] = "create" ->
             /\ some(objects[i], objects[i] \cup Wanted(i))
             /\ UNCHANGED <<release, stored>>
        [] pc[i] = "update" ->
             some(objects[i], Updated(i)) /\ UNCHANGED <<release, stored>>
        [] pc[i] = "delete" ->
             /\ some(objects[i], objects[i] \ Wanted(i))
             /\ UNCHANGED <<release, stored>>
        [] pc[i] \in {"store", "unstore"} ->
             /\ \E m \in {stored[i], IF pc[i] = "unstore" THEN None
                                     ELSE op[i].manifest} :
                  stored' = [stored EXCEPT ![i] = m]
             /\ UNCHANGED <<release, objects>>
        [] OTHER -> UNCHANGED cloud

CallFails(i) ==
  /\ pc[i] \in Calls
  /\ PartlyDone(i)
  /\ Goto(i, "failed")
  /\ tainted' = tainted \cup {i}
  /\ Fault
  /\ UNCHANGED <<op, once>>

Call(i) ==
  \/ Prepare(i) \/ Install(i) \/ Upgrade(i) \/ Purge(i)
  \/ Create(i) \/ LoadManifest(i) \/ Update(i) \/ Store(i)
  \/ Delete(i) \/ Unstore(i)
  \/ CallFails(i)

=============================================================================
