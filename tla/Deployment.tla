----------------------------- MODULE Deployment -----------------------------
(***************************************************************************)
(* The plugins at work: passes of the enforcer, which create, update and   *)
(* destroy instances and record in the actual state what they have done,   *)
(* and the API requests that ask, meanwhile, for the status or for the     *)
(* resources of a dependency (pkg/api/dependency.go and                    *)
(* dependency_resources.go).                                               *)
(*                                                                         *)
(* One dependency consumes all instances, which do not depend on each      *)
(* other (the order of the actions of a pass is in ActionPlan). The        *)
(* endpoints updater loads an instance and saves it later, over what the   *)
(* enforcer has recorded meanwhile; which endpoints it has found is in     *)
(* Server. The enforcer's own updates of the store are one step each: only *)
(* it deletes instances, and the last save wins.                           *)
(***************************************************************************)
EXTENDS Plugins

CONSTANTS
  MaxPasses,    (* bound on passes of the enforcer                         *)
  MaxChanges    (* bound on changes of the policy                          *)

ASSUME DeploymentAssumption ==
  MaxPasses \in Nat /\ MaxChanges \in Nat

VARIABLES
  desired,    (* instance -> manifest that its component has, or None      *)
  finds,      (* what an action on an instance finds in the policy: its    *)
              (* code and cluster ("plugin"); its service without the      *)
              (* component ("nothing"); or an error (no service, or no     *)
              (* cluster)                                                  *)
  recorded,   (* actual state: instance -> manifest, or None               *)
  used,       (* actual state: instances that the dependency consumes      *)
  upToDate,   (* actual state: instances with EndpointsUpToDate            *)
  loaded,     (* what the endpoints updater has loaded and will save       *)
  outcome,    (* instance -> how its last action has ended: "ok"; "failed" *)
              (* (or killed); "dropped" (deleted without a plugin); or     *)
              (* "overwritten" since, by the endpoints updater             *)
  request,    (* the API request that is handled                           *)
  passes, changes

policy == <<desired, finds>>
actual == <<recorded, used, upToDate>>
counters == <<passes, changes>>
vars == <<pluginVars, policy, actual, loaded, outcome, request, counters>>

Nothing == [i \in Instances |-> None]

(* The updater has nothing to do with an instance, or an answer about it.  *)
NotLoaded == [manifest |-> None, used |-> FALSE]
AskedOnly == [manifest |-> None, used |-> TRUE]

Idle == [state |-> "idle", kind |-> "status", desired |-> Nothing, code |-> {},
         actual |-> Nothing, todo |-> {}, ready |-> FALSE, found |-> {},
         failed |-> FALSE]

(* A pass has deployed what the policy asks for.                           *)
Init ==
  /\ \E m \in Manifests : desired = [i \in Instances |-> m]
  /\ finds = [i \in Instances |-> "plugin"]
  /\ recorded = desired
  /\ PluginsInit(recorded)
  /\ used = Instances /\ upToDate = Instances
  /\ loaded = [i \in Instances |-> NotLoaded]
  /\ outcome = [i \in Instances |-> "ok"]
  /\ request = Idle
  /\ passes = 0 /\ changes = 0

Still == \A i \in Instances : At(i, "off")

(* The registry of a pass goes when its last action ends.                  *)
Ends(i) ==
  /\ At(i, "record") \/ At(i, "failed")
  /\ Goto(i, "off")
  /\ op' = [op EXCEPT ![i] = NoOp]
  /\ once' = IF \A j \in Instances \ {i} : At(j, "off")
             THEN NewRegistry ELSE once

-----------------------------------------------------------------------------
(* A pass of the enforcer.                                                 *)

(* What is desired is in the policy; what is not may be there all the same *)
(* (nobody depends on it any more).                                        *)
ChangePolicy ==
  /\ changes < MaxChanges
  /\ changes' = changes + 1
  /\ \E i \in Instances, m \in Manifests \cup {None}, found \in {"plugin", "nothing", "error"} :
       /\ m # None => found = "plugin"
       /\ <<m, found>> # <<desired[i], finds[i]>>
       /\ desired' = [desired EXCEPT ![i] = m]
       /\ finds' = [finds EXCEPT ![i] = found]
  /\ UNCHANGED <<pluginVars, actual, loaded, outcome, request, passes>>

(* What the Delete of an instance comes to: the plugin is called; nothing  *)
(* is, and the record is dropped; or it fails.                             *)
Removal(i) ==
  CASE finds[i] = "plugin"  -> "destroy"
    [] finds[i] = "nothing" -> "drop"
    [] finds[i] = "error"   -> "stuck"

(* The diff, by the consumers that an instance has and will have: against  *)
(* the actual state, or against nothing when everything is to be enforced  *)
(* again (RecalculateAll). An instance that is recorded without consumers  *)
(* is created again when it is wanted, and otherwise left alone.           *)
Planned(i, all) ==
  LET wanted == desired[i] # None
      had    == ~all /\ i \in used
      operation(kind, manifest) ==
        [kind |-> kind, manifest |-> manifest]
  IN  CASE wanted /\ ~had -> operation("create", desired[i])
        [] wanted /\ had /\ desired[i] # recorded[i] -> operation("update", desired[i])
        [] ~wanted /\ had -> operation(Removal(i), recorded[i])
        [] OTHER -> NoOp

StartPass(all) ==
  /\ Still
  /\ passes < MaxPasses
  /\ passes' = passes + 1
  /\ op' = [i \in Instances |-> Planned(i, all)]
  /\ pc' = [i \in Instances |->
              CASE op'[i] = NoOp -> "off"
                [] op'[i].kind \in {"create", "update"} -> "plugin"
                [] OTHER -> "detach"]
  /\ pc' # pc
  /\ tainted' = tainted \cup
       {i \in Instances : op'[i].kind = "create" /\ recorded[i] # None}
  /\ UNCHANGED <<once, cloud, faults, policy, actual, loaded, outcome, request,
                 changes>>

(* The Detach before a Delete, which then looks at the policy.             *)
Detach(i) ==
  /\ At(i, "detach")
  /\ used' = used \ {i}
  /\ Goto(i, CASE op[i].kind = "destroy" -> "plugin"
               [] op[i].kind = "drop"    -> "record"
               [] op[i].kind = "stuck"   -> "failed")
  /\ UNCHANGED <<op, once, cloud, tainted, faults, policy, recorded, upToDate, loaded,
                 outcome, request, counters>>

Deletes(i) == op[i].kind \in {"destroy", "drop"}

(* Mutant of Recorded: the endpoints of a deleted instance stay.           *)
RecordedKeepingEndpoints(i) ==
  /\ recorded' = [recorded EXCEPT ![i] = IF Deletes(i) THEN None ELSE op[i].manifest]
  /\ used' = IF op[i].kind = "create" THEN used \cup {i}
             ELSE IF Deletes(i) THEN used \ {i} ELSE used
  /\ upToDate' = IF Deletes(i) THEN upToDate ELSE upToDate \ {i}

(* CreateComponentInstance (with the consumers that are wanted),           *)
(* UpdateComponentInstance and DeleteComponentInstance.                    *)
Recorded(i) ==
  /\ recorded' = [recorded EXCEPT ![i] = IF Deletes(i) THEN None ELSE op[i].manifest]
  /\ used' = IF op[i].kind = "create" THEN used \cup {i}
             ELSE IF Deletes(i) THEN used \ {i} ELSE used
  /\ upToDate' = upToDate \ {i}

(* The end of an action, after the plugin has returned no error, or was    *)
(* not called: whatever a dropped instance had is nobody's from now on.    *)
RecordAction(i) ==
  /\ At(i, "record") /\ Ends(i)
  /\ Recorded(i)
  /\ IF op[i].kind = "drop"
     THEN /\ outcome' = [outcome EXCEPT ![i] = "dropped"]
          /\ tainted' = tainted \cup {i}
     ELSE /\ outcome' = [outcome EXCEPT ![i] = "ok"]
          /\ UNCHANGED tainted
  /\ UNCHANGED <<cloud, faults, policy, loaded, request, counters>>

(* Mutant of ActionFails: the error of a plugin is not looked at.          *)
ActionFailsSilently(i) ==
  /\ At(i, "failed") /\ Ends(i)
  /\ Recorded(i)
  /\ outcome' = [outcome EXCEPT ![i] = "ok"]
  /\ UNCHANGED <<cloud, tainted, faults, policy, loaded, request, counters>>

ActionFails(i) ==
  /\ At(i, "failed") /\ Ends(i)
  /\ outcome' = [outcome EXCEPT ![i] = "failed"]
  /\ UNCHANGED <<cloud, tainted, faults, policy, actual, loaded, request, counters>>

-----------------------------------------------------------------------------
(* The endpoints updater asks the plugin for the endpoints of an instance; *)
(* without an answer it leaves the instance to the next pass. ...          *)
AskForEndpoints(i) ==
  /\ recorded[i] # None /\ i \notin upToDate
  /\ loaded[i] = NotLoaded
  /\ HasServices(i, recorded[i])
  /\ loaded' = [loaded EXCEPT ![i] = AskedOnly]
  /\ UNCHANGED <<pluginVars, policy, actual, outcome, request, counters>>

(* ... The instance is loaded, if it is still there, ...                   *)
LoadForEndpoints(i) ==
  /\ loaded[i] = AskedOnly
  /\ loaded' = [loaded EXCEPT ![i] =
       IF recorded[i] = None THEN NotLoaded
       ELSE [manifest |-> recorded[i], used |-> i \in used]]
  /\ UNCHANGED <<pluginVars, policy, actual, outcome, request, counters>>

(* ... and saved, whatever has become of it in the meantime.               *)
SaveEndpoints(i) ==
  /\ loaded[i] \notin {NotLoaded, AskedOnly}
  /\ recorded' = [recorded EXCEPT ![i] = loaded[i].manifest]
  /\ used' = IF loaded[i].used THEN used \cup {i} ELSE used \ {i}
  /\ upToDate' = upToDate \cup {i}
  /\ loaded' = [loaded EXCEPT ![i] = NotLoaded]
  /\ IF loaded[i].manifest = recorded[i] THEN UNCHANGED <<outcome, tainted>>
     ELSE /\ outcome' = [outcome EXCEPT ![i] = "overwritten"]
          /\ tainted' = tainted \cup {i}
  /\ UNCHANGED <<pc, op, once, cloud, faults, policy, request, counters>>

(* The process is killed: nothing is left of a pass and of a request.      *)
Kill ==
  /\ Fault
  /\ LET hit == {i \in Instances : ~At(i, "off")}
     IN  /\ hit # {}
         /\ tainted' = tainted \cup hit
         /\ outcome' = [i \in Instances |->
                          IF i \in hit THEN "failed" ELSE outcome[i]]
  /\ pc' = [i \in Instances |-> "off"]
  /\ op' = [i \in Instances |-> NoOp]
  /\ once' = NewRegistry
  /\ loaded' = [i \in Instances |-> NotLoaded]
  /\ request' = Idle
  /\ UNCHANGED <<cloud, policy, actual, counters>>

-----------------------------------------------------------------------------
(* API requests: the policy is read with its desired state, and then the   *)
(* actual state, after which it matters what is asked for.                 *)

Receive ==
  /\ request.state = "idle"
  /\ request' = [Idle EXCEPT !.state = "desired", !.desired = desired,
                             !.code = {i \in Instances : finds[i] = "plugin"}]
  /\ UNCHANGED <<pluginVars, policy, actual, loaded, outcome, counters>>

(* The instances that the dependency consumes, with their manifests.       *)
Consumed == [i \in Instances |-> IF i \in used THEN recorded[i] ELSE None]

(* fetchDeploymentStatusForDependencies: it is resolved, no action of the  *)
(* diff is pending, and all its endpoints have been retrieved.             *)
Deployed ==
  /\ request.desired = Consumed
  /\ used \subseteq upToDate
  /\ request.desired # Nothing

ReadActual(kind) ==
  /\ request.state = "desired"
  /\ request' = [request EXCEPT
       !.state = "asking", !.kind = kind, !.actual = Consumed,
       !.ready = Deployed,
       !.todo = IF kind = "status" /\ ~Deployed THEN {} ELSE used]
  /\ UNCHANGED <<pluginVars, policy, actual, loaded, outcome, counters>>

(* A goroutine for each instance with code calls its plugin and reports    *)
(* what it says, under a mutex. The policy may not have the component or   *)
(* its cluster any more, and then there is no plugin to call               *)
(* (pluginForComponentInstance): the goroutine panics. An error is sent to *)
(* a channel that has room for the first.                                  *)
Says(i) ==
  IF i \notin request.code THEN {"error"}
  ELSE Answers(i, request.actual[i], request.kind)

(* Mutant of Report: the last answer counts.                               *)
ReportLast(i, answer) ==
  request' = [request EXCEPT
    !.todo = @ \ {i},
    !.ready = IF answer = "error" THEN @ ELSE answer = "ready",
    !.found = IF answer = "ready" THEN @ \cup {i} ELSE @,
    !.failed = @ \/ answer = "error"]

Report(i, answer) ==
  request' = [request EXCEPT
    !.todo = @ \ {i},
    !.ready = @ /\ answer # "not ready",
    !.found = IF answer = "ready" THEN @ \cup {i} ELSE @,
    !.failed = @ \/ answer = "error"]

Ask(i) ==
  /\ i \in request.todo
  /\ \/ \E answer \in Says(i) : Report(i, answer) /\ UNCHANGED faults
     \/ Report(i, "error") /\ Fault
  /\ UNCHANGED <<pc, op, once, cloud, tainted, policy, actual, loaded, outcome,
                 counters>>

(* The status of an instance that cannot make the answer worse is not      *)
(* asked for.                                                              *)
Skip(i) ==
  /\ i \in request.todo
  /\ request.kind = "status" /\ ~request.ready
  /\ request' = [request EXCEPT !.todo = @ \ {i}]
  /\ UNCHANGED <<pluginVars, policy, actual, loaded, outcome, counters>>

Answer ==
  /\ request.state = "asking"
  /\ request.todo = {}
  /\ request' = Idle
  /\ UNCHANGED <<pluginVars, policy, actual, loaded, outcome, counters>>

-----------------------------------------------------------------------------

Enforcer ==
  \/ \E all \in BOOLEAN : StartPass(all)
  \/ \E i \in Instances : Detach(i) \/ RecordAction(i) \/ ActionFails(i)

EndpointsUpdater ==
  \E i \in Instances : AskForEndpoints(i) \/ LoadForEndpoints(i) \/ SaveEndpoints(i)

API ==
  \/ Receive
  \/ \E kind \in {"status", "resources"} : ReadActual(kind)
  \/ \E i \in Instances : Ask(i) \/ Skip(i)
  \/ Answer

Plugin ==
  /\ \E i \in Instances : Initialize(i) \/ Call(i)
  /\ UNCHANGED <<policy, actual, loaded, outcome, request, counters>>

Next ==
  \/ ChangePolicy
  \/ Enforcer
  \/ EndpointsUpdater
  \/ Kill
  \/ API
  \/ Plugin

Spec == Init /\ [][Next]_vars

-----------------------------------------------------------------------------
SyncInit == [done : BOOLEAN, err : BOOLEAN, holder : Instances \cup {"nobody"},
             runs : Nat, open : BOOLEAN]

(* The variables have the values their comments say.                       *)
TypeOK ==
  /\ pc \in [Instances -> Calls \cup {"off", "detach", "plugin", "cluster", "cluster run",
                                      "open", "record", "failed"}]
  /\ op \in [Instances ->
              [kind : {"create", "update", "destroy", "drop", "stuck"},
               manifest : Manifests]
                \cup {NoOp}]
  /\ \A i \in Instances : At(i, "off") <=> op[i] = NoOp
  /\ once \in [{"cluster", "helm", "raw"} -> SyncInit]
  /\ release \in [Instances -> Manifests \cup {None}]
  /\ stored \in [Instances -> Manifests \cup {None}]
  /\ objects \in [Instances -> SUBSET UNION Range(ResourcesOf)]
  /\ tainted \subseteq Instances
  /\ {desired, recorded} \subseteq [Instances -> Manifests \cup {None}]
  /\ finds \in [Instances -> {"plugin", "nothing", "error"}]
  /\ used \cup upToDate \subseteq {i \in Instances : recorded[i] # None}
  /\ loaded \in [Instances ->
                  [manifest : Manifests, used : BOOLEAN] \cup {NotLoaded, AskedOnly}]
  /\ outcome \in [Instances -> {"ok", "failed", "dropped", "overwritten"}]
  /\ request \in
       [state : {"idle", "desired", "asking"}, kind : {"status", "resources"},
        desired : [Instances -> Manifests \cup {None}], code : SUBSET Instances,
        actual : [Instances -> Manifests \cup {None}],
        todo : SUBSET Instances, ready : BOOLEAN, found : SUBSET Instances,
        failed : BOOLEAN]

(* "Initializer function should be called only once" (init_test.go): for   *)
(* each plugin of a pass or a request, however many goroutines come at     *)
(* once, and those that wait get the outcome of the one that does it.      *)
InitializedOnce ==
  \A i \in Instances : \A p \in {"cluster", CodeType[i]} :
    /\ once[p].runs <= 1
    /\ once[p].done /\ once[p].err => pc[i] \notin Calls

(* No call is made by a plugin, or through a cluster plugin, that another  *)
(* goroutine is still initialising (no configuration, no tunnel).          *)
InitializedBeforeUse ==
  \A i \in Instances : pc[i] \in Calls =>
    once["cluster"].open /\ once[CodeType[i]].open

Working(i) == ~At(i, "off")

(* The actual state is true of the cloud: when the last action about an    *)
(* instance has succeeded, whatever had failed before, what is recorded of *)
(* it is deployed. Two things keep it from being true, and are named: the  *)
(* Delete of an instance whose component has been taken out of its service *)
(* calls no plugin (delete.go:83, "This is a service instance"), and the   *)
(* endpoints updater can save what it had loaded before the action.        *)
RecordedIsDeployed ==
  \A i \in Instances : outcome[i] = "ok" /\ ~Working(i) =>
    CASE CodeType[i] = "helm" -> release[i] = recorded[i]
      [] CodeType[i] = "raw" ->
           /\ stored[i] = recorded[i]
           /\ recorded[i] # None => ResourcesOf[recorded[i]] \subseteq objects[i]

(* Nothing is left behind: there are no resources but those of the         *)
(* recorded manifest, after any number of updates. Not so of an instance   *)
(* that is tainted, in one of four ways: a call has failed, or may have;   *)
(* it was deleted without its plugin, as above; its record was overwritten *)
(* by the endpoints updater; or it was created over what it had, after     *)
(* RecalculateAll or a Delete that stopped after its Detach (if the two    *)
(* manifests have no resource in common, k8sraw creates the new ones and   *)
(* forgets the old manifest).                                              *)
NothingLeftBehind ==
  \A i \in Instances \ tainted : CodeType[i] = "raw" /\ ~Working(i) =>
    objects[i] = IF recorded[i] = None THEN {} ELSE ResourcesOf[recorded[i]]

(* A request that is answered, and not with an error, has all the answers  *)
(* it needs: "ready" means that nothing was pending when the actual state  *)
(* was read, and that every instance was found in the cloud and ready;     *)
(* resources are those of all instances.                                   *)
Answered == request.state = "asking" /\ request.todo = {} /\ ~request.failed

AnswersComplete ==
  LET deployed == {i \in Instances : request.actual[i] # None}
  IN  Answered =>
        /\ request.kind = "status" /\ request.ready =>
             request.desired = request.actual /\ request.found = deployed
        /\ request.kind = "resources" => request.found = deployed

=============================================================================
