------------------------------ MODULE Reconcile ------------------------------
(***************************************************************************)
(* The desired state enforcer (pkg/server/desired_state_enforcer.go) at    *)
(* work on the revisions the API creates: it takes the first revision that *)
(* has not been processed, or a completed one with failures to retry,      *)
(* computes the difference between its desired state and the stored actual *)
(* state, and executes the actions (pkg/engine/apply/action/component),    *)
(* each of which calls a plugin and then updates the store. The endpoints  *)
(* updater (pkg/server/actual_state_updater.go) writes to the same         *)
(* instances meanwhile, under a mutex of its own: both load an instance    *)
(* and save it later, and the last save wins.                              *)
(*                                                                         *)
(* Plugins fail, before or after they have changed the cloud; the server   *)
(* dies at any point, between the saves of a request too, and starts again *)
(* from the store. The order of the nodes is that of PlanOrder, which      *)
(* ActionPlan implements.                                                  *)
(***************************************************************************)
EXTENDS Diff, Sequences, FiniteSetsExt

CONSTANTS
  Raw,           (* the code that k8sraw deploys; helm deploys the rest    *)
  NoParams,      (* the calculated code parameters of what has no code     *)
  NotDeployed,   (* nothing of that name in the cloud                      *)
  Policies,      (* what a policy can be: [desired, finds]                 *)
  MaxRevisions,  (* bound on the number of revisions                       *)
  MaxFaults,     (* bound on the number of failed plugin calls             *)
  MaxCrashes,    (* bound on the number of crashes of the server           *)
  MaxRefreshes   (* bound on the number of instances the updater loads     *)

(* What an action on an instance finds in the policy: a component with     *)
(* code and its cluster; a service without such a component (that of a     *)
(* service instance, or one whose component has been removed); or an error *)
(* (no service, or code without its cluster).                              *)
Found == {"plugin", "nothing", "error"}

(* An instance in the store: what the diff reads, and EndpointsUpToDate.   *)
StoredInstance == [deps : SUBSET Dep, params : Param, upToDate : BOOLEAN]

(* desired is what the policy resolves to. Everything desired is in the    *)
(* policy and wanted by some dependency; only code is given parameters.    *)
ASSUME PoliciesAssumption ==
  /\ \A p \in Policies :
       /\ p.desired \in Resolution
       /\ p.finds \in [Comp -> Found]
       /\ \A c \in Comp : p.desired[c] # Absent =>
            /\ p.desired[c].deps # {}
            /\ p.finds[c] = IF c \in Code THEN "plugin" ELSE "nothing"
            /\ c \notin Code => p.desired[c].params = NoParams
       /\ \A c \in Comp \ Code : p.finds[c] # "plugin"
  /\ Raw \subseteq Code
  /\ NotDeployed \notin Param
  /\ Absent \notin StoredInstance
  /\ MaxRevisions \in Nat /\ MaxFaults \in Nat /\ MaxCrashes \in Nat /\ MaxRefreshes \in Nat

VARIABLES
  revisions,   (* the revisions in the store, by generation                *)
  policy,      (* the latest policy in the store                           *)
  policyGen,   (* its generation                                           *)
  handler,     (* the API under its mutex: "idle", "policy", "revision"    *)
               (* (what it has saved last)                                 *)
  stored,      (* the actual state in the store                            *)
  cloud,       (* what is deployed: external                               *)
  pc,          (* the enforcer: "idle", "looking", "picked", "applying"    *)
  cur,         (* the revision it processes                                *)
  gen,         (* the policy generation it has read                        *)
  plan,        (* what is left to do for each node of the action plan      *)
  node,        (* "pending", "running", "called" (the plugin has returned),*)
               (* "loaded" (the instance, to be saved), "ended"            *)
  copy,        (* copy[c]: what node c has loaded, or Absent               *)
  err,         (* err[c]: the foundErr of node c                           *)
  fetched,     (* fetched[c]: what the endpoints updater has loaded to     *)
               (* save endpoints in it, or Absent                          *)
  overwritten, (* history: instances it has saved over what was written    *)
               (* since it loaded them                                     *)
  faults, crashes, refreshes

apiVars     == <<revisions, policy, policyGen, handler>>
planVars    == <<plan, node, copy, err>>
refreshVars == <<fetched, overwritten>>
countVars   == <<faults, crashes, refreshes>>
vars == <<apiVars, stored, cloud, pc, cur, gen, planVars, refreshVars, countVars>>

Revision(p, g, recalculateAll) ==
  [policyGen |-> g, desired |-> p.desired, finds |-> p.finds,
   recalculateAll |-> recalculateAll, saved |-> FALSE,
   status |-> "waiting", failed |-> FALSE]

EmptyPolicy == [desired |-> EmptyResolution, finds |-> [c \in Comp |-> "error"]]

Init ==
  /\ revisions = <<[Revision(EmptyPolicy, 1, FALSE) EXCEPT !.saved = TRUE]>>
  /\ policy = EmptyPolicy /\ policyGen = 1 /\ handler = "idle"
  /\ stored = EmptyResolution
  /\ cloud = [c \in Code |-> NotDeployed]
  /\ pc = "idle" /\ cur = 1 /\ gen = 0
  /\ plan = [c \in Comp |-> NoActions]
  /\ node = [c \in Comp |-> "ended"]
  /\ copy = [c \in Comp |-> Absent]
  /\ err  = [c \in Comp |-> FALSE]
  /\ fetched = [c \in Code |-> Absent] /\ overwritten = {}
  /\ faults = 0 /\ crashes = 0 /\ refreshes = 0

-----------------------------------------------------------------------------
(* The API server saves a policy, then its revision, then the desired      *)
(* state, under one mutex (PolicyStore has the rest of a request).         *)

OfPolicy(g) == {i \in DOMAIN revisions : revisions[i].policyGen = g}

LastFor(g) == Max(OfPolicy(g))

(* A request starts from the desired state of the latest policy: it fails  *)
(* when that was never saved. One that changes nothing adds no revision.   *)
ChangePolicy(p) ==
  /\ handler = "idle"
  /\ Len(revisions) < MaxRevisions /\ policyGen < MaxRevisions
  /\ OfPolicy(policyGen) # {} /\ revisions[LastFor(policyGen)].saved
  /\ p # policy
  /\ policy' = p /\ policyGen' = policyGen + 1
  /\ handler' = "policy"
  /\ UNCHANGED <<revisions, stored, cloud, pc, cur, gen, planVars, refreshVars, countVars>>

AddRevision(r) ==
  /\ revisions' = Append(revisions, r)
  /\ handler' = "revision"
  /\ UNCHANGED <<policy, policyGen, stored, cloud, pc, cur, gen, planVars, refreshVars,
                 countVars>>

(* Variant whose revision is of a policy that has not been saved.          *)
NewRevisionUnsaved ==
  /\ handler = "policy"
  /\ AddRevision(Revision(policy, policyGen + 1, FALSE))

NewRevision ==
  /\ handler = "policy"
  /\ AddRevision(Revision(policy, policyGen, FALSE))

SaveDesiredState ==
  /\ handler = "revision"
  /\ revisions' = [revisions EXCEPT ![Len(revisions)].saved = TRUE]
  /\ handler' = "idle"
  /\ UNCHANGED <<policy, policyGen, stored, cloud, pc, cur, gen, planVars, refreshVars,
                 countVars>>

(* handleStateEnforce: same policy, RecalculateAll.                        *)
EnforceState ==
  /\ handler = "idle"
  /\ Len(revisions) < MaxRevisions
  /\ policy.desired # EmptyResolution
  /\ AddRevision(Revision(policy, policyGen, TRUE))

-----------------------------------------------------------------------------
(* The enforcer picks a revision.                                          *)

Unprocessed == {i \in DOMAIN revisions : revisions[i].status # "completed"}

(* The reset of status and result, saved before anything else.             *)
Pick(i) ==
  /\ cur' = i
  /\ revisions' = [revisions EXCEPT ![i].status = "waiting", ![i].failed = FALSE]
  /\ pc' = "picked"
  /\ UNCHANGED <<policy, policyGen, handler, stored, cloud, gen, planVars, refreshVars,
                 countVars>>

(* Variant that takes the newest unprocessed revision first.               *)
PickNewestUnprocessed ==
  pc = "idle" /\ Unprocessed # {} /\ Pick(Max(Unprocessed))

PickUnprocessed ==
  pc = "idle" /\ Unprocessed # {} /\ Pick(Min(Unprocessed))

ReadLatestPolicy ==
  /\ pc = "idle"
  /\ Unprocessed = {}
  /\ gen' = policyGen
  /\ pc' = "looking"
  /\ UNCHANGED <<apiVars, stored, cloud, cur, planVars, refreshVars, countVars>>

(* A policy whose revision was never saved has nothing to retry.           *)
NeedsRetry(g) ==
  /\ OfPolicy(g) # {}
  /\ revisions[LastFor(g)].status = "completed"
  /\ revisions[LastFor(g)].failed

(* Variant that considers a completed revision done, failures or not.      *)
PickForRetryNever ==
  /\ FALSE
  /\ UNCHANGED vars

PickForRetry ==
  pc = "looking" /\ NeedsRetry(gen) /\ Pick(LastFor(gen))

NothingToProcess ==
  /\ pc = "looking"
  /\ ~NeedsRetry(gen)
  /\ pc' = "idle"
  /\ UNCHANGED <<apiVars, stored, cloud, cur, gen, planVars, refreshVars, countVars>>

(* The pass ends with an error, and the next one takes the same revision.  *)
NoDesiredState ==
  /\ pc = "picked"
  /\ ~revisions[cur].saved
  /\ pc' = "idle"
  /\ UNCHANGED <<apiVars, stored, cloud, cur, gen, planVars, refreshVars, countVars>>

StartApply ==
  /\ pc = "picked"
  /\ revisions[cur].saved
  /\ LET r    == revisions[cur]
         prev == IF r.recalculateAll THEN EmptyResolution ELSE stored
     IN  plan' \in Plans(prev, r.desired)
  /\ node' = [c \in Comp |-> "pending"]
  /\ err'  = [c \in Comp |-> FALSE]
  /\ revisions' = [revisions EXCEPT ![cur].status = "inprogress"]
  /\ pc' = "applying"
  /\ UNCHANGED <<policy, policyGen, handler, stored, cloud, cur, gen, copy, refreshVars,
                 countVars>>

-----------------------------------------------------------------------------
(* Execution of the nodes, Begin and End as in PlanOrder.                  *)

Before(c) == BeforeNodes(revisions[cur].desired, c)

(* The node of a failed one may or may not see its error: ActionPlan shows *)
(* that it can be started before the mark is set.                          *)
Begin(c) ==
  /\ pc = "applying"
  /\ node[c] = "pending"
  /\ \A b \in Before(c) : node[b] = "ended"
  /\ \E seen \in {FALSE} \cup {err[b] : b \in Before(c)} :
       err' = [err EXCEPT ![c] = seen]
  /\ node' = [node EXCEPT ![c] = "running"]
  /\ UNCHANGED <<apiVars, stored, cloud, pc, cur, gen, plan, copy, refreshVars, countVars>>

Ready(c) == pc = "applying" /\ node[c] = "running" /\ ~err[c]

(* What is left of an aborted node is skipped.                             *)
End(c) ==
  /\ pc = "applying"
  /\ node[c] = "running"
  /\ err[c] \/ plan[c] = NoActions
  /\ node' = [node EXCEPT ![c] = "ended"]
  /\ plan' = [plan EXCEPT ![c] = NoActions]
  /\ UNCHANGED <<apiVars, stored, cloud, pc, cur, gen, copy, err, refreshVars, countVars>>

Fail(c) ==
  /\ err' = [err EXCEPT ![c] = TRUE]
  /\ revisions' = [revisions EXCEPT ![cur].failed = TRUE]
  /\ node' = [node EXCEPT ![c] = "running"]
  /\ UNCHANGED <<policy, policyGen, handler, stored, pc, cur, gen, plan, copy, refreshVars>>

(* The mutex of the enforcer's updater of the actual state.                *)
Locked == \E b \in Comp : node[b] = "loaded"

(* UpdateComponentInstance loads the instance, which fails when there is   *)
(* none (loadComponentInstance) ...                                        *)
Load(c) ==
  /\ \/ /\ Ready(c)
        /\ \/ plan[c].parentFirst
           \/ plan[c].detach # {}
           \/ plan[c].main = "none" /\ (plan[c].attach # {} \/ plan[c].parentLast)
     \/ pc = "applying" /\ node[c] = "called" /\ plan[c].main = "update"
  /\ ~Locked
  /\ \/ /\ stored[c] # Absent
        /\ copy' = [copy EXCEPT ![c] = stored[c]]
        /\ node' = [node EXCEPT ![c] = "loaded"]
        /\ UNCHANGED <<apiVars, stored, pc, cur, gen, plan, err, refreshVars>>
     \/ stored[c] = Absent /\ Fail(c)
  /\ UNCHANGED <<cloud, countVars>>

(* ... changes it and saves it in another transaction.                     *)
Save(c, instance, rest) ==
  /\ pc = "applying" /\ node[c] = "loaded"
  /\ stored' = [stored EXCEPT ![c] = instance]
  /\ plan' = [plan EXCEPT ![c] = rest]
  /\ node' = [node EXCEPT ![c] = "running"]
  /\ copy' = [copy EXCEPT ![c] = Absent]
  /\ UNCHANGED <<apiVars, cloud, pc, cur, gen, err, refreshVars, countVars>>

(* The update of a service instance leaves its consumers alone.            *)
UpdateParent(c) ==
  \/ /\ plan[c].parentFirst
     /\ Save(c, [copy[c] EXCEPT !.upToDate = FALSE], [plan[c] EXCEPT !.parentFirst = FALSE])
  \/ /\ plan[c].parentLast
     /\ [plan[c] EXCEPT !.parentLast = FALSE] = NoActions
     /\ Save(c, [copy[c] EXCEPT !.upToDate = FALSE], NoActions)

Detach(c, d) ==
  /\ ~plan[c].parentFirst
  /\ d \in plan[c].detach
  /\ Save(c, [copy[c] EXCEPT !.deps = @ \ {d}], [plan[c] EXCEPT !.detach = @ \ {d}])

Attach(c, d) ==
  /\ ~plan[c].parentFirst /\ plan[c].detach = {} /\ plan[c].main = "none"
  /\ d \in plan[c].attach
  /\ Save(c, [copy[c] EXCEPT !.deps = @ \cup {d}], [plan[c] EXCEPT !.attach = @ \ {d}])

(* Variant whose Delete does not wait for the detachments.                 *)
AtMainEager(c) ==
  Ready(c) /\ ~plan[c].parentFirst /\ plan[c].main # "none"

AtMain(c) ==
  Ready(c) /\ ~plan[c].parentFirst /\ plan[c].detach = {} /\ plan[c].main # "none"

Finds(c) == revisions[cur].finds[c]

(* k8sraw stops at the first object of the manifest that exists, where     *)
(* helm turns the creation of a release that exists into an upgrade; an    *)
(* update needs the release, or the manifest that k8sraw has stored; helm  *)
(* cannot delete a release that is not there.                              *)
MayRefuse(c) ==
  \/ plan[c].main = "create" /\ c \in Raw /\ cloud[c] # NotDeployed
  \/ plan[c].main = "update" /\ cloud[c] = NotDeployed
  \/ plan[c].main = "delete" /\ c \notin Raw /\ cloud[c] = NotDeployed

(* Another manifest may have no object in common with what is there.       *)
MayAccept(c) ==
  \/ ~MayRefuse(c)
  \/ plan[c].main = "create" /\ cloud[c] # revisions[cur].desired[c].params

CloudAfter(c) ==
  [cloud EXCEPT ![c] = IF plan[c].main = "delete" THEN NotDeployed
                       ELSE revisions[cur].desired[c].params]

CallPlugin(c) ==
  /\ AtMain(c)
  /\ Finds(c) = "plugin" /\ MayAccept(c)
  /\ cloud' = CloudAfter(c)
  /\ node' = [node EXCEPT ![c] = "called"]
  /\ UNCHANGED <<apiVars, stored, pc, cur, gen, plan, copy, err, refreshVars, countVars>>

(* Nothing to deploy for a service instance; and nothing is destroyed when *)
(* the component has been removed from its service.                        *)
NoCall(c) ==
  /\ AtMain(c)
  /\ Finds(c) = "nothing"
  /\ node' = [node EXCEPT ![c] = "called"]
  /\ UNCHANGED <<apiVars, stored, cloud, pc, cur, gen, plan, copy, err, refreshVars,
                 countVars>>

PluginFails(c) ==
  /\ AtMain(c)
  /\ Finds(c) = "plugin" /\ MayAccept(c)
  /\ faults < MaxFaults
  /\ faults' = faults + 1
  /\ cloud' \in {cloud, CloudAfter(c)}
  /\ Fail(c)
  /\ UNCHANGED <<crashes, refreshes>>

CannotCall(c) ==
  /\ AtMain(c)
  /\ Finds(c) = "error" \/ (Finds(c) = "plugin" /\ MayRefuse(c))
  /\ Fail(c)
  /\ UNCHANGED <<cloud, countVars>>

(* CreateComponentInstance stores the desired instance, consumers          *)
(* included, whatever the store has.                                       *)
SaveResult(c) ==
  /\ pc = "applying" /\ node[c] = "called" /\ ~Locked
  /\ \/ /\ plan[c].main = "create"
        /\ LET want == revisions[cur].desired[c]
           IN  stored' = [stored EXCEPT ![c] =
                 [deps |-> want.deps, params |-> want.params, upToDate |-> FALSE]]
     \/ /\ plan[c].main = "delete"
        /\ stored' = [stored EXCEPT ![c] = Absent]
  /\ plan' = [plan EXCEPT ![c].main = "none"]
  /\ node' = [node EXCEPT ![c] = "running"]
  /\ UNCHANGED <<apiVars, cloud, pc, cur, gen, copy, err, refreshVars, countVars>>

(* An updated instance takes over the desired parameters.                  *)
SaveUpdate(c) ==
  /\ ~plan[c].parentFirst /\ plan[c].detach = {} /\ plan[c].main = "update"
  /\ Save(c, [copy[c] EXCEPT !.params = revisions[cur].desired[c].params, !.upToDate = FALSE],
          [plan[c] EXCEPT !.main = "none"])

Finish ==
  /\ pc = "applying"
  /\ \A c \in Comp : node[c] = "ended"
  /\ revisions' = [revisions EXCEPT ![cur].status = "completed"]
  /\ pc' = "idle"
  /\ UNCHANGED <<policy, policyGen, handler, stored, cloud, cur, gen, planVars, refreshVars,
                 countVars>>

-----------------------------------------------------------------------------
(* The endpoints updater.                                                  *)

(* Its passes get the endpoints of code whose endpoints are not up to date *)
(* and that the latest policy has a plugin for. When an answer is to be    *)
(* saved the instance is loaded, under a mutex that is not the enforcer's. *)
(* That a plugin has no answer changes nothing, so a pass is no more than  *)
(* the instances it gets that far with, one after the other.               *)
LoadForEndpoints(c) ==
  /\ refreshes < MaxRefreshes
  /\ \A b \in Code : fetched[b] = Absent
  /\ stored[c] # Absent /\ ~stored[c].upToDate
  /\ policy.finds[c] = "plugin"
  /\ fetched' = [fetched EXCEPT ![c] = stored[c]]
  /\ refreshes' = refreshes + 1
  /\ UNCHANGED <<apiVars, stored, cloud, pc, cur, gen, planVars, overwritten, faults, crashes>>

SameInstance(x, y) ==
  /\ (x = Absent) = (y = Absent)
  /\ x # Absent /\ y # Absent => x.deps = y.deps /\ x.params = y.params

SaveEndpoints(c) ==
  /\ fetched[c] # Absent
  /\ stored' = [stored EXCEPT ![c] = [fetched[c] EXCEPT !.upToDate = TRUE]]
  /\ overwritten' = overwritten \cup (IF SameInstance(stored[c], fetched[c]) THEN {} ELSE {c})
  /\ fetched' = [fetched EXCEPT ![c] = Absent]
  /\ UNCHANGED <<apiVars, cloud, pc, cur, gen, planVars, countVars>>

-----------------------------------------------------------------------------

(* The process dies and starts again: all that is left is the store.       *)
Crash ==
  /\ crashes < MaxCrashes
  /\ pc # "idle" \/ handler # "idle" \/ \E c \in Code : fetched[c] # Absent
  /\ crashes' = crashes + 1
  /\ pc' = "idle" /\ handler' = "idle"
  /\ plan' = [c \in Comp |-> NoActions]
  /\ node' = [c \in Comp |-> "ended"]
  /\ copy' = [c \in Comp |-> Absent]
  /\ err'  = [c \in Comp |-> FALSE]
  /\ fetched' = [c \in Code |-> Absent]
  /\ UNCHANGED <<revisions, policy, policyGen, stored, cloud, cur, gen, overwritten, faults,
                 refreshes>>

Execute(c) ==
  \/ Begin(c) \/ End(c) \/ Load(c) \/ UpdateParent(c) \/ SaveUpdate(c)
  \/ \E d \in Dep : Detach(c, d) \/ Attach(c, d)
  \/ CallPlugin(c) \/ NoCall(c) \/ PluginFails(c) \/ CannotCall(c) \/ SaveResult(c)

Enforcer ==
  \/ PickUnprocessed \/ ReadLatestPolicy \/ PickForRetry \/ NothingToProcess
  \/ NoDesiredState \/ StartApply
  \/ \E c \in Comp : Execute(c)
  \/ Finish

Updater == \E c \in Code : LoadForEndpoints(c) \/ SaveEndpoints(c)

Handler == NewRevision \/ SaveDesiredState

API == Handler \/ EnforceState \/ \E p \in Policies : ChangePolicy(p)

Next == Enforcer \/ Updater \/ API \/ Crash

Spec == Init /\ [][Next]_vars

(* The loop of the enforcer runs for ever: it is woken by the API or by    *)
(* its timer, whichever comes first; a request that is being served goes   *)
(* on. Nobody has to change the policy, the updater may be disabled, and   *)
(* nothing has to fail or crash.                                           *)
FairSpec == Spec /\ WF_vars(Enforcer) /\ WF_vars(Handler)

-----------------------------------------------------------------------------

Latest == revisions[Len(revisions)]

RevisionRecord ==
  [policyGen : Nat, desired : Resolution, finds : [Comp -> Found],
   recalculateAll : BOOLEAN, saved : BOOLEAN,
   status : {"waiting", "inprogress", "completed"}, failed : BOOLEAN]

NodeState == {"pending", "running", "called", "loaded", "ended"}

TypeOK ==
  /\ revisions \in Seq(RevisionRecord)
  /\ \A i \in DOMAIN revisions : revisions[i].policyGen \in 1..policyGen
  /\ policy \in Policies \cup {EmptyPolicy}
  /\ policyGen \in Nat /\ gen \in 0..policyGen
  /\ handler \in {"idle", "policy", "revision"}
  /\ stored \in [Comp -> StoredInstance \cup {Absent}]
  /\ cloud \in [Code -> Param \cup {NotDeployed}]
  /\ pc \in {"idle", "looking", "picked", "applying"}
  /\ cur \in DOMAIN revisions
  /\ plan \in [Comp -> NodePlan]
  /\ node \in [Comp -> NodeState]
  /\ copy \in [Comp -> StoredInstance \cup {Absent}]
  /\ \A c \in Comp : (copy[c] # Absent) = (node[c] = "loaded")
  /\ err \in [Comp -> BOOLEAN]
  /\ fetched \in [Code -> StoredInstance \cup {Absent}]
  /\ overwritten \subseteq Code
  /\ faults \in 0..MaxFaults /\ crashes \in 0..MaxCrashes /\ refreshes \in 0..MaxRefreshes

(* Revisions are processed one at a time and in the order in which they    *)
(* were made ("we are processing revision sequentially",                   *)
(* desired_state_enforcer.go:58): whatever crashes and is retried, one is  *)
(* only started when all the older ones have been completed.               *)
RevisionsInOrder ==
  \A i, j \in DOMAIN revisions :
    i < j /\ revisions[j].status # "waiting" => revisions[i].status = "completed"

(* The store never claims a deployment that is not there: an instance with *)
(* consumers is deployed, across failed, refused and interrupted           *)
(* creations, updates and deletions (create.go:53-60, delete.go:53-60).    *)
(* The endpoints updater can undo that, as it saves what it has loaded     *)
(* over what the enforcer has written since (actualstate_updater.go:57-72, *)
(* a mutex per updater): an instance it has overwritten is left out, and   *)
(* no other.                                                               *)
ConsumersDeployed ==
  \A c \in Code \ overwritten : Consumers(stored, c) # {} => cloud[c] # NotDeployed

(* A revision that completes without a failed action has been enforced:    *)
(* every desired instance is stored as desired, with exactly the desired   *)
(* consumers, and is deployed, and an instance that is not desired any     *)
(* more has no consumer left (desired_state_enforcer.go:164-188). The      *)
(* latter is the work of a revision that is compared with the stored       *)
(* state: one made to enforce the state once more is compared with an      *)
(* empty one and removes nothing. Again the instances that the endpoints   *)
(* updater has overwritten are left out: there a consumer that has been    *)
(* attached or detached is lost or comes back.                             *)
Enforced(desired, C) ==
  \A c \in C : desired[c] # Absent =>
    /\ SameInstance(stored[c], desired[c])
    /\ c \in Code => cloud[c] # NotDeployed

Released(desired, C) ==
  \A c \in C : desired[c] = Absent => Consumers(stored, c) = {}

CompletedMeansEnforced ==
  [][\A i \in DOMAIN revisions :
       /\ revisions[i].status = "inprogress"
       /\ revisions'[i].status = "completed"
       /\ ~revisions'[i].failed
       => /\ Enforced(revisions[i].desired, Comp \ overwritten)
          /\ ~revisions[i].recalculateAll =>
               Released(revisions[i].desired, Comp \ overwritten)]_vars

(* A request died between its saves: the policy has no revision, or a      *)
(* revision no desired state, at which the enforcer stops for ever.        *)
Interrupted ==
  /\ handler = "idle"
  /\ OfPolicy(policyGen) = {} \/ \E i \in DOMAIN revisions : ~revisions[i].saved

(* The latest revision has a Create of code that k8sraw has deployed: an   *)
(* earlier Create was interrupted or failed with objects left behind, a    *)
(* Delete failed, or everything is to be enforced once more.               *)
Refused ==
  \E c \in Raw :
    /\ Latest.desired[c] # Absent /\ cloud[c] # NotDeployed
    /\ Latest.recalculateAll \/ Consumers(stored, c) = {}

(* "Aptomi is continuously validating/enforcing the state"                 *)
(* (docs/architecture.md:23): once the policy stops changing, plugins stop *)
(* failing and the server stays up, every desired instance of the last     *)
(* revision is stored and deployed, for good. What the code cannot recover *)
(* from is named: a request that died between its saves, a Create that     *)
(* k8sraw refuses, and an instance that the endpoints updater has          *)
(* overwritten, which nobody enforces again. With helm everything else is  *)
(* recovered from: calls that failed or were interrupted, whether they had *)
(* their effect or not, lost and stored results, and older revisions that  *)
(* failed.                                                                 *)
EventuallyEnforced ==
  <>[](\/ Enforced(Latest.desired, Comp)
       \/ Interrupted \/ Refused \/ overwritten # {})

(* Nothing is left to process, nor to retry.                               *)
Quiescent ==
  /\ pc = "idle" /\ Unprocessed = {}
  /\ ~NeedsRetry(policyGen)

(* "which component instances have to be destroyed (that have no consumers *)
(* left)" (policy_resolution_diff.go:24-25): when the enforcer has nothing *)
(* left to do, no instance without consumers is left. Not so in the code:  *)
(* a Delete that fails after its Detach actions succeeded is never tried   *)
(* again, as the diff only deletes what still has a consumer.              *)
NoOrphans ==
  Quiescent => \A c \in Comp : stored[c] # Absent => Consumers(stored, c) # {}

=============================================================================
