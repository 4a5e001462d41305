# Aptomi: specifications and proofs

Aptomi takes a *policy* (services, contracts, rules, clusters, dependencies),
resolves it into a *desired state* (which component instances have to run, for
which consumers, with which parameters) and makes the *actual state* equal to
it by calling plugins (Helm, raw Kubernetes). This directory holds TLA+ modules
of the parts of the server that keep state and can go wrong by the order in which
things happen, TLC runs on small instances, and theorems proved with TLAPS for
every instance. Paths are relative to the repository.

## 1. The system

### Components

| Component | Source | State | Operations |
|---|---|---|---|
| Policy API | `pkg/api/policy.go`, `pkg/api/actualstate.go` | none of its own but `policyAndRevisionUpdateMutex` | update, delete, dry run, state enforcement |
| Policy store | `pkg/runtime/store/core/policy.go`, `revision.go` | generations of `PolicyData`, `Revision`, `DesiredState` | `GetPolicy`, `UpdatePolicy`, `DeleteFromPolicy`, `InitPolicy`, `NewRevision`, queries for a revision |
| Object store | `pkg/runtime/store/generic/bolt` | every object by key and generation | `Save` (a new generation if it differs), `Update`, `GetGen`, `List` |
| Policy resolver | `pkg/engine/resolve` | one `PolicyResolution`, filled by goroutines | `ResolveAllDependencies`, per node: contract, context, service, components |
| Policy language | `pkg/lang` | a policy in memory, cached ACL resolver and sorted components | add / remove / get objects, rules by weight, labels, topological sort |
| Access control | `pkg/lang/rule_acl*.go`, `policy_view.go` | cached role maps | roles of a user, view / add / manage |
| Resolution diff | `pkg/engine/diff` | none | from two resolutions to a graph of actions |
| Action plan | `pkg/engine/apply/action`, `engine/apply` | queue, degrees, error marks, counters of one execution | `Apply`, `NumberOfActions` |
| Component actions | `pkg/engine/apply/action/component` | none; write the actual state and call plugins | create, update, delete, attach, detach, endpoints |
| Actual state updater | `pkg/runtime/store/core/actualstate_updater.go` | a copy of the actual state and a mutex for each updater | create, update, delete an instance |
| Enforcer | `pkg/server/desired_state_enforcer.go` | revision status and result in the store | choose a revision, reset it, apply, complete, retry |
| Endpoints updater | `pkg/server/actual_state_updater.go` | as the updater | refresh the endpoints of all instances |
| Server loops | `pkg/server/server.go`, `background.go` | two channels of capacity 2048 | start, wake, stop on error |
| Plugins | `pkg/plugin`, `pkg/util/sync` | registry caches, one-time initialisation; releases, objects and config maps in the cloud | create, update, destroy, endpoints, resources, status |
| Dependency API | `pkg/api/dependency*.go` | none | status and resources of a dependency |
| Client | `cmd/aptomictl`, `pkg/client` | none | calls and the wait for a revision |
| Validation | `pkg/lang/validation.go` | none | is a policy valid |
| Expressions, templates, event log, external data, authentication, diagrams, configuration | `pkg/lang/expression`, ... | none to speak of | |

### How they interact

An API goroutine reads the latest policy, changes its copy, resolves it, and
then, under the mutex, saves the changed objects, the policy data, a revision
and its desired state, each in a transaction of its own. It wakes the enforcer
over a channel. The enforcer, one goroutine, takes the first revision that is not
completed, or retries the last one of the latest policy if it completed with
failures; it computes the diff between the desired and the stored actual state
and executes the plan: one goroutine per component instance, in the order of a
dependency graph, each of which calls plugins and updates the stored actual
state. The endpoints updater does the same to the endpoints of instances, at the
same time and with a mutex of its own. Both make a registry of plugins for each
pass; a plugin is initialised by the first goroutine that needs it, while the
others wait. A request for the status of a dependency has a registry of its own
and asks the plugins of all instances at once, whatever the enforcer is doing to
them. After a crash the server starts again
with nothing but the store.

### What is hard

* *Order*: nodes of a plan run when their predecessors have ended, decided by
  counters that goroutines decrement; errors travel along the same edges.
* *Partial failure*: an action fails after, or before, it has changed the cloud;
  a request fails after it has saved some of its objects.
* *Crashes* between any two saves; revisions left in progress or without a
  desired state.
* *Stale reads*: a policy that is read before the mutex is taken; an actual state
  that another updater has changed; an ACL resolver cached before a rule was
  deleted; endpoints asked for before an update and saved after it.
* *Shared instances*: dependencies resolved by goroutines in any order need the
  same component instance, and may disagree about it.
* *Liveness*: a failed revision must be retried; a plan must end although nodes
  fail; a request must give back the mutex.

`PROJECT.json` lists these hazards one by one, each with its line and the
properties that cover it, and the ones no property covers yet, with the reason.

### What makes each component correct

* Action plan: no node before its predecessors; never hangs, never panics; the
  counters add up; an error has a cause and stops what depends on it.
* Diff and enforcer: revisions in order; what the store says is deployed is
  deployed; a revision completed without failures has been enforced; the last
  desired state is reached; what nobody uses is removed.
* Policy store: every saved policy can be loaded and never changes; concurrent
  requests do not undo each other; a successful update is in the policy; the last
  revision enforces the latest policy; the API stays usable.
* Actual state: what is recorded is deployed; endpoints marked as up to date are
  those of what is deployed.
* Server loops: the enforcer gets through its sends; every revision is
  applied; a job that fails ends the process; what a client sees as completed has
  been applied.
* Resolver: what is deployed for whom does not depend on the order of goroutines; a
  dependency reported as resolved is complete; new dependencies disturb no others.
* Language and access: a rule that is gone grants nothing; nobody gives himself more
  access; a valid policy never makes the resolver panic.
* Plugins: initialised once, and before they are used; nothing is left in the cloud
  without a failure; an answer about a dependency is about all of its instances.

The code does not keep all of this. Where it is known to fail, a property either is
violated in a run of its own, or names the case as an exception and says what holds
otherwise. The exceptions, with the lines they come from:

| Exception | In | What happens |
|---|---|---|
| `overwritten` | `Reconcile`, `Deployment` | the endpoints updater saves an instance it had loaded before the enforcer changed it (`actualstate_updater.go:57-72`, a mutex per updater): a consumer is lost or comes back, a deleted instance too |
| `Interrupted`, `BlockedBefore` | `Reconcile`, `Server` | a request died between its saves: a policy without revision, or a revision without desired state, on which the enforcer stops for ever (`revision.go:47-54`, `desired_state_enforcer.go:130`) |
| `Refused` | `Reconcile` | k8sraw refuses a Create over an object that exists, in every retry (`k8sraw/plugin.go:87`) |
| `Wedged` | `Server` | the channel of a disabled endpoints updater is full (`desired_state_enforcer.go:184`) |
| `WaitsForItself` | `Server` | requests have filled the enforcer's channel during its pass, and it sends to itself (`desired_state_enforcer.go:182`) |
| `"dropped"` | `Deployment` | the component of an instance has been removed from its service: its Delete calls no plugin, succeeds, and drops the record (`component/delete.go:83-88`) |
| `tainted` | `Deployment` | what may leave resources behind: a failed call, a create over what was there, and the first and the last of these cases |

## 2. The modules

| Module | Models | Kind |
|---|---|---|
| `PlanOrder` | what a plan promises to a reader of the graph | abstract specification |
| `ActionPlan` | `Plan.Apply` with its goroutines | implements `PlanOrder` |
| `Diff` | `PolicyResolutionDiff` | operators |
| `Reconcile` | enforcer, component actions, actual state with its two writers, plugins as a whole | extends `Diff`; order of `PlanOrder` |
| `PolicyLog` | what the store promises to a reader of policies and revisions | abstract specification |
| `PolicyStore` | API handlers, policy and revisions in the store | implements `PolicyLog` |
| `Server` | start and end of the process, its three jobs, two channels, two updaters, clients | state machine |
| `Policy` | objects, labels, criteria, contexts, rules, parameters | operators |
| `Acl` | roles, ACL rules, the cached ACL resolver | extends `Policy` |
| `Validation` | `PolicyValidator` | extends `Acl` |
| `Resolution` | a resolution: instances, the merge of two of them, `Validate` | extends `Acl` |
| `Resolver` | `PolicyResolver` for one dependency | extends `Resolution`; recursive operators |
| `PolicyRequests` | a request from the check of its first object to its desired state | extends `Resolution` and `Validation`; `MCPolicyRequests` gives it `Resolver` |
| `Plugins` | `sync.Init`, and the operations of helm and k8sraw call by call | operators and actions |
| `Deployment` | passes of the enforcer, the endpoints updater and API requests over these plugins | extends `Plugins` |
| `ActionPlanProofs`, `ReconcileProofs`, `PolicyStoreProofs`, `ServerProofs`, `PolicyRequestsProofs`, `DeploymentProofs` | theorems about the module of that name | each extends it |
| `ActionPlanProgress` | why a plan comes to an end: theorems | extends `ActionPlanProofs` |
| `ExtremesProofs` | lemmas about least and greatest elements | extended by two of them |
| `MC...` | instances for TLC | |

The same code appears in several modules at different grain. `Reconcile` has the
enforcer with the order of actions and no channels, `Server` its channels, the
endpoints and independent components, `Deployment` every call of a plugin. The
endpoints updater is in all three: its load and save are what interferes with the
enforcer, its answers matter in `Server` only.
`PolicyStore` has the saves of concurrent requests and takes the resolution as a
function, which `PolicyRequests` computes, for one request at a time.

A definition called a *variant* or a *mutant* in its comment is a plausible mistake
in another definition. No specification uses it; `PROJECT.json` ("mutants") says
for each property of a passing run which one violates it.

### ActionPlan

`Plan.Apply` walks the graph twice, first with a function that does nothing, to
count the actions (`pass = "count"`), then for real. `main` is the goroutine that
called `Apply`, `dispatcher` the one that ranges over the queue, `pc[n]` that of
node `n`. A section under the mutex is one action: `DecrementDependent` is lines
132-140 of `action_plan.go` (decrement, and the send to the queue inside it) and
`FlagDependent` the next section (lines 142-146), with whatever other goroutines
do in between. `deg`, `wasError`, `wg` and `result` are the variables of that name;
`foundErr`, `left`, `todo` and `unflagged` the locals of `applyActions` and
where its loops are. `broken` is a history variable. `Block` is the refinement
mapping to `PlanOrder`: in the counting pass nothing has begun. The keys of a Go
map come in any order, hence the sets `QueueOrders` and `\E m`.

### Diff and Reconcile

A resolution maps keys to instances, of which the diff reads the consumers and the
code parameters. `BuildActions` gives the actions of a node; the Update of a
service that a changed component implies comes before or after the service's own
actions, depending on the order in which a map is visited, and `Plans` is the set
of both. `Reconcile` has the life of a revision: `Pick...` (the reset to
`waiting`), `StartApply` (status `inprogress`, `RecalculateAll` diffs against
nothing) or `NoDesiredState`, the actions of each node, `Finish`. An action is one step
for each call of a plugin and each access to the store, with a crash, another node or
the endpoints updater in between: `CallPlugin` changes the cloud; `Load` takes the
instance and the mutex of the enforcer's updater (`Locked`), and `Detach`, `Attach`,
`SaveUpdate` and `UpdateParent` save the copy; `SaveResult` creates or deletes the
record, which loads nothing. The endpoints updater does `LoadForEndpoints` and
`SaveEndpoints` under another mutex; `overwritten` records where it has undone
something.

`finds` is what an action finds in the policy of its revision: a component with its
cluster (`CallPlugin`, `PluginFails`), a service without the component, for which no
plugin is called and nothing fails (`NoCall`), or neither (`CannotCall`). `MayRefuse` and
`MayAccept` say what helm and k8sraw make of a call for something that is, or is not,
deployed already, read from their code; a manifest may share no object with the one
that is deployed, hence both may hold. `PluginFails` leaves the cloud changed or not.
`Begin` may or may not see the error of a failed predecessor,
which is what `ActionPlan` shows to be possible. The enforcer reads the latest
policy and its last revision in two steps (`ReadLatestPolicy`, then `PickForRetry`
or `NothingToProcess`), and the API may make a revision in between, in three saves
(`ChangePolicy`, `NewRevision`, `SaveDesiredState`). A state enforcement takes the policy
it reads to be the one its revision is for; that it may be an older one is
`PolicyStore`'s business.

### PolicyStore

`gens[o]` are the generations of an object, `policyData` those of the policy, each
a function from objects to generations; `PolicyOf` is `getPolicyFromData`. A
handler goes through `Receive` (reads the generation), `Resolve` or `Reject`,
`Lock`, then one step per object (`SaveObject`, `DeleteObject`), `SavePolicyData`,
`SaveRevision` and `SaveDesiredState`, which gives the mutex back; `UpdateFails` (an
object that is marked as deleted), `DeleteFails` and `NothingChanged` leave early. A desired state is represented by the policy it
was resolved from, as resolution is a function of it. `Crash` may happen between
any two steps; `CheckPolicy`, `InitRevision` and `InitDesiredState` are the start
of the server. `Process` is what the enforcer does with a revision here: it
takes the first one, and gets stuck on one without a desired state.

`PolicyLog` has none of that: a sequence of policies, each the one before with a
request applied to it (`Change`), and a sequence of revisions (`Revise`, `Resolve`,
`Process`). `Policies` is the refinement mapping, which reads every generation of the
policy. Two of its definitions say how weak the promise is. `MayFollow` leaves an
object of an update as it was where it counts as unchanged, which after a crash may be
wrong (`policy_store_lost`); `IsDesired` lets a revision enforce what a request made of
any older policy, not of the one before (`policy_store_stale`).

### Server

`server` is the line of `Start` the main goroutine is at, and `Running(job)` says
whether a job has been started and is not disabled. A channel is the number of its
messages. A request saves the policy, the revision and the desired state one after the
other (`ChangePolicy`, `SaveRevision`, `SaveDesiredState`), as does a server that starts
over an empty store; its handler then sends (`Notify`), and blocks on a full channel.
A request fails when the latest policy is not resolved (`RequestFails`). Nothing relates
the number of requests to the capacity of the channel.
The enforcer goes `pass` (choose and reset a revision, or end with nothing, with an
error or without the desired state of the revision), `applying` (for each component the
actions that the diff asks for by its consumers, `Operations` and `NextOps`),
`notifySelf`, `notifyUpdater`, `waiting`. Both updaters load an instance, change their
copy and save it, in two steps, each under a mutex of its own only: `Load`/`Save` and
`LoadForEndpoints`/`SaveEndpoints` interleave freely. The endpoints updater asks the
plugin before that. A component is deployed or not, with some parameters; `used`
stands for its consumers. Whether helm or k8sraw deploys it is left open, so that a
plugin may refuse what either would (`MayRefuse`). State enforcements are left to
`Reconcile`. `HTTPFails` is `ListenAndServe` returning, which the
recover of the job sends to an unbuffered channel that `Wait` reads. `Killed` is a
panic outside of any recover (such as that of a failed save of a counter) as well as a
kill; `Restart` finds only the store and the cloud. A timer fires only on an empty
channel: it is made anew for each wait, whose `select` takes a message at once.

### Policy, Acl, Validation, Resolution, Resolver, PolicyRequests

A policy is a function from keys (kind, namespace, name) to bodies. Criteria,
label operations, contexts, rules and roles are evaluated as the code does, in its
order: `Verdict` has the three outcomes of an expression (true, false, error).
Expressions and templates are records of a few shapes, since parsing and evaluation
belong to libraries: comparisons of a label; a text, a label, a field of the
user, or a path in the discovery tree, which may be missing. `CachedResolver` and
`CacheAfterAdd` are the pointer `policy.aclResolver`: set by the first check, reset
when an ACL rule is added, not when one is removed.

`Resolver` follows `resolveNode`: contract, labels, context, rules, service,
components in topological order, and a child node for a component with a contract.
Nodes of one dependency share a state with the resolution so far; an early return
is `stop`, an error of the dependency `error`, a nil that is followed `panic`. The
operators are recursive, since nodes, components and paths are. The key of
an instance has the parts it is made of and not the string they are joined to.
`AppendData` is the merge, under the resolver's mutex. A rule rejects a dependency by its
`reject` and lets it pass by `allow` or nothing; of the rules that match, the last decides
on ingress, as `ApplyActions` assigns to both.

`PolicyRequests` handles one request after another: an object at a time
(`UpdateObject`, `DeleteObject`, `RefuseObject`), with ACL rules first in an update and
last in a deletion; the validation of the policy and of clusters; a goroutine for each
dependency, started under a semaphore (`StartGoroutine`, `Resolve`, `CombineData`);
the validation of the desired state, and the save. A panic in a handler ends it. How
one dependency is resolved is the constant operator `ResolutionOf`: every run
gives it the one of `Resolver`, and the theorems hold for any, which keeps recursion
out of what is proved.

### Plugins and Deployment

`once` holds the `sync.Init` of the cluster plugin and of each code plugin of a
registry: the unlocked look at `done`, the lock, and the initialiser of a code plugin,
which goes through the cluster plugin and so enters its `Init`. `Prepare`, `Install`,
`Upgrade`, `Purge` are helm's calls; `Create`, `LoadManifest`, `Update`, `Store`,
`Delete`, `Unstore` those of k8sraw, which keeps the manifest in a config map.
`CallFails` ends a call after any part of its work (`PartlyDone`). A manifest is a
set of resources, some of which are workloads. `HasServices` and `HasWorkloads` are what
`Endpoints`, `Resources` and `Status` look up, and `Answers` what a request hears. What
becomes of a release whose first installation has failed is Tiller's and external.

A pass of `Deployment` starts from what is recorded: the consumers decide whether an
instance is created or destroyed and the manifest whether it is updated (`Planned`), or
everything is created when all is enforced again. Before a Delete its consumers are
detached (`Detach`), so that a Delete that fails is not planned again. What the Delete
comes to depends on what it finds in the policy (`Removal`): the plugin is called, or
nothing is (`"drop"`), or it fails (`"stuck"`). The enforcer's own updates of the store
are one step each, since it is the endpoints updater that asks, loads and saves in three
and overwrites (`AskForEndpoints`, `LoadForEndpoints`, `SaveEndpoints`); a stale copy that
the enforcer saves over endpoints is in `Reconcile` and `Server`. An instance keeps its
type of code. `Kill` ends a pass, the updater and the request
at any call. A request reads the desired state, then the actual state, then asks;
`Report` combines the answers under a mutex. One goroutine of a request is one step:
its call, and its report. `tainted` and `outcome` are history variables.

## 3. The runs

| Run | States | Shows |
|---|---|---|
| `action_plan` | 270 579 | order, channel safety, counters, causes of errors, refinement of `PlanOrder`, termination |
| `action_plan_failure` | violation | a dependent executes actions although a node it waits for has failed |
| `reconcile` | 1 007 862 | order of revisions, truth of the store, enforcement and release by what is completed, eventual enforcement, with the endpoints updater as a second writer |
| `reconcile_orphans` | violation | instances that nobody uses are left for good |
| `policy_store` | 182 275 | refinement of `PolicyLog`, loadable and fixed history, resolved policies, requests end, revisions are processed |
| `policy_store_stale` | violation | the last revision enforces something else than the latest policy |
| `policy_store_lost` | violation | an update succeeds and its object is not in the policy |
| `server_loops` | 171 562 | completed means applied, when the enforcer gets through its sends and a revision is applied, endpoints are retrieved, a failed job ends the process |
| `server_endpoints` | violation | endpoints of an earlier deployment are marked as up to date for good |
| `policy_requests` | 58 504 | no panic after validation, what does and does not depend on the order of goroutines, complete resolutions, access checked by the rules before the request, undisturbed consumers |
| `policy_access` | violation | after an ACL rule is deleted, those whom it let in still consume in the new desired state |
| `deployment` | 6 382 384 | plugins initialised once and before use, truth of the actual state, nothing left behind, complete answers |

The six violations are disagreements between the code and what it, or its
documentation, says; "findings" in `PROJECT.json` quotes both.

### Bounds, and why they are enough

* `MCActionPlan`: a diamond (fan-out, fan-in, a chain of three), a node of its own
  followed by one without actions, a node with two actions, two semaphores for
  up to three nodes. Every action may fail. Each property is about a node, its
  predecessors and one error, and all of these shapes occur; the theorems carry
  the safety part to every graph.
* `MCReconcile`: a service with a component of helm and one of k8sraw, two dependencies,
  three policies (shared; with other parameters and without the k8sraw component, which
  has been removed from its service; empty, and without the cluster of that component),
  three revisions, one failed plugin call, one crash, one instance that the endpoints
  updater loads. Three revisions are the first, a change and a change back or a retry
  overtaken by a newer one. One load of the updater, saved at any later time, is a lost
  or returned consumer as well as a deleted instance that comes back. No bound
  is needed for retries: they make no new revision.
* `MCPolicyStore`: two objects, two contents, two handlers, three requests out of an
  update of one object, an update of two, one that fails at its second object, a deletion
  of two that may fail half-way, a deletion of an object that is marked already,
  and an enforcement; one crash (none in `policy_store_stale`, to show that no
  failure is needed). Two handlers race, a third request follows. Deadlock is not
  checked there because a bounded number of requests comes to an end and the
  server then waits for ever, as it does in reality.
* `MCServer`: one code component, two sets of parameters, one client, both channels of
  capacity 1, one failure of any kind, the updater enabled or disabled; the store is new or
  has a revision left by a server that was stopped. The updater's channel is full after
  one successful pass, so that a disabled updater does wedge the enforcer, and the
  enforcer's is full after one request, so that it may wait for itself: what 2048 passes
  or requests do to the real channels. `EnforcerGetsThrough` and `RevisionsApplied` name
  both as their exceptions. `server_endpoints` needs no failure.
* `MCPolicyRequests`: a web service with three components on a database in another
  namespace, an administrator and two teams, eighteen requests (dependencies that
  agree, disagree and miss something, services, contracts, clusters, rules and ACL
  rules; references to nothing, a cycle through two services, an unknown user, a
  would-be administrator), any three after one another, two goroutines. The properties
  are about two dependencies that share instances, and at most two requests. Rules admit,
  reject, close ingress and leave it as it is, in two namespaces. The weights
  of the rules of a namespace are distinct.
* `MCDeployment`: a helm release and raw objects on one cluster, two manifests with a
  service in common and a workload each, two passes, two changes of the policy, one
  failure or kill, one request at a time, any number of endpoints to retrieve. It takes
  about three minutes. The symmetry exchanges the manifests together with the resources
  they do not share; no property names one. Two passes are a failure and its retry.
  No data namespace is configured: with one in the server's configuration and none in
  the cluster's, `parseClusterConfig` (`pkg/plugin/k8sraw/config.go:18`) takes the empty
  one of the cluster, and k8sraw never initialises (`DataNamespace`, `Open`).
* Deadlock is not checked in these three: their environments are bounded and come to an
  end, and a server then waits for ever.

### Fairness, and why the code justifies it

* `ActionPlan`: weak fairness of each node's goroutine, of the dispatcher and of the
  caller: Go schedules every goroutine that can run. An action returns: the
  calls of plugins are bounded by timeouts. No fairness is needed for the semaphore:
  a node that holds it is never blocked while it does.
* `Reconcile`: weak fairness of the enforcer as a whole, which loops for ever, woken by
  a timer or the API, and of a request that has begun to save, which holds the mutex.
  Nothing is assumed of new requests, the endpoints updater (it may be disabled), failures
  or crashes; faults and crashes are finite in number, which is what "once plugins stop
  failing" means.
* `PolicyStore`: weak fairness of each handler, of the start of the server and of the
  enforcer. A handler that waits for the mutex gets it: the runs show that it is
  always given back, requests are finite in number, and Go's mutexes do not starve.
* `Server`: weak fairness of the main goroutine, the enforcer and the updater, each as
  a whole, and of the handlers between their saves. A loop always has a next thing to
  do, and the goroutines of a pass are
  finite in number and never wait for each other for ever. Nothing is assumed of
  clients, of the message of a handler, of failures and restarts: a property says "or the
  server has ended".
* `PolicyRequests` and `Deployment` state safety only, and no fairness.

## 4. The proofs

`ActionPlanProofs`, for every graph, every number of actions and every limit:

* `PlanInvariant`: the inductive invariant `PlanInv`. The properties alone are not
  inductive: that a queued node waits for nobody needs that `deg[n]` *counts* the
  predecessors which have not yet released it (`DegreeInv`), which in turn needs
  that a node has released nobody before its actions are done (`TodoInv`); that the
  queue is closed only when nobody can send needs that `wg` counts the nodes
  that are not done; that a skipped action has a cause needs that every error mark
  and every mark about to be set has one (`CauseInv`).
* `TypeCorrect`, `QueueIsSafe`, `SkipsHaveCause`, `BeforeHasEnded` follow, and
  `PlanImplementsOrder`: every step of the goroutines is a step of `PlanOrder` or
  stutters. They use `PlanAssumption` only. `AcyclicAssumption` matters for
  termination alone: a cyclic graph hangs in order.

`ActionPlanProgress`, for every acyclic graph: why `Plan.Apply` returns. `Termination` is a
liveness property and stays with TLC; what is proved are the two facts that it follows
from under the fairness of `ActionPlan`.

* `NobodyIsStuck`: until `Apply` has returned, the caller, the dispatcher or the goroutine of
  a node can take a step. If none could, every node that is not done would wait for one
  that is not done either (`ProgressInv`: a node whose degree is 0 is in the queue), and
  an acyclic graph has no such set. The guards in `WorkerReady`, `DispatcherReady` and
  `MainReady` are those of the actions; TLC has confirmed that they equal their ENABLED.
* `NobodyIsForgotten`: the same argument, for a plan in which nobody is on the way.
* `StepsAreFinite`: every step leaves less to do. What is left is a set of things (places
  that goroutines have still to come to, actions, decrements, marks), of which every step
  removes one or more, and the measure is its cardinality: a sum over nodes would have
  needed an induction.

`PolicyStoreProofs`, for any objects, contents, handlers and requests and any number
of requests and crashes, under `StoreAssumption`:

* `StoreInvariant`: the inductive invariant `StoreInv`. That a policy can be loaded
  needs the same of the unsaved data in the hands of the holder of the mutex
  (`DataInv`), and that there is one holder (`MutexInv`). That a policy is only
  changed when it has been resolved needs to know that a handler which read an
  older policy will find the latest one resolved when it gets the mutex
  (`BaseInv`), because whoever saved it either ended or died, and after a death
  nobody who is still waiting has read the unresolved policy and passed the check
  for its desired state.
* `TypeCorrect`, `PoliciesLoad`, `PoliciesResolved` follow. `HistoryFixed` is an action
  property: from `StoreInv`, with one lemma for each kind of history (objects, policy data,
  revisions).
* `StoreImplementsLog`: the store implements `PolicyLog`. `LogInv` says what a handler has done
  with the objects of its request so far (`DoneInv`: what is not left to save is either in
  the policy data as asked, or counted as unchanged), that the desired state in its
  hands is what its request makes of the policy it has read (`DesiredInv`), and that the
  policy to be enforced is that one, or a newer one if the request has changed it
  (`BehindInv`). That no request names an object twice, and that an enforcement names none
  (`RequestAssumption`), is what makes the result of a request unique.
* `RequestsDoNotBlock` and `AnswersAreFinite`: a handler can go on or waits for the mutex, whose
  holder can go on; and a request has a number of steps left that only its own steps
  change, each by making it smaller. `RequestsEnd` follows from both under fairness, and
  is left to TLC.
* `ChangesAreAccepted`: as long as the server has not died, a handler that has read the
  latest policy will be able to change it. `AcceptsChanges` is not inductive; `UsableInv`
  adds that the latest policy is resolved or that the holder of the mutex is at one of
  the two steps that resolve it (`BeingResolved`), and that only a server that has
  started with an empty store may lack both.

`ActionPlanProofs` also has `CountersAddUp`. The model counts actions per outcome and the
code adds to shared counters while nodes run. `ResultsInv` says that what has been counted
and what remains is the total, with what remains written as the cardinality of the set
of pairs of a node and the number of an action still to do, which loses one element
when an action ends and a whole row when a node skips. A sum over nodes would have
needed an induction that is out of reach here; a cardinality needs none.

`ReconcileProofs`, for any instances, policies and revisions and any number of faults and
crashes, under `DiffAssumption` and `PoliciesAssumption`:

* The invariant `Inv` has four parts besides types and the properties. `RevisionsInv`: the
  revisions are made of ever later policies, by the rules of `PoliciesAssumption`.
  `EnforcerInv`: the chosen revision is the border between the completed ones and the
  waiting ones, and while the enforcer looks for one to retry, all that were started are
  completed. `StoredInv`: a service is stored, and loaded, without parameters. `NodeInv`, of
  each node of a plan: what is still to be done leads from what is stored to what is
  wanted (`Progress`), a Delete comes after the detachment of every consumer, a consumer is
  attached only to what is deployed (`PlanInv`); and what a node has loaded is what it will
  save over. The last two hold until the endpoints updater overwrites the instance,
  whichever step the node is at. A step of one node keeps the others' parts (`NodeStep`).
* `ProcessedInOrder`, `ConsumersAreDeployed`, and the action property
  `CompletedRevisionsAreEnforced`, which needs `NodeInv` of all nodes at the end of the
  plan. The last two are of the instances that are not `overwritten`: the endpoints
  updater loads and saves what the enforcer does, under another mutex, and its stale copy
  can lose a consumer or bring a deleted instance back. Everything else that it and the
  plugins do in between is covered. A completed revision also leaves no consumer on an
  instance it does not want (`Released`), unless it was made to enforce the state once
  more: such a revision is compared with an empty state, and plans no Detach and no Delete.
* An instance of a service has no code parameters: `PoliciesAssumption` says so, and
  `ProcessParams` of `Policy` is only called for code. Without it the diff of a
  service would not lead to what is wanted, which is how the proof found it. It also says
  that what a policy resolves to is found in that policy, so that the Delete which
  finds no code (`delete.go:83`) is one of an instance that is not wanted.

`ServerProofs`, for any components, any number of clients and any capacities of the channels,
with no relation between them:

* `Inv`: a revision is started only when all before it have been applied
  (`RevisionsInv`); while one is applied, only what it wants is created or updated and
  what was loaded was there (`WorkInv`), and the same of the updater (`TaskInv`).
* `TypeCorrect`: in particular the store holds whole instances although both updaters
  overwrite each other's; `ReportedIsApplied`.
* `LoopsAreNotStuck`: the updater can always go on, and the enforcer can but for two sends.
  The channel of the updater may be full, and then the updater has to take a message. Or
  its own channel is full when it sends itself the message for a retry
  (`WaitsForItself`, `desired_state_enforcer.go:182`): nobody else takes from it, and the
  enforcer waits for ever. The theorem says how many requests that takes: at least as
  many have sent their message (`Answered`) as the channel has room for. `RoomInv` is why:
  the channel has at most one message for each of them and one of the enforcer's own, and
  that one it has taken when it sends the next. That an action which waits for the
  mutex finds it held by one that can go on needs to know the steps of each kind of action
  (`StepsInv`). `EnforcerGetsThrough`, that the updater empties its channel, is left to TLC.

`ExtremesProofs`: the library's `Min` and `Max` are CHOOSEs. That a set of naturals has a
least, and a bounded one a greatest element follows from the order being well-founded.

`DeploymentProofs`, for any instances, manifests and resources, any number of passes,
changes and requests, failures and kills, under `PluginsAssumption`:

* `RegistryInv`, of each `sync.Init`: whoever holds the lock is in the initialiser; it has
  run as often as it is done or held; a code plugin is open only over a cluster plugin
  that is. From it `InitializerRunsOnce` and `UsedWhenInitialized`.
* `InstanceInv`, of each instance: the call it is at is one of its kind of operation and
  type of code, and has before it what the earlier calls leave (`CallsInv`); where nothing
  has gone wrong, resources and stored manifest are exactly those of the operation so
  far (`NothingFailed`). From it `ActualStateIsDeployed` and `UpdatesLeaveNothingBehind`.
* The first is of the instances whose last action had the outcome `ok`. What is recorded of
  the others need not be what is deployed: an action failed or was killed; a Delete found that
  the policy has the service but not the component, called no plugin, and the record
  was `dropped` (`delete.go:83-88`); or the endpoints updater has saved another manifest
  over it (`overwritten`).
* The second is of those that are not `tainted`, which has a reason more: an instance that is
  created over what it had, by `RecalculateAll` or because a Delete stopped after its
  Detach, and so left an instance without consumers. If the new manifest shares no
  resource with the old one, `Create` of k8sraw (`pkg/plugin/k8sraw/plugin.go:87`) succeeds,
  replaces the stored manifest, and forgets the old resources. The attempt to prove the
  property without this exception showed it: the run's two manifests share a resource.
* `RequestInv`: the answers given and those still to be given make up the instances asked
  about, unless an error or a "not ready" has settled the answer. `RequestsGetAllAnswers`.

`PolicyRequestsProofs`, for any policies, requests, users and number of goroutines, and any
`ResolutionOf`:

* `NobodyEscalates`. `AccessInv` says that as long as the user of a request may not change
  ACL rules by those of the stored policy, the cached resolver *is* that of the stored
  policy, and that what differs so far is what the user may change. A user who may
  change ACL rules is a domain administrator and could not gain anything
  (`NothingToGain`, from lemmas about the order of roles).
* `TypeCorrect` and `SlotsAreReleased`: the slots taken are the cardinality of the goroutines
  that run (`GoroutinesInv`).
* `MergedInAnyOrder`: what has been merged comes from exactly the dependencies whose goroutines
  have ended (`MergeInv`): an instance has an error if and only if two of these differ
  about it, and otherwise its code, parameters, discovery data and edges are those of all
  of them. Labels and `allow_ingress` are the exception: the last one merged wins
  (`component_instance.go:216`, `:238`), and what is proved is that each is that of one of
  them and that no label is lost (`LabelsOfSome`). The hypothesis `SameShapes` is about
  what single dependencies resolve to: an instance comes without an error, and with
  parameters in all resolutions or in none.
  It is needed: `addCodeParams` compares only with parameters that are there, so that
  with an instance that lacks them the result would depend on the order. `SameShapes` is a
  fact about `Resolver`, and the first conjunct of the property that TLC checks.
* `UpdatesResolveByTheirRules`: during an update every dependency is resolved by the ACL rules
  of the updated policy (`OwnRulesInv`: the cached resolver is always that of the policy
  as far as it has been updated, since each added rule drops it). `UpdatesCheckAccess`:
  hence only those consume an instance who may, if the resolver checks access by the rules
  it is given (`ResolverChecksAccess`, again a fact about `Resolver` that TLC checks
  with the property). Deletions have no such theorem: `policy_access` refutes it.

* `ResolvedStaysComplete`, `ResolvingNeverPanics`, `OldConsumersUndisturbed`: the properties
  `ResolvedIsComplete`, `NeverPanics` and `ConsumersUndisturbed` for any number of
  dependencies and goroutines. Each has as its first conjunct what it needs of single
  resolutions, and the theorem has that conjunct as a hypothesis: `ResolutionsComplete`,
  `PanicsAtMissingOnly` (the resolver panics at a missing reference only, of whatever
  policy) and `ResolvedAlone` (a dependency is resolved as if it were the only one). The
  rest is the merge, the validation and the order of goroutines. The merge keeps edges and
  consumers (`MergeInv`); validation finds every reference that the resolver follows
  (`ReferencesLeadSomewhere`, with no hypothesis at all).
* `SavedIsDesired`: after an update the stored desired state is that of the stored policy, in
  terms of what each dependency resolves to, and no longer of the order of a fold. It is
  what `OldConsumersUndisturbed` compares from one update to the next.
  `InitialAssumption` says the same of the policies a behaviour starts with, whose
  desired state is computed by a fold; TLC evaluates it.

Only model-checked:

* All liveness (`Termination`, `EventuallyEnforced`, `RequestsEnd`, `RevisionsProcessed`,
  `EnforcerGetsThrough`, `RevisionsApplied`, `EndpointsRetrieved`, `FailureStopsServer`):
  temporal reasoning under fairness and ENABLED is beyond the prover. Of `Termination`,
  `RequestsEnd` and `EnforcerGetsThrough` the safety part is proved, as above. The others rest
  on bounds (faults, crashes) that only a run has.
* What the recursive operators of `Resolver` compute for a single dependency: `SameShapes`,
  `ResolutionsComplete`, `PanicsAtMissingOnly`, `ResolvedAlone` and `ResolverChecksAccess`, each a
  conjunct of a property of `policy_requests`, for every policy of that run. To prove
  them would take an induction over the services of a policy. All other safety
  properties of the runs are proved.

## 5. Not modelled

* Authentication, the HTTP layer, encoding, event logs, diagrams, configuration:
  stateless, or about the form of data. Users and secrets are only read; users are a
  constant.
* The syntax part of validation (names, labels, that expressions and templates parse),
  and the libraries that evaluate them.
* Errors of the database: a failed save is an error answer or a panic, and then a
  crash, which is modelled.
* Objects that a client sends with a generation of their own.
* Rules of equal weight in one namespace, whose order is that of a map.
* The registry of an API request being initialised: it works as that of a pass, and its
  failure is the failure of the first call.
* Kinds of Kubernetes resources whose readiness is not looked at; the text of tables and
  of endpoints.
* A repair of what the stale copy of the endpoints updater does (a consumer dropped, a
  deleted instance back in the store): the code has none. The models have these
  behaviours, and the properties name them as exceptions (`overwritten`).

## 6. Plan

The order is that of importance: what executes, what decides what is executed,
what decides what is decided.

1. *Done*: `PlanOrder`, `ActionPlan`, `Diff`, `Reconcile`, `PolicyStore`; proofs of
   `ActionPlan` and `PolicyStore`.
2. *Done*: `Server`, which has both the loops with their channels and the two
   updaters on one store.
3. *Done*: `Policy`, `Acl`, `Validation`, `Resolver`, `PolicyRequests`.
4. *Done*: `Plugins`, `Deployment`.
5. *Done*: proofs of the safety properties of `Reconcile`, `Server`, `Deployment` and
   `PolicyRequests`, and the rest of those of `ActionPlan` and `PolicyStore`.
6. *Done*: `PolicyLog` and that `PolicyStore` implements it; `ActionPlanProgress` and the
   like for `Server` and `PolicyStore`; the properties of `PolicyRequests` that are about
   resolutions put together, from named facts about single ones.
7. *Done*: the endpoints updater as a second writer of the store in `Reconcile` and
   `Deployment`, with the instances it overwrites as the only exception to what the enforcer
   guarantees; the channel of the enforcer at its limit in `Server`.
