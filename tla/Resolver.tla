------------------------------ MODULE Resolver ------------------------------
(***************************************************************************)
(* The policy resolver (pkg/engine/resolve): which component instances a   *)
(* dependency needs, and with which parameters.                            *)
(*                                                                         *)
(* A node of the resolution of one dependency has                          *)
(*   dependency, user   whose resolution it is                             *)
(*   ns, contract       what it consumes, a locator in a namespace         *)
(*   context, keys      how the contract is allocated                      *)
(*   labels, depth      at this point                                      *)
(*   announced          its place in the discovery tree                    *)
(*   arrival            the instance that needs it                         *)
(*   path               the services it came through                       *)
(* and works on a state [status, resolution, discovery, dropped] that all  *)
(* nodes of a dependency share. status is "ok", "error" (it cannot be      *)
(* resolved) or "panic", and "stop" while a node ends early without an     *)
(* error; dropped says that a node has done so.                            *)
(***************************************************************************)
EXTENDS Resolution

CONSTANTS
  Users,    (* external data: names of users -> [admin, labels]            *)
  Targets   (* values of the label "target" -> [ns, name, suffix]          *)

-----------------------------------------------------------------------------
(* dfsComponentSort: components after those they depend on. The result is  *)
(* the positions of the components; validation rules out what is not       *)
(* there and what depends on itself.                                       *)

PositionOf(service, name) ==
  CHOOSE i \in DOMAIN service.components : service.components[i].name = name

RECURSIVE Visit(_, _, _)
Visit(service, ordered, i) ==
  LET dependencies == service.components[i].dependencies
      visit(done, name) == Visit(service, done, PositionOf(service, name))
  IN  IF Contains(ordered, i) THEN ordered
      ELSE Append(FoldLeft(visit, ordered, dependencies), i)

SortedComponents(service) ==
  LET visit(done, i) == Visit(service, done, i)
      ordered == FoldLeft(visit, <<>>,
                          [i \in DOMAIN service.components |-> i])
  IN  [i \in DOMAIN ordered |-> service.components[ordered[i]]]

-----------------------------------------------------------------------------
(* createComponentKey: the cluster and the suffix come from the label      *)
(* "target"; a kubernetes cluster has a default suffix.                    *)

TargetOf(policy, node) ==
  IF "target" \in DOMAIN node.labels
  THEN ClusterKeys(policy, Targets[node.labels["target"]], node.ns)
  ELSE <<>>

Suffix(cluster, target) ==
  CASE target.suffix # "" -> target.suffix
    [] target.suffix = "" /\ cluster.type = "kubernetes" ->
         IF cluster.config # "" THEN cluster.config ELSE "default"
    [] OTHER -> "unresolved"

ComponentKey(policy, node, component) ==
  LET cluster == TargetOf(policy, node)[1]
  IN  [cluster   |-> cluster,
       suffix    |-> Suffix(policy[cluster], Targets[node.labels["target"]]),
       ns        |-> node.ns,
       contract  |-> node.contract.name,
       context   |-> node.context,
       keys      |-> node.keys,
       component |-> component]

(* What the templates of a component see: proxyUser, proxyDiscovery.       *)
(* Paths in the discovery tree are relative to the place of the node.      *)
TemplateData(node, state, key) ==
  LET from == Len(node.announced)
      here == {path \in DOMAIN state.discovery :
                 IsPrefix(node.announced, path)}
      relative == {SubSeq(path, from + 1, Len(path)) : path \in here}
      tree == [path \in relative |-> state.discovery[node.announced \o path]]
      own == (<<"Instance">> :> key)
               @@ (<<"Service", "Instance">> :> [key EXCEPT !.component = Root])
  IN  [label |-> node.labels, user |-> Users[node.user].labels,
       discovery |-> own @@ tree]

-----------------------------------------------------------------------------
(* processRules: the rules of the namespace, then those of the system      *)
(* namespace, until one rejects the dependency.                            *)

(* Of what a rule may say of a dependency, "allow" and nothing are alike.  *)
Rejected(result) == result.dependency \in {"reject", "error"}

ProcessRule(rule, matches, result) ==
  CASE Rejected(result) \/ matches = "false" -> result
    [] ~Rejected(result) /\ matches = "error" ->
         [result EXCEPT !.dependency = "error"]
    [] OTHER -> ApplyActions(rule, result)

RulesWithin(policy, ns, service, before) ==
  LET matches(rule) ==
        Allows(rule.criteria, RuleParams(before.labels, service))
      process(result, rule) == ProcessRule(rule, matches(rule), result)
  IN  FoldLeft(process, before, RulesSortedByWeight(policy, ns))

ProcessRules(policy, node, service) ==
  LET start == [labels |-> node.labels, dependency |-> "", ingress |-> ""]
      local == RulesWithin(policy, node.ns, service, start)
  IN  RulesWithin(policy, SystemNS, service, local)

-----------------------------------------------------------------------------
(* calculateAndStoreDiscoveryParams, calculateAndStoreCodeParams.          *)

Failed(state) == [state EXCEPT !.status = "error"]

Announce(node, state, key, component, params) ==
  LET place == Append(node.announced, component.name)
      said == [path \in {Append(place, p) : p \in DOMAIN params} |->
                 params[Last(path)]]
  IN  IF Conflict(state.resolution[key].discovery, params) THEN Failed(state)
      ELSE [state EXCEPT !.discovery =
              said @@ (Append(place, "instance") :> key) @@ @,
              !.resolution[key].discovery = Merged(@, params)]

StoreDiscovery(node, state, key, component, data) ==
  IF ~ParamsKnown(component.discovery, data) THEN Failed(state)
  ELSE Announce(node, state, key, component,
                ProcessParams(component.discovery, data))

RecordCode(state, key, params) ==
  IF Conflict(state.resolution[key].params, params) THEN Failed(state)
  ELSE [state EXCEPT !.resolution[key].code = TRUE,
                     !.resolution[key].params = Merged(@, params)]

StoreCode(state, key, component, data) ==
  IF ~ParamsKnown(component.params, data) THEN Failed(state)
  ELSE RecordCode(state, key, ProcessParams(component.params, data))

-----------------------------------------------------------------------------
(* resolveNode, which resolves the components of a service and, through    *)
(* them, the contracts they consume.                                       *)

RECURSIVE ResolveNode(_, _, _, _)

Child(node, key, component) ==
  [node EXCEPT !.contract = component.contract, !.depth = @ + 1,
               !.announced = Append(@, component.name), !.arrival = key]

(* Mutant of ResolveContent: an error of the contract is not returned.     *)
ResolveContentLenient(policy, rules, node, key, state, component) ==
  CASE state.status # "ok" -> state
    [] state.status = "ok" /\ component.code ->
         StoreCode(state, key, component, TemplateData(node, state, key))
    [] OTHER -> [ResolveNode(policy, rules, Child(node, key, component), state)
                   EXCEPT !.status = "ok"]

(* The code of a component or the contract it consumes.                    *)
ResolveContent(policy, rules, node, key, state, component) ==
  CASE state.status # "ok" -> state
    [] state.status = "ok" /\ component.code ->
         StoreCode(state, key, component, TemplateData(node, state, key))
    [] OTHER -> ResolveNode(policy, rules, Child(node, key, component), state)

RecordIfResolved(state, key, node, ingress) ==
  IF state.status # "ok" THEN state
  ELSE [state EXCEPT !.resolution =
          RecordResolved(@, key, node.dependency, node.depth, ingress)]

(* An error of the criteria of a component is not returned: the variable   *)
(* that is, err, is nil there. The node ends, and neither the components   *)
(* that are left nor the service are recorded.                             *)
ResolveComponent(policy, rules, node, ingress, service, state, component) ==
  LET matches == Allows(component.criteria, node.labels)
      parent == Last(node.path)
      key == [parent EXCEPT !.component = component.name]
      entered == RecordLabels(state.resolution, key, service, node.labels)
      linked == [state EXCEPT !.resolution = StoreEdge(entered, parent, key)]
      found == StoreDiscovery(node, linked, key, component,
                              TemplateData(node, linked, key))
      done == ResolveContent(policy, rules, node, key, found, component)
  IN  CASE matches = "false" -> state
        [] matches = "error" -> [state EXCEPT !.status = "stop",
                                              !.dropped = TRUE]
        [] matches = "true" -> RecordIfResolved(done, key, node, ingress)

ResolveComponents(policy, rules, node, ingress, service, state) ==
  LET body == policy[[kind |-> "service", ns |-> node.ns, name |-> service]]
      resolve(acc, component) ==
        IF acc.status # "ok" THEN acc
        ELSE ResolveComponent(policy, rules, node, ingress, service, acc,
                              component)
      ended == FoldLeft(resolve, state, SortedComponents(body))
  IN  RecordIfResolved(ended, Last(node.path), node, ingress)

(* The service instance of a node, whose labels the rules have changed.    *)
ResolveInstance(policy, rules, node, ingress, service, state, key) ==
  LET recorded == RecordLabels(state.resolution, key, service, node.labels)
      started == [state EXCEPT !.resolution =
                    StoreEdge(recorded, node.arrival, key)]
      entered == [node EXCEPT !.path = Append(@, key)]
      done == ResolveComponents(policy, rules, entered, ingress, service,
                                started)
  IN  IF Contains(node.path, key) THEN Failed(state)
      ELSE [done EXCEPT !.status = IF @ = "stop" THEN "ok" ELSE @]

ResolveService(policy, rules, node, service, state, result) ==
  LET ruled == [node EXCEPT !.labels = result.labels]
      ingress == IF result.ingress = "reject" THEN "reject" ELSE "allow"
  IN  IF Rejected(result) \/ TargetOf(policy, ruled) = <<>>
      THEN Failed(state)
      ELSE ResolveInstance(policy, rules, ruled, ingress, service, state,
                           ComponentKey(policy, ruled, Root))

(* The context of the contract that matches; the service it is allocated.  *)
ResolveContext(policy, rules, node, state, context, labels) ==
  LET serviceKey == Key("service", context.service, node.ns)
      data == [label |-> labels, user |-> Users[node.user].labels,
               discovery |-> NoParams]
      matched == [node EXCEPT !.labels = labels, !.context = context.name,
                              !.keys = ResolveKeys(context, data)]
  IN  IF ~Exists(policy, serviceKey) THEN [state EXCEPT !.status = "panic"]
      ELSE IF \/ serviceKey.ns # node.ns
              \/ ~CanConsume(rules, Users[node.user], serviceKey.ns)
              \/ ~KeysKnown(context, data)
      THEN Failed(state)
      ELSE ResolveService(policy, rules, matched, serviceKey.name, state,
                          ProcessRules(policy, matched, serviceKey.name))

ResolveContract(policy, rules, node, state, contract, labels, i) ==
  LET context == contract.contexts[i]
  IN  IF i = 0 THEN Failed(state)
      ELSE ResolveContext(policy, rules, node, state, context,
                          ApplyTransform(labels, context.change))

(* The contract and the service have to be there: the policy is valid.     *)
ResolveNode(policy, rules, node, state) ==
  LET key == Key("contract", node.contract, node.ns)
      contract == policy[key]
      labels == ApplyTransform(node.labels, contract.change)
      here == [node EXCEPT !.ns = key.ns, !.contract.name = key.name]
  IN  CASE node.user \notin DOMAIN Users -> Failed(state)
        [] node.user \in DOMAIN Users /\ ~Exists(policy, key) ->
             [state EXCEPT !.status = "panic"]
        [] OTHER -> ResolveContract(policy, rules, here, state, contract,
                                    labels, MatchedContext(contract, labels))

(* initResolutionNode: the labels of the user are added to those of the    *)
(* dependency. resolveDependency recovers from a panic.                    *)
ResolveDependency(policy, rules, key) ==
  LET dependency == policy[key]
      user == dependency.user
      labels == IF user \in DOMAIN Users
                THEN AddLabels(dependency.labels, Users[user].labels)
                ELSE dependency.labels
      node == [dependency |-> key, user |-> user, ns |-> key.ns,
               contract |-> dependency.contract, context |-> "",
               keys |-> <<>>, labels |-> labels, depth |-> 0,
               announced |-> <<>>, arrival |-> NoKey, path |-> <<>>]
  IN  ResolveNode(policy, rules, node,
                  [status |-> "ok", resolution |-> NoResolution,
                   discovery |-> NoParams, dropped |-> FALSE])

=============================================================================
