----------------------------- MODULE Resolution -----------------------------
(***************************************************************************)
(* The desired state (pkg/engine/resolve/policy_resolution.go): how the    *)
(* instances a dependency needs are recorded, how the instances of all     *)
(* dependencies are put together, and when the result is valid.            *)
(*                                                                         *)
(* A resolution is a function from instance keys to instances. The key of  *)
(* an instance does not have the name of its service in it (GetKey), so    *)
(* that the service is kept in the instance. The parts of a key are kept   *)
(* apart where the code joins them with "#": labels have no "#" in them.   *)
(***************************************************************************)
EXTENDS Acl

NoParams == [name \in {} |-> ""]

NoKey == [component |-> ""]

Root == "root"

NewInstance(service) ==
  [service |-> service, consumers |-> [d \in {} |-> 0], labels |-> NoLabels,
   code |-> FALSE, params |-> NoParams, discovery |-> NoParams,
   edges |-> {}, ingress |-> "", error |-> FALSE]

NoResolution == [key \in {} |-> NewInstance("")]

-----------------------------------------------------------------------------
(* GetComponentInstanceEntry and the Record* methods.                      *)

Entry(resolution, key, service) ==
  IF key \in DOMAIN resolution THEN resolution[key] ELSE NewInstance(service)

Record(resolution, key, instance) == (key :> instance) @@ resolution

RecordLabels(resolution, key, service, labels) ==
  LET entry == Entry(resolution, key, service)
  IN  Record(resolution, key,
             [entry EXCEPT !.labels = AddLabels(@, labels)])

StoreEdge(resolution, from, to) ==
  IF from = NoKey THEN resolution
  ELSE [resolution EXCEPT ![from].edges = @ \cup {to}]

RecordResolved(resolution, key, dependency, depth, ingress) ==
  [resolution EXCEPT ![key].consumers = (dependency :> depth) @@ @,
                     ![key].ingress = ingress]

(* addCodeParams, addDiscoveryParams: no parameters are replaced by any,   *)
(* and any others have to be the same.                                     *)
Conflict(existing, new) == existing # NoParams /\ existing # new

Merged(existing, new) == IF existing = NoParams THEN new ELSE existing

-----------------------------------------------------------------------------
(* AppendData and ComponentInstance.appendData: what is the same instance  *)
(* for several dependencies. A conflict is an error of the instance, and   *)
(* what comes after the conflict is left out.                              *)

Erroneous(instance) == [instance EXCEPT !.error = TRUE]

(* Mutant of AppendInstance: the last one wins.                            *)
AppendLastWins(instance, new) ==
  [instance EXCEPT !.consumers = Overlaid(@, new.consumers),
                   !.labels = AddLabels(@, new.labels),
                   !.discovery = new.discovery, !.params = new.params,
                   !.edges = @ \cup new.edges, !.ingress = new.ingress]

AppendInstance(instance, new) ==
  LET consumed == [instance EXCEPT !.consumers = Overlaid(@, new.consumers)]
      labelled == [consumed EXCEPT !.labels = AddLabels(@, new.labels)]
      found == [labelled EXCEPT !.discovery = Merged(@, new.discovery)]
  IN  CASE instance.code # new.code -> Erroneous(consumed)
        [] instance.code = new.code
             /\ Conflict(instance.discovery, new.discovery) ->
               Erroneous(labelled)
        [] instance.code = new.code
             /\ ~Conflict(instance.discovery, new.discovery)
             /\ Conflict(instance.params, new.params) -> Erroneous(found)
        [] OTHER -> [found EXCEPT
                       !.params = Merged(@, new.params),
                       !.edges = @ \cup new.edges,
                       !.ingress = IF new.ingress = "" THEN @
                                   ELSE new.ingress]

(* Mutant of AppendData: what is there is replaced.                        *)
AppendReplacing(resolution, new) == new @@ resolution

AppendData(resolution, new) ==
  [key \in DOMAIN resolution \cup DOMAIN new |->
     CASE key \notin DOMAIN resolution -> new[key]
       [] key \notin DOMAIN new -> resolution[key]
       [] OTHER -> AppendInstance(resolution[key], new[key])]

(* PolicyResolution.Validate.                                              *)
InstanceValid(policy, key, instance) ==
  LET contractKey == [kind |-> "contract", ns |-> key.ns,
                      name |-> key.contract]
      serviceKey == [kind |-> "service", ns |-> key.ns,
                     name |-> instance.service]
      has(seq, name) == \E i \in DOMAIN seq : seq[i].name = name
  IN  /\ ~instance.error
      /\ Exists(policy, contractKey)
      /\ has(policy[contractKey].contexts, key.context)
      /\ Exists(policy, serviceKey)
      /\ \/ key.component = Root
         \/ has(policy[serviceKey].components, key.component)
      /\ Exists(policy, key.cluster)

ResolutionValid(policy, resolution) ==
  \A key \in DOMAIN resolution : InstanceValid(policy, key, resolution[key])

(* GetDependencyResolution: the service a dependency resolves to, if it    *)
(* does and none of its instances has an error.                            *)
Resolved(resolution, dependency) ==
  LET used == {key \in DOMAIN resolution :
                 dependency \in DOMAIN resolution[key].consumers}
  IN  /\ \A key \in used : ~resolution[key].error
      /\ \E key \in used : /\ key.component = Root
                            /\ resolution[key].consumers[dependency] = 0

=============================================================================
