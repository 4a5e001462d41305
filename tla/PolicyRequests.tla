--------------------------- MODULE PolicyRequests ---------------------------
(***************************************************************************)
(* What an API request does to the policy and to its desired state         *)
(* (handlePolicyUpdate, handlePolicyDelete of pkg/api/policy.go): the      *)
(* access of the user to every object, the validation of the policy that   *)
(* results, its resolution by one goroutine per dependency                 *)
(* (ResolveAllDependencies), and the validation of the desired state.      *)
(*                                                                         *)
(* Requests are handled one after another here: what happens between the   *)
(* reads and the writes of several handlers is in PolicyStore. The policy  *)
(* and the ACL resolver of a request are its own copies.                   *)
(***************************************************************************)
EXTENDS Resolution, Validation

CONSTANTS
  Users,                    (* external data: names -> [admin, labels]     *)
  ResolutionOf(_,_,_),      (* how a dependency (its key) is resolved in a *)
                            (* policy by ACL rules: ResolveDependency of   *)
                            (* Resolver; nothing else depends on how       *)
  InitialPolicies,          (* policies in the store at the start          *)
  Requests,                 (* [kind, user, objects, noop]                 *)
  MaxConcurrentGoRoutines,  (* runtime.NumCPU()                            *)
  MaxRequests               (* bound on the number of requests             *)

ASSUME RequestsAssumption ==
  /\ MaxConcurrentGoRoutines \in Nat \ {0}
  /\ MaxRequests \in Nat
  /\ Requests # {}
  /\ \A r \in Requests : r.kind \in {"update", "delete"} /\ r.user \in DOMAIN Users

VARIABLES
  stored,      (* the policy in the store                                  *)
  desired,     (* the desired state saved with its last revision           *)
  changedBy,   (* the kind of the request that made it                     *)
  pc,          (* "idle", "objects", "resolving", "checking"               *)
  request,     (* the request being handled                                *)
  todo,        (* objects it has still to add or to remove                 *)
  policy,      (* policyUpdated                                            *)
  cache,       (* policyUpdated.aclResolver                                *)
  waiting,     (* dependencies without a goroutine                         *)
  running,     (* dependencies with one                                    *)
  slots,       (* elements in the channel used as a semaphore              *)
  results,     (* what the goroutines have resolved                        *)
  resolution,  (* resolver.resolution                                      *)
  requests

saved     == <<stored, desired, changedBy>>
handling  == <<request, todo, policy>>
resolving == <<waiting, running, slots, results, resolution>>
vars == <<saved, pc, handling, cache, resolving, requests>>

Nothing == [key \in {} |-> ""]

(* A policy and its desired state, one dependency after another.           *)
DesiredState(p) ==
  LET add(key, state) ==
        LET result == ResolutionOf(p, AclRules(p), key)
        IN  IF result.status = "ok"
            THEN AppendData(state, result.resolution) ELSE state
  IN  FoldSet(add, NoResolution, ObjectsOfKind(p, "dependency"))

(* What a dependency of a policy resolves to, by the rules of the policy,  *)
(* and the dependencies that resolve to an instance.                       *)
ResolvedIn(p, d) == ResolutionOf(p, AclRules(p), d)

Needing(p, key) ==
  {d \in ObjectsOfKind(p, "dependency") :
     ResolvedIn(p, d).status = "ok" /\ key \in DOMAIN ResolvedIn(p, d).resolution}

(* A valid desired state of a policy has the instances its dependencies    *)
(* resolve to, for all of their consumers and with the parameters that     *)
(* each of them needs.                                                     *)
IsDesiredState(state, p) ==
  /\ DOMAIN state = UNION {DOMAIN ResolvedIn(p, d).resolution :
                             d \in {e \in ObjectsOfKind(p, "dependency") :
                                    ResolvedIn(p, e).status = "ok"}}
  /\ \A key \in DOMAIN state : ~state[key].error
  /\ \A key \in DOMAIN state : \A d \in Needing(p, key) :
       /\ DOMAIN ResolvedIn(p, d).resolution[key].consumers
            \subseteq DOMAIN state[key].consumers
       /\ state[key].params = ResolvedIn(p, d).resolution[key].params
  /\ \A key \in DOMAIN state : \A c \in DOMAIN state[key].consumers :
       \E d \in Needing(p, key) :
         c \in DOMAIN ResolvedIn(p, d).resolution[key].consumers

(* A policy is only stored when its desired state is valid: changePolicy   *)
(* comes last.                                                             *)
ASSUME InitialAssumption ==
  \A p \in InitialPolicies : IsDesiredState(DesiredState(p), p)

Init ==
  /\ stored \in InitialPolicies
  /\ desired = DesiredState(stored)
  /\ changedBy = "update"
  /\ pc = "idle"
  /\ request = CHOOSE r \in Requests : TRUE
  /\ todo = {} /\ policy = Nothing /\ cache = NoResolver
  /\ waiting = {} /\ running = {} /\ slots = 0
  /\ results = Nothing /\ resolution = NoResolution
  /\ requests = 0

-----------------------------------------------------------------------------
(* The objects of the request, ACL rules first if they are added, and last *)
(* if they are removed (apiObjectSorter).                                  *)

Receive(r) ==
  /\ pc = "idle"
  /\ requests < MaxRequests
  /\ requests' = requests + 1
  /\ request' = r
  /\ todo' = r.objects
  /\ policy' = stored
  /\ cache' = NoResolver
  /\ pc' = "objects"
  /\ UNCHANGED <<saved, resolving>>

NextObjects ==
  LET rules == {o \in todo : o.key.kind = "aclrule"}
      others == todo \ rules
      first == IF request.kind = "update" THEN rules ELSE others
  IN  IF first # {} THEN first ELSE todo

(* Mutant of MayManage: checked with the object that is sent in place.     *)
MayManageAfterwards(object) ==
  LET changed == IF request.kind = "update" THEN AddObject(policy, object)
                 ELSE RemoveObject(policy, object.key)
  IN  CanManage(AclRules(changed), Users[request.user], object.key.kind,
                object.key.ns)

(* policyUpdated.View(user).ManageObject(obj).                             *)
MayManage(object) ==
  LET rules == CHOOSE r \in CachedResolver(cache, policy) : TRUE
  IN  CanManage(rules, Users[request.user], object.key.kind, object.key.ns)

UpdateObject(object) ==
  /\ pc = "objects" /\ request.kind = "update"
  /\ object \in NextObjects
  /\ MayManage(object) /\ CanAdd(policy, object)
  /\ policy' = AddObject(policy, object)
  /\ cache' = CacheAfterAdd(CachedResolver(cache, policy), object)
  /\ todo' = todo \ {object}
  /\ UNCHANGED <<saved, pc, request, resolving, requests>>

DeleteObject(object) ==
  /\ pc = "objects" /\ request.kind = "delete"
  /\ object \in NextObjects
  /\ MayManage(object)
  /\ policy' = RemoveObject(policy, object.key)
  /\ cache' = CachedResolver(cache, policy)
  /\ todo' = todo \ {object}
  /\ UNCHANGED <<saved, pc, request, resolving, requests>>

(* The handler panics, and the request ends with an error.                 *)
Ended ==
  /\ pc' = "idle"
  /\ todo' = {} /\ policy' = Nothing /\ cache' = NoResolver
  /\ waiting' = {} /\ running' = {} /\ slots' = 0
  /\ results' = Nothing /\ resolution' = NoResolution
  /\ UNCHANGED <<request, requests>>

RefuseObject(object) ==
  /\ pc = "objects"
  /\ object \in NextObjects
  /\ \/ ~MayManage(object)
     \/ request.kind = "update" /\ ~CanAdd(policy, object)
  /\ Ended
  /\ UNCHANGED saved

RefusePolicy ==
  /\ pc = "objects" /\ todo = {}
  /\ ~Valid(policy)
  /\ Ended
  /\ UNCHANGED saved

(* The plugin of a cluster that is sent may not be able to connect to it.  *)
RefuseCluster ==
  /\ pc = "objects" /\ todo = {}
  /\ Valid(policy)
  /\ request.kind = "update"
  /\ \E object \in request.objects : object.key.kind = "cluster"
  /\ Ended
  /\ UNCHANGED saved

-----------------------------------------------------------------------------
(* ResolveAllDependencies.                                                 *)

StartResolving ==
  /\ pc = "objects" /\ todo = {}
  /\ Valid(policy)
  /\ pc' = "resolving"
  /\ waiting' = ObjectsOfKind(policy, "dependency")
  /\ running' = {} /\ slots' = 0
  /\ results' = Nothing /\ resolution' = NoResolution
  /\ UNCHANGED <<saved, handling, cache, requests>>

(* Mutant of StartGoroutine: goroutines without a limit.                   *)
StartUnlimited(d) ==
  /\ pc = "resolving"
  /\ d \in waiting
  /\ slots' = slots + 1
  /\ waiting' = waiting \ {d} /\ running' = running \cup {d}
  /\ UNCHANGED <<saved, pc, handling, cache, results, resolution, requests>>

StartGoroutine(d) ==
  /\ pc = "resolving"
  /\ d \in waiting
  /\ slots < MaxConcurrentGoRoutines
  /\ slots' = slots + 1
  /\ waiting' = waiting \ {d} /\ running' = running \cup {d}
  /\ UNCHANGED <<saved, pc, handling, cache, results, resolution, requests>>

(* In the goroutine of d: the first that needs the ACL resolver caches it. *)
Resolve(d) ==
  /\ d \in running \ DOMAIN results
  /\ LET resolver == CachedResolver(cache, policy)
         rules == CHOOSE r \in resolver : TRUE
     IN  /\ results' = [e \in DOMAIN results \cup {d} |->
                         IF e = d THEN ResolutionOf(policy, rules, d)
                         ELSE results[e]]
         /\ cache' = resolver
  /\ UNCHANGED <<saved, pc, handling, waiting, running, slots, resolution,
                 requests>>

(* Mutant of CombineData: the slot is kept when the dependency cannot be   *)
(* resolved.                                                               *)
CombineKeepingSlot(d) ==
  /\ d \in running \cap DOMAIN results
  /\ resolution' = IF results[d].status = "ok"
                   THEN AppendData(resolution, results[d].resolution)
                   ELSE resolution
  /\ running' = running \ {d}
  /\ slots' = IF results[d].status = "ok" THEN slots - 1 ELSE slots
  /\ UNCHANGED <<saved, pc, handling, cache, waiting, results, requests>>

(* combineData, and the end of the goroutine. What was resolved of a       *)
(* dependency that cannot be resolved is left out.                         *)
CombineData(d) ==
  /\ d \in running \cap DOMAIN results
  /\ resolution' = IF results[d].status = "ok"
                   THEN AppendData(resolution, results[d].resolution)
                   ELSE resolution
  /\ running' = running \ {d}
  /\ slots' = slots - 1
  /\ UNCHANGED <<saved, pc, handling, cache, waiting, results, requests>>

WaitForGoroutines ==
  /\ pc = "resolving"
  /\ waiting = {} /\ running = {}
  /\ pc' = "checking"
  /\ UNCHANGED <<saved, handling, cache, resolving, requests>>

-----------------------------------------------------------------------------
(* The desired state is valid: the policy is changed with it, unless the   *)
(* request is a noop (changePolicy is in PolicyStore).                     *)

RefuseDesiredState ==
  /\ pc = "checking"
  /\ ~ResolutionValid(policy, resolution)
  /\ Ended
  /\ UNCHANGED saved

AnswerNoop ==
  /\ pc = "checking"
  /\ ResolutionValid(policy, resolution)
  /\ request.noop
  /\ Ended
  /\ UNCHANGED saved

ChangePolicy ==
  /\ pc = "checking"
  /\ ResolutionValid(policy, resolution)
  /\ ~request.noop
  /\ IF policy = stored THEN UNCHANGED saved
     ELSE stored' = policy /\ desired' = resolution /\ changedBy' = request.kind
  /\ Ended

-----------------------------------------------------------------------------

Handle ==
  \/ \E object \in todo :
       UpdateObject(object) \/ DeleteObject(object) \/ RefuseObject(object)
  \/ RefusePolicy \/ RefuseCluster \/ StartResolving
  \/ \E d \in waiting : StartGoroutine(d)
  \/ WaitForGoroutines
  \/ RefuseDesiredState \/ AnswerNoop \/ ChangePolicy

Goroutine == \E d \in running : Resolve(d) \/ CombineData(d)

Next == (\E r \in Requests : Receive(r)) \/ Handle \/ Goroutine

Spec == Init /\ [][Next]_vars

-----------------------------------------------------------------------------
(* The variables have the values their comments say.                       *)
TypeOK ==
  /\ changedBy \in {"update", "delete"}
  /\ pc \in {"idle", "objects", "resolving", "checking"}
  /\ request \in Requests
  /\ todo \subseteq request.objects
  /\ waiting \cup running \subseteq ObjectsOfKind(policy, "dependency")
  /\ waiting \cap running = {}
  /\ slots \in 0..MaxConcurrentGoRoutines
  /\ DOMAIN results \subseteq ObjectsOfKind(policy, "dependency")
  /\ requests \in 0..MaxRequests

(* What the resolver takes for granted: the contracts of dependencies and  *)
(* of components are there, and the services of contexts.                  *)
ReferencesExist(p) ==
  /\ \A key \in ObjectsOfKind(p, "dependency") :
       Exists(p, Key("contract", p[key].contract, key.ns))
  /\ \A key \in ObjectsOfKind(p, "service") :
       \A c \in ToSet(p[key].components) :
         ~c.code => Exists(p, Key("contract", c.contract, key.ns))
  /\ \A key \in ObjectsOfKind(p, "contract") :
       \A context \in ToSet(p[key].contexts) :
         Exists(p, Key("service", context.service, key.ns))

(* ...and nothing else: it panics at a missing reference only, whatever    *)
(* else may be wrong with a policy and by whatever rules it is resolved.   *)
PanicsAtMissingOnly ==
  pc # "idle" /\ ReferencesExist(policy) =>
    \A d \in ObjectsOfKind(policy, "dependency") :
      \A rules \in CachedResolver(cache, policy) :
        ResolutionOf(policy, rules, d).status # "panic"

(* Resolving a policy that has been validated never panics: whatever the   *)
(* requests have added and removed, getContract and getMatchedService find *)
(* what they look for.                                                     *)
NeverPanics ==
  /\ PanicsAtMissingOnly
  /\ \A d \in DOMAIN results : results[d].status # "panic"

Merging(key) == {d \in DOMAIN results :
                   results[d].status = "ok"
                     /\ key \in DOMAIN results[d].resolution}

Own(d, key) == results[d].resolution[key]

(* Two dependencies need an instance to be two different things.           *)
Disagree(key) ==
  \E d, e \in Merging(key) :
    \/ Own(d, key).code # Own(e, key).code
    \/ Own(d, key).params # Own(e, key).params
    \/ Own(d, key).discovery # Own(e, key).discovery

(* What the merge relies on: no instance comes with an error, and two      *)
(* resolutions of an instance either both have parameters or both have     *)
(* none. The parameters of one would otherwise conflict with none at all,  *)
(* or not, depending on which comes first (addCodeParams).                 *)
IsInstance(i) ==
  i = [service |-> i.service, consumers |-> i.consumers, labels |-> i.labels,
       code |-> i.code, params |-> i.params, discovery |-> i.discovery,
       edges |-> i.edges, ingress |-> i.ingress, error |-> i.error]

SameShapes ==
  \A d \in DOMAIN results : results[d].status = "ok" =>
    \A key \in DOMAIN results[d].resolution :
      /\ IsInstance(Own(d, key)) /\ Own(d, key).error = FALSE
      /\ \A e \in Merging(key) :
           /\ Own(d, key).params = NoParams <=> Own(e, key).params = NoParams
           /\ Own(d, key).discovery = NoParams <=> Own(e, key).discovery = NoParams

(* What is said last stays: a label has the value that one of the          *)
(* dependencies ds gives it, and whether ingress traffic is allowed is     *)
(* what one of them says.                                                  *)
LabelsOfSome(instance, ds, key) ==
  /\ DOMAIN instance.labels = UNION {DOMAIN Own(d, key).labels : d \in ds}
  /\ \A name \in DOMAIN instance.labels : \E d \in ds :
       /\ name \in DOMAIN Own(d, key).labels
       /\ instance.labels[name] = Own(d, key).labels[name]
  /\ \E d \in ds : instance.ingress = Own(d, key).ingress

(* When goroutines end in any order, what the diff and the validation look *)
(* at is a function of what the dependencies resolve to: the instances of  *)
(* the desired state, which of them have an error (exactly those that two  *)
(* dependencies disagree about), and, of those without, consumers, code    *)
(* and discovery parameters and edges. Two things do depend on the order:  *)
(* the values of labels (component_instance.go:216) and allow_ingress      *)
(* (component_instance.go:238), of which the last one merged wins; they    *)
(* come from one of the dependencies and are never made up. A dependency   *)
(* that cannot be resolved leaves nothing behind.                          *)
CombinedInAnyOrder ==
  /\ SameShapes
  /\ pc = "checking" =>
       /\ \A d \in DOMAIN results : results[d].status = "ok" =>
            DOMAIN results[d].resolution \subseteq DOMAIN resolution
       /\ \A key \in DOMAIN resolution :
            /\ Merging(key) # {}
            /\ resolution[key].error <=> Disagree(key)
            /\ DOMAIN resolution[key].consumers =
                 UNION {DOMAIN Own(d, key).consumers : d \in Merging(key)}
            /\ ~resolution[key].error =>
                 /\ \A d \in Merging(key) :
                      /\ resolution[key].params = Own(d, key).params
                      /\ resolution[key].discovery = Own(d, key).discovery
                 /\ resolution[key].edges =
                      UNION {Own(d, key).edges : d \in Merging(key)}
                 /\ LabelsOfSome(resolution[key], Merging(key), key)

ComponentOf(service, name) ==
  CHOOSE c \in ToSet(service.components) : c.name = name

(* What an instance needs: its components, if it is a service, as far as   *)
(* their criteria hold for the labels the dependency reaches it with; the  *)
(* service of its contract, if it has one.                                 *)
HasWhatItNeeds(d, key, edges) ==
  LET instance == Own(d, key)
      service == policy[[kind |-> "service", ns |-> key.ns,
                         name |-> instance.service]]
  IN  IF key.component = Root
      THEN \A c \in ToSet(service.components) :
             Allows(c.criteria, instance.labels) = "true" =>
               [key EXCEPT !.component = c.name] \in edges
      ELSE IF ComponentOf(service, key.component).code THEN TRUE
      ELSE \E next \in edges : next.component = Root

(* What the resolver has to see to for one dependency: it consumes nothing *)
(* on behalf of another, no instance points to one that is not there, and, *)
(* unless a component has been dropped, it consumes all that it has        *)
(* resolved and every instance has what it needs.                          *)
ResolutionsComplete ==
  \A d \in DOMAIN results : \A key \in DOMAIN results[d].resolution :
    /\ DOMAIN Own(d, key).consumers \subseteq {d}
    /\ results[d].status = "ok" =>
         Own(d, key).edges \subseteq DOMAIN results[d].resolution
    /\ results[d].status = "ok" /\ ~results[d].dropped =>
         /\ d \in DOMAIN Own(d, key).consumers
         /\ HasWhatItNeeds(d, key, Own(d, key).edges)

(* A dependency that is reported as resolved has all it needs, also after  *)
(* its instances have been put together with those of other dependencies:  *)
(* every instance it consumes has its own, which are there and which the   *)
(* dependency consumes too. A component whose criteria could not be        *)
(* evaluated is the exception: it is left out with all that comes after it *)
(* (policy_resolver.go:256).                                               *)
ResolvedIsComplete ==
  /\ ResolutionsComplete
  /\ pc = "checking" =>
       \A d \in DOMAIN results :
         (Resolved(resolution, d) /\ ~results[d].dropped) =>
           \A key \in DOMAIN results[d].resolution :
             /\ key \in DOMAIN resolution
             /\ d \in DOMAIN resolution[key].consumers
             /\ HasWhatItNeeds(d, key, resolution[key].edges)
             /\ resolution[key].edges \subseteq DOMAIN resolution

(* The resolver lets nobody consume what its rules do not let them.        *)
ResolverChecksAccess ==
  pc \in {"resolving", "checking"} =>
    \A d \in ObjectsOfKind(policy, "dependency") :
      LET result == ResolutionOf(policy, AclRules(policy), d)
      IN  result.status = "ok" =>
            \A key \in DOMAIN result.resolution :
              CanConsume(AclRules(policy), Users[policy[d].user], key.ns)

(* Who consumes an instance may consume services in its namespace, by the  *)
(* ACL rules of the policy that is resolved (getMatchedService).           *)
ConsumersAllowed ==
  \A d \in DOMAIN results : results[d].status = "ok" =>
    \A key \in DOMAIN results[d].resolution :
      CanConsume(AclRules(policy), Users[policy[d].user], key.ns)

(* ...which holds when the policy is updated, also when the request itself *)
(* changes the ACL rules: adding a rule drops the cached resolver.         *)
UpdateChecksAccess ==
  /\ ResolverChecksAccess
  /\ request.kind = "update" => ConsumersAllowed

(* Nobody changes more of the policy than the ACL rules let them change    *)
(* before the request, whatever rules the request brings along.            *)
NoSelfEscalation ==
  [][\A key \in DOMAIN stored \cup DOMAIN stored' :
       (\/ key \notin DOMAIN stored \cap DOMAIN stored'
        \/ stored'[key] # stored[key])
         => CanManage(AclRules(stored), Users[request.user], key.kind, key.ns)
    ]_vars

(* A dependency is resolved as if it were the only one of the policy.      *)
OnlyDependency(p, d) ==
  Restrict(p, {key \in DOMAIN p : key.kind # "dependency" \/ key = d})

ResolvedAlone ==
  pc = "checking" =>
    \A p \in {stored, policy} : \A d \in ObjectsOfKind(p, "dependency") :
      ResolvedIn(p, d) = ResolvedIn(OnlyDependency(p, d), d)

OnlyDependenciesAdded ==
  /\ DOMAIN stored # DOMAIN stored'
  /\ IsRestriction(stored, stored')
  /\ \A key \in DOMAIN stored' \ DOMAIN stored : key.kind = "dependency"

(* New dependencies never disturb those that are there, although all share *)
(* the instances they have in common: what the old ones consume stays, for *)
(* them and with the same parameters.                                      *)
ConsumersUndisturbed ==
  [][/\ ResolvedAlone
     /\ OnlyDependenciesAdded /\ changedBy = "update" =>
          \A key \in DOMAIN desired :
            /\ key \in DOMAIN desired'
            /\ desired'[key].params = desired[key].params
            /\ DOMAIN desired[key].consumers \subseteq
                 DOMAIN desired'[key].consumers
    ]_vars

(* The resolver never waits for itself: when no goroutine is left to end,  *)
(* the semaphore lets the next one start.                                  *)
SemaphoreReleased ==
  pc = "resolving" /\ running = {} =>
    waiting = {} \/ slots < MaxConcurrentGoRoutines

=============================================================================
