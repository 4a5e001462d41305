------------------------ MODULE PolicyRequestsProofs ------------------------
(***************************************************************************)
(* Proofs about PolicyRequests, for every policy, every set of users, ACL  *)
(* rules and requests, every way to resolve a dependency and every number  *)
(* of goroutines.                                                          *)
(***************************************************************************)
EXTENDS PolicyRequests, FiniteSetTheorems, TLAPS

USE RequestsAssumption

-----------------------------------------------------------------------------
(* Roles (Acl).                                                            *)

Roles == {DomainAdmin, NamespaceAdmin, ServiceConsumer, Nobody}

LEMMA RolesInOrder ==
  /\ DOMAIN RolesOrdered = 1..4
  /\ RolesOrdered[1] = DomainAdmin /\ RolesOrdered[2] = NamespaceAdmin
  /\ RolesOrdered[3] = ServiceConsumer /\ RolesOrdered[4] = Nobody
  /\ ToSet(RolesOrdered) = Roles
<1>1. /\ DOMAIN RolesOrdered = 1..4
      /\ RolesOrdered[1] = DomainAdmin /\ RolesOrdered[2] = NamespaceAdmin
      /\ RolesOrdered[3] = ServiceConsumer /\ RolesOrdered[4] = Nobody
  BY DEF RolesOrdered
<1>2. \A i : i \in 1..4 <=> i = 1 \/ i = 2 \/ i = 3 \/ i = 4
  OBVIOUS
<1>3. ToSet(RolesOrdered) = Roles
  BY <1>1, <1>2 DEF ToSet, Roles
<1> QED BY <1>1, <1>3

(* The first role that covers a namespace; the domain administrator is the *)
(* first of all.                                                           *)
LEMMA RoleInNamespace ==
  ASSUME NEW rules, NEW user, NEW ns
  PROVE  /\ RoleIn(rules, user, ns) \in Roles
         /\ RoleIn(rules, user, ns) = DomainAdmin <=>
              {AllNamespaces, ns} \cap RoleMap(rules, user)[DomainAdmin] # {}
<1> DEFINE map == RoleMap(rules, user)
           covers(role) == {AllNamespaces, ns} \cap map[role] # {}
           held == {i \in DOMAIN RolesOrdered : covers(RolesOrdered[i])}
           first == CHOOSE i \in held : \A j \in held : i <= j
<1>1. RoleIn(rules, user, ns) = IF held = {} THEN Nobody ELSE RolesOrdered[first]
  BY DEF RoleIn
<1>2. held \subseteq 1..4 /\ (1 \in held <=> covers(DomainAdmin))
  BY RolesInOrder
<1> HIDE DEF covers
<1> HIDE DEF held
<1>3. CASE held = {}
  BY <1>1, <1>2, <1>3 DEF Roles, covers, Nobody, DomainAdmin
<1>4. CASE held # {}
  <2>1. \E i \in held : \A j \in held : i <= j
    <3>1. PICK i : i \in held
      BY <1>4
    <3>2. \A j \in held : j = 1 \/ j = 2 \/ j = 3 \/ j = 4
      <4>1. \A j \in 1..4 : j = 1 \/ j = 2 \/ j = 3 \/ j = 4
        OBVIOUS
      <4> QED BY <1>2, <4>1
    <3>3. CASE 1 \in held
      BY <3>2, <3>3
    <3>4. CASE 1 \notin held /\ 2 \in held
      BY <3>2, <3>4
    <3>5. CASE 1 \notin held /\ 2 \notin held /\ 3 \in held
      BY <3>2, <3>5
    <3>6. CASE 1 \notin held /\ 2 \notin held /\ 3 \notin held
      <4>1. i = 4
        BY <3>1, <3>2, <3>6
      <4> QED BY <3>1, <3>2, <3>6, <4>1
    <3> QED BY <3>3, <3>4, <3>5, <3>6
  <2>2. first \in held /\ \A j \in held : first <= j
    BY <2>1
  <2> HIDE DEF first
  <2>3. first = 1 \/ first = 2 \/ first = 3 \/ first = 4
    BY <1>2, <2>2
  <2>4. first = 1 <=> 1 \in held
    BY <2>2, <2>3
  <2>5. RoleIn(rules, user, ns) = RolesOrdered[first]
    BY <1>1, <1>4
  <2>6. RoleIn(rules, user, ns) = DomainAdmin <=> first = 1
    BY <2>3, <2>5, RolesInOrder DEF DomainAdmin, NamespaceAdmin, ServiceConsumer, Nobody
  <2>7. RoleIn(rules, user, ns) \in Roles
    BY <2>3, <2>5, RolesInOrder DEF Roles
  <2> QED BY <1>2, <2>4, <2>6, <2>7 DEF covers
<1> QED BY <1>3, <1>4

(* A domain administrator of one namespace is one of all: ACLRule gives    *)
(* that role for all namespaces at once.                                   *)
LEMMA AdministratorEverywhere ==
  ASSUME NEW rules, NEW user, NEW ns, RoleIn(rules, user, ns) = DomainAdmin
  PROVE  \A other : RoleIn(rules, user, other) = DomainAdmin
<1>1. PICK x : x \in RoleMap(rules, user)[DomainAdmin]
  BY RoleInNamespace
<1>2. RoleMap(rules, user)[DomainAdmin] =
        IF user.admin THEN {AllNamespaces}
        ELSE UNION {Given(rule, DomainAdmin) :
               rule \in {r \in rules : Allows(r.criteria, user.labels) = "true"}}
  <2>1. DomainAdmin \in ToSet(RolesOrdered)
    BY RolesInOrder DEF Roles
  <2> QED BY <2>1 DEF RoleMap
<1>3. AllNamespaces \in RoleMap(rules, user)[DomainAdmin]
  <2>1. CASE user.admin
    BY <1>2, <2>1
  <2>2. CASE ~user.admin
    <3>1. PICK rule \in {r \in rules : Allows(r.criteria, user.labels) = "true"} :
            x \in Given(rule, DomainAdmin)
      BY <1>1, <1>2, <2>2
    <3>2. AllNamespaces \in Given(rule, DomainAdmin)
      BY <3>1 DEF Given
    <3> QED BY <1>2, <2>2, <3>1, <3>2
  <2> QED BY <2>1, <2>2
<1> QED BY <1>3, RoleInNamespace

(* ACL rules are managed by domain administrators, in the system namespace *)
(* only, and there is nothing that these do not manage.                    *)
LEMMA WhoManages ==
  ASSUME NEW role \in Roles, NEW ns
  PROVE  /\ "aclrule" \in Manages(role, ns) => role = DomainAdmin /\ ns = SystemNS
         /\ Manages(role, ns) \subseteq Manages(DomainAdmin, ns)
BY DEF Roles, Manages, DomainAdmin, NamespaceAdmin, ServiceConsumer, Nobody,
       GlobalKinds, NamespaceKinds

(* Who may change ACL rules could not gain anything by changing them.      *)
LEMMA NothingToGain ==
  ASSUME NEW rules, NEW user, NEW place, CanManage(rules, user, "aclrule", place)
  PROVE  /\ place = SystemNS
         /\ \A others, kind, ns : CanManage(others, user, kind, ns)
                                    => CanManage(rules, user, kind, ns)
<1>1. ~RoleMapFails(rules, user) /\ "aclrule" \in Manages(RoleIn(rules, user, place), place)
  BY DEF CanManage
<1>2. RoleIn(rules, user, place) = DomainAdmin /\ place = SystemNS
  BY <1>1, RoleInNamespace, WhoManages
<1>3. ASSUME NEW others, NEW kind, NEW ns, CanManage(others, user, kind, ns)
      PROVE  CanManage(rules, user, kind, ns)
  <2>1. kind \in Manages(DomainAdmin, ns)
    BY <1>3, RoleInNamespace, WhoManages DEF CanManage
  <2>2. RoleIn(rules, user, ns) = DomainAdmin
    BY <1>2, AdministratorEverywhere
  <2> QED BY <1>1, <2>1, <2>2 DEF CanManage
<1> QED BY <1>2, <1>3

-----------------------------------------------------------------------------
(* What a step does to the domain and to the ACL rules of a policy.        *)

LEMMA ObjectAdded ==
  ASSUME NEW p, NEW object
  PROVE  /\ DOMAIN AddObject(p, object) = DOMAIN p \cup {object.key}
         /\ \A key \in DOMAIN p \ {object.key} : AddObject(p, object)[key] = p[key]
         /\ object.key.kind # "aclrule" => AclRules(AddObject(p, object)) = AclRules(p)
<1> DEFINE q == AddObject(p, object)
<1>1. DOMAIN q = DOMAIN p \cup {object.key}
  BY DEF AddObject
<1>2. \A key \in DOMAIN p \ {object.key} : q[key] = p[key]
  BY DEF AddObject
<1> HIDE DEF q
<1>3. ASSUME object.key.kind # "aclrule" PROVE AclRules(q) = AclRules(p)
  <2>1. {k \in ObjectsOfKind(q, "aclrule") : k.ns = SystemNS}
          = {k \in ObjectsOfKind(p, "aclrule") : k.ns = SystemNS}
    BY <1>1, <1>3 DEF ObjectsOfKind
  <2>2. \A k \in ObjectsOfKind(p, "aclrule") : q[k] = p[k]
    BY <1>2, <1>3 DEF ObjectsOfKind
  <2> QED BY <2>1, <2>2 DEF AclRules
<1> QED BY <1>1, <1>2, <1>3 DEF q

LEMMA ObjectRemoved ==
  ASSUME NEW p, NEW key
  PROVE  /\ DOMAIN RemoveObject(p, key) = DOMAIN p \ {key}
         /\ \A k \in DOMAIN p \ {key} : RemoveObject(p, key)[k] = p[k]
BY DEF RemoveObject, Restrict

LEMMA ResolverCached ==
  ASSUME NEW c, NEW p
  PROVE  /\ CachedResolver(c, p) # NoResolver
         /\ \A d, q : d = CachedResolver(c, p) => CachedResolver(d, q) = d
BY DEF CachedResolver, NoResolver

-----------------------------------------------------------------------------
(* A request by one who may not change the ACL rules is checked with those *)
(* of the stored policy up to its end; so far it has changed nothing that  *)
(* its user may not change.                                                *)

User == Users[request.user]

MayChange(kind, ns) == CanManage(AclRules(stored), User, kind, ns)

RulesInv ==
  pc # "idle" =>
    CachedResolver(cache, policy) = {AclRules(stored)} \/ MayChange("aclrule", SystemNS)

Changed(key) ==
  key \notin DOMAIN stored \cap DOMAIN policy \/ policy[key] # stored[key]

ChangesInv ==
  pc # "idle" =>
    \A key \in DOMAIN stored \cup DOMAIN policy :
      Changed(key) => MayChange(key.kind, key.ns)

AccessInv == RulesInv /\ ChangesInv

(* Whoever is let through by the cached resolver may make the change.      *)
LEMMA ManagedIsAllowed ==
  ASSUME RulesInv, pc # "idle", NEW object, MayManage(object)
  PROVE  MayChange(object.key.kind, object.key.ns)
<1>1. PICK rules : CanManage(rules, User, object.key.kind, object.key.ns)
                     /\ rules = CHOOSE r \in CachedResolver(cache, policy) : TRUE
  BY DEF MayManage, User
<1>2. CASE CachedResolver(cache, policy) = {AclRules(stored)}
  BY <1>1, <1>2 DEF MayChange
<1>3. CASE MayChange("aclrule", SystemNS)
  BY <1>1, <1>3, NothingToGain DEF MayChange
<1> QED BY <1>2, <1>3 DEF RulesInv

LEMMA InitAccess == Init => AccessInv
BY DEF Init, AccessInv, RulesInv, ChangesInv

LEMMA ReceiveAccess ==
  ASSUME NEW r \in Requests, Receive(r)
  PROVE  AccessInv'
<1>1. policy' = stored' /\ cache' = NoResolver
  BY DEF Receive, saved
<1>2. RulesInv'
  BY <1>1 DEF RulesInv, CachedResolver, NoResolver
<1>3. ChangesInv'
  BY <1>1 DEF ChangesInv, Changed
<1> QED BY <1>2, <1>3 DEF AccessInv

LEMMA UpdateObjectAccess ==
  ASSUME AccessInv, NEW object, UpdateObject(object)
  PROVE  AccessInv'
<1>1. /\ pc # "idle" /\ UNCHANGED <<stored, request>>
      /\ policy' = AddObject(policy, object)
      /\ cache' = CacheAfterAdd(CachedResolver(cache, policy), object)
  BY DEF UpdateObject, saved
<1>2. \A kind, ns : MayChange(kind, ns)' <=> MayChange(kind, ns)
  BY <1>1 DEF MayChange, User
<1>3. MayChange(object.key.kind, object.key.ns)
  BY <1>1, ManagedIsAllowed DEF UpdateObject, AccessInv
<1>4. ChangesInv'
  <2>1. ASSUME NEW key, key \in DOMAIN stored \cup DOMAIN policy', Changed(key)'
        PROVE  MayChange(key.kind, key.ns)
    <3>1. CASE key = object.key
      BY <1>3, <3>1
    <3>2. CASE key # object.key
      <4>1. /\ DOMAIN policy' = DOMAIN policy \cup {object.key}
            /\ key \in DOMAIN policy => policy'[key] = policy[key]
        BY <1>1, <3>2, ObjectAdded
      <4>2. /\ key \in DOMAIN stored \cup DOMAIN policy'
            /\ key \notin DOMAIN stored \cap DOMAIN policy' \/ policy'[key] # stored[key]
        BY <1>1, <2>1 DEF Changed
      <4>3. key \in DOMAIN stored \cup DOMAIN policy /\ Changed(key)
        BY <3>2, <4>1, <4>2 DEF Changed
      <4> QED BY <1>1, <4>3 DEF AccessInv, ChangesInv
    <3> QED BY <3>1, <3>2
  <2> QED BY <1>1, <1>2, <2>1 DEF ChangesInv
<1>5. RulesInv'
  <2>1. CASE object.key.kind = "aclrule"
    <3>1. MayChange("aclrule", SystemNS)
      BY <1>3, <2>1, NothingToGain DEF MayChange
    <3> QED BY <1>2, <3>1 DEF RulesInv
  <2>2. CASE object.key.kind # "aclrule"
    <3>1. cache' = CachedResolver(cache, policy)
      BY <1>1, <2>2 DEF CacheAfterAdd
    <3>2. CachedResolver(cache', policy') = CachedResolver(cache, policy)
      BY <3>1, ResolverCached
    <3> QED BY <1>1, <1>2, <3>2 DEF RulesInv, AccessInv
  <2> QED BY <2>1, <2>2
<1> QED BY <1>4, <1>5 DEF AccessInv

LEMMA DeleteObjectAccess ==
  ASSUME AccessInv, NEW object, DeleteObject(object)
  PROVE  AccessInv'
<1>1. /\ pc # "idle" /\ UNCHANGED <<stored, request>>
      /\ policy' = RemoveObject(policy, object.key)
      /\ cache' = CachedResolver(cache, policy)
  BY DEF DeleteObject, saved
<1>2. \A kind, ns : MayChange(kind, ns)' <=> MayChange(kind, ns)
  BY <1>1 DEF MayChange, User
<1>3. MayChange(object.key.kind, object.key.ns)
  BY <1>1, ManagedIsAllowed DEF DeleteObject, AccessInv
<1>4. ChangesInv'
  <2>1. ASSUME NEW key, key \in DOMAIN stored \cup DOMAIN policy', Changed(key)'
        PROVE  MayChange(key.kind, key.ns)
    <3>1. CASE key = object.key
      BY <1>3, <3>1
    <3>2. CASE key # object.key
      <4>1. /\ DOMAIN policy' = DOMAIN policy \ {object.key}
            /\ key \in DOMAIN policy => policy'[key] = policy[key]
        BY <1>1, <3>2, ObjectRemoved
      <4>2. /\ key \in DOMAIN stored \cup DOMAIN policy'
            /\ key \notin DOMAIN stored \cap DOMAIN policy' \/ policy'[key] # stored[key]
        BY <1>1, <2>1 DEF Changed
      <4>3. key \in DOMAIN stored \cup DOMAIN policy /\ Changed(key)
        BY <3>2, <4>1, <4>2 DEF Changed
      <4> QED BY <1>1, <4>3 DEF AccessInv, ChangesInv
    <3> QED BY <3>1, <3>2
  <2> QED BY <1>1, <1>2, <2>1 DEF ChangesInv
<1>5. RulesInv'
  <2>1. CachedResolver(cache', policy') = CachedResolver(cache, policy)
    BY <1>1, ResolverCached
  <2> QED BY <1>1, <1>2, <2>1 DEF RulesInv, AccessInv
<1> QED BY <1>4, <1>5 DEF AccessInv

(* The other steps leave the policy of the request alone, or end it.       *)
LEMMA OtherStepsAccess ==
  ASSUME AccessInv,
         \/ pc' = "idle"
         \/ /\ UNCHANGED <<stored, request, policy>>
            /\ pc' # "idle" => pc # "idle"
            /\ cache' = cache \/ cache' = CachedResolver(cache, policy)
  PROVE  AccessInv'
<1>1. CASE pc' = "idle"
  BY <1>1 DEF AccessInv, RulesInv, ChangesInv
<1>2. CASE pc' # "idle"
  <2>1. /\ pc # "idle" /\ UNCHANGED <<stored, request, policy>>
        /\ cache' = cache \/ cache' = CachedResolver(cache, policy)
    BY <1>2
  <2>2. CachedResolver(cache', policy') = CachedResolver(cache, policy)
    BY <2>1, ResolverCached
  <2>3. \A kind, ns : MayChange(kind, ns)' <=> MayChange(kind, ns)
    BY <2>1 DEF MayChange, User
  <2>4. RulesInv'
    BY <2>1, <2>2, <2>3 DEF RulesInv, AccessInv
  <2>5. ChangesInv'
    BY <2>1, <2>3 DEF ChangesInv, AccessInv, Changed
  <2> QED BY <2>4, <2>5 DEF AccessInv
<1> QED BY <1>1, <1>2

LEMMA NextAccess == AccessInv /\ [Next]_vars => AccessInv'
<1> SUFFICES ASSUME AccessInv, [Next]_vars PROVE AccessInv'
  OBVIOUS
<1>1. ASSUME NEW r \in Requests, Receive(r) PROVE AccessInv'
  BY <1>1, ReceiveAccess
<1>2. ASSUME NEW object \in todo, UpdateObject(object) PROVE AccessInv'
  BY <1>2, UpdateObjectAccess
<1>3. ASSUME NEW object \in todo, DeleteObject(object) PROVE AccessInv'
  BY <1>3, DeleteObjectAccess
<1>4. ASSUME NEW object \in todo, RefuseObject(object) PROVE AccessInv'
  BY <1>4, OtherStepsAccess DEF RefuseObject, Ended
<1>5. CASE RefusePolicy \/ RefuseCluster \/ RefuseDesiredState \/ AnswerNoop \/ ChangePolicy
  <2>1. pc' = "idle"
    BY <1>5 DEF RefusePolicy, RefuseCluster, RefuseDesiredState, AnswerNoop, ChangePolicy, Ended
  <2> QED BY <2>1, OtherStepsAccess
<1>6. CASE StartResolving \/ WaitForGoroutines \/ UNCHANGED vars
  <2>1. UNCHANGED <<stored, request, policy, cache>> /\ (pc' # "idle" => pc # "idle")
    BY <1>6 DEF StartResolving, WaitForGoroutines, vars, saved, handling
  <2> QED BY <2>1, OtherStepsAccess
<1>7. ASSUME NEW d, StartGoroutine(d) \/ CombineData(d) PROVE AccessInv'
  <2>1. UNCHANGED <<pc, stored, request, policy, cache>>
    BY <1>7 DEF StartGoroutine, CombineData, saved, handling
  <2> QED BY <2>1, OtherStepsAccess
<1>8. ASSUME NEW d, Resolve(d) PROVE AccessInv'
  <2>1. UNCHANGED <<pc, stored, request, policy>> /\ cache' = CachedResolver(cache, policy)
    BY <1>8 DEF Resolve, saved, handling
  <2> QED BY <2>1, OtherStepsAccess
<1> QED BY <1>1, <1>2, <1>3, <1>4, <1>5, <1>6, <1>7, <1>8 DEF Next, Handle, Goroutine

(* Only ChangePolicy changes what is stored, to the policy of the request. *)
LEMMA StoredChanges ==
  ASSUME [Next]_vars
  PROVE  stored' = stored \/ (pc # "idle" /\ stored' = policy)
<1>1. CASE Handle
  <2>1. ASSUME NEW object, UpdateObject(object) \/ DeleteObject(object) \/ RefuseObject(object)
        PROVE  stored' = stored
    BY <2>1 DEF UpdateObject, DeleteObject, RefuseObject, saved
  <2>2. CASE RefusePolicy \/ RefuseCluster \/ StartResolving \/ WaitForGoroutines
             \/ RefuseDesiredState \/ AnswerNoop
    BY <2>2 DEF RefusePolicy, RefuseCluster, StartResolving, WaitForGoroutines,
                RefuseDesiredState, AnswerNoop, saved
  <2>3. ASSUME NEW d, StartGoroutine(d) PROVE stored' = stored
    BY <2>3 DEF StartGoroutine, saved
  <2>4. CASE ChangePolicy
    BY <2>4 DEF ChangePolicy, saved
  <2> QED BY <1>1, <2>1, <2>2, <2>3, <2>4 DEF Handle
<1>2. CASE Goroutine
  BY <1>2 DEF Goroutine, Resolve, CombineData, saved
<1>3. CASE \E r \in Requests : Receive(r)
  BY <1>3 DEF Receive, saved
<1> QED BY <1>1, <1>2, <1>3 DEF Next, vars, saved

(* Whatever a request brings along, and in whatever order its objects are  *)
(* taken, the stored policy changes only where the ACL rules from before   *)
(* the request let its user make the change (policy_view.go:55-66,         *)
(* policy.go:45-84 with the resolver that Policy.View caches).             *)
THEOREM NobodyEscalates == Spec => NoSelfEscalation
<1>1. ASSUME AccessInv, [Next]_vars
      PROVE  [\A key \in DOMAIN stored \cup DOMAIN stored' :
                (\/ key \notin DOMAIN stored \cap DOMAIN stored'
                 \/ stored'[key] # stored[key])
                  => CanManage(AclRules(stored), Users[request.user], key.kind, key.ns)]_vars
  <2>1. CASE stored' = stored
    BY <2>1
  <2>2. CASE pc # "idle" /\ stored' = policy
    BY <1>1, <2>2 DEF AccessInv, ChangesInv, Changed, MayChange, User
  <2> QED BY <1>1, <2>1, <2>2, StoredChanges
<1> QED BY <1>1, InitAccess, NextAccess, PTL DEF Spec, NoSelfEscalation

-----------------------------------------------------------------------------
(* Goroutines and their semaphore.                                         *)

(* A goroutine holds one slot as long as it runs, and there are none       *)
(* before the resolution of a request and after it.                        *)
GoroutinesInv ==
  /\ IsFiniteSet(running) /\ slots = Cardinality(running)
  /\ pc # "resolving" => waiting = {} /\ running = {}
  /\ pc \in {"idle", "objects"} => DOMAIN results = {}

LEMMA NothingHasNoKeys == DOMAIN Nothing = {}
BY DEF Nothing

LEMMA InitTypes == Init => TypeOK /\ GoroutinesInv
<1> SUFFICES ASSUME Init PROVE TypeOK /\ GoroutinesInv
  OBVIOUS
<1>1. request \in Requests
  BY DEF Init
<1>2. MaxConcurrentGoRoutines \in Nat /\ MaxRequests \in Nat
  OBVIOUS
<1>3. 0 \in 0..MaxConcurrentGoRoutines /\ 0 \in 0..MaxRequests
  BY <1>2
<1> QED BY <1>1, <1>3, NothingHasNoKeys, FS_EmptySet DEF Init, TypeOK, GoroutinesInv

LEMMA EndedTypes ==
  ASSUME TypeOK, Ended, changedBy' \in {"update", "delete"}
  PROVE  TypeOK' /\ GoroutinesInv'
<1>1. 0 \in 0..MaxConcurrentGoRoutines
  OBVIOUS
<1> QED BY <1>1, NothingHasNoKeys, FS_EmptySet DEF Ended, TypeOK, GoroutinesInv

LEMMA ObjectsTypes ==
  ASSUME TypeOK, GoroutinesInv, UNCHANGED <<changedBy, resolving>>,
         pc \in {"idle", "objects"}, pc' = "objects",
         request' \in Requests, todo' \subseteq request'.objects,
         requests' \in 0..MaxRequests
  PROVE  TypeOK' /\ GoroutinesInv'
BY DEF TypeOK, GoroutinesInv, resolving

LEMMA StartResolvingTypes ==
  ASSUME TypeOK, GoroutinesInv, StartResolving
  PROVE  TypeOK' /\ GoroutinesInv'
<1>1. 0 \in 0..MaxConcurrentGoRoutines
  OBVIOUS
<1> QED BY <1>1, NothingHasNoKeys, FS_EmptySet
        DEF StartResolving, TypeOK, GoroutinesInv, saved, handling

LEMMA StartGoroutineTypes ==
  ASSUME TypeOK, GoroutinesInv, NEW d, StartGoroutine(d)
  PROVE  TypeOK' /\ GoroutinesInv'
<1>1. d \in waiting /\ d \notin running
  BY DEF StartGoroutine, TypeOK
<1>2. IsFiniteSet(running') /\ slots' = Cardinality(running')
  BY <1>1, FS_AddElement DEF StartGoroutine, GoroutinesInv
<1>3. slots' \in 0..MaxConcurrentGoRoutines
  BY DEF StartGoroutine, TypeOK
<1>4. TypeOK'
  BY <1>1, <1>3 DEF StartGoroutine, TypeOK, saved, handling
<1> QED BY <1>2, <1>4 DEF StartGoroutine, GoroutinesInv

LEMMA ResolveTypes ==
  ASSUME TypeOK, GoroutinesInv, NEW d, Resolve(d)
  PROVE  TypeOK' /\ GoroutinesInv'
<1>1. d \in running /\ DOMAIN results' = DOMAIN results \cup {d}
  BY DEF Resolve
<1>2. UNCHANGED <<saved, pc, handling, waiting, running, slots, requests>>
  BY DEF Resolve
<1> QED BY <1>1, <1>2 DEF TypeOK, GoroutinesInv, saved, handling

LEMMA CombineDataTypes ==
  ASSUME TypeOK, GoroutinesInv, NEW d, CombineData(d)
  PROVE  TypeOK' /\ GoroutinesInv'
<1>1. /\ d \in running /\ running' = running \ {d} /\ slots' = slots - 1
      /\ UNCHANGED <<saved, pc, handling, waiting, results, requests>>
  BY DEF CombineData
<1>2. IsFiniteSet(running') /\ slots' = Cardinality(running')
  BY <1>1, FS_RemoveElement DEF GoroutinesInv
<1>3. slots' \in 0..MaxConcurrentGoRoutines
  <2>1. slots' \in Nat
    BY <1>2, FS_CardinalityType
  <2> QED BY <1>1, <2>1 DEF TypeOK
<1>4. TypeOK'
  BY <1>1, <1>3 DEF TypeOK, saved, handling
<1> QED BY <1>1, <1>2, <1>4 DEF GoroutinesInv

LEMMA NextTypes == TypeOK /\ GoroutinesInv /\ [Next]_vars => (TypeOK /\ GoroutinesInv)'
<1> SUFFICES ASSUME TypeOK, GoroutinesInv, [Next]_vars PROVE TypeOK' /\ GoroutinesInv'
  OBVIOUS
<1>1. ASSUME NEW r \in Requests, Receive(r) PROVE TypeOK' /\ GoroutinesInv'
  <2>1. requests' \in 0..MaxRequests
    BY <1>1 DEF Receive, TypeOK
  <2> QED BY <1>1, <2>1, ObjectsTypes DEF Receive, saved
<1>2. ASSUME NEW object \in todo, UpdateObject(object) \/ DeleteObject(object)
      PROVE  TypeOK' /\ GoroutinesInv'
  <2>1. /\ UNCHANGED <<saved, pc, request, resolving, requests>> /\ pc = "objects"
        /\ todo' = todo \ {object}
    BY <1>2 DEF UpdateObject, DeleteObject
  <2>2. request' \in Requests /\ todo' \subseteq request'.objects /\ requests' \in 0..MaxRequests
    BY <2>1 DEF TypeOK
  <2> QED BY <2>1, <2>2, ObjectsTypes DEF saved
<1>3. ASSUME NEW object \in todo, RefuseObject(object) PROVE TypeOK' /\ GoroutinesInv'
  BY <1>3, EndedTypes DEF RefuseObject, saved, TypeOK
<1>4. CASE RefusePolicy \/ RefuseCluster \/ RefuseDesiredState \/ AnswerNoop
  BY <1>4, EndedTypes
     DEF RefusePolicy, RefuseCluster, RefuseDesiredState, AnswerNoop, saved, TypeOK
<1>5. CASE ChangePolicy
  <2>1. changedBy' \in {"update", "delete"}
    BY <1>5 DEF ChangePolicy, saved, TypeOK
  <2> QED BY <1>5, <2>1, EndedTypes DEF ChangePolicy
<1>6. CASE StartResolving
  BY <1>6, StartResolvingTypes
<1>7. ASSUME NEW d, StartGoroutine(d) PROVE TypeOK' /\ GoroutinesInv'
  BY <1>7, StartGoroutineTypes
<1>8. CASE WaitForGoroutines
  BY <1>8 DEF WaitForGoroutines, TypeOK, GoroutinesInv, saved, handling, resolving
<1>9. ASSUME NEW d, Resolve(d) PROVE TypeOK' /\ GoroutinesInv'
  BY <1>9, ResolveTypes
<1>10. ASSUME NEW d, CombineData(d) PROVE TypeOK' /\ GoroutinesInv'
  BY <1>10, CombineDataTypes
<1>11. CASE UNCHANGED vars
  BY <1>11 DEF vars, saved, handling, resolving, TypeOK, GoroutinesInv
<1> QED
  BY <1>1, <1>2, <1>3, <1>4, <1>5, <1>6, <1>7, <1>8, <1>9, <1>10, <1>11
     DEF Next, Handle, Goroutine

(* Types; in particular never more goroutines than the semaphore has       *)
(* slots, and none for what is not a dependency of the policy.             *)
THEOREM TypeCorrect == Spec => []TypeOK
BY InitTypes, NextTypes, PTL DEF Spec

(* Every goroutine gives its slot back, also the one of a dependency that  *)
(* cannot be resolved (policy_resolver.go:86-104).                         *)
THEOREM SlotsAreReleased == Spec => []SemaphoreReleased
<1>1. TypeOK /\ GoroutinesInv => SemaphoreReleased
  BY FS_EmptySet DEF GoroutinesInv, SemaphoreReleased
<1> QED BY <1>1, InitTypes, NextTypes, PTL DEF Spec

-----------------------------------------------------------------------------
(* The merge of what goroutines resolve (AppendData).                      *)

LEMMA FieldReplaced ==
  ASSUME NEW i, NEW e, IsInstance(i)
  PROVE  LET j == [i EXCEPT !.error = e]
         IN  IsInstance(j) /\ j.consumers = i.consumers /\ j.error = e
BY DEF IsInstance

LEMMA MadeErroneous ==
  ASSUME NEW i, IsInstance(i)
  PROVE  /\ IsInstance(Erroneous(i)) /\ Erroneous(i).consumers = i.consumers
         /\ Erroneous(i).error = TRUE
<1> DEFINE e == TRUE
           j == [i EXCEPT !.error = e]
<1>1. Erroneous(i) = j
  BY DEF Erroneous
<1> HIDE DEF e
<1>2. IsInstance(j) /\ j.consumers = i.consumers /\ j.error = e
  BY FieldReplaced
<1> QED BY <1>1, <1>2 DEF e

(* What AppendInstance does to an instance, when the two have parameters   *)
(* or none alike: a disagreement is an error, and an error stays.          *)
LEMMA InstanceAppended ==
  ASSUME NEW i, NEW n, IsInstance(i), IsInstance(n), i.error \in BOOLEAN
  PROVE  LET r == AppendInstance(i, n)
         IN  /\ IsInstance(r) /\ r.error \in BOOLEAN
             /\ DOMAIN r.consumers = DOMAIN i.consumers \cup DOMAIN n.consumers
             /\ i.error => r.error
             /\ (/\ ~i.error
                 /\ i.params = NoParams <=> n.params = NoParams
                 /\ i.discovery = NoParams <=> n.discovery = NoParams)
                => /\ r.error <=> \/ i.code # n.code \/ i.params # n.params
                                  \/ i.discovery # n.discovery
                   /\ ~r.error => /\ r.code = i.code /\ r.params = i.params
                                  /\ r.discovery = i.discovery
                                  /\ r.edges = i.edges \cup n.edges
                                  /\ r.labels = AddLabels(i.labels, n.labels)
                                  /\ r.ingress = IF n.ingress = "" THEN i.ingress
                                                 ELSE n.ingress
<1> DEFINE consumed == [i EXCEPT !.consumers = Overlaid(@, n.consumers)]
           labelled == [consumed EXCEPT !.labels = AddLabels(@, n.labels)]
           found == [labelled EXCEPT !.discovery = Merged(@, n.discovery)]
           whole == [found EXCEPT !.params = Merged(@, n.params),
                                  !.edges = @ \cup n.edges,
                                  !.ingress = IF n.ingress = "" THEN @ ELSE n.ingress]
           r == AppendInstance(i, n)
           cons == Overlaid(i.consumers, n.consumers)
           labs == AddLabels(i.labels, n.labels)
           disc == Merged(i.discovery, n.discovery)
           prms == Merged(i.params, n.params)
           edgs == i.edges \cup n.edges
           ingr == IF n.ingress = "" THEN i.ingress ELSE n.ingress
<1>1. DOMAIN cons = DOMAIN i.consumers \cup DOMAIN n.consumers
  BY DEF Overlaid
<1>2. PICK svc, con, lab, cod, par, dis, edg, ing, err :
        i = [service |-> svc, consumers |-> con, labels |-> lab, code |-> cod,
             params |-> par, discovery |-> dis, edges |-> edg, ingress |-> ing,
             error |-> err]
  BY DEF IsInstance
<1>3. i.consumers = con /\ i.labels = lab /\ i.code = cod /\ i.params = par
        /\ i.discovery = dis /\ i.edges = edg /\ i.ingress = ing /\ i.error = err
  BY <1>2
<1>4. consumed =
        [service |-> svc, consumers |-> cons, labels |-> lab, code |-> cod,
         params |-> par, discovery |-> dis, edges |-> edg, ingress |-> ing, error |-> err]
  BY <1>2
<1>5. labelled =
        [service |-> svc, consumers |-> cons, labels |-> labs, code |-> cod,
         params |-> par, discovery |-> dis, edges |-> edg, ingress |-> ing, error |-> err]
  <2> HIDE DEF cons
  <2>1. labelled = [consumed EXCEPT !.labels = labs]
    BY <1>3, <1>4
  <2> HIDE DEF consumed, labelled, labs
  <2> QED BY <1>4, <2>1
<1>6. found =
        [service |-> svc, consumers |-> cons, labels |-> labs, code |-> cod,
         params |-> par, discovery |-> disc, edges |-> edg, ingress |-> ing, error |-> err]
  <2> HIDE DEF cons, labs
  <2>1. found = [labelled EXCEPT !.discovery = disc]
    BY <1>3, <1>5
  <2> HIDE DEF labelled, found, disc
  <2> QED BY <1>5, <2>1
<1>7. whole =
        [service |-> svc, consumers |-> cons, labels |-> labs, code |-> cod,
         params |-> prms, discovery |-> disc, edges |-> edgs, ingress |-> ingr, error |-> err]
  <2> HIDE DEF cons, labs, disc
  <2>0. found.params = i.params /\ found.edges = i.edges /\ found.ingress = i.ingress
    BY <1>3, <1>6
  <2> HIDE DEF found
  <2>1. whole = [found EXCEPT !.params = prms, !.edges = edgs, !.ingress = ingr]
    BY <2>0, Zenon
  <2> HIDE DEF whole, prms, edgs, ingr
  <2> QED BY <1>6, <2>1
<1> HIDE DEF consumed, labelled, found, whole, cons, labs, prms, edgs, ingr, disc
<1>8. /\ IsInstance(Erroneous(consumed)) /\ Erroneous(consumed).consumers = cons
      /\ Erroneous(consumed).error = TRUE
  <2>1. IsInstance(consumed) /\ consumed.consumers = cons
    BY <1>4 DEF IsInstance
  <2> QED BY <2>1, MadeErroneous
<1>9. /\ IsInstance(Erroneous(labelled)) /\ Erroneous(labelled).consumers = cons
      /\ Erroneous(labelled).error = TRUE
  <2>1. IsInstance(labelled) /\ labelled.consumers = cons
    BY <1>5 DEF IsInstance
  <2> QED BY <2>1, MadeErroneous
<1>10. /\ IsInstance(Erroneous(found)) /\ Erroneous(found).consumers = cons
       /\ Erroneous(found).error = TRUE
  <2>1. IsInstance(found) /\ found.consumers = cons
    BY <1>6 DEF IsInstance
  <2> QED BY <2>1, MadeErroneous
<1>11. /\ IsInstance(whole) /\ whole.consumers = cons /\ whole.error = i.error
       /\ whole.code = i.code /\ whole.params = prms
       /\ whole.discovery = disc /\ whole.edges = edgs
       /\ whole.labels = labs /\ whole.ingress = ingr
  BY <1>3, <1>7 DEF IsInstance
<1>12. r = CASE i.code # n.code -> Erroneous(consumed)
             [] i.code = n.code /\ Conflict(i.discovery, n.discovery) -> Erroneous(labelled)
             [] i.code = n.code /\ ~Conflict(i.discovery, n.discovery)
                  /\ Conflict(i.params, n.params) -> Erroneous(found)
             [] OTHER -> whole
  BY DEF AppendInstance, consumed, labelled, found, whole
<1> HIDE DEF r
<1>13. CASE \/ i.code # n.code \/ Conflict(i.discovery, n.discovery)
            \/ Conflict(i.params, n.params)
  <2>1. IsInstance(r) /\ r.consumers = cons /\ r.error = TRUE
    BY <1>8, <1>9, <1>10, <1>12, <1>13
  <2> QED BY <1>1, <1>13, <2>1 DEF Conflict, r
<1>14. CASE ~(\/ i.code # n.code \/ Conflict(i.discovery, n.discovery)
              \/ Conflict(i.params, n.params))
  <2>1. r = whole
    BY <1>12, <1>14
  <2> QED BY <1>1, <1>11, <1>14, <2>1 DEF Conflict, Merged, r, prms, disc, edgs, labs, ingr
<1> QED BY <1>13, <1>14

(* The dependencies among ds that have resolved to the instance of a key.  *)
Contributors(ds, key) ==
  {d \in ds : results[d].status = "ok" /\ key \in DOMAIN results[d].resolution}

Differ(d, e, key) ==
  \/ Own(d, key).code # Own(e, key).code
  \/ Own(d, key).params # Own(e, key).params
  \/ Own(d, key).discovery # Own(e, key).discovery

(* An instance merged from what the dependencies cs have resolved it to.   *)
MergedInstance(i, cs, key) ==
  /\ IsInstance(i) /\ i.error \in BOOLEAN
  /\ i.error <=> \E d, e \in cs : Differ(d, e, key)
  /\ DOMAIN i.consumers = UNION {DOMAIN Own(d, key).consumers : d \in cs}
  /\ ~i.error =>
       /\ \A d \in cs : /\ i.code = Own(d, key).code /\ i.params = Own(d, key).params
                        /\ i.discovery = Own(d, key).discovery
       /\ i.edges = UNION {Own(d, key).edges : d \in cs}
       /\ LabelsOfSome(i, cs, key)

MergedFrom(ds) ==
  /\ \A key : key \in DOMAIN resolution <=> Contributors(ds, key) # {}
  /\ \A key \in DOMAIN resolution :
       MergedInstance(resolution[key], Contributors(ds, key), key)

(* In every order: what has been merged so far comes from the dependencies *)
(* whose goroutines have ended.                                            *)
MergeInv ==
  /\ waiting \cap DOMAIN results = {}
  /\ MergedFrom(DOMAIN results \ running)

LEMMA FirstInstance ==
  ASSUME NEW d, NEW key, IsInstance(Own(d, key)), Own(d, key).error = FALSE
  PROVE  MergedInstance(Own(d, key), {d}, key)
BY DEF MergedInstance, Differ, LabelsOfSome

(* With one more instance there is one more to say the last word.          *)
LEMMA LabelsOfOneMore ==
  ASSUME NEW i, NEW r, NEW cs, NEW d, NEW key, LabelsOfSome(i, cs, key),
         r.labels = AddLabels(i.labels, Own(d, key).labels),
         r.ingress = IF Own(d, key).ingress = "" THEN i.ingress ELSE Own(d, key).ingress
  PROVE  LabelsOfSome(r, cs \cup {d}, key)
<1> DEFINE es == cs \cup {d}
<1>1. /\ DOMAIN r.labels = DOMAIN i.labels \cup DOMAIN Own(d, key).labels
      /\ \A name \in DOMAIN r.labels :
           r.labels[name] = IF name \in DOMAIN Own(d, key).labels
                            THEN Own(d, key).labels[name] ELSE i.labels[name]
  BY DEF AddLabels, Overlaid
<1>2. DOMAIN r.labels = UNION {DOMAIN Own(e, key).labels : e \in es}
  <2>1. DOMAIN i.labels = UNION {DOMAIN Own(e, key).labels : e \in cs}
    BY DEF LabelsOfSome
  <2> QED BY <1>1, <2>1
<1>3. \A name \in DOMAIN r.labels : \E e \in es :
        /\ name \in DOMAIN Own(e, key).labels
        /\ r.labels[name] = Own(e, key).labels[name]
  <2>1. \A name \in DOMAIN i.labels : \E e \in cs :
          /\ name \in DOMAIN Own(e, key).labels
          /\ i.labels[name] = Own(e, key).labels[name]
    BY DEF LabelsOfSome
  <2> QED BY <1>1, <2>1
<1>4. \E e \in es : r.ingress = Own(e, key).ingress
  BY DEF LabelsOfSome
<1> QED BY <1>2, <1>3, <1>4 DEF LabelsOfSome

LEMMA OneMoreInstance ==
  ASSUME NEW i, NEW cs, NEW d, NEW key, cs # {}, MergedInstance(i, cs, key),
         IsInstance(Own(d, key)),
         \A e \in cs : /\ Own(d, key).params = NoParams <=> Own(e, key).params = NoParams
                       /\ Own(d, key).discovery = NoParams <=> Own(e, key).discovery = NoParams
  PROVE  MergedInstance(AppendInstance(i, Own(d, key)), cs \cup {d}, key)
<1> DEFINE n == Own(d, key)
           r == AppendInstance(i, n)
<1>1. PICK e : e \in cs
  OBVIOUS
<1>2. i.error \in BOOLEAN /\ IsInstance(i) /\ (i.error <=> \E a, b \in cs : Differ(a, b, key))
  BY DEF MergedInstance
<1>3. /\ IsInstance(r) /\ r.error \in BOOLEAN
      /\ DOMAIN r.consumers = DOMAIN i.consumers \cup DOMAIN n.consumers
      /\ i.error => r.error
  BY <1>2, InstanceAppended
<1>4. DOMAIN r.consumers = UNION {DOMAIN Own(a, key).consumers : a \in cs \cup {d}}
  <2>1. DOMAIN i.consumers = UNION {DOMAIN Own(a, key).consumers : a \in cs}
    BY DEF MergedInstance
  <2> QED BY <1>3, <2>1
<1>5. CASE i.error
  <2>1. \E a, b \in cs \cup {d} : Differ(a, b, key)
    BY <1>2, <1>5
  <2> QED BY <1>3, <1>4, <1>5, <2>1 DEF MergedInstance
<1>6. CASE ~i.error
  <2>1. /\ \A a \in cs : /\ i.code = Own(a, key).code /\ i.params = Own(a, key).params
                         /\ i.discovery = Own(a, key).discovery
        /\ i.edges = UNION {Own(a, key).edges : a \in cs}
        /\ LabelsOfSome(i, cs, key)
    BY <1>6 DEF MergedInstance
  <2>2. /\ i.params = NoParams <=> n.params = NoParams
        /\ i.discovery = NoParams <=> n.discovery = NoParams
    BY <1>1, <2>1
  <2>3. /\ r.error <=> i.code # n.code \/ i.params # n.params \/ i.discovery # n.discovery
        /\ ~r.error => /\ r.code = i.code /\ r.params = i.params
                       /\ r.discovery = i.discovery
                       /\ r.edges = i.edges \cup n.edges
                       /\ r.labels = AddLabels(i.labels, n.labels)
                       /\ r.ingress = IF n.ingress = "" THEN i.ingress ELSE n.ingress
    <3>1. IsInstance(i) /\ IsInstance(n) /\ i.error = FALSE
      BY <1>2, <1>6
    <3> HIDE DEF n
    <3>2. (/\ ~i.error
           /\ i.params = NoParams <=> n.params = NoParams
           /\ i.discovery = NoParams <=> n.discovery = NoParams)
      BY <2>2, <3>1
    <3>3. (/\ ~i.error
           /\ i.params = NoParams <=> n.params = NoParams
           /\ i.discovery = NoParams <=> n.discovery = NoParams)
             => /\ r.error <=> \/ i.code # n.code \/ i.params # n.params
                               \/ i.discovery # n.discovery
                /\ ~r.error => /\ r.code = i.code /\ r.params = i.params
                               /\ r.discovery = i.discovery
                               /\ r.edges = i.edges \cup n.edges
                               /\ r.labels = AddLabels(i.labels, n.labels)
                               /\ r.ingress = IF n.ingress = "" THEN i.ingress
                                              ELSE n.ingress
      <4>1. i.error \in BOOLEAN
        BY <3>1
      <4> QED BY ONLY <3>1, <4>1, InstanceAppended
    <3> HIDE DEF r
    <3> QED BY <3>2, <3>3
  <2> HIDE DEF r
  <2>4. r.error <=> \E a, b \in cs \cup {d} : Differ(a, b, key)
    <3>1. r.error => Differ(e, d, key)
      BY <1>1, <2>1, <2>3 DEF Differ
    <3>2. ~r.error => \A a, b \in cs \cup {d} : ~Differ(a, b, key)
      BY <2>1, <2>3 DEF Differ
    <3> QED BY <1>1, <3>1, <3>2
  <2>5. ~r.error => r.edges = UNION {Own(a, key).edges : a \in cs \cup {d}}
    BY <2>1, <2>3
  <2>6. ~r.error => \A a \in cs \cup {d} :
          r.code = Own(a, key).code /\ r.params = Own(a, key).params
            /\ r.discovery = Own(a, key).discovery
    BY <2>1, <2>3
  <2>7. ~r.error => LabelsOfSome(r, cs \cup {d}, key)
    BY <2>1, <2>3, LabelsOfOneMore
  <2>8. MergedInstance(r, cs \cup {d}, key)
    BY <1>3, <1>4, <2>4, <2>5, <2>6, <2>7 DEF MergedInstance
  <2> QED BY <2>8 DEF r
<1> QED BY <1>2, <1>5, <1>6

LEMMA CombineDataMerge ==
  ASSUME MergeInv, SameShapes, NEW d, CombineData(d)
  PROVE  MergeInv'
<1> DEFINE ds == DOMAIN results \ running
           es == DOMAIN results \ running'
           n == results[d].resolution
<1>1. /\ d \in DOMAIN results /\ d \notin ds /\ es = ds \cup {d}
      /\ UNCHANGED <<waiting, results>>
  BY DEF CombineData
<1>2. /\ \A key : key \in DOMAIN resolution <=> Contributors(ds, key) # {}
      /\ \A key \in DOMAIN resolution :
           MergedInstance(resolution[key], Contributors(ds, key), key)
  BY DEF MergeInv, MergedFrom
<1>3. /\ \A key : key \in DOMAIN resolution' <=> Contributors(es, key) # {}
      /\ \A key \in DOMAIN resolution' :
           MergedInstance(resolution'[key], Contributors(es, key), key)
  <2>1. CASE results[d].status # "ok"
    <3>1. \A key : Contributors(es, key) = Contributors(ds, key)
      BY <1>1, <2>1 DEF Contributors
    <3>2. resolution' = resolution
      BY <2>1 DEF CombineData
    <3> QED BY <1>2, <3>1, <3>2
  <2>2. CASE results[d].status = "ok"
    <3>1. resolution' = AppendData(resolution, n)
      BY <2>2 DEF CombineData
    <3>2. /\ DOMAIN resolution' = DOMAIN resolution \cup DOMAIN n
          /\ \A key \in DOMAIN resolution' :
               /\ key \notin DOMAIN resolution => resolution'[key] = n[key]
               /\ key \notin DOMAIN n => resolution'[key] = resolution[key]
               /\ key \in DOMAIN resolution /\ key \in DOMAIN n =>
                    resolution'[key] = AppendInstance(resolution[key], n[key])
      BY <3>1 DEF AppendData
    <3>3. \A key : Contributors(es, key) =
            IF key \in DOMAIN n THEN Contributors(ds, key) \cup {d} ELSE Contributors(ds, key)
      BY <1>1, <2>2 DEF Contributors
    <3>4. ASSUME NEW key PROVE key \in DOMAIN resolution' <=> Contributors(es, key) # {}
      BY <1>2, <3>2, <3>3
    <3>5. ASSUME NEW key \in DOMAIN resolution'
          PROVE  MergedInstance(resolution'[key], Contributors(es, key), key)
      <4>1. CASE key \notin DOMAIN n
        <5>1. resolution'[key] = resolution[key] /\ key \in DOMAIN resolution
          BY <3>2, <3>5, <4>1
        <5> QED BY <1>2, <3>3, <4>1, <5>1
      <4>2. CASE key \in DOMAIN n /\ key \notin DOMAIN resolution
        <5>1. Contributors(es, key) = {d}
          BY <1>2, <3>3, <4>2
        <5>2. resolution'[key] = Own(d, key)
          BY <3>2, <4>2 DEF Own
        <5>3. IsInstance(Own(d, key)) /\ Own(d, key).error = FALSE
          BY <1>1, <2>2, <4>2 DEF SameShapes
        <5> QED BY <5>1, <5>2, <5>3, FirstInstance
      <4>3. CASE key \in DOMAIN n /\ key \in DOMAIN resolution
        <5>1. Contributors(es, key) = Contributors(ds, key) \cup {d}
          BY <3>3, <4>3
        <5>2. resolution'[key] = AppendInstance(resolution[key], Own(d, key))
          BY <3>2, <4>3 DEF Own
        <5>3. Contributors(ds, key) # {}
              /\ MergedInstance(resolution[key], Contributors(ds, key), key)
          BY <1>2, <4>3
        <5>4. IsInstance(Own(d, key))
          BY <1>1, <2>2, <4>3 DEF SameShapes
        <5>5. Contributors(ds, key) \subseteq Merging(key)
          BY DEF Contributors, Merging
        <5>6. \A e \in Contributors(ds, key) :
                 /\ Own(d, key).params = NoParams <=> Own(e, key).params = NoParams
                 /\ Own(d, key).discovery = NoParams <=> Own(e, key).discovery = NoParams
          BY <1>1, <2>2, <4>3, <5>5 DEF SameShapes
        <5> DEFINE cs == Contributors(ds, key)
                   i == resolution[key]
        <5>7. /\ cs # {} /\ MergedInstance(i, cs, key)
              /\ \A e \in cs :
                   /\ Own(d, key).params = NoParams <=> Own(e, key).params = NoParams
                   /\ Own(d, key).discovery = NoParams <=> Own(e, key).discovery = NoParams
          BY <5>3, <5>6
        <5> HIDE DEF ds, cs, i
        <5>8. MergedInstance(AppendInstance(i, Own(d, key)), cs \cup {d}, key)
          BY ONLY <5>4, <5>7, OneMoreInstance
        <5>9. MergedInstance(AppendInstance(resolution[key], Own(d, key)),
                             Contributors(ds, key) \cup {d}, key)
          BY <5>8 DEF cs, i
        <5> QED BY ONLY <5>1, <5>2, <5>9
      <4> QED BY <4>1, <4>2, <4>3
    <3> QED BY <3>4, <3>5
  <2> QED BY <2>1, <2>2
<1> QED BY <1>1, <1>3 DEF MergeInv, MergedFrom, Contributors, MergedInstance, LabelsOfSome, Differ, Own

LEMMA NothingMerged ==
  ASSUME results = Nothing, resolution = NoResolution PROVE MergeInv
<1>1. DOMAIN results = {} /\ DOMAIN resolution = {}
  BY NothingHasNoKeys DEF NoResolution
<1> QED BY <1>1 DEF MergeInv, MergedFrom, Contributors

LEMMA NothingMergedNext ==
  ASSUME results' = Nothing, resolution' = NoResolution PROVE MergeInv'
<1>1. DOMAIN results' = {} /\ DOMAIN resolution' = {}
  BY NothingHasNoKeys DEF NoResolution
<1> QED BY <1>1 DEF MergeInv, MergedFrom, Contributors

LEMMA StartGoroutineMerge ==
  ASSUME MergeInv, NEW d, StartGoroutine(d)
  PROVE  MergeInv'
<1>1. /\ d \in waiting /\ waiting' = waiting \ {d} /\ running' = running \cup {d}
      /\ UNCHANGED <<results, resolution>>
  BY DEF StartGoroutine
<1>2. DOMAIN results' \ running' = DOMAIN results \ running
  BY <1>1 DEF MergeInv
<1> QED BY <1>1, <1>2
        DEF MergeInv, MergedFrom, Contributors, MergedInstance, LabelsOfSome, Differ, Own

LEMMA ResolveMerge ==
  ASSUME TypeOK, MergeInv, NEW d, Resolve(d)
  PROVE  MergeInv'
<1> DEFINE ds == DOMAIN results \ running
<1>1. /\ d \in running /\ UNCHANGED <<waiting, running, resolution>>
      /\ DOMAIN results' = DOMAIN results \cup {d}
      /\ \A e \in ds : results'[e] = results[e]
  BY DEF Resolve
<1>2. DOMAIN results' \ running' = ds /\ waiting' \cap DOMAIN results' = {}
  BY <1>1 DEF MergeInv, TypeOK
<1>3. \A key : {e \in ds : results'[e].status = "ok"
                             /\ key \in DOMAIN results'[e].resolution}
                = Contributors(ds, key)
  BY <1>1 DEF Contributors
<1>4. \A key : \A e \in Contributors(ds, key) : results'[e] = results[e]
  BY <1>1 DEF Contributors
<1>5. MergedFrom(ds)
  BY DEF MergeInv
<1> HIDE DEF ds
<1>6. /\ \A key : key \in DOMAIN resolution' <=> Contributors(ds, key) # {}
      /\ \A key \in DOMAIN resolution' :
           MergedInstance(resolution'[key], Contributors(ds, key), key)
  BY <1>1, <1>5 DEF MergedFrom
<1>7. ASSUME NEW key \in DOMAIN resolution'
      PROVE  MergedInstance(resolution[key], Contributors(DOMAIN results \ running, key), key)'
  <2> DEFINE cs == Contributors(ds, key)
  <2>1. \A e \in cs : results'[e].resolution[key] = Own(e, key)
    BY <1>4 DEF Own
  <2>2. Contributors(DOMAIN results \ running, key)' = cs
    BY <1>2, <1>3 DEF Contributors
  <2>3. MergedInstance(resolution'[key], cs, key)
    BY <1>6, <1>7
  <2> HIDE DEF cs
  <2>4. \A e \in cs : Own(e, key)' = Own(e, key)
    BY <2>1 DEF Own
  <2>5. (\E a, b \in cs : Differ(a, b, key)') <=> \E a, b \in cs : Differ(a, b, key)
    BY <2>4 DEF Differ
  <2>6. /\ {DOMAIN Own(e, key)'.consumers : e \in cs} = {DOMAIN Own(e, key).consumers : e \in cs}
        /\ {Own(e, key)'.edges : e \in cs} = {Own(e, key).edges : e \in cs}
        /\ {DOMAIN Own(e, key)'.labels : e \in cs} = {DOMAIN Own(e, key).labels : e \in cs}
    BY <2>4
  <2>7. LabelsOfSome(resolution'[key], cs, key) =>
          LabelsOfSome(resolution[key], Contributors(DOMAIN results \ running, key), key)'
    BY <2>2, <2>4, <2>6 DEF LabelsOfSome
  <2> QED BY <2>2, <2>3, <2>4, <2>5, <2>6, <2>7 DEF MergedInstance
<1>8. \A key : key \in DOMAIN resolution' <=>
              Contributors(DOMAIN results \ running, key)' # {}
  BY <1>2, <1>3, <1>6 DEF Contributors
<1> QED BY <1>2, <1>7, <1>8 DEF MergeInv, MergedFrom

LEMMA NextMerge == TypeOK /\ MergeInv /\ SameShapes /\ [Next]_vars => MergeInv'
<1> SUFFICES ASSUME TypeOK, MergeInv, SameShapes, [Next]_vars PROVE MergeInv'
  OBVIOUS
<1>1. ASSUME UNCHANGED resolving PROVE MergeInv'
  BY <1>1 DEF resolving, MergeInv, MergedFrom, Contributors, MergedInstance, LabelsOfSome, Differ, Own
<1>2. CASE \/ \E r \in Requests : Receive(r)
           \/ \E object \in todo : UpdateObject(object) \/ DeleteObject(object)
           \/ WaitForGoroutines \/ UNCHANGED vars
  BY <1>1, <1>2 DEF Receive, UpdateObject, DeleteObject, WaitForGoroutines, vars
<1>3. CASE \/ \E object \in todo : RefuseObject(object)
           \/ RefusePolicy \/ RefuseCluster \/ RefuseDesiredState \/ AnswerNoop
           \/ ChangePolicy \/ StartResolving
  <2>1. results' = Nothing /\ resolution' = NoResolution
    BY <1>3 DEF RefuseObject, RefusePolicy, RefuseCluster, RefuseDesiredState,
                AnswerNoop, ChangePolicy, StartResolving, Ended
  <2> QED BY <2>1, NothingMergedNext
<1>4. ASSUME NEW d, StartGoroutine(d) PROVE MergeInv'
  BY <1>4, StartGoroutineMerge
<1>5. ASSUME NEW d, Resolve(d) PROVE MergeInv'
  BY <1>5, ResolveMerge
<1>6. ASSUME NEW d, CombineData(d) PROVE MergeInv'
  BY <1>6, CombineDataMerge
<1> QED BY <1>2, <1>3, <1>4, <1>5, <1>6 DEF Next, Handle, Goroutine

LEMMA MergedIsCombined ==
  GoroutinesInv /\ MergeInv /\ SameShapes => CombinedInAnyOrder
<1> SUFFICES ASSUME GoroutinesInv, MergeInv, SameShapes, pc = "checking"
             PROVE  CombinedInAnyOrder
  BY DEF CombinedInAnyOrder
<1>1. DOMAIN results \ running = DOMAIN results
  BY DEF GoroutinesInv
<1>2. \A key : Contributors(DOMAIN results, key) = Merging(key)
  BY DEF Contributors, Merging
<1>3. /\ \A key : key \in DOMAIN resolution <=> Merging(key) # {}
      /\ \A key \in DOMAIN resolution : MergedInstance(resolution[key], Merging(key), key)
  BY <1>1, <1>2 DEF MergeInv, MergedFrom
<1>4. \A d \in DOMAIN results : results[d].status = "ok" =>
        DOMAIN results[d].resolution \subseteq DOMAIN resolution
  BY <1>3 DEF Merging
<1>5. ASSUME NEW key \in DOMAIN resolution
      PROVE  /\ Merging(key) # {}
             /\ resolution[key].error <=> Disagree(key)
             /\ DOMAIN resolution[key].consumers =
                  UNION {DOMAIN Own(d, key).consumers : d \in Merging(key)}
             /\ ~resolution[key].error =>
                  /\ \A d \in Merging(key) :
                       /\ resolution[key].params = Own(d, key).params
                       /\ resolution[key].discovery = Own(d, key).discovery
                  /\ resolution[key].edges = UNION {Own(d, key).edges : d \in Merging(key)}
                  /\ LabelsOfSome(resolution[key], Merging(key), key)
  BY <1>3, <1>5 DEF MergedInstance, Disagree, Differ
<1> QED BY <1>4, <1>5 DEF CombinedInAnyOrder

(* The order in which goroutines end (combineData, AppendData) does not    *)
(* matter for the instances of the desired state, their errors, consumers, *)
(* parameters and edges, for any number of dependencies and slots, as long *)
(* as what single dependencies resolve to has the shape that the merge     *)
(* relies on. Labels and allow_ingress, of which the last one merged wins  *)
(* (component_instance.go:216, 238), always come from one of the           *)
(* dependencies. That resolutions have the shape is a fact about the       *)
(* resolver alone: the first conjunct of CombinedInAnyOrder, which is      *)
(* model-checked.                                                          *)
THEOREM MergedInAnyOrder == Spec /\ []SameShapes => []CombinedInAnyOrder
<1>1. Init => TypeOK /\ GoroutinesInv /\ MergeInv
  BY InitTypes, NothingMerged DEF Init
<1>2. TypeOK /\ GoroutinesInv /\ MergeInv /\ SameShapes /\ [Next]_vars
        => (TypeOK /\ GoroutinesInv /\ MergeInv)'
  BY NextTypes, NextMerge
<1> QED BY <1>1, <1>2, MergedIsCombined, PTL DEF Spec

-----------------------------------------------------------------------------
(* While a request updates the policy, its ACL resolver, cached or still   *)
(* to be made, is that of the policy as far as it has been updated.        *)

UpdatesUseTheirRules ==
  request.kind = "update" =>
    \A d \in DOMAIN results : results[d] = ResolutionOf(policy, AclRules(policy), d)

OwnRulesInv ==
  /\ pc # "idle" /\ request.kind = "update" =>
       CachedResolver(cache, policy) = {AclRules(policy)}
  /\ UpdatesUseTheirRules

LEMMA UpdateObjectRules ==
  ASSUME OwnRulesInv, NEW object, UpdateObject(object)
  PROVE  CachedResolver(cache', policy') = {AclRules(policy')}
<1>1. /\ policy' = AddObject(policy, object)
      /\ cache' = CacheAfterAdd({AclRules(policy)}, object)
  BY DEF UpdateObject, OwnRulesInv
<1>2. CASE object.key.kind = "aclrule"
  BY <1>1, <1>2 DEF CacheAfterAdd, CachedResolver
<1>3. CASE object.key.kind # "aclrule"
  <2>1. AclRules(policy') = AclRules(policy)
    BY <1>1, <1>3, ObjectAdded
  <2> QED BY <1>1, <1>3, <2>1 DEF CacheAfterAdd, CachedResolver, NoResolver
<1> QED BY <1>2, <1>3

LEMMA ResolveRules ==
  ASSUME GoroutinesInv, TypeOK, OwnRulesInv, NEW d, Resolve(d)
  PROVE  OwnRulesInv'
<1> DEFINE rules == CHOOSE r \in CachedResolver(cache, policy) : TRUE
<1>1. /\ UNCHANGED <<pc, request, policy>> /\ d \in running
      /\ cache' = CachedResolver(cache, policy)
      /\ results' = [e \in DOMAIN results \cup {d} |->
                       IF e = d THEN ResolutionOf(policy, rules, d) ELSE results[e]]
  BY DEF Resolve, handling
<1>2. pc = "resolving"
  BY <1>1 DEF GoroutinesInv, TypeOK
<1>3. ASSUME request.kind = "update"
      PROVE  /\ CachedResolver(cache', policy') = {AclRules(policy')}
             /\ \A e \in DOMAIN results' :
                  results'[e] = ResolutionOf(policy', AclRules(policy'), e)
  <2>1. CachedResolver(cache, policy) = {AclRules(policy)}
    BY <1>2, <1>3 DEF OwnRulesInv
  <2>2. rules = AclRules(policy)
    BY <2>1
  <2>3. CachedResolver(cache', policy') = {AclRules(policy')}
    BY <1>1, <2>1 DEF CachedResolver, NoResolver
  <2> HIDE DEF rules
  <2>4. \A e \in DOMAIN results : results[e] = ResolutionOf(policy, AclRules(policy), e)
    BY <1>3 DEF OwnRulesInv, UpdatesUseTheirRules
  <2> QED BY <1>1, <2>2, <2>3, <2>4
<1> QED BY <1>1, <1>3 DEF OwnRulesInv, UpdatesUseTheirRules

LEMMA NextRules == TypeOK /\ GoroutinesInv /\ OwnRulesInv /\ [Next]_vars => OwnRulesInv'
<1> SUFFICES ASSUME TypeOK, GoroutinesInv, OwnRulesInv, [Next]_vars PROVE OwnRulesInv'
  OBVIOUS
<1>1. ASSUME NEW r \in Requests, Receive(r) PROVE OwnRulesInv'
  <2>1. DOMAIN results' = {} /\ cache' = NoResolver
    BY <1>1 DEF Receive, resolving, GoroutinesInv
  <2> QED BY <2>1 DEF OwnRulesInv, UpdatesUseTheirRules, CachedResolver
<1>2. ASSUME NEW object, UpdateObject(object) PROVE OwnRulesInv'
  <2>1. DOMAIN results' = {}
    BY <1>2 DEF UpdateObject, resolving, GoroutinesInv
  <2> QED BY <1>2, <2>1, UpdateObjectRules DEF OwnRulesInv, UpdatesUseTheirRules
<1>3. ASSUME NEW object, DeleteObject(object) PROVE OwnRulesInv'
  BY <1>3 DEF DeleteObject, OwnRulesInv, UpdatesUseTheirRules
<1>4. CASE \/ \E object \in todo : RefuseObject(object)
           \/ RefusePolicy \/ RefuseCluster \/ RefuseDesiredState \/ AnswerNoop
           \/ ChangePolicy
  <2>1. pc' = "idle" /\ DOMAIN results' = {}
    BY <1>4, NothingHasNoKeys
       DEF RefuseObject, RefusePolicy, RefuseCluster, RefuseDesiredState, AnswerNoop,
           ChangePolicy, Ended
  <2> QED BY <2>1 DEF OwnRulesInv, UpdatesUseTheirRules
<1>5. CASE StartResolving
  <2>1. UNCHANGED <<request, policy, cache>> /\ pc = "objects" /\ DOMAIN results' = {}
    BY <1>5, NothingHasNoKeys DEF StartResolving, handling
  <2> QED BY <2>1 DEF OwnRulesInv, UpdatesUseTheirRules
<1>6. CASE \/ WaitForGoroutines \/ UNCHANGED vars
           \/ \E d \in waiting : StartGoroutine(d)
           \/ \E d \in running : CombineData(d)
  <2>1. UNCHANGED <<request, policy, cache, results>> /\ (pc' # "idle" => pc # "idle")
    BY <1>6 DEF WaitForGoroutines, vars, StartGoroutine, CombineData, saved, handling, resolving
  <2> QED BY <2>1 DEF OwnRulesInv, UpdatesUseTheirRules
<1>7. ASSUME NEW d, Resolve(d) PROVE OwnRulesInv'
  BY <1>7, ResolveRules
<1> QED BY <1>1, <1>2, <1>3, <1>4, <1>5, <1>6, <1>7 DEF Next, Handle, Goroutine

LEMMA InitRules == Init => OwnRulesInv
BY NothingHasNoKeys DEF Init, OwnRulesInv, UpdatesUseTheirRules

(* Every dependency is resolved by the ACL rules of the updated policy,    *)
(* never by those from before the request, although the resolver is cached *)
(* when the first object of the request is checked: rules come first, and  *)
(* each of them drops the cache (apiObjectSorter, Policy.AddObject).       *)
THEOREM UpdatesResolveByTheirRules == Spec => []UpdatesUseTheirRules
<1>1. Init => TypeOK /\ GoroutinesInv /\ OwnRulesInv
  BY InitTypes, InitRules
<1>2. TypeOK /\ GoroutinesInv /\ OwnRulesInv /\ [Next]_vars
        => (TypeOK /\ GoroutinesInv /\ OwnRulesInv)'
  BY NextTypes, NextRules
<1>3. OwnRulesInv => UpdatesUseTheirRules
  BY DEF OwnRulesInv
<1> QED BY <1>1, <1>2, <1>3, PTL DEF Spec

(* Who gets an instance by an update may consume services in its namespace *)
(* by the ACL rules of the updated policy, as long as the resolver checks  *)
(* access by the rules that it is given (getMatchedService): the first     *)
(* conjunct of UpdateChecksAccess, which is model-checked.                 *)
THEOREM UpdatesCheckAccess == Spec /\ []ResolverChecksAccess => []UpdateChecksAccess
<1>1. Init => TypeOK /\ GoroutinesInv /\ OwnRulesInv
  BY InitTypes, InitRules
<1>2. TypeOK /\ GoroutinesInv /\ OwnRulesInv /\ [Next]_vars
        => (TypeOK /\ GoroutinesInv /\ OwnRulesInv)'
  BY NextTypes, NextRules
<1>3. TypeOK /\ GoroutinesInv /\ OwnRulesInv /\ ResolverChecksAccess => UpdateChecksAccess
  <2> SUFFICES ASSUME TypeOK, GoroutinesInv, OwnRulesInv, ResolverChecksAccess,
                      request.kind = "update", NEW d \in DOMAIN results,
                      results[d].status = "ok", NEW key \in DOMAIN results[d].resolution
               PROVE  CanConsume(AclRules(policy), Users[policy[d].user], key.ns)
    BY DEF UpdateChecksAccess, ConsumersAllowed
  <2>1. pc \in {"resolving", "checking"} /\ d \in ObjectsOfKind(policy, "dependency")
    BY DEF TypeOK, GoroutinesInv
  <2>2. results[d] = ResolutionOf(policy, AclRules(policy), d)
    BY DEF OwnRulesInv, UpdatesUseTheirRules
  <2> QED BY <2>1, <2>2 DEF ResolverChecksAccess
<1> QED BY <1>1, <1>2, <1>3, PTL DEF Spec

-----------------------------------------------------------------------------
(* What has been resolved is complete, for every way in which goroutines   *)
(* end.                                                                    *)

(* More edges satisfy what fewer edges do.                                 *)
LEMMA NeedsGrow ==
  ASSUME NEW d, NEW key, NEW few, NEW many, few \subseteq many,
         HasWhatItNeeds(d, key, few)
  PROVE  HasWhatItNeeds(d, key, many)
BY DEF HasWhatItNeeds

LEMMA MergedIsComplete ==
  GoroutinesInv /\ MergeInv /\ ResolutionsComplete => ResolvedIsComplete
<1> SUFFICES ASSUME GoroutinesInv, MergeInv, ResolutionsComplete, pc = "checking",
                    NEW d \in DOMAIN results, Resolved(resolution, d),
                    ~results[d].dropped, NEW key \in DOMAIN results[d].resolution
             PROVE  /\ key \in DOMAIN resolution
                    /\ d \in DOMAIN resolution[key].consumers
                    /\ HasWhatItNeeds(d, key, resolution[key].edges)
                    /\ resolution[key].edges \subseteq DOMAIN resolution
  BY DEF ResolvedIsComplete
<1>1. DOMAIN results \ running = DOMAIN results
  BY DEF GoroutinesInv
<1>2. \A k : Contributors(DOMAIN results, k) = Merging(k)
  BY DEF Contributors, Merging
<1>3. /\ \A k : k \in DOMAIN resolution <=> Merging(k) # {}
      /\ \A k \in DOMAIN resolution : MergedInstance(resolution[k], Merging(k), k)
  BY <1>1, <1>2 DEF MergeInv, MergedFrom
<1>4. \A k \in DOMAIN resolution :
        /\ DOMAIN resolution[k].consumers = UNION {DOMAIN Own(e, k).consumers : e \in Merging(k)}
        /\ ~resolution[k].error =>
             resolution[k].edges = UNION {Own(e, k).edges : e \in Merging(k)}
  BY <1>3 DEF MergedInstance
<1>5. results[d].status = "ok"
  <2>1. PICK k \in DOMAIN resolution : d \in DOMAIN resolution[k].consumers
    BY DEF Resolved
  <2>2. PICK e \in Merging(k) : d \in DOMAIN Own(e, k).consumers
    BY <1>4, <2>1
  <2>3. e \in DOMAIN results /\ k \in DOMAIN results[e].resolution /\ results[e].status = "ok"
    BY <2>2 DEF Merging
  <2>4. e = d
    BY <2>2, <2>3 DEF ResolutionsComplete
  <2> QED BY <2>3, <2>4
<1>6. d \in Merging(key) /\ key \in DOMAIN resolution
  BY <1>3, <1>5 DEF Merging
<1>7. d \in DOMAIN Own(d, key).consumers /\ HasWhatItNeeds(d, key, Own(d, key).edges)
  BY <1>5 DEF ResolutionsComplete
<1>8. d \in DOMAIN resolution[key].consumers
  BY <1>4, <1>6, <1>7
<1>9. ~resolution[key].error
  BY <1>6, <1>8 DEF Resolved
<1>10. resolution[key].edges = UNION {Own(e, key).edges : e \in Merging(key)}
  BY <1>4, <1>6, <1>9
<1>11. HasWhatItNeeds(d, key, resolution[key].edges)
  <2>1. Own(d, key).edges \subseteq resolution[key].edges
    BY <1>6, <1>10
  <2> QED BY <1>7, <2>1, NeedsGrow
<1>12. \A e \in Merging(key) : Own(e, key).edges \subseteq DOMAIN resolution
  <2>1. ASSUME NEW e \in Merging(key), NEW next \in Own(e, key).edges
        PROVE  next \in DOMAIN resolution
    <3>1. /\ e \in DOMAIN results /\ results[e].status = "ok"
          /\ key \in DOMAIN results[e].resolution
      BY DEF Merging
    <3>2. next \in DOMAIN results[e].resolution
      BY <3>1 DEF ResolutionsComplete
    <3>3. e \in Merging(next)
      BY <3>1, <3>2 DEF Merging
    <3> QED BY <1>3, <3>3
  <2> QED BY <2>1
<1> QED BY <1>6, <1>8, <1>10, <1>11, <1>12

(* What is reported as resolved has all it needs, however many             *)
(* dependencies are resolved at once and in whatever order goroutines end: *)
(* the merge takes nothing away from what one dependency resolves to, and  *)
(* nobody is reported as resolved because of another one's instances       *)
(* (combineData, appendData, GetDependencyResolution). That a dependency   *)
(* on its own is resolved completely is a fact about the resolver, the     *)
(* first conjunct of ResolvedIsComplete, which is model-checked.           *)
THEOREM ResolvedStaysComplete ==
  Spec /\ []SameShapes /\ []ResolutionsComplete => []ResolvedIsComplete
<1>1. Init => TypeOK /\ GoroutinesInv /\ MergeInv
  BY InitTypes, NothingMerged DEF Init
<1>2. TypeOK /\ GoroutinesInv /\ MergeInv /\ SameShapes /\ [Next]_vars
        => (TypeOK /\ GoroutinesInv /\ MergeInv)'
  BY NextTypes, NextMerge
<1> QED BY <1>1, <1>2, MergedIsComplete, PTL DEF Spec

-----------------------------------------------------------------------------
(* Validation and the resolver agree about references.                     *)

(* Policy.Validate leaves no reference to nothing behind that the resolver *)
(* follows (validation.go: contracts of components and dependencies,       *)
(* services of contexts).                                                  *)
LEMMA ValidHasReferences ==
  ASSUME NEW p, Valid(p)
  PROVE  ReferencesExist(p)
<1>1. ASSUME NEW key \in ObjectsOfKind(p, "dependency")
      PROVE  Exists(p, Key("contract", p[key].contract, key.ns))
  <2>1. key \in DOMAIN p /\ key.kind = "dependency"
    BY DEF ObjectsOfKind
  <2>2. DependencyValid(p, key)
    BY <2>1 DEF Valid
  <2> QED BY <2>2 DEF DependencyValid
<1>2. ASSUME NEW key \in ObjectsOfKind(p, "service"),
             NEW c \in ToSet(p[key].components), ~c.code
      PROVE  Exists(p, Key("contract", c.contract, key.ns))
  <2>1. key \in DOMAIN p /\ key.kind = "service"
    BY DEF ObjectsOfKind
  <2>2. ServiceValid(p, key)
    BY <2>1 DEF Valid
  <2>3. ComponentValid(p, key.ns, c)
    BY <2>2 DEF ServiceValid
  <2> QED BY <1>2, <2>3 DEF ComponentValid
<1>3. ASSUME NEW key \in ObjectsOfKind(p, "contract"),
             NEW context \in ToSet(p[key].contexts)
      PROVE  Exists(p, Key("service", context.service, key.ns))
  <2>1. key \in DOMAIN p /\ key.kind = "contract"
    BY DEF ObjectsOfKind
  <2>2. ContractValid(p, key)
    BY <2>1 DEF Valid
  <2> QED BY <2>2 DEF ContractValid
<1> QED BY <1>1, <1>2, <1>3 DEF ReferencesExist

(* What is resolved has been validated, and is not changed until the last  *)
(* goroutine has ended.                                                    *)
ResolvedIsValid == pc \in {"resolving", "checking"} => Valid(policy)

(* The cache holds nothing or the rules of one resolver.                   *)
OneResolver == \E rules : CachedResolver(cache, policy) = {rules}

PanicInv ==
  /\ ResolvedIsValid /\ OneResolver
  /\ \A d \in DOMAIN results : results[d].status # "panic"

LEMMA NextResolver == OneResolver /\ [Next]_vars => OneResolver'
<1> SUFFICES ASSUME OneResolver, [Next]_vars PROVE OneResolver'
  OBVIOUS
<1>1. \/ cache' = NoResolver
      \/ cache' = CachedResolver(cache, policy)
      \/ UNCHANGED <<cache, policy>>
  <2>1. ASSUME NEW object, UpdateObject(object)
        PROVE  cache' \in {NoResolver, CachedResolver(cache, policy)}
    BY <2>1 DEF UpdateObject, CacheAfterAdd
  <2>2. CASE \/ \E r \in Requests : Receive(r)
             \/ \E object \in todo : RefuseObject(object)
             \/ RefusePolicy \/ RefuseCluster \/ RefuseDesiredState \/ AnswerNoop
             \/ ChangePolicy
    BY <2>2 DEF Receive, RefuseObject, RefusePolicy, RefuseCluster, RefuseDesiredState,
                AnswerNoop, ChangePolicy, Ended
  <2>3. CASE \/ StartResolving \/ WaitForGoroutines \/ UNCHANGED vars
             \/ \E d \in waiting : StartGoroutine(d)
             \/ \E d \in running : CombineData(d)
    BY <2>3 DEF StartResolving, WaitForGoroutines, vars, StartGoroutine, CombineData, handling
  <2>4. CASE \/ \E object \in todo : DeleteObject(object)
             \/ \E d \in running : Resolve(d)
    BY <2>4 DEF DeleteObject, Resolve
  <2> QED BY <2>1, <2>2, <2>3, <2>4 DEF Next, Handle, Goroutine
<1> QED BY <1>1 DEF OneResolver, CachedResolver, NoResolver

LEMMA NextResolvedIsValid == ResolvedIsValid /\ [Next]_vars => ResolvedIsValid'
<1> SUFFICES ASSUME ResolvedIsValid, [Next]_vars PROVE ResolvedIsValid'
  OBVIOUS
<1>1. CASE \/ \E r \in Requests : Receive(r)
           \/ \E object \in todo :
                UpdateObject(object) \/ DeleteObject(object) \/ RefuseObject(object)
           \/ RefusePolicy \/ RefuseCluster \/ RefuseDesiredState \/ AnswerNoop
           \/ ChangePolicy
  <2>1. pc' \in {"idle", "objects"}
    BY <1>1 DEF Receive, UpdateObject, DeleteObject, RefuseObject, RefusePolicy,
                RefuseCluster, RefuseDesiredState, AnswerNoop, ChangePolicy, Ended
  <2> QED BY <2>1 DEF ResolvedIsValid
<1>2. CASE StartResolving
  BY <1>2 DEF StartResolving, ResolvedIsValid, handling
<1>3. CASE \/ WaitForGoroutines \/ UNCHANGED vars
           \/ \E d \in waiting : StartGoroutine(d)
           \/ \E d \in running : Resolve(d) \/ CombineData(d)
  <2>1. policy' = policy /\ (pc' = pc \/ pc \in {"resolving", "checking"})
    BY <1>3 DEF WaitForGoroutines, vars, StartGoroutine, Resolve, CombineData, handling
  <2> QED BY <2>1 DEF ResolvedIsValid
<1> QED BY <1>1, <1>2, <1>3 DEF Next, Handle, Goroutine

(* A goroutine resolves a dependency of the policy that has been validated *)
(* by the rules in the cache.                                              *)
LEMMA ResolveNeverPanics ==
  ASSUME TypeOK, GoroutinesInv, PanicInv, PanicsAtMissingOnly, NEW d, Resolve(d)
  PROVE  \A e \in DOMAIN results' : results'[e].status # "panic"
<1>1. PICK rules : CachedResolver(cache, policy) = {rules}
  BY DEF PanicInv, OneResolver
<1>2. d \in running /\ pc = "resolving" /\ d \in ObjectsOfKind(policy, "dependency")
  BY DEF Resolve, GoroutinesInv, TypeOK
<1>3. ReferencesExist(policy)
  BY <1>2, ValidHasReferences DEF PanicInv, ResolvedIsValid
<1>4. ResolutionOf(policy, rules, d).status # "panic"
  BY <1>1, <1>2, <1>3 DEF PanicsAtMissingOnly
<1>5. results' = [e \in DOMAIN results \cup {d} |->
                    IF e = d THEN ResolutionOf(policy, rules, d) ELSE results[e]]
  BY <1>1 DEF Resolve
<1> QED BY <1>4, <1>5 DEF PanicInv

LEMMA NextPanic ==
  TypeOK /\ GoroutinesInv /\ PanicInv /\ PanicsAtMissingOnly /\ [Next]_vars => PanicInv'
<1> SUFFICES ASSUME TypeOK, GoroutinesInv, PanicInv, PanicsAtMissingOnly, [Next]_vars
             PROVE  PanicInv'
  OBVIOUS
<1>1. ResolvedIsValid' /\ OneResolver'
  BY NextResolver, NextResolvedIsValid DEF PanicInv
<1>2. ASSUME NEW d, Resolve(d)
      PROVE  \A e \in DOMAIN results' : results'[e].status # "panic"
  BY <1>2, ResolveNeverPanics
<1>3. CASE \/ \E r \in Requests : Receive(r)
           \/ \E object \in todo : UpdateObject(object) \/ DeleteObject(object)
           \/ \E d \in waiting : StartGoroutine(d)
           \/ \E d \in running : CombineData(d)
           \/ WaitForGoroutines \/ UNCHANGED vars
  <2>1. results' = results
    BY <1>3 DEF Receive, UpdateObject, DeleteObject, StartGoroutine, CombineData,
                WaitForGoroutines, vars, resolving
  <2> QED BY <1>1, <2>1 DEF PanicInv
<1>4. CASE \/ \E object \in todo : RefuseObject(object)
           \/ RefusePolicy \/ RefuseCluster \/ RefuseDesiredState \/ AnswerNoop
           \/ ChangePolicy \/ StartResolving
  <2>1. DOMAIN results' = {}
    BY <1>4, NothingHasNoKeys
       DEF RefuseObject, RefusePolicy, RefuseCluster, RefuseDesiredState, AnswerNoop,
           ChangePolicy, StartResolving, Ended
  <2> QED BY <1>1, <2>1 DEF PanicInv
<1> QED BY <1>1, <1>2, <1>3, <1>4 DEF Next, Handle, Goroutine, PanicInv

LEMMA InitPanic == Init => PanicInv
BY NothingHasNoKeys DEF Init, PanicInv, ResolvedIsValid, OneResolver, CachedResolver

(* Whatever is being resolved, all references that the resolver follows    *)
(* lead somewhere, from the validation of the policy to the last goroutine *)
(* and the validation of the desired state: for every policy and every     *)
(* request, with no assumption about the resolver (policy.go:172-205).     *)
ReferencesResolved ==
  pc \in {"resolving", "checking"} => ReferencesExist(policy)

THEOREM ReferencesLeadSomewhere == Spec => []ReferencesResolved
<1>1. Init => ResolvedIsValid
  BY DEF Init, ResolvedIsValid
<1>2. ResolvedIsValid => ReferencesResolved
  BY ValidHasReferences DEF ResolvedIsValid, ReferencesResolved
<1> QED BY <1>1, <1>2, NextResolvedIsValid, PTL DEF Spec

(* Resolving never panics, for every policy, every request and every       *)
(* interleaving of the goroutines, provided that the resolver panics at    *)
(* missing references only: a fact about single resolutions, the first     *)
(* conjunct of NeverPanics, which is model-checked also for policies that  *)
(* have not been validated.                                                *)
THEOREM ResolvingNeverPanics == Spec /\ []PanicsAtMissingOnly => []NeverPanics
<1>1. Init => TypeOK /\ GoroutinesInv /\ PanicInv
  BY InitTypes, InitPanic
<1>2. TypeOK /\ GoroutinesInv /\ PanicInv /\ PanicsAtMissingOnly /\ [Next]_vars
        => (TypeOK /\ GoroutinesInv /\ PanicInv)'
  BY NextTypes, NextPanic
<1>3. PanicInv /\ PanicsAtMissingOnly => NeverPanics
  BY DEF PanicInv, NeverPanics
<1> QED BY <1>1, <1>2, <1>3, PTL DEF Spec

-----------------------------------------------------------------------------
(* The desired state that is saved is that of the stored policy.           *)

(* Until the goroutines have ended, every dependency is waiting, running   *)
(* or resolved.                                                            *)
AllResolvedInv ==
  pc \in {"resolving", "checking"} =>
    ObjectsOfKind(policy, "dependency") \subseteq waiting \cup running \cup DOMAIN results

DeletesInv ==
  pc # "idle" /\ request.kind = "delete" => DOMAIN policy \subseteq DOMAIN stored

(* What was saved by an update was resolved by the rules of that policy,   *)
(* and has no errors.                                                      *)
SavedInv == changedBy = "update" => IsDesiredState(desired, stored)

LEMMA NextAllResolved == AllResolvedInv /\ [Next]_vars => AllResolvedInv'
<1> SUFFICES ASSUME AllResolvedInv, [Next]_vars PROVE AllResolvedInv'
  OBVIOUS
<1>1. CASE \/ \E r \in Requests : Receive(r)
           \/ \E object \in todo :
                UpdateObject(object) \/ DeleteObject(object) \/ RefuseObject(object)
           \/ RefusePolicy \/ RefuseCluster \/ RefuseDesiredState \/ AnswerNoop
           \/ ChangePolicy
  <2>1. pc' \in {"idle", "objects"}
    BY <1>1 DEF Receive, UpdateObject, DeleteObject, RefuseObject, RefusePolicy,
                RefuseCluster, RefuseDesiredState, AnswerNoop, ChangePolicy, Ended
  <2> QED BY <2>1 DEF AllResolvedInv
<1>2. CASE StartResolving
  BY <1>2 DEF StartResolving, AllResolvedInv, handling
<1>3. ASSUME NEW d, StartGoroutine(d) PROVE AllResolvedInv'
  BY <1>3 DEF StartGoroutine, AllResolvedInv, handling
<1>4. ASSUME NEW d, Resolve(d) PROVE AllResolvedInv'
  <2>1. /\ UNCHANGED <<pc, policy, waiting, running>>
        /\ DOMAIN results' = DOMAIN results \cup {d}
    BY <1>4 DEF Resolve, handling
  <2> QED BY <2>1 DEF AllResolvedInv
<1>5. ASSUME NEW d, CombineData(d) PROVE AllResolvedInv'
  <2>1. /\ UNCHANGED <<pc, policy, waiting, results>>
        /\ d \in DOMAIN results /\ running' = running \ {d}
    BY <1>5 DEF CombineData, handling
  <2> QED BY <2>1 DEF AllResolvedInv
<1>6. CASE WaitForGoroutines \/ UNCHANGED vars
  BY <1>6 DEF WaitForGoroutines, vars, AllResolvedInv, handling, resolving
<1> QED BY <1>1, <1>2, <1>3, <1>4, <1>5, <1>6 DEF Next, Handle, Goroutine

LEMMA NextDeletes == DeletesInv /\ [Next]_vars => DeletesInv'
<1> SUFFICES ASSUME DeletesInv, [Next]_vars PROVE DeletesInv'
  OBVIOUS
<1>1. ASSUME NEW r \in Requests, Receive(r) PROVE DeletesInv'
  BY <1>1 DEF Receive, DeletesInv, saved
<1>2. ASSUME NEW object, UpdateObject(object) PROVE DeletesInv'
  BY <1>2 DEF UpdateObject, DeletesInv
<1>3. ASSUME NEW object, DeleteObject(object) PROVE DeletesInv'
  <2>1. DOMAIN policy' \subseteq DOMAIN policy
    <3>1. policy' = RemoveObject(policy, object.key)
      BY <1>3 DEF DeleteObject
    <3>2. DOMAIN RemoveObject(policy, object.key) = DOMAIN policy \ {object.key}
      BY ObjectRemoved
    <3> QED BY <3>1, <3>2
  <2> QED BY <1>3, <2>1 DEF DeleteObject, DeletesInv, saved
<1>4. CASE \/ \E object \in todo : RefuseObject(object)
           \/ RefusePolicy \/ RefuseCluster \/ RefuseDesiredState \/ AnswerNoop
           \/ ChangePolicy
  BY <1>4 DEF RefuseObject, RefusePolicy, RefuseCluster, RefuseDesiredState, AnswerNoop,
              ChangePolicy, Ended, DeletesInv
<1>5. CASE \/ StartResolving \/ WaitForGoroutines \/ UNCHANGED vars
           \/ \E d \in waiting : StartGoroutine(d)
           \/ \E d \in running : Resolve(d) \/ CombineData(d)
  <2>1. UNCHANGED <<stored, request, policy>> /\ (pc' # "idle" => pc # "idle")
    BY <1>5 DEF StartResolving, WaitForGoroutines, vars, StartGoroutine, Resolve,
                CombineData, handling, saved
  <2> QED BY <2>1 DEF DeletesInv
<1> QED BY <1>1, <1>2, <1>3, <1>4, <1>5 DEF Next, Handle, Goroutine

(* What the goroutines of an update have put together is the desired state *)
(* of its policy.                                                          *)
LEMMA CombinedIsDesired ==
  ASSUME TypeOK, GoroutinesInv, MergeInv, OwnRulesInv, AllResolvedInv,
         pc = "checking", request.kind = "update", ResolutionValid(policy, resolution)
  PROVE  IsDesiredState(resolution, policy)
<1>1. DOMAIN results = ObjectsOfKind(policy, "dependency") /\ running = {}
  BY DEF GoroutinesInv, AllResolvedInv, TypeOK
<1>2. \A d \in DOMAIN results : results[d] = ResolvedIn(policy, d)
  BY DEF OwnRulesInv, UpdatesUseTheirRules, ResolvedIn
<1>3. \A key : Contributors(DOMAIN results \ running, key) = Needing(policy, key)
  BY <1>1, <1>2 DEF Contributors, Needing
<1>4. /\ \A key : key \in DOMAIN resolution <=> Needing(policy, key) # {}
      /\ \A key \in DOMAIN resolution :
           MergedInstance(resolution[key], Needing(policy, key), key)
  BY <1>3 DEF MergeInv, MergedFrom
<1>5. \A key \in DOMAIN resolution : ~resolution[key].error
  BY DEF ResolutionValid, InstanceValid
<1>6. \A key : \A d \in Needing(policy, key) :
         Own(d, key) = ResolvedIn(policy, d).resolution[key]
  BY <1>1, <1>2 DEF Needing, Own
<1>7. DOMAIN resolution = UNION {DOMAIN ResolvedIn(policy, d).resolution :
                                   d \in {e \in ObjectsOfKind(policy, "dependency") :
                                            ResolvedIn(policy, e).status = "ok"}}
  BY <1>4 DEF Needing
<1>8. ASSUME NEW key \in DOMAIN resolution
      PROVE  /\ \A d \in Needing(policy, key) :
                  /\ DOMAIN Own(d, key).consumers \subseteq DOMAIN resolution[key].consumers
                  /\ resolution[key].params = Own(d, key).params
             /\ \A c \in DOMAIN resolution[key].consumers :
                  \E d \in Needing(policy, key) : c \in DOMAIN Own(d, key).consumers
  BY <1>4, <1>5, <1>8 DEF MergedInstance
<1>9. /\ \A key \in DOMAIN resolution : \A d \in Needing(policy, key) :
           /\ DOMAIN ResolvedIn(policy, d).resolution[key].consumers
                \subseteq DOMAIN resolution[key].consumers
           /\ resolution[key].params = ResolvedIn(policy, d).resolution[key].params
      /\ \A key \in DOMAIN resolution : \A c \in DOMAIN resolution[key].consumers :
           \E d \in Needing(policy, key) :
             c \in DOMAIN ResolvedIn(policy, d).resolution[key].consumers
  BY <1>6, <1>8
<1> QED BY <1>5, <1>7, <1>9 DEF IsDesiredState

LEMMA OnlyChangePolicySaves ==
  ASSUME [Next]_vars
  PROVE  \/ UNCHANGED saved
         \/ /\ pc = "checking" /\ ResolutionValid(policy, resolution)
            /\ stored' = policy /\ desired' = resolution /\ changedBy' = request.kind
<1>1. ASSUME NEW object, UpdateObject(object) \/ DeleteObject(object) \/ RefuseObject(object)
      PROVE  UNCHANGED saved
  BY <1>1 DEF UpdateObject, DeleteObject, RefuseObject
<1>2. CASE RefusePolicy \/ RefuseCluster \/ StartResolving \/ WaitForGoroutines
           \/ RefuseDesiredState \/ AnswerNoop \/ UNCHANGED vars
  BY <1>2 DEF RefusePolicy, RefuseCluster, StartResolving, WaitForGoroutines,
              RefuseDesiredState, AnswerNoop, vars
<1>3. ASSUME NEW d, StartGoroutine(d) \/ Resolve(d) \/ CombineData(d) PROVE UNCHANGED saved
  BY <1>3 DEF StartGoroutine, Resolve, CombineData
<1>4. ASSUME NEW r \in Requests, Receive(r) PROVE UNCHANGED saved
  BY <1>4 DEF Receive
<1>5. ASSUME ChangePolicy
      PROVE  \/ UNCHANGED saved
             \/ /\ pc = "checking" /\ ResolutionValid(policy, resolution)
                /\ stored' = policy /\ desired' = resolution /\ changedBy' = request.kind
  BY <1>5 DEF ChangePolicy
<1> QED BY <1>1, <1>2, <1>3, <1>4, <1>5 DEF Next, Handle, Goroutine

LEMMA NextSaved ==
  TypeOK /\ GoroutinesInv /\ MergeInv /\ OwnRulesInv /\ AllResolvedInv /\ SavedInv
    /\ [Next]_vars => SavedInv'
<1> SUFFICES ASSUME TypeOK, GoroutinesInv, MergeInv, OwnRulesInv, AllResolvedInv, SavedInv,
                    [Next]_vars
             PROVE  SavedInv'
  OBVIOUS
<1>1. CASE UNCHANGED saved
  <2>1. stored' = stored /\ desired' = desired /\ changedBy' = changedBy
    BY <1>1 DEF saved
  <2>2. IsDesiredState(desired', stored') <=> IsDesiredState(desired, stored)
    BY <2>1
  <2> QED BY <2>1, <2>2 DEF SavedInv
<1>2. CASE /\ pc = "checking" /\ ResolutionValid(policy, resolution)
           /\ stored' = policy /\ desired' = resolution /\ changedBy' = request.kind
  <2>1. request.kind = "update" => IsDesiredState(resolution, policy)
    BY <1>2, CombinedIsDesired
  <2>2. IsDesiredState(desired', stored') <=> IsDesiredState(resolution, policy)
    BY <1>2
  <2> QED BY <1>2, <2>1, <2>2 DEF SavedInv
<1> QED BY <1>1, <1>2, OnlyChangePolicySaves

DesiredStateInv ==
  /\ TypeOK /\ GoroutinesInv /\ MergeInv /\ OwnRulesInv
  /\ AllResolvedInv /\ DeletesInv /\ SavedInv

LEMMA InitDesiredState == Init => DesiredStateInv
<1> SUFFICES ASSUME Init PROVE DesiredStateInv
  OBVIOUS
<1>1. TypeOK /\ GoroutinesInv /\ OwnRulesInv
  BY InitTypes, InitRules
<1>2. MergeInv
  BY NothingMerged DEF Init
<1>3. SavedInv
  BY InitialAssumption DEF Init, SavedInv
<1>4. AllResolvedInv /\ DeletesInv
  BY DEF Init, AllResolvedInv, DeletesInv
<1> QED BY <1>1, <1>2, <1>3, <1>4 DEF DesiredStateInv

LEMMA NextDesiredState == DesiredStateInv /\ SameShapes /\ [Next]_vars => DesiredStateInv'
BY NextTypes, NextMerge, NextRules, NextAllResolved, NextDeletes, NextSaved
   DEF DesiredStateInv

-----------------------------------------------------------------------------
(* Adding dependencies.                                                    *)

LEMMA SameAlone ==
  ASSUME NEW p, NEW q, IsRestriction(p, q),
         \A key \in DOMAIN q \ DOMAIN p : key.kind = "dependency",
         NEW d \in ObjectsOfKind(p, "dependency")
  PROVE  /\ d \in ObjectsOfKind(q, "dependency")
         /\ OnlyDependency(p, d) = OnlyDependency(q, d)
<1>1. DOMAIN p \subseteq DOMAIN q /\ \A key \in DOMAIN p : q[key] = p[key]
  BY DEF IsRestriction
<1>2. d \in DOMAIN p
  BY DEF ObjectsOfKind
<1>3. {key \in DOMAIN p : key.kind # "dependency" \/ key = d}
        = {key \in DOMAIN q : key.kind # "dependency" \/ key = d}
  BY <1>1, <1>2
<1>4. OnlyDependency(p, d) = OnlyDependency(q, d)
  BY <1>1, <1>3 DEF OnlyDependency, Restrict
<1> QED BY <1>1, <1>4 DEF ObjectsOfKind

(* The desired states of two policies, one of which has more dependencies. *)
LEMMA MoreDependencies ==
  ASSUME NEW p, NEW q, NEW before, NEW after,
         IsDesiredState(before, p), IsDesiredState(after, q),
         \A d \in ObjectsOfKind(p, "dependency") :
           d \in ObjectsOfKind(q, "dependency") /\ ResolvedIn(q, d) = ResolvedIn(p, d)
  PROVE  \A key \in DOMAIN before :
           /\ key \in DOMAIN after
           /\ after[key].params = before[key].params
           /\ DOMAIN before[key].consumers \subseteq DOMAIN after[key].consumers
<1> SUFFICES ASSUME NEW key \in DOMAIN before
             PROVE  /\ key \in DOMAIN after
                    /\ after[key].params = before[key].params
                    /\ DOMAIN before[key].consumers \subseteq DOMAIN after[key].consumers
  OBVIOUS
<1>1. /\ Needing(p, key) \subseteq Needing(q, key)
      /\ \A d \in Needing(p, key) : ResolvedIn(q, d) = ResolvedIn(p, d)
  BY DEF Needing
<1>2. PICK d : d \in Needing(p, key)
  BY DEF IsDesiredState, Needing
<1>3. key \in DOMAIN after
  BY <1>1, <1>2 DEF IsDesiredState, Needing
<1>4. \A e \in Needing(p, key) :
        /\ before[key].params = ResolvedIn(p, e).resolution[key].params
        /\ after[key].params = ResolvedIn(p, e).resolution[key].params
        /\ DOMAIN ResolvedIn(p, e).resolution[key].consumers
             \subseteq DOMAIN after[key].consumers
  BY <1>1, <1>3 DEF IsDesiredState
<1>5. \A c \in DOMAIN before[key].consumers :
        \E e \in Needing(p, key) : c \in DOMAIN ResolvedIn(p, e).resolution[key].consumers
  BY DEF IsDesiredState
<1> QED BY <1>2, <1>3, <1>4, <1>5

LEMMA UndisturbedStep ==
  ASSUME DesiredStateInv, ResolvedAlone, [Next]_vars,
         OnlyDependenciesAdded, changedBy = "update"
  PROVE  \A key \in DOMAIN desired :
           /\ key \in DOMAIN desired'
           /\ desired'[key].params = desired[key].params
           /\ DOMAIN desired[key].consumers \subseteq DOMAIN desired'[key].consumers
<1>1. /\ pc = "checking" /\ ResolutionValid(policy, resolution)
      /\ stored' = policy /\ desired' = resolution
  BY OnlyChangePolicySaves DEF OnlyDependenciesAdded, saved
<1>2. IsDesiredState(desired, stored)
  BY DEF DesiredStateInv, SavedInv
<1>3. request.kind = "update"
  <2>1. request.kind \in {"update", "delete"}
    BY DEF DesiredStateInv, TypeOK
  <2>2. CASE request.kind = "delete"
    <3>1. DOMAIN policy \subseteq DOMAIN stored
      BY <1>1, <2>2 DEF DesiredStateInv, DeletesInv
    <3>2. DOMAIN stored \subseteq DOMAIN policy /\ DOMAIN stored # DOMAIN policy
      BY <1>1 DEF OnlyDependenciesAdded, IsRestriction
    <3> QED BY <3>1, <3>2
  <2> QED BY <2>1, <2>2
<1>4. IsDesiredState(resolution, policy)
  BY <1>1, <1>3, CombinedIsDesired DEF DesiredStateInv
<1>5. ASSUME NEW d \in ObjectsOfKind(stored, "dependency")
      PROVE  d \in ObjectsOfKind(policy, "dependency")
             /\ ResolvedIn(policy, d) = ResolvedIn(stored, d)
  <2>1. /\ d \in ObjectsOfKind(policy, "dependency")
        /\ OnlyDependency(stored, d) = OnlyDependency(policy, d)
    BY <1>1, SameAlone DEF OnlyDependenciesAdded
  <2>2. /\ ResolvedIn(stored, d) = ResolvedIn(OnlyDependency(stored, d), d)
        /\ ResolvedIn(policy, d) = ResolvedIn(OnlyDependency(policy, d), d)
    BY <1>1, <2>1 DEF ResolvedAlone
  <2> QED BY <2>1, <2>2
<1>6. \A key \in DOMAIN desired :
        /\ key \in DOMAIN resolution
        /\ resolution[key].params = desired[key].params
        /\ DOMAIN desired[key].consumers \subseteq DOMAIN resolution[key].consumers
  BY <1>2, <1>4, <1>5, MoreDependencies
<1> QED BY <1>1, <1>6

(* What is saved by an update is, from the first policy on, the desired    *)
(* state of the stored policy: what its dependencies resolve to by its own *)
(* rules, in whatever order they were put together, for all consumers and  *)
(* with the parameters each of them needs.                                 *)
THEOREM SavedIsDesired == Spec /\ []SameShapes => []SavedInv
<1>1. DesiredStateInv => SavedInv
  BY DEF DesiredStateInv
<1> QED BY <1>1, InitDesiredState, NextDesiredState, PTL DEF Spec

(* New dependencies never take an instance from those that are there, nor  *)
(* change its parameters, however many of them a request brings and        *)
(* however their goroutines are interleaved. What it rests on is about the *)
(* resolver only and is model-checked: ResolvedAlone, a dependency is      *)
(* resolved as if it were the only one, and SameShapes.                    *)
THEOREM OldConsumersUndisturbed ==
  Spec /\ []SameShapes /\ []ResolvedAlone => ConsumersUndisturbed
<1>1. ASSUME DesiredStateInv, ResolvedAlone, [Next]_vars
      PROVE  [/\ ResolvedAlone
              /\ OnlyDependenciesAdded /\ changedBy = "update" =>
                   \A key \in DOMAIN desired :
                     /\ key \in DOMAIN desired'
                     /\ desired'[key].params = desired[key].params
                     /\ DOMAIN desired[key].consumers \subseteq
                          DOMAIN desired'[key].consumers]_vars
  BY <1>1, UndisturbedStep
<1> QED BY <1>1, InitDesiredState, NextDesiredState, PTL DEF Spec, ConsumersUndisturbed

=============================================================================
