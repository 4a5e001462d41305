--------------------------------- MODULE Acl ---------------------------------
(***************************************************************************)
(* Who may do what with a policy (pkg/lang/rule_acl.go, policy_view.go,    *)
(* rule_acl_resolver.go): the roles, their privileges, and the roles that  *)
(* ACL rules give a user.                                                  *)
(*                                                                         *)
(* A user is [admin, labels]; rules are the bodies of ACL rules. Their     *)
(* order is of no consequence: the roles they add are united, and all of   *)
(* them are evaluated, so that an error of any is an error for the user.   *)
(***************************************************************************)
EXTENDS Policy

DomainAdmin     == "domain-admin"
NamespaceAdmin  == "namespace-admin"
ServiceConsumer == "service-consumer"
Nobody          == "nobody"

(* From the most to the least powerful.                                    *)
RolesOrdered == <<DomainAdmin, NamespaceAdmin, ServiceConsumer, Nobody>>

AllNamespaces == "*"

NamespaceKinds == {"service", "contract", "dependency", "rule"}

GlobalKinds == {"cluster", "rule", "aclrule"}

(* The kinds a role manages, in the system namespace and in any other.     *)
Manages(role, ns) ==
  CASE role = DomainAdmin ->
         IF ns = SystemNS THEN GlobalKinds ELSE NamespaceKinds
    [] role = NamespaceAdmin ->
         IF ns = SystemNS THEN {} ELSE NamespaceKinds
    [] role = ServiceConsumer ->
         IF ns = SystemNS THEN {} ELSE {"dependency"}
    [] role = Nobody -> {}

(* ACLRule.ApplyActions: a role that spans all namespaces is given in all. *)
Given(rule, role) ==
  CASE role \notin DOMAIN rule.roles -> {}
    [] role \in DOMAIN rule.roles /\ role = DomainAdmin ->
         rule.roles[role] \cup {AllNamespaces}
    [] OTHER -> rule.roles[role]

(* GetUserRoleMap: the namespaces in which a user has a role.              *)
RoleMap(rules, user) ==
  [role \in ToSet(RolesOrdered) |->
     IF user.admin
     THEN IF role = DomainAdmin THEN {AllNamespaces} ELSE {}
     ELSE UNION {Given(rule, role) :
            rule \in {r \in rules : Allows(r.criteria, user.labels) = "true"}}]

RoleMapFails(rules, user) ==
  /\ ~user.admin
  /\ \E rule \in rules : Allows(rule.criteria, user.labels) = "error"

(* GetUserPrivileges: the privileges of the first role that covers the     *)
(* namespace, and no others.                                               *)
RoleIn(rules, user, ns) ==
  LET map == RoleMap(rules, user)
      covers(role) == {AllNamespaces, ns} \cap map[role] # {}
      held == {i \in DOMAIN RolesOrdered : covers(RolesOrdered[i])}
  IN  IF held = {} THEN Nobody
      ELSE RolesOrdered[CHOOSE i \in held : \A j \in held : i <= j]

(* PolicyView.ManageObject.                                                *)
CanManage(rules, user, kind, ns) ==
  ~RoleMapFails(rules, user) /\ kind \in Manages(RoleIn(rules, user, ns), ns)

(* PolicyView.CanConsume: who may add a dependency to the namespace of a   *)
(* service may consume it.                                                 *)
CanConsume(rules, user, ns) == CanManage(rules, user, "dependency", ns)

-----------------------------------------------------------------------------
(* Policy.View: the ACL resolver is made from the rules of the system      *)
(* namespace when it is first needed, and then cached: the cache holds     *)
(* nothing or the rules of one resolver.                                   *)

NoResolver == {}

AclRules(policy) ==
  {policy[key] : key \in {k \in ObjectsOfKind(policy, "aclrule") :
                            k.ns = SystemNS}}

CachedResolver(cache, policy) ==
  IF cache = NoResolver THEN {AclRules(policy)} ELSE cache

(* Mutant of CacheAfterAdd: the cache is never dropped.                    *)
CacheKept(cache, object) == cache

(* Policy.AddObject drops the cache, Policy.RemoveObject does not.         *)
CacheAfterAdd(cache, object) ==
  IF object.key.kind = "aclrule" THEN NoResolver ELSE cache

=============================================================================
