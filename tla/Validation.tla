----------------------------- MODULE Validation -----------------------------
(***************************************************************************)
(* Policy.Validate (pkg/lang/validation.go): what has to hold of a policy  *)
(* before it is resolved. The syntax of names, expressions and templates   *)
(* is left out: the objects of the model are well-formed.                  *)
(***************************************************************************)
EXTENDS Acl, Relation

ClusterTypes == {"kubernetes"}

Names(service) == {c.name : c \in ToSet(service.components)}

(* Mutant of ComponentValid: a contract that is gone is not noticed.       *)
ComponentValidLenient(policy, ns, component) ==
  component.code # (component.contract.name # "")

(* A component is either code or a contract, which exists.                 *)
ComponentValid(policy, ns, component) ==
  /\ component.code # (component.contract.name # "")
  /\ ~component.code => Exists(policy, Key("contract", component.contract, ns))

(* The error of GetComponentsSortedTopologically.                          *)
HasCycle(service) ==
  LET names == Names(service)
      needs == [p \in names \X names |->
                  \E c \in ToSet(service.components) :
                    c.name = p[1] /\ p[2] \in ToSet(c.dependencies)]
      closure == TransitiveClosure(needs, names)
  IN  \E name \in names : closure[name, name]

ServiceValid(policy, key) ==
  LET service == policy[key]
      components == ToSet(service.components)
  IN  /\ \A c \in components : ComponentValid(policy, key.ns, c)
      /\ \A i, j \in DOMAIN service.components :
           service.components[i].name = service.components[j].name => i = j
      /\ \A c \in components : ToSet(c.dependencies) \subseteq Names(service)
      /\ ~HasCycle(service)

ContractValid(policy, key) ==
  \A context \in ToSet(policy[key].contexts) :
    Exists(policy, Key("service", context.service, key.ns))

DependencyValid(policy, key) ==
  Exists(policy, Key("contract", policy[key].contract, key.ns))

RuleValid(rule) ==
  \/ rule.change # NoChange
  \/ rule.dependency # ""
  \/ rule.ingress # ""

(* The roles of an ACL rule exist, and there is at least one.              *)
AclRuleValid(rule) ==
  DOMAIN rule.roles # {} /\ DOMAIN rule.roles \subseteq ToSet(RolesOrdered)

ClusterValid(policy, key) ==
  key.ns = SystemNS /\ policy[key].type \in ClusterTypes

Valid(policy) ==
  \A key \in DOMAIN policy :
    CASE key.kind = "service" -> ServiceValid(policy, key)
      [] key.kind = "contract" -> ContractValid(policy, key)
      [] key.kind = "dependency" -> DependencyValid(policy, key)
      [] key.kind = "rule" -> RuleValid(policy[key])
      [] key.kind = "aclrule" -> AclRuleValid(policy[key])
      [] key.kind = "cluster" -> ClusterValid(policy, key)

=============================================================================
