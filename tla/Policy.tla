------------------------------- MODULE Policy -------------------------------
(***************************************************************************)
(* The policy language (pkg/lang): the objects of a policy, how they are   *)
(* looked up, added and removed, and what their criteria, rules, label     *)
(* operations and templates do with the labels of a dependency.            *)
(*                                                                         *)
(* A policy is a function from keys to the bodies of the objects:          *)
(*   service     components : Seq([name, criteria, code, contract,         *)
(*                                 dependencies, params, discovery])       *)
(*   contract    change, contexts : Seq([name, criteria, change, service,  *)
(*                                       keys])                            *)
(*   cluster     type, config : its default namespace, or ""               *)
(*   rule        weight, criteria, change, dependency, ingress             *)
(*   aclrule     criteria, roles : role -> set of namespaces               *)
(*   dependency  user, contract, labels                                    *)
(* Names of objects in other objects are locators [ns, name], where ns is  *)
(* "" when the name has no namespace: "main/db" is [ns |-> "main",         *)
(* name |-> "db"]. An object that is in no namespace and one whose         *)
(* namespace has no objects are both not found.                            *)
(***************************************************************************)
EXTENDS Integers, FiniteSets, Functions, SequencesExt

SystemNS == "system"

Key(kind, locator, ns) ==
  [kind |-> kind,
   ns   |-> IF locator.ns = "" THEN ns ELSE locator.ns,
   name |-> locator.name]

Exists(policy, key) == key \in DOMAIN policy

ObjectsOfKind(policy, kind) == {key \in DOMAIN policy : key.kind = kind}

(* PolicyNamespace.addObject: an object replaces the one of its key, but   *)
(* the type and the config of a cluster cannot be changed.                 *)
CanAdd(policy, object) ==
  object.key.kind = "cluster" /\ Exists(policy, object.key)
    => /\ policy[object.key].type = object.body.type
       /\ policy[object.key].config = object.body.config

AddObject(policy, object) ==
  [key \in DOMAIN policy \cup {object.key} |->
     IF key = object.key THEN object.body ELSE policy[key]]

(* removeObject: only the key of the object that is sent counts.           *)
RemoveObject(policy, key) == Restrict(policy, DOMAIN policy \ {key})

-----------------------------------------------------------------------------
(* Labels: functions from names to values.                                 *)

NoLabels == [name \in {} |-> ""]

NoChange == [set |-> NoLabels, remove |-> {}]

(* The entries of a map copied into another: what is added wins.           *)
Overlaid(under, over) ==
  [x \in DOMAIN under \cup DOMAIN over |->
     IF x \in DOMAIN over THEN over[x] ELSE under[x]]

AddLabels(labels, added) == Overlaid(labels, added)

(* ApplyTransform: everything is set first, then removed.                  *)
ApplyTransform(labels, change) ==
  LET set == AddLabels(labels, change.set)
  IN  Restrict(set, DOMAIN set \ change.remove)

-----------------------------------------------------------------------------
(* Criteria: sequences of expressions [op, label, value] under all, any    *)
(* and none. "eq" and "ne" compare the label with the value, "is" is the   *)
(* label itself, which has to be a bool.                                   *)

Bool(b) == IF b THEN "true" ELSE "false"

(* A missing label makes any expression false, a "ne" too; a result that   *)
(* is not a bool is an error. NewParams makes a bool of "true", "false".   *)
EvaluateAsBool(expression, labels) ==
  IF expression.label \notin DOMAIN labels THEN "false"
  ELSE LET value == labels[expression.label]
       IN  CASE expression.op = "eq" -> Bool(value = expression.value)
             [] expression.op = "ne" -> Bool(value # expression.value)
             [] expression.op = "is" ->
                  IF value \in {"true", "false"} THEN value ELSE "error"

NoCriteria == [all |-> <<>>, any |-> <<>>, none |-> <<>>]

(* The first result that decides, "" when none does.                       *)
Decisive(expressions, labels, deciding) ==
  LET results == [i \in DOMAIN expressions |->
                    EvaluateAsBool(expressions[i], labels)]
  IN  Head(Append(SelectSeq(results, LAMBDA r : r \in deciding), ""))

(* Criteria.allows: evaluation stops at the first expression that decides, *)
(* so that an error behind it is not noticed.                              *)
Verdict(all, none, any) ==
  CASE all # "" -> all
    [] all = "" /\ none = "error" -> "error"
    [] all = "" /\ none = "true" -> "false"
    [] OTHER -> IF any = "" THEN "false" ELSE any

Allows(criteria, labels) ==
  Verdict(Decisive(criteria.all, labels, {"false", "error"}),
          Decisive(criteria.none, labels, {"true", "error"}),
          IF criteria.any = <<>> THEN "true"
          ELSE Decisive(criteria.any, labels, {"true", "error"}))

-----------------------------------------------------------------------------
(* Templates: [op, path]. "text" stands for itself, "label" and "user" for *)
(* a label of the dependency and of its user, "discovery" for what another *)
(* component announces. data says what each of them knows.                 *)

Known(template, data) ==
  template.op = "text" \/ template.path \in DOMAIN data[template.op]

(* A template that prints "<no value>" is an error: see Known.             *)
Evaluate(template, data) ==
  IF template.op = "text" THEN template.path
  ELSE data[template.op][template.path]

(* ProcessParameterTree: all parameters, or an error if any has one.       *)
ParamsKnown(params, data) == \A p \in DOMAIN params : Known(params[p], data)

ProcessParams(params, data) ==
  [p \in DOMAIN params |-> Evaluate(params[p], data)]

KeysKnown(context, data) ==
  \A i \in DOMAIN context.keys : Known(context.keys[i], data)

ResolveKeys(context, data) ==
  [i \in DOMAIN context.keys |-> Evaluate(context.keys[i], data)]

-----------------------------------------------------------------------------
(* The first context of a contract that matches, 0 when none does; an      *)
(* error of its criteria is an error of the contract.                      *)
MatchedContext(contract, labels) ==
  LET outcomes == [i \in DOMAIN contract.contexts |->
                     Allows(contract.contexts[i].criteria, labels)]
      first(deciding) == SelectInSeq(outcomes, LAMBDA o : o \in deciding)
  IN  IF first({"true"}) = first({"true", "error"}) THEN first({"true"}) ELSE 0

(* Target.GetCluster: in the namespace the target names; otherwise in the  *)
(* current one, then in the system namespace.                              *)
ClusterKeys(policy, target, ns) ==
  LET key(where) == [kind |-> "cluster", ns |-> where, name |-> target.name]
      places == IF target.ns # "" THEN <<key(target.ns)>>
                ELSE <<key(ns), key(SystemNS)>>
  IN  SelectSeq(places, LAMBDA k : Exists(policy, k))

-----------------------------------------------------------------------------
(* Rules of a namespace in the order of their weights.                     *)

RulesSortedByWeight(policy, ns) ==
  LET keys == {key \in ObjectsOfKind(policy, "rule") : key.ns = ns}
      sorted == SetToSortSeq(keys, LAMBDA a, b :
                               policy[a].weight < policy[b].weight)
  IN  [i \in DOMAIN sorted |-> policy[sorted[i]]]

(* What a rule sees: labels, and the service it is asked about. NewParams  *)
(* copies the labels, so that rules of one namespace all see those before  *)
(* the first of them.                                                      *)
RuleParams(labels, service) == ("Service.Name" :> service) @@ labels

(* Rule.ApplyActions: each rule that matches overwrites what the one       *)
(* before it has said of the ingress.                                      *)
ApplyActions(rule, result) ==
  [labels |-> ApplyTransform(result.labels, rule.change),
   dependency |-> rule.dependency,
   ingress |-> rule.ingress]

=============================================================================
