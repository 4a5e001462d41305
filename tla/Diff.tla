-------------------------------- MODULE Diff --------------------------------
(***************************************************************************)
(* PolicyResolutionDiff (pkg/engine/diff/policy_resolution_diff.go): what  *)
(* has to be done to each component instance to get from one resolution    *)
(* (prev, usually the actual state) to another (next, the desired state),  *)
(* and in which order.                                                     *)
(*                                                                         *)
(* A resolution maps a component key to Absent or to the two fields of the *)
(* instance that the diff reads: the dependencies (the consumers) that     *)
(* keep it alive, and its calculated code parameters.                      *)
(***************************************************************************)
EXTENDS Integers, FiniteSets

CONSTANTS
  Comp,       (* keys of component instances: services and components      *)
  Code,       (* those of components with code, which a plugin deploys     *)
  Parent,     (* Parent[c]: key of the service instance of component c     *)
  EdgesOut,   (* EdgesOut[c]: the instances c refers to in a resolution    *)
  Dep,        (* dependency objects                                        *)
  Param,      (* values of the calculated code parameters                  *)
  Absent      (* no such key in the map                                    *)

ASSUME DiffAssumption ==
  /\ IsFiniteSet(Comp) /\ IsFiniteSet(Dep)
  /\ Code \subseteq Comp
  /\ Parent \in [Code -> Comp \ Code]
  /\ EdgesOut \in [Comp -> SUBSET Comp]
  /\ \A c \in Comp : c \notin EdgesOut[c]

Instance == [deps : SUBSET Dep, params : Param]

ASSUME AbsentAssumption == Absent \notin Instance

Resolution == [Comp -> Instance \cup {Absent}]

EmptyResolution == [c \in Comp |-> Absent]

Consumers(res, c) == IF res[c] = Absent THEN {} ELSE res[c].deps

(* The actions of one node, in the order in which buildActions appends     *)
(* them: detach the dependencies that are gone, then delete, create or     *)
(* update, then attach the new dependencies. The update of a service       *)
(* because one of its components changed is appended to the node of the    *)
(* service when that component is visited, before or after its own.        *)
NodePlan == [parentFirst : BOOLEAN, detach : SUBSET Dep,
             main : {"none", "delete", "create", "update"},
             attach : SUBSET Dep, parentLast : BOOLEAN]

NoActions == [parentFirst |-> FALSE, detach |-> {}, main |-> "none",
              attach |-> {}, parentLast |-> FALSE]

(* Variant that forgets an instance whose parameters have changed.         *)
MainActionNoUpdate(prev, next, c) ==
  CASE Consumers(prev, c) # {} /\ Consumers(next, c) = {} -> "delete"
    [] Consumers(prev, c) = {} /\ Consumers(next, c) # {} -> "create"
    [] OTHER -> "none"

MainAction(prev, next, c) ==
  CASE Consumers(prev, c) # {} /\ Consumers(next, c) = {} -> "delete"
    [] Consumers(prev, c) = {} /\ Consumers(next, c) # {} -> "create"
    [] /\ Consumers(prev, c) # {} /\ Consumers(next, c) # {}
       /\ c \in Code /\ prev[c].params # next[c].params -> "update"
    [] OTHER -> "none"

BuildActions(prev, next, c) ==
  [parentFirst |-> FALSE,
   detach |-> Consumers(prev, c) \ Consumers(next, c),
   main   |-> MainAction(prev, next, c),
   attach |-> Consumers(next, c) \ Consumers(prev, c),
   parentLast |-> FALSE]

UpdatesParent(prev, next, s) ==
  \E c \in Code : Parent[c] = s /\ MainAction(prev, next, c) = "update"

(* All the plans the diff can produce: it visits the keys in map order.    *)
Plans(prev, next) ==
  {[c \in Comp |->
      [BuildActions(prev, next, c) EXCEPT
         !.parentFirst = c \in first /\ UpdatesParent(prev, next, c),
         !.parentLast  = c \notin first /\ UpdatesParent(prev, next, c)]] :
     first \in SUBSET {c \in Comp \ Code : UpdatesParent(prev, next, c)}}

(* Edges come from the desired state only, and lead to what it has:        *)
(* deletions are not ordered.                                              *)
BeforeNodes(next, c) ==
  IF next[c] = Absent THEN {} ELSE {b \in EdgesOut[c] : next[b] # Absent}

=============================================================================
