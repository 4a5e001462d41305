---------------------------- MODULE MCReconcile ----------------------------
(* One service with two code components, one that helm deploys and one     *)
(* that k8sraw does, consumed by two dependencies.                         *)
EXTENDS Reconcile

CONSTANTS svc, app, db, d1, d2, p1, p2, none

MCComp == {svc, app, db}
MCCode == {app, db}
MCRaw == {db}
MCParent == [c \in MCCode |-> svc]
MCEdgesOut == [c \in MCComp |-> CASE c = svc -> MCCode [] c = app -> {db} [] OTHER -> {}]
MCDep == {d1, d2}
MCParam == {p1, p2, none}

(* Both dependencies use the service; one of them does, with other         *)
(* parameters for app and without db, which has been removed from it; then *)
(* nobody does any more, and the cluster of db is removed too.             *)
Shared == [c \in MCComp |->
             [deps |-> IF c = db THEN {d1} ELSE {d1, d2},
              params |-> IF c = svc THEN none ELSE p1]]

Single == [c \in MCComp |->
             CASE c = svc -> [deps |-> {d1}, params |-> none]
               [] c = app -> [deps |-> {d1}, params |-> p2]
               [] OTHER   -> Absent]

Whole == [c \in MCComp |-> IF c \in MCCode THEN "plugin" ELSE "nothing"]

MCPolicies ==
  {[desired |-> Shared, finds |-> Whole],
   [desired |-> Single, finds |-> [Whole EXCEPT ![db] = "nothing"]],
   [desired |-> EmptyResolution, finds |-> [Whole EXCEPT ![db] = "error"]]}

=============================================================================
