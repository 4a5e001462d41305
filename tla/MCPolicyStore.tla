--------------------------- MODULE MCPolicyStore ---------------------------
(* Two objects that are created, changed and deleted by two handlers.      *)
EXTENDS PolicyStore

CONSTANTS x, y, c1, c2, h1, h2

MCObj == {x, y}
MCContent == {c1, c2}
MCHandler == {h1, h2}

Set(o, c) == [obj |-> o, content |-> c, marked |-> FALSE]

Marked(o, c) == [obj |-> o, content |-> c, marked |-> TRUE]

(* One and several objects, a deletion that may fail after its first       *)
(* object, an update that does, an object that is marked as deleted before *)
(* it is deleted, and the enforcement of the policy as it is.              *)
MCRequests ==
  {[kind |-> "update", changes |-> <<Set(x, c1)>>],
   [kind |-> "update", changes |-> <<Set(x, c2), Set(y, c1)>>],
   [kind |-> "update", changes |-> <<Set(x, c2), Marked(y, c1)>>],
   [kind |-> "delete", changes |-> <<Set(x, c1), Set(y, c1)>>],
   [kind |-> "delete", changes |-> <<Marked(x, c1)>>],
   [kind |-> "enforce", changes |-> <<>>]}

=============================================================================
