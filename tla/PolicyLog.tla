------------------------------ MODULE PolicyLog ------------------------------
(***************************************************************************)
(* What the policy store promises to whoever reads it (core/policy.go,     *)
(* core/revision.go): the policies make a log, to which requests are       *)
(* applied one after another, each to the result of the one before and     *)
(* never before that has been resolved; revisions make a second log, and   *)
(* the enforcer goes through it in order.                                  *)
(* No generations of objects, handlers, mutex, saves or crashes here:      *)
(* PolicyStore has those and is shown to implement this module.            *)
(***************************************************************************)
EXTENDS Integers, Sequences

CONSTANTS
  Obj,        (* keys of policy objects                                    *)
  Content,    (* what an object can be                                     *)
  Absent,     (* not in the policy                                         *)
  NoState,    (* a revision whose desired state has not been saved         *)
  Requests    (* what clients ask for: [kind, changes]                     *)

VARIABLES
  policies,   (* policies[g]: generation g of the policy                   *)
  revisions,  (* [policyGen, desired]: the desired state, as a policy      *)
  processed   (* how many of them the enforcer has processed               *)

vars == <<policies, revisions, processed>>

Policy == [Obj -> Content \cup {Absent}]

Init ==
  /\ policies = <<>> /\ revisions = <<>>
  /\ processed = 0

EmptyPolicy == [o \in Obj |-> Absent]

Named(r) == {r.changes[i].obj : i \in DOMAIN r.changes}

Asked(r, i) == IF r.kind = "update" THEN r.changes[i].content ELSE Absent

(* q is p with all that r asks for.                                        *)
IsResult(q, p, r) ==
  /\ \A o \in Obj \ Named(r) : q[o] = p[o]
  /\ \A i \in DOMAIN r.changes : q[r.changes[i].obj] = Asked(r, i)

(* q is p after r. An object that equals the last one saved under its name *)
(* counts as unchanged and is left as it is, in the policy or not.         *)
MayFollow(q, p, r) ==
  /\ \A o \in Obj \ Named(r) : q[o] = p[o]
  /\ \A i \in DOMAIN r.changes :
       \/ q[r.changes[i].obj] = Asked(r, i)
       \/ r.kind = "update" /\ q[r.changes[i].obj] = p[r.changes[i].obj]

Resolved(g) ==
  \E i \in DOMAIN revisions : revisions[i].policyGen = g /\ revisions[i].desired # NoState

Start ==
  /\ policies = <<>>
  /\ policies' = <<EmptyPolicy>>
  /\ UNCHANGED <<revisions, processed>>

Change(r) ==
  /\ policies # <<>>
  /\ Resolved(Len(policies))
  /\ \E q \in Policy :
       /\ MayFollow(q, policies[Len(policies)], r)
       /\ policies' = Append(policies, q)
  /\ UNCHANGED <<revisions, processed>>

Revise(g) ==
  /\ revisions' = Append(revisions, [policyGen |-> g, desired |-> NoState])
  /\ UNCHANGED <<policies, processed>>

(* What is enforced for a policy is the policy itself, or what a request   *)
(* made of an older one: which the change may have been applied to, or not *)
(* any more.                                                               *)
IsDesired(s, g) ==
  \/ s = policies[g]
  \/ \E k \in 1..(g - 1) : \E r \in Requests : IsResult(s, policies[k], r)

Resolve ==
  /\ revisions # <<>>
  /\ revisions[Len(revisions)].desired = NoState
  /\ \E s \in Policy :
       /\ IsDesired(s, revisions[Len(revisions)].policyGen)
       /\ revisions' = [revisions EXCEPT ![Len(revisions)].desired = s]
  /\ UNCHANGED <<policies, processed>>

Process ==
  /\ processed < Len(revisions)
  /\ revisions[processed + 1].desired # NoState
  /\ processed' = processed + 1
  /\ UNCHANGED <<policies, revisions>>

Next ==
  \/ Start
  \/ \E r \in Requests : Change(r)
  \/ \E g \in DOMAIN policies : Revise(g)
  \/ Resolve
  \/ Process

Spec == Init /\ [][Next]_vars

=============================================================================
