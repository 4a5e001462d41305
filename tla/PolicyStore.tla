----------------------------- MODULE PolicyStore -----------------------------
(***************************************************************************)
(* The policy and its revisions in the store, and the API handlers that    *)
(* change them: handlePolicyUpdate and handlePolicyDelete                  *)
(* (pkg/api/policy.go), handleStateEnforce (pkg/api/actualstate.go),       *)
(* UpdatePolicy, DeleteFromPolicy, InitPolicy and NewRevision              *)
(* (pkg/runtime/store/core) over the generations of the Bolt store.        *)
(*                                                                         *)
(* A policy is a PolicyData, which names the generation of each object in  *)
(* it. Every Save is a transaction of its own: the server may die between  *)
(* any two of them, and everything a handler reads before it takes         *)
(* policyAndRevisionUpdateMutex may be out of date when it has it.         *)
(*                                                                         *)
(* Resolution is left out: a desired state is represented by the policy it *)
(* was resolved from.                                                      *)
(***************************************************************************)
EXTENDS Integers, Sequences

CONSTANTS
  Obj,          (* keys of policy objects                                  *)
  Content,      (* what an object can be                                   *)
  Deleted,      (* the content of a generation saved with deleted=true     *)
  Absent,       (* not in the policy                                       *)
  Handler,      (* goroutines of API requests                              *)
  NoHandler,    (* nobody has the mutex                                    *)
  NoState,      (* a revision whose desired state has not been saved       *)
  Requests,     (* what clients ask for: [kind, changes]                   *)
  MaxRequests,  (* bound on the number of requests                         *)
  MaxCrashes    (* bound on the number of crashes                          *)

Policy == [Obj -> Content \cup {Absent}]

(* A client may send an object that is marked as deleted already.          *)
Change == [obj : Obj, content : Content, marked : BOOLEAN]

Request == [kind : {"update", "delete", "enforce"}, changes : Seq(Change)]

(* A request names an object once, as the files of a policy do; the        *)
(* enforcement of a policy comes without objects.                          *)
ASSUME RequestAssumption ==
  \A r \in Requests :
    /\ \A i, j \in DOMAIN r.changes : r.changes[i].obj = r.changes[j].obj => i = j
    /\ r.kind = "enforce" => r.changes = <<>>

ASSUME StoreAssumption ==
  /\ Deleted \notin Content /\ Absent \notin Content
  /\ NoHandler \notin Handler
  /\ NoState \notin Policy
  /\ Requests \subseteq Request
  /\ MaxRequests \in Nat /\ MaxCrashes \in Nat

VARIABLES
  gens,        (* gens[o]: the generations of object o                     *)
  policyData,  (* the generations of PolicyData: object -> generation or 0 *)
  revisions,   (* the generations of Revision, with their desired state    *)
  processed,   (* revisions the enforcer has processed                     *)
  boot,        (* start of the server: "check", "revision", "desired", "up"*)
  mutex,       (* who has policyAndRevisionUpdateMutex                     *)
  data,        (* the PolicyData that the holder of the mutex changes      *)
  left,        (* the objects it has not saved yet                         *)
  changed,     (* whether it has saved any                                 *)
  pc,          (* pc[h]: where handler h is                                *)
  request,     (* its request                                              *)
  readGen,     (* the policy generation it has read                        *)
  desired,     (* the desired state it has computed                        *)
  requests, crashes

store    == <<gens, policyData, revisions>>
critical == <<mutex, data, left, changed>>
handlers == <<pc, request, readGen, desired>>
bounds   == <<requests, crashes>>
vars == <<store, processed, boot, critical, handlers, bounds>>

EmptyData == [o \in Obj |-> 0]

EmptyPolicy == [o \in Obj |-> Absent]

(* getPolicyFromData: the objects, each of the generation it names.        *)
PolicyOf(d) == [o \in Obj |-> IF d[o] = 0 THEN Absent ELSE gens[o][d[o]]]

LatestGen == Len(policyData)

Init ==
  /\ gens = [o \in Obj |-> <<>>]
  /\ policyData = <<>> /\ revisions = <<>>
  /\ processed = 0
  /\ boot = "check"
  /\ mutex = NoHandler /\ data = EmptyData /\ left = <<>> /\ changed = FALSE
  /\ pc = [h \in Handler |-> "idle"]
  /\ request = [h \in Handler |-> [kind |-> "enforce", changes |-> <<>>]]
  /\ readGen = [h \in Handler |-> 0]
  /\ desired = [h \in Handler |-> EmptyPolicy]
  /\ requests = 0 /\ crashes = 0

-----------------------------------------------------------------------------
(* NewRevision: the revision is saved first, then its desired state.       *)

AddRevision(g) ==
  revisions' = Append(revisions, [policyGen |-> g, desired |-> NoState])

AddDesiredState(s) ==
  revisions' = [revisions EXCEPT ![Len(revisions)].desired = s]

-----------------------------------------------------------------------------
(* The start of the server: initPolicyOnFirstRun, InitPolicy.              *)

CheckPolicy ==
  /\ boot = "check"
  /\ IF policyData = <<>>
     THEN policyData' = <<EmptyData>> /\ boot' = "revision"
     ELSE boot' = "up" /\ UNCHANGED policyData
  /\ UNCHANGED <<gens, revisions, processed, critical, handlers, bounds>>

InitRevision ==
  /\ boot = "revision"
  /\ AddRevision(1)
  /\ boot' = "desired"
  /\ UNCHANGED <<gens, policyData, processed, critical, handlers, bounds>>

InitDesiredState ==
  /\ boot = "desired"
  /\ AddDesiredState(EmptyPolicy)
  /\ boot' = "up"
  /\ UNCHANGED <<gens, policyData, processed, critical, handlers, bounds>>

-----------------------------------------------------------------------------
(* A handler, before it takes the mutex.                                   *)

Receive(h, r) ==
  /\ boot = "up"
  /\ pc[h] = "idle"
  /\ requests < MaxRequests
  /\ requests' = requests + 1
  /\ request' = [request EXCEPT ![h] = r]
  /\ readGen' = [readGen EXCEPT ![h] = LatestGen]
  /\ pc' = [pc EXCEPT ![h] = "reading"]
  /\ UNCHANGED <<store, processed, boot, critical, desired, crashes>>

(* AddObject or RemoveObject for each object of the request.               *)
Updated(policy, r) ==
  LET named(o) == {i \in DOMAIN r.changes : r.changes[i].obj = o}
  IN  [o \in Obj |->
         CASE named(o) = {} -> policy[o]
           [] named(o) # {} /\ r.kind = "update" -> r.changes[CHOOSE i \in named(o) : TRUE].content
           [] OTHER -> Absent]

RevisionsFor(g) == {i \in DOMAIN revisions : revisions[i].policyGen = g}

(* The diff that is reported needs the desired state of the last revision  *)
(* of that policy. Without it the handler panics and answers 500.          *)
HasDesiredState(g) ==
  \E i \in RevisionsFor(g) :
    /\ \A j \in RevisionsFor(g) : j <= i
    /\ revisions[i].desired # NoState

(* A state enforcement that has nothing to do makes no revision, which is  *)
(* certain when the policy is empty.                                       *)
Resolve(h) ==
  /\ pc[h] = "reading"
  /\ request[h].kind # "enforce" => HasDesiredState(readGen[h])
  /\ desired' = [desired EXCEPT ![h] = Updated(PolicyOf(policyData[readGen[h]]), request[h])]
  /\ request[h].kind = "enforce" => desired'[h] # EmptyPolicy
  /\ pc' = [pc EXCEPT ![h] = "changing"]
  /\ UNCHANGED <<store, processed, boot, critical, request, readGen, bounds>>

(* Invalid, forbidden, a dry run, nothing to compare with, or no actions.  *)
Reject(h) ==
  /\ pc[h] = "reading"
  /\ pc' = [pc EXCEPT ![h] = "idle"]
  /\ UNCHANGED <<store, processed, boot, critical, request, readGen, desired, bounds>>

-----------------------------------------------------------------------------
(* changePolicy and createStateEnforceRevision, under the mutex.           *)

(* Variant that changes the policy data it has read before it waited.      *)
LockStale(h) ==
  /\ pc[h] = "changing"
  /\ mutex = NoHandler
  /\ mutex' = h
  /\ data' = policyData[readGen[h]]
  /\ left' = request[h].changes
  /\ changed' = FALSE
  /\ pc' = [pc EXCEPT ![h] = IF request[h].kind = "enforce" THEN "revision" ELSE "saving"]
  /\ UNCHANGED <<store, processed, boot, request, readGen, desired, bounds>>

Lock(h) ==
  /\ pc[h] = "changing"
  /\ mutex = NoHandler
  /\ mutex' = h
  /\ data' = policyData[LatestGen]
  /\ left' = request[h].changes
  /\ changed' = FALSE
  /\ pc' = [pc EXCEPT ![h] = IF request[h].kind = "enforce" THEN "revision" ELSE "saving"]
  /\ UNCHANGED <<store, processed, boot, request, readGen, desired, bounds>>

Unlock(h) ==
  /\ mutex' = NoHandler
  /\ data' = EmptyData /\ left' = <<>> /\ changed' = FALSE
  /\ pc' = [pc EXCEPT ![h] = "idle"]

LastContent(o) == IF gens[o] = <<>> THEN Absent ELSE gens[o][Len(gens[o])]

(* Variant that names the generation the object had before it was saved.   *)
SaveObjectOldGeneration(h) ==
  /\ pc[h] = "saving" /\ request[h].kind = "update"
  /\ left # <<>> /\ ~Head(left).marked
  /\ LET o == Head(left).obj
         c == Head(left).content
     IN  IF LastContent(o) = c
         THEN UNCHANGED <<gens, data, changed>>
         ELSE /\ gens' = [gens EXCEPT ![o] = Append(@, c)]
              /\ data' = [data EXCEPT ![o] = Len(gens[o])]
              /\ changed' = TRUE
  /\ left' = Tail(left)
  /\ UNCHANGED <<policyData, revisions, processed, boot, mutex, handlers, bounds>>

(* Save compares an object with its last generation, in the policy or not. *)
SaveObject(h) ==
  /\ pc[h] = "saving" /\ request[h].kind = "update"
  /\ left # <<>> /\ ~Head(left).marked
  /\ LET o == Head(left).obj
         c == Head(left).content
     IN  IF LastContent(o) = c
         THEN UNCHANGED <<gens, data, changed>>
         ELSE /\ gens' = [gens EXCEPT ![o] = Append(@, c)]
              /\ data' = [data EXCEPT ![o] = Len(gens[o]) + 1]
              /\ changed' = TRUE
  /\ left' = Tail(left)
  /\ UNCHANGED <<policyData, revisions, processed, boot, mutex, handlers, bounds>>

(* "objects with deleted=true not supported while updating policy": those  *)
(* before it have been saved.                                              *)
UpdateFails(h) ==
  /\ pc[h] = "saving" /\ request[h].kind = "update"
  /\ left # <<>> /\ Head(left).marked
  /\ Unlock(h)
  /\ UNCHANGED <<store, processed, boot, request, readGen, desired, bounds>>

(* A deleted object that is deleted again is saved again if it differs. An *)
(* object that is marked already is not saved.                             *)
DeleteObject(h) ==
  /\ pc[h] = "saving" /\ request[h].kind = "delete"
  /\ left # <<>>
  /\ LET o == Head(left).obj
     IN  /\ \/ Head(left).marked /\ UNCHANGED gens
            \/ /\ ~Head(left).marked /\ gens[o] # <<>>
               /\ \/ LastContent(o) = Deleted /\ UNCHANGED gens
                  \/ gens' = [gens EXCEPT ![o] = Append(@, Deleted)]
         /\ data' = [data EXCEPT ![o] = 0]
         /\ changed' = (changed \/ data[o] # 0)
  /\ left' = Tail(left)
  /\ UNCHANGED <<policyData, revisions, processed, boot, mutex, handlers, bounds>>

(* Variant that returns the error without giving the mutex back.           *)
DeleteFailsLocked(h) ==
  /\ pc[h] = "saving" /\ request[h].kind = "delete"
  /\ left # <<>> /\ ~Head(left).marked
  /\ gens[Head(left).obj] = <<>>
  /\ pc' = [pc EXCEPT ![h] = "idle"]
  /\ UNCHANGED <<store, processed, boot, critical, request, readGen, desired, bounds>>

(* "trying to make non-existing in db object with deleted=true"            *)
DeleteFails(h) ==
  /\ pc[h] = "saving" /\ request[h].kind = "delete"
  /\ left # <<>> /\ ~Head(left).marked
  /\ gens[Head(left).obj] = <<>>
  /\ Unlock(h)
  /\ UNCHANGED <<store, processed, boot, request, readGen, desired, bounds>>

NothingChanged(h) ==
  /\ pc[h] = "saving"
  /\ left = <<>>
  /\ ~changed
  /\ Unlock(h)
  /\ UNCHANGED <<store, processed, boot, request, readGen, desired, bounds>>

(* Variant that writes the generation the handler has read once more.      *)
SavePolicyDataInPlace(h) ==
  /\ pc[h] = "saving"
  /\ left = <<>>
  /\ changed
  /\ policyData' = [policyData EXCEPT ![LatestGen] = data]
  /\ pc' = [pc EXCEPT ![h] = "revision"]
  /\ UNCHANGED <<gens, revisions, processed, boot, critical, request, readGen, desired, bounds>>

SavePolicyData(h) ==
  /\ pc[h] = "saving"
  /\ left = <<>>
  /\ changed
  /\ policyData' = Append(policyData, data)
  /\ pc' = [pc EXCEPT ![h] = "revision"]
  /\ UNCHANGED <<gens, revisions, processed, boot, critical, request, readGen, desired, bounds>>

(* Variant for which nobody else changes the policy after it was read.     *)
SaveRevisionAfterRead(h) ==
  /\ pc[h] = "revision"
  /\ AddRevision(readGen[h] + 1)
  /\ pc' = [pc EXCEPT ![h] = "desired"]
  /\ UNCHANGED <<gens, policyData, processed, boot, critical, request, readGen, desired, bounds>>

(* Variant that has no revision for the policy as it was before a change.  *)
SaveRevisionOfRead(h) ==
  /\ pc[h] = "revision"
  /\ AddRevision(readGen[h])
  /\ pc' = [pc EXCEPT ![h] = "desired"]
  /\ UNCHANGED <<gens, policyData, processed, boot, critical, request, readGen, desired, bounds>>

SaveRevision(h) ==
  /\ pc[h] = "revision"
  /\ AddRevision(IF request[h].kind = "enforce" THEN readGen[h] ELSE LatestGen)
  /\ pc' = [pc EXCEPT ![h] = "desired"]
  /\ UNCHANGED <<gens, policyData, processed, boot, critical, request, readGen, desired, bounds>>

(* Variant that saves no desired state for a policy that was enforced.     *)
SaveDesiredStateChangesOnly(h) ==
  /\ pc[h] = "desired"
  /\ IF request[h].kind = "enforce" THEN UNCHANGED revisions ELSE AddDesiredState(desired[h])
  /\ Unlock(h)
  /\ UNCHANGED <<gens, policyData, processed, boot, request, readGen, desired, bounds>>

SaveDesiredState(h) ==
  /\ pc[h] = "desired"
  /\ AddDesiredState(desired[h])
  /\ Unlock(h)
  /\ UNCHANGED <<gens, policyData, processed, boot, request, readGen, desired, bounds>>

-----------------------------------------------------------------------------

(* The enforcer takes the first unprocessed revision; as long as it has no *)
(* desired state it returns an error, and takes the same one next time.    *)
Process ==
  /\ boot = "up"
  /\ processed < Len(revisions)
  /\ revisions[processed + 1].desired # NoState
  /\ processed' = processed + 1
  /\ UNCHANGED <<store, boot, critical, handlers, bounds>>

Crash ==
  /\ crashes < MaxCrashes
  /\ crashes' = crashes + 1
  /\ boot' = "check"
  /\ mutex' = NoHandler
  /\ data' = EmptyData /\ left' = <<>> /\ changed' = FALSE
  /\ pc' = [h \in Handler |-> "idle"]
  /\ UNCHANGED <<store, processed, request, readGen, desired, requests>>

Boot == CheckPolicy \/ InitRevision \/ InitDesiredState

Serve(h) ==
  \/ Resolve(h) \/ Reject(h) \/ Lock(h)
  \/ SaveObject(h) \/ UpdateFails(h) \/ DeleteObject(h) \/ DeleteFails(h)
  \/ NothingChanged(h)
  \/ SavePolicyData(h) \/ SaveRevision(h) \/ SaveDesiredState(h)

Next ==
  \/ Boot
  \/ \E h \in Handler : Serve(h) \/ \E r \in Requests : Receive(h, r)
  \/ Process
  \/ Crash

Spec == Init /\ [][Next]_vars

(* A handler that has been started runs on, and gets the mutex when it is  *)
(* free (Go's mutexes do not starve); the enforcer loop runs for ever.     *)
Fairness ==
  /\ WF_vars(Boot)
  /\ \A h \in Handler : WF_vars(Serve(h))
  /\ WF_vars(Process)

FairSpec == Spec /\ Fairness

-----------------------------------------------------------------------------

Revision == [policyGen : Nat \ {0}, desired : Policy \cup {NoState}]

(* Types; a revision is for a policy that exists.                          *)
TypeOK ==
  /\ gens \in [Obj -> Seq(Content \cup {Deleted})]
  /\ policyData \in Seq([Obj -> Nat])
  /\ revisions \in Seq(Revision)
  /\ \A i \in DOMAIN revisions : revisions[i].policyGen \in 1..LatestGen
  /\ processed \in 0..Len(revisions)
  /\ boot \in {"check", "revision", "desired", "up"}
  /\ mutex \in Handler \cup {NoHandler}
  /\ data \in [Obj -> Nat]
  /\ left \in Seq(Change)
  /\ changed \in BOOLEAN
  /\ pc \in [Handler -> {"idle", "reading", "changing", "saving", "revision", "desired"}]
  /\ request \in [Handler -> Request]
  /\ readGen \in [Handler -> 0..LatestGen]
  /\ desired \in [Handler -> Policy]
  /\ requests \in 0..MaxRequests /\ crashes \in 0..MaxCrashes

(* Every generation of the policy can be loaded (getPolicyFromData,        *)
(* core/policy.go:31-58): whatever was interrupted or has failed half-way, *)
(* each object it names is in the store, and not as a deleted one.         *)
PolicyLoads ==
  \A g \in DOMAIN policyData : \A o \in Obj : policyData[g][o] # 0 =>
    /\ policyData[g][o] \in DOMAIN gens[o]
    /\ gens[o][policyData[g][o]] # Deleted

(* A generation of the policy, once saved, is read the same for ever, and  *)
(* so is a revision: the enforcer loads both again when it retries.        *)
PolicyHistoryFixed ==
  [][/\ \A g \in DOMAIN policyData :
          g \in DOMAIN policyData' /\ PolicyOf(policyData[g])' = PolicyOf(policyData[g])
     /\ \A i \in DOMAIN revisions :
          /\ i \in DOMAIN revisions'
          /\ revisions'[i].policyGen = revisions[i].policyGen
          /\ revisions[i].desired # NoState => revisions'[i] = revisions[i]]_vars

(* "we should process only a single policy update request at once"         *)
(* (core/policy.go:72): however requests race and wherever the server      *)
(* dies, a reader of the store finds a log of policies, each the one       *)
(* before with a single request applied to it, so that nobody undoes what  *)
(* another handler has done since it read the policy, and revisions that   *)
(* enforce either such a policy or what its request made of an older one.  *)
Policies == [g \in DOMAIN policyData |-> PolicyOf(policyData[g])]

Log == INSTANCE PolicyLog WITH policies <- Policies

ImplementsPolicyLog == Log!Spec

(* A policy is only changed when the one before has been resolved: every   *)
(* generation but the last has a revision with a desired state, even if    *)
(* the server died between the three saves of a change.                    *)
EveryPolicyIsResolved ==
  \A g \in 1..(LatestGen - 1) : \E i \in RevisionsFor(g) : revisions[i].desired # NoState

(* Without a crash the API stays usable: when nobody is changing the       *)
(* policy, the last revision of the latest policy has its desired state,   *)
(* without which every update and delete is refused (api/policy.go:148).   *)
AcceptsChanges ==
  boot = "up" /\ mutex = NoHandler /\ crashes = 0 => HasDesiredState(LatestGen)

(* Every request is answered: the mutex is given back on every path.       *)
RequestsEnd == \A h \in Handler : pc[h] # "idle" ~> pc[h] = "idle"

(* Without a crash no revision blocks the enforcer for good.               *)
RevisionsProcessed == [](crashes = 0) => <>[](processed = Len(revisions))

(* "Policy Engine - engine to process the uploaded policy ... and          *)
(* translate it into a Desired State" (docs/architecture.md:13): when all  *)
(* requests have been answered and all revisions processed, what was       *)
(* enforced last is the desired state of the latest policy. The code does  *)
(* not ensure it: the policy is read, changed and resolved before the      *)
(* mutex is taken.                                                         *)
EnforcesLatestPolicy ==
  /\ boot = "up" /\ processed = Len(revisions)
  /\ \A h \in Handler : pc[h] = "idle"
  => revisions[processed].desired = PolicyOf(policyData[LatestGen])

(* "Update policy", "have any policy object in the store been changed or   *)
(* not" (api/policy.go:231-237): an update that is answered with success   *)
(* has put its objects into the policy. Not so after a crash between the   *)
(* save of an object and that of the policy data, or an update that failed *)
(* there: the object then equals its last generation and counts as         *)
(* unchanged, whenever it is applied.                                      *)
AppliedIsInPolicy ==
  [][\A h \in Handler :
       /\ mutex = h /\ mutex' = NoHandler
       /\ request[h].kind = "update" /\ left = <<>> /\ crashes' = crashes
       => \A i \in DOMAIN request[h].changes :
            PolicyOf(policyData[LatestGen])[request[h].changes[i].obj]
              = request[h].changes[i].content]_vars

-----------------------------------------------------------------------------
(* The inductive invariant behind the safety properties                    *)
(* (PolicyStoreProofs).                                                    *)

CriticalSteps == {"saving", "revision", "desired"}

Resolved(g) == \E i \in RevisionsFor(g) : revisions[i].desired # NoState

(* A change whose policy data is saved and whose revision is not.          *)
InProgress ==
  \E h \in Handler :
    pc[h] \in {"revision", "desired"} /\ request[h].kind # "enforce"

(* The policy data in the hands of the holder of the mutex.                *)
DataInv ==
  \A o \in Obj : data[o] # 0 => data[o] \in DOMAIN gens[o] /\ gens[o][data[o]] # Deleted

MutexInv ==
  \A h \in Handler : pc[h] \in CriticalSteps <=> mutex = h

BootInv ==
  /\ boot # "check" => LatestGen > 0
  /\ boot # "up" => \A h \in Handler : pc[h] = "idle"
  /\ boot \in {"revision", "desired"} => LatestGen = 1
  /\ boot = "desired" => revisions # <<>> /\ revisions[Len(revisions)].desired = NoState
  /\ \A h \in Handler : pc[h] # "idle" => readGen[h] > 0

Named(r) == {r.changes[i].obj : i \in DOMAIN r.changes}

(* What the holder has done so far, and what it has left to do.            *)
HolderInv(h) ==
  /\ pc[h] = "saving" =>
       /\ Resolved(LatestGen)
       /\ request[h].kind # "enforce"
       /\ \A k \in DOMAIN left : left[k].obj \in Named(request[h])
       /\ \A o \in Obj \ Named(request[h]) : data[o] = policyData[LatestGen][o]
  /\ pc[h] = "desired" =>
       /\ revisions # <<>>
       /\ revisions[Len(revisions)].desired = NoState
       /\ request[h].kind # "enforce" => revisions[Len(revisions)].policyGen = LatestGen

SavingInv == \A h \in Handler : HolderInv(h)

(* A handler that has read a policy with a desired state, or one that has  *)
(* been changed since, will find the latest policy resolved.               *)
BaseInv ==
  \A h \in Handler :
    \/ pc[h] = "changing" /\ request[h].kind # "enforce"
    \/ pc[h] \in {"reading", "changing"} /\ readGen[h] < LatestGen
    => Resolved(LatestGen) \/ InProgress

StoreInv ==
  /\ TypeOK /\ PolicyLoads /\ EveryPolicyIsResolved
  /\ DataInv /\ MutexInv /\ BootInv /\ SavingInv /\ BaseInv

=============================================================================
