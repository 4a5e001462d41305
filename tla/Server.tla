------------------------------- MODULE Server -------------------------------
(***************************************************************************)
(* The life of an Aptomi server (pkg/server): Start brings up the HTTP     *)
(* API, the desired state enforcer and the actual state updater, and waits *)
(* for one of them to fail. The API tells the enforcer of new revisions    *)
(* and the enforcer tells itself and the updater of changes through two    *)
(* buffered channels; each loop also has a timer. Clients (aptomictl)      *)
(* change the policy and poll their revision.                              *)
(*                                                                         *)
(* Both loops work on the stored component instances. Each makes an        *)
(* actualStateUpdater of its own on every pass, so that the load and the   *)
(* save of one may be interleaved with those of the other.                 *)
(*                                                                         *)
(* A request saves the policy, its revision and its desired state one      *)
(* after the other, and so does a server that starts for the first time.   *)
(*                                                                         *)
(* The order of the actions within a revision is ActionPlan's and          *)
(* Reconcile's business: here the code components are independent.         *)
(***************************************************************************)
EXTENDS Integers, Sequences, FiniteSets, FiniteSetsExt

CONSTANTS
  Code,                  (* keys of code component instances               *)
  Param,                 (* what they are deployed with                    *)
  Absent,                (* no such instance                               *)
  NotDeployed,           (* nothing of that name in the cloud; no endpoints *)
  Client,                (* the requests that change the policy, each with *)
                         (* the client that makes it                       *)
  EnforceCap, UpdateCap, (* capacity of the two channels (2048, 2048)      *)
  MaxConcurrentActions,  (* of the updater                                 *)
  Configurations,        (* the sets of disabled jobs to consider          *)
  MaxFaults              (* bound on the number of failures                *)

(* The number of requests has nothing to do with what the channels hold.   *)
ASSUME ServerAssumption ==
  /\ Absent \notin Param /\ NotDeployed \notin Param
  /\ IsFiniteSet(Client)
  /\ EnforceCap \in Nat \ {0} /\ UpdateCap \in Nat \ {0}
  /\ MaxConcurrentActions \in Nat \ {0}
  /\ Configurations \subseteq SUBSET {"enforcer", "updater"}
  /\ MaxFaults \in Nat

(* used: some dependency consumes the instance.                            *)
Instance ==
  [params : Param, used : BOOLEAN, upToDate : BOOLEAN,
   endpoints : Param \cup {NotDeployed}]

VARIABLES
  disabled,      (* jobs the configuration switches off                    *)
  server,        (* the step of Start it is at                             *)
  http,          (* "off", "serving", "failed", "reported"                 *)
  policy,        (* in the store: "none", "saved" (the latest one has no   *)
                 (* revision yet), "resolved" (it has one)                 *)
  revisions,     (* in the store: [desired, saved, status, failed,         *)
                 (* applied], saved once its desired state is in the store *)
  stored,        (* in the store: the component instances                  *)
  cloud,         (* external: what is deployed                             *)
  enforceChan, updateChan,   (* number of messages in the channels         *)
  enforcer,      (* "pass", "applying", "notifySelf", "notifyUpdater",     *)
                 (* "waiting"                                              *)
  cur,           (* the revision it applies                                *)
  success,       (* some action of the pass has succeeded                  *)
  work,          (* what it does to each component: [op, step, copy]       *)
  updater,       (* "pass", "refreshing", "waiting"                        *)
  task,          (* its goroutine for each component: [step, answer, copy] *)
  client,        (* [step, revision, handling]: what it waits for, and     *)
                 (* whether the handler of its request has yet to send     *)
  faults

chanVars     == <<enforceChan, updateChan>>
serverVars   == <<disabled, server, http>>
storeVars    == <<policy, revisions>>
enforcerVars == <<enforcer, cur, success, work>>
updaterVars  == <<updater, task>>
vars == <<serverVars, storeVars, stored, cloud, chanVars, enforcerVars,
          updaterVars, client, faults>>

NoWork == [op |-> "none", step |-> "todo", copy |-> Absent]
NoTask == [step |-> "none", answer |-> NotDeployed, copy |-> Absent]

NewRevision(desired) ==
  [desired |-> desired, saved |-> FALSE, status |-> "waiting", failed |-> FALSE,
   applied |-> FALSE]

Nothing == [c \in Code |-> Absent]

(* The store is new, or a server has been stopped before it could process  *)
(* the revision of the first change of the policy.                         *)
Init ==
  /\ disabled \in Configurations
  /\ server = "initPolicy" /\ http = "off"
  /\ \/ policy = "none" /\ revisions = << >>
     \/ /\ policy = "resolved"
        /\ \E desired \in [Code -> Param \cup {Absent}] :
             revisions = <<[NewRevision(Nothing) EXCEPT
                              !.saved = TRUE, !.status = "completed", !.applied = TRUE],
                           [NewRevision(desired) EXCEPT !.saved = TRUE]>>
  /\ stored = Nothing
  /\ cloud = [c \in Code |-> NotDeployed]
  /\ enforceChan = 0 /\ updateChan = 0
  /\ enforcer = "pass" /\ cur = 1 /\ success = FALSE
  /\ work = [c \in Code |-> NoWork]
  /\ updater = "pass" /\ task = [c \in Code |-> NoTask]
  /\ client = [k \in Client |-> [step |-> "idle", revision |-> 0, handling |-> FALSE]]
  /\ faults = 0

-----------------------------------------------------------------------------
(* Start, the background jobs and the end of the process.                  *)

Alive == server # "exited"

Running(job) ==
  /\ Alive
  /\ job \notin disabled
  /\ CASE job = "http"     -> http = "serving"
       [] job = "enforcer" -> server \in {"startUpdater", "wait"}
       [] job = "updater"  -> server = "wait"

(* A revision for the latest policy; its desired state is another save.    *)
AddRevision(desired) ==
  /\ policy' = "resolved"
  /\ revisions' = Append(revisions, NewRevision(desired))

SaveDesired ==
  /\ revisions' = [revisions EXCEPT ![Len(revisions)].saved = TRUE]
  /\ UNCHANGED policy

(* initPolicyOnFirstRun: an empty policy with its revision, unless there   *)
(* is a policy, with a revision or without.                                *)
InitPolicy ==
  /\ \/ /\ server = "initPolicy" /\ policy = "none"
        /\ policy' = "saved" /\ server' = "initRevision" /\ UNCHANGED revisions
     \/ server = "initPolicy" /\ policy # "none" /\ server' = "startHTTP" /\ UNCHANGED storeVars
     \/ server = "initRevision" /\ server' = "initDesired" /\ AddRevision(Nothing)
     \/ server = "initDesired" /\ server' = "startHTTP" /\ SaveDesired
  /\ UNCHANGED <<disabled, http, stored, cloud, chanVars, enforcerVars, updaterVars, client, faults>>

StartJobs ==
  /\ \/ server = "startHTTP" /\ http' = "serving" /\ server' = "startEnforcer"
     \/ server = "startEnforcer" /\ server' = "startUpdater" /\ UNCHANGED http
     \/ server = "startUpdater" /\ server' = "wait" /\ UNCHANGED http
  /\ UNCHANGED <<disabled, storeVars, stored, cloud, chanVars, enforcerVars, updaterVars, client, faults>>

(* ListenAndServe returns; its job recovers the panic and sends it to      *)
(* backgroundErrors, which has no buffer: only wait() receives.            *)
HTTPFails ==
  /\ http = "serving" /\ Alive
  /\ faults < MaxFaults /\ faults' = faults + 1
  /\ http' = "failed"
  /\ UNCHANGED <<disabled, server, storeVars, stored, cloud, chanVars, enforcerVars, updaterVars, client>>

(* Variant in which the job's error is logged and the server goes on.      *)
WaitIgnoring ==
  /\ server = "wait" /\ http = "failed"
  /\ http' = "reported"
  /\ UNCHANGED <<disabled, server, storeVars, stored, cloud, chanVars, enforcerVars, updaterVars, client, faults>>

(* wait() panics with the first error: the process ends.                   *)
Wait ==
  /\ server = "wait" /\ http = "failed"
  /\ http' = "reported" /\ server' = "exited"
  /\ UNCHANGED <<disabled, storeVars, stored, cloud, chanVars, enforcerVars, updaterVars, client, faults>>

(* A panic in a goroutine that nobody recovers, or a kill.                 *)
Killed ==
  /\ Alive
  /\ faults < MaxFaults /\ faults' = faults + 1
  /\ server' = "exited"
  /\ UNCHANGED <<disabled, http, storeVars, stored, cloud, chanVars, enforcerVars, updaterVars, client>>

(* Only the store and the cloud survive; the handlers are gone, a client   *)
(* that has its revision goes on polling.                                  *)
Restart ==
  /\ server = "exited"
  /\ server' = "initPolicy" /\ http' = "off"
  /\ enforceChan' = 0 /\ updateChan' = 0
  /\ enforcer' = "pass" /\ success' = FALSE /\ work' = [c \in Code |-> NoWork]
  /\ updater' = "pass" /\ task' = [c \in Code |-> NoTask]
  /\ client' = [k \in Client |->
       [client[k] EXCEPT !.step = IF @ \in {"policy", "revision"} THEN "failed" ELSE @,
                         !.handling = FALSE]]
  /\ UNCHANGED <<disabled, storeVars, stored, cloud, cur, faults>>

-----------------------------------------------------------------------------
(* Requests and clients.                                                   *)

(* A request starts from the desired state of the latest policy, which it  *)
(* reads before it takes the mutex.                                        *)
Resolved == policy = "resolved" /\ revisions[Len(revisions)].saved

(* Under the mutex (policyAndRevisionUpdateMutex) the policy is saved, ... *)
ChangePolicy(k) ==
  /\ Running("http")
  /\ client[k].step = "idle" /\ Resolved
  /\ \A l \in Client : client[l].step \notin {"policy", "revision"}
  /\ policy' = "saved"
  /\ client' = [client EXCEPT ![k].step = "policy"]
  /\ UNCHANGED <<serverVars, revisions, stored, cloud, chanVars, enforcerVars, updaterVars, faults>>

(* ... then its revision, ...                                              *)
SaveRevision(k) ==
  /\ Alive
  /\ client[k].step = "policy"
  /\ \E desired \in [Code -> Param \cup {Absent}] : AddRevision(desired)
  /\ client' = [client EXCEPT ![k].step = "revision", ![k].revision = Len(revisions')]
  /\ UNCHANGED <<serverVars, stored, cloud, chanVars, enforcerVars, updaterVars, faults>>

(* ... then the desired state; the response is written before the message  *)
(* is sent.                                                                *)
SaveDesiredState(k) ==
  /\ Alive
  /\ client[k].step = "revision"
  /\ SaveDesired
  /\ client' = [client EXCEPT ![k].step = "polling", ![k].handling = TRUE]
  /\ UNCHANGED <<serverVars, stored, cloud, chanVars, enforcerVars, updaterVars, faults>>

(* The latest policy has no revision, or that has no desired state: a      *)
(* request was interrupted there, or is about to save it.                  *)
RequestFails(k) ==
  /\ Running("http")
  /\ client[k].step = "idle" /\ ~Resolved
  /\ client' = [client EXCEPT ![k].step = "failed"]
  /\ UNCHANGED <<serverVars, storeVars, stored, cloud, chanVars, enforcerVars, updaterVars, faults>>

(* The handler blocks while the channel is full.                           *)
Notify(k) ==
  /\ Alive
  /\ client[k].handling
  /\ enforceChan < EnforceCap
  /\ enforceChan' = enforceChan + 1
  /\ client' = [client EXCEPT ![k].handling = FALSE]
  /\ UNCHANGED <<serverVars, storeVars, stored, cloud, updateChan, enforcerVars, updaterVars, faults>>

(* Variant that is content as soon as the enforcer has the revision.       *)
PollLenient(k) ==
  /\ Running("http")
  /\ client[k].step = "polling"
  /\ revisions[client[k].revision].status # "waiting"
  /\ client' = [client EXCEPT ![k].step = "completed"]
  /\ UNCHANGED <<serverVars, storeVars, stored, cloud, chanVars, enforcerVars, updaterVars, faults>>

(* WaitForRevisionActionsToFinish: completed is what the status says; the  *)
(* enforcer resets it when it retries.                                     *)
Poll(k) ==
  /\ Running("http")
  /\ client[k].step = "polling"
  /\ revisions[client[k].revision].status = "completed"
  /\ client' = [client EXCEPT ![k].step = "completed"]
  /\ UNCHANGED <<serverVars, storeVars, stored, cloud, chanVars, enforcerVars, updaterVars, faults>>

(* maxTime is over.                                                        *)
TimeOut(k) ==
  /\ client[k].step = "polling"
  /\ client' = [client EXCEPT ![k].step = "failed"]
  /\ UNCHANGED <<serverVars, storeVars, stored, cloud, chanVars, enforcerVars, updaterVars, faults>>

-----------------------------------------------------------------------------
(* The desired state enforcer.                                             *)

Unprocessed == {i \in DOMAIN revisions : revisions[i].status # "completed"}

(* The last revision of the latest policy is retried when it has failed.   *)
ForProcessing ==
  IF Unprocessed # {} THEN {Min(Unprocessed)}
  ELSE {i \in DOMAIN revisions :
          i = Len(revisions) /\ policy = "resolved" /\ revisions[i].failed}

Used(instance) == instance # Absent /\ instance.used

(* The first action on a component is decided by its consumers, before and *)
(* after: deleted is what has some and will have none, created what has    *)
(* none and will have some. One of several may come or go.                 *)
Operations(desired, actual) ==
  CASE desired # Absent /\ ~Used(actual) -> {"create"}
    [] desired # Absent /\ Used(actual) /\ desired # actual.params -> {"update"}
    [] desired # Absent /\ Used(actual) /\ desired = actual.params -> {"none", "attach"}
    [] desired = Absent /\ Used(actual) -> {"detach"}
    [] OTHER -> {"none"}

WorkOp == {"none", "create", "update", "attach", "detach", "delete"}

StartPass ==
  /\ Running("enforcer")
  /\ enforcer = "pass"
  /\ \E i \in ForProcessing :
       /\ revisions[i].saved
       /\ cur' = i
       /\ revisions' = [revisions EXCEPT ![i].status = "inprogress", ![i].failed = FALSE]
       /\ work' \in [Code -> {[NoWork EXCEPT !.op = op] : op \in WorkOp}]
       /\ \A c \in Code :
            work'[c].op \in Operations(revisions[i].desired[c], stored[c])
  /\ success' = FALSE
  /\ enforcer' = "applying"
  /\ UNCHANGED <<serverVars, policy, stored, cloud, chanVars, updaterVars, client, faults>>

(* Nothing to process; or a revision without a desired state, which ends   *)
(* the pass; or another error or a panic of the pass, which is logged.     *)
EndPass ==
  /\ Running("enforcer")
  /\ enforcer = "pass"
  /\ \/ (\A i \in ForProcessing : ~revisions[i].saved) /\ UNCHANGED faults
     \/ faults < MaxFaults /\ faults' = faults + 1
  /\ enforcer' = "waiting"
  /\ UNCHANGED <<serverVars, storeVars, stored, cloud, chanVars, cur, success, work, updaterVars, client>>

At(c, ops, step) ==
  Running("enforcer") /\ enforcer = "applying" /\ work[c].op \in ops /\ work[c].step = step

(* What the cloud has after a call that succeeds. Delete calls no plugin   *)
(* when the component has been removed from its service.                   *)
Applied(c) ==
  IF work[c].op = "delete" THEN {NotDeployed, cloud[c]} ELSE {revisions[cur].desired[c]}

(* No plugin updates what is not there. k8sraw does not create what is, in *)
(* part or whole, and helm does not delete what is not: which of the two a *)
(* component has is left open.                                             *)
MustRefuse(c) == work[c].op = "update" /\ cloud[c] = NotDeployed

MayRefuse(c) ==
  \/ work[c].op \in {"update", "delete"} /\ cloud[c] = NotDeployed
  \/ work[c].op = "create" /\ cloud[c] # NotDeployed

CallPlugin(c) ==
  /\ At(c, {"create", "update", "delete"}, "todo")
  /\ ~MustRefuse(c)
  /\ \E deployed \in Applied(c) : cloud' = [cloud EXCEPT ![c] = deployed]
  /\ work' = [work EXCEPT ![c].step = "called"]
  /\ UNCHANGED <<serverVars, storeVars, stored, chanVars, enforcer, cur, success, updaterVars, client, faults>>

ActionFails(c) ==
  /\ work' = [work EXCEPT ![c] = NoWork]
  /\ revisions' = [revisions EXCEPT ![cur].failed = TRUE]

PluginFails(c) ==
  /\ At(c, {"create", "update", "delete"}, "todo")
  /\ \/ MayRefuse(c) /\ UNCHANGED <<cloud, faults>>
     \/ /\ faults < MaxFaults /\ faults' = faults + 1
        /\ \E deployed \in {cloud[c]} \cup Applied(c) :
             cloud' = [cloud EXCEPT ![c] = deployed]
  /\ ActionFails(c)
  /\ UNCHANGED <<serverVars, policy, stored, chanVars, enforcer, cur, success, updaterVars, client>>

(* UpdateComponentInstance, first half: the mutex of this updater is held. *)
Load(c) ==
  /\ At(c, {"attach", "detach"}, "todo") \/ At(c, {"update"}, "called")
  /\ \A d \in Code : work[d].step # "loaded"
  /\ \/ /\ stored[c] # Absent
        /\ work' = [work EXCEPT ![c].step = "loaded", ![c].copy = stored[c]]
        /\ UNCHANGED revisions
     \/ /\ stored[c] = Absent
        /\ ActionFails(c)
  /\ UNCHANGED <<serverVars, policy, stored, cloud, chanVars, enforcer, cur, success, updaterVars, client, faults>>

(* An action on a component is over; Delete comes after Detach, and the    *)
(* new consumers are attached after Create and Update.                     *)
NextOps(c) ==
  CASE work[c].op = "detach" -> {"delete"}
    [] work[c].op = "create" -> {"attach"}
    [] work[c].op = "update" -> {"none", "attach"}
    [] OTHER -> {"none"}

(* What the action makes of the instance in the store.                     *)
Result(c) ==
  CASE work[c].op = "create" ->
         [params |-> revisions[cur].desired[c], used |-> TRUE,
          upToDate |-> FALSE, endpoints |-> NotDeployed]
    [] work[c].op = "update" ->
         [work[c].copy EXCEPT !.params = revisions[cur].desired[c], !.upToDate = FALSE]
    [] work[c].op = "attach" -> [work[c].copy EXCEPT !.used = TRUE]
    [] work[c].op = "detach" -> [work[c].copy EXCEPT !.used = FALSE]
    [] work[c].op = "delete" -> Absent

Save(c) ==
  /\ At(c, {"create", "delete"}, "called") \/ At(c, {"update", "attach", "detach"}, "loaded")
  /\ stored' = [stored EXCEPT ![c] = Result(c)]
  /\ \E op \in NextOps(c) : work' = [work EXCEPT ![c] = [NoWork EXCEPT !.op = op]]
  /\ success' = TRUE
  /\ UNCHANGED <<serverVars, storeVars, cloud, chanVars, enforcer, cur, updaterVars, client, faults>>

(* Variant that gives a revision with failed actions the error status.     *)
FinishInError ==
  /\ Running("enforcer")
  /\ enforcer = "applying"
  /\ \A c \in Code : work[c].op = "none"
  /\ revisions' = [revisions EXCEPT ![cur].status = IF @ = "inprogress" /\ revisions[cur].failed
                     THEN "error" ELSE "completed", ![cur].applied = TRUE]
  /\ enforcer' = IF success THEN "notifySelf" ELSE "waiting"
  /\ UNCHANGED <<serverVars, policy, stored, cloud, chanVars, cur, success, work, updaterVars, client, faults>>

Finish ==
  /\ Running("enforcer")
  /\ enforcer = "applying"
  /\ \A c \in Code : work[c].op = "none"
  /\ revisions' = [revisions EXCEPT ![cur].status = "completed", ![cur].applied = TRUE]
  /\ enforcer' = IF success THEN "notifySelf" ELSE "waiting"
  /\ UNCHANGED <<serverVars, policy, stored, cloud, chanVars, cur, success, work, updaterVars, client, faults>>

(* The enforcer is the only reader of the channel it sends to.             *)
NotifySelf ==
  /\ Running("enforcer")
  /\ enforcer = "notifySelf"
  /\ enforceChan < EnforceCap
  /\ enforceChan' = enforceChan + 1
  /\ enforcer' = "notifyUpdater"
  /\ UNCHANGED <<serverVars, storeVars, stored, cloud, updateChan, cur, success, work, updaterVars, client, faults>>

(* Variant that sends to its own channel again.                            *)
NotifySelfTwice ==
  /\ Running("enforcer")
  /\ enforcer = "notifyUpdater"
  /\ enforceChan < EnforceCap
  /\ enforceChan' = enforceChan + 1
  /\ enforcer' = "waiting"
  /\ UNCHANGED <<serverVars, storeVars, stored, cloud, updateChan, cur, success, work, updaterVars, client, faults>>

NotifyUpdater ==
  /\ Running("enforcer")
  /\ enforcer = "notifyUpdater"
  /\ updateChan < UpdateCap
  /\ updateChan' = updateChan + 1
  /\ enforcer' = "waiting"
  /\ UNCHANGED <<serverVars, storeVars, stored, cloud, enforceChan, cur, success, work, updaterVars, client, faults>>

EnforcerNotified ==
  /\ Running("enforcer")
  /\ enforcer = "waiting"
  /\ enforceChan > 0
  /\ enforceChan' = enforceChan - 1
  /\ enforcer' = "pass"
  /\ UNCHANGED <<serverVars, storeVars, stored, cloud, updateChan, cur, success, work, updaterVars, client, faults>>

(* Variant without the timer.                                              *)
EnforcerNeverTimed == FALSE /\ UNCHANGED vars

(* The timer is made for this wait: with a message in the channel it is    *)
(* not the one that is ready.                                              *)
EnforcerTimer ==
  /\ Running("enforcer")
  /\ enforcer = "waiting"
  /\ enforceChan = 0
  /\ enforcer' = "pass"
  /\ UNCHANGED <<serverVars, storeVars, stored, cloud, chanVars, cur, success, work, updaterVars, client, faults>>

-----------------------------------------------------------------------------
(* The actual state updater: endpoints of what has been deployed.          *)

StartRefresh ==
  /\ Running("updater")
  /\ updater = "pass"
  /\ task' = [c \in Code |-> [NoTask EXCEPT !.step =
       IF stored[c] # Absent /\ ~stored[c].upToDate THEN "todo" ELSE "none"]]
  /\ updater' = "refreshing"
  /\ UNCHANGED <<serverVars, storeVars, stored, cloud, chanVars, enforcerVars, client, faults>>

TaskAt(c, step) == Running("updater") /\ updater = "refreshing" /\ task[c].step = step

Busy == {c \in Code : task[c].step \in {"asked", "loaded"}}

(* The plugin is asked under the semaphore, outside of any lock.           *)
AskEndpoints(c) ==
  /\ TaskAt(c, "todo")
  /\ Cardinality(Busy) < MaxConcurrentActions
  /\ \/ /\ cloud[c] # NotDeployed
        /\ task' = [task EXCEPT ![c].step = "asked", ![c].answer = cloud[c]]
        /\ UNCHANGED faults
     \/ /\ task' = [task EXCEPT ![c] = NoTask]
        /\ \/ cloud[c] = NotDeployed /\ UNCHANGED faults
           \/ faults < MaxFaults /\ faults' = faults + 1
  /\ UNCHANGED <<serverVars, storeVars, stored, cloud, chanVars, enforcerVars, updater, client>>

LoadForEndpoints(c) ==
  /\ TaskAt(c, "asked")
  /\ \A d \in Code : task[d].step # "loaded"
  /\ task' = [task EXCEPT ![c] = IF stored[c] = Absent THEN NoTask
                                 ELSE [@ EXCEPT !.step = "loaded", !.copy = stored[c]]]
  /\ UNCHANGED <<serverVars, storeVars, stored, cloud, chanVars, enforcerVars, updater, client, faults>>

SaveEndpoints(c) ==
  /\ TaskAt(c, "loaded")
  /\ stored' = [stored EXCEPT ![c] =
       [task[c].copy EXCEPT !.upToDate = TRUE, !.endpoints = task[c].answer]]
  /\ task' = [task EXCEPT ![c] = NoTask]
  /\ UNCHANGED <<serverVars, storeVars, cloud, chanVars, enforcerVars, updater, client, faults>>

RefreshDone ==
  /\ Running("updater")
  /\ updater = "refreshing"
  /\ \A c \in Code : task[c].step = "none"
  /\ updater' = "waiting"
  /\ UNCHANGED <<serverVars, storeVars, stored, cloud, chanVars, enforcerVars, task, client, faults>>

UpdaterNotified ==
  /\ Running("updater")
  /\ updater = "waiting"
  /\ updateChan > 0
  /\ updateChan' = updateChan - 1
  /\ updater' = "pass"
  /\ UNCHANGED <<serverVars, storeVars, stored, cloud, enforceChan, enforcerVars, task, client, faults>>

(* Variant without the timer.                                              *)
UpdaterNeverTimed == FALSE /\ UNCHANGED vars

UpdaterTimer ==
  /\ Running("updater")
  /\ updater = "waiting"
  /\ updateChan = 0
  /\ updater' = "pass"
  /\ UNCHANGED <<serverVars, storeVars, stored, cloud, chanVars, enforcerVars, task, client, faults>>

-----------------------------------------------------------------------------

Enforce ==
  \/ StartPass \/ EndPass
  \/ \E c \in Code : CallPlugin(c) \/ PluginFails(c) \/ Load(c) \/ Save(c)
  \/ Finish \/ NotifySelf \/ NotifyUpdater \/ EnforcerNotified \/ EnforcerTimer

Refresh ==
  \/ StartRefresh
  \/ \E c \in Code : AskEndpoints(c) \/ LoadForEndpoints(c) \/ SaveEndpoints(c)
  \/ RefreshDone \/ UpdaterNotified \/ UpdaterTimer

Main == InitPolicy \/ StartJobs \/ Wait

Environment ==
  \/ HTTPFails \/ Killed \/ Restart
  \/ \E k \in Client : ChangePolicy(k) \/ RequestFails(k) \/ Notify(k) \/ Poll(k) \/ TimeOut(k)

Handle == \E k \in Client : SaveRevision(k) \/ SaveDesiredState(k)

Next == Main \/ Enforce \/ Refresh \/ Handle \/ Environment

Spec == Init /\ [][Next]_vars

(* The goroutines of the server run, those that are in the middle of a     *)
(* request included. Nobody has to send requests, to fail or to restart    *)
(* the server, and no property needs the message of a handler: it may wait *)
(* for room in the channel for ever.                                       *)
FairSpec == Spec /\ WF_vars(Main) /\ WF_vars(Enforce) /\ WF_vars(Refresh) /\ WF_vars(Handle)

-----------------------------------------------------------------------------

(* What the variables hold.                                                *)
RevisionRecord ==
  [desired : [Code -> Param \cup {Absent}], saved : BOOLEAN,
   status : {"waiting", "inprogress", "completed"}, failed : BOOLEAN, applied : BOOLEAN]

WorkRecord ==
  [op : WorkOp, step : {"todo", "called", "loaded"}, copy : Instance \cup {Absent}]

TaskRecord ==
  [step : {"none", "todo", "asked", "loaded"}, answer : Param \cup {NotDeployed},
   copy : Instance \cup {Absent}]

ClientRecord ==
  [step : {"idle", "policy", "revision", "polling", "completed", "failed"}, revision : Nat,
   handling : BOOLEAN]

TypeOK ==
  /\ disabled \in Configurations /\ http \in {"off", "serving", "failed", "reported"}
  /\ server \in {"initPolicy", "initRevision", "initDesired", "startHTTP", "startEnforcer",
                 "startUpdater", "wait", "exited"}
  /\ policy \in {"none", "saved", "resolved"}
  /\ revisions \in Seq(RevisionRecord)
  /\ stored \in [Code -> Instance \cup {Absent}]
  /\ cloud \in [Code -> Param \cup {NotDeployed}]
  /\ enforceChan \in 0..EnforceCap /\ updateChan \in 0..UpdateCap
  /\ enforcer \in {"pass", "applying", "notifySelf", "notifyUpdater", "waiting"}
  /\ cur \in Nat /\ success \in BOOLEAN
  /\ work \in [Code -> WorkRecord]
  /\ updater \in {"pass", "refreshing", "waiting"}
  /\ task \in [Code -> TaskRecord]
  /\ client \in [Client -> ClientRecord]
  /\ \A k \in Client : client[k].revision <= Len(revisions)
  /\ faults \in 0..MaxFaults

IsApplied(i) == i \in DOMAIN revisions /\ revisions[i].applied

(* When aptomictl reports its revision as completed, that revision and all *)
(* the earlier ones have been applied (common.go:59, "exit when revision   *)
(* is in completed or error status"), although the enforcer resets the     *)
(* status of a revision it retries and the server may have restarted.      *)
CompletedIsApplied ==
  \A k \in Client : client[k].step = "completed" =>
    \A i \in 1..client[k].revision : IsApplied(i)

(* The enforcer has filled the channel of an updater that does not run.    *)
Wedged ==
  enforcer = "notifyUpdater" /\ updateChan = UpdateCap /\ "updater" \in disabled

(* The enforcer waits for room in the channel that only it empties:        *)
(* requests have filled it during its pass.                                *)
WaitsForItself == enforcer = "notifySelf" /\ enforceChan = EnforceCap

(* A send of the enforcer (desired_state_enforcer.go:180-185) only ever    *)
(* waits for good in the two cases that the code leaves open: its own      *)
(* channel is full of the messages of requests, or that of the updater is  *)
(* full and the updater disabled, so that nobody empties it.               *)
EnforcerGetsThrough ==
  enforcer \in {"notifySelf", "notifyUpdater"} ~>
    enforcer = "waiting" \/ ~Alive \/ Wedged \/ WaitsForItself

(* Somebody is about to save a desired state.                              *)
Saving == server = "initDesired" \/ \E k \in Client : client[k].step = "revision"

(* The server died between the two saves of NewRevision: the enforcer      *)
(* fails on that revision for ever (desired_state_enforcer.go:130) and     *)
(* never comes to a later one.                                             *)
BlockedBefore(i) ==
  ~Saving /\ \E j \in DOMAIN revisions : j <= i /\ ~revisions[j].saved

(* Every revision in the store is applied: the one whose message never     *)
(* reached the channel because the server died, the one that arrives       *)
(* while the enforcer is in a pass, the one whose pass panics. What keeps  *)
(* it from being applied is named: a server that has ended, an enforcer    *)
(* that is disabled or waits for good in a send, and the death of a server *)
(* between the two saves of it or of an earlier revision.                  *)
RevisionsApplied ==
  \A i \in 1..(Cardinality(Client) + 2) :
    i \in DOMAIN revisions ~>
      \/ IsApplied(i)
      \/ ~Alive \/ "enforcer" \in disabled \/ Wedged \/ WaitsForItself
      \/ BlockedBefore(i)

Consumed(c) == Used(stored[c])

(* "invalidate endpoints, so we retrieve them again later" (update.go:64): *)
(* the endpoints of an instance that keeps its consumers are retrieved in  *)
(* the end, however plugins fail and whichever loop overwrites whose       *)
(* instance.                                                               *)
EndpointsRetrieved ==
  \A c \in Code :
    Running("updater") /\ Consumed(c) ~>
      ~Consumed(c) \/ stored[c].upToDate \/ ~Alive

(* The failure of the HTTP server ends the process (background.go:30-33),  *)
(* also when it fails before Start has come to wait for it.                *)
FailureStopsServer == http = "failed" ~> server = "exited"

Idle ==
  /\ Unprocessed = {} /\ ForProcessing = {}
  /\ enforcer = "waiting" /\ updater = "waiting"

(* The same comment, update.go:64, as a state: with both loops waiting and *)
(* nothing left to process, the endpoints marked as up to date are those   *)
(* of what is deployed. Not so in the code: endpoints asked before an      *)
(* update and saved after it are marked up to date and stay.               *)
EndpointsOfDeployment ==
  Idle => \A c \in Code :
    stored[c] # Absent /\ stored[c].upToDate => stored[c].endpoints = cloud[c]

=============================================================================
