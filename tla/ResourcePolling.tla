--------------------------- MODULE ResourcePolling ---------------------------
(***************************************************************************)
(* What a template's status says about vSphere: shouldPollResources and    *)
(* reconcileResourceUtilization of controllers/vmwarenodepooltemplate_     *)
(* controller.go with GetResourceUtilization of pkg/vsphere/resources.go,  *)
(* in the order in which reconcileNormal calls them: the utilization is    *)
(* polled before the pass has read how many VMs are wanted and has         *)
(* counted those there are, and not in every pass.                         *)
(*                                                                         *)
(* The pass begins with the cached template, which may lag behind, and its *)
(* status is refused when the template has changed since.  Time is here    *)
(* the passing of the polling interval.  What reconcileVMs does one by one *)
(* (VMScaling) is here one step: only the number of VMs counts.            *)
(***************************************************************************)
EXTENDS Capacity

CONSTANTS
  Specs,            \* the specs users give the template
  Scenes,           \* the states vSphere may be in
  MaxReplicas,      \* bound on the replicas users ask for
  Kinds,            \* the disturbances that may happen
  MaxDisturbances   \* bound on how many of them happen in a behaviour

Unset == -1         \* an optional number that is not set

VARIABLES
  replicas,    \* the replicas of the NodePool
  scene,       \* vSphere: what is present, and its utilization
  vms,         \* how many VMs the template has
  stored,      \* the template at the API server
  cached,      \* the template in the informer's cache
  synced,      \* the cached template is the stored one
  pc,          \* the next call of the pass, or "idle"
  mem,         \* the pass's copy of the template
  memFresh,    \* the stored template has not changed since it was read
  disturbances \* disturbances left

world   == <<replicas, scene, vms>>
cluster == <<stored, cached, synced>>
vars    == <<world, cluster, pc, mem, memFresh, disturbances>>

\* What a spec names beside datacenter, datastore and network, which it must.
Optional  == {"cluster", "resourcePool", "folder"}
Resources == {"datacenter", "datastore", "network"} \cup Optional

\* vmTemplate's sizes and resources, useEffectiveCapacity, quota.
SpecType == [vm: VMSize, named: SUBSET Optional, effective: BOOLEAN,
             maxVms: Int, softMaxVms: Int]

\* A resource pool has a limit and a use; a cluster also keeps some of what it
\* has for failures.  In MHz, GB and MB: what vSphere gives in bytes (storage, a
\* cluster's total memory, a pool's memory) is here as the code rounds it down.
\* The effective memory of a cluster vSphere gives in MB.
Limit == [limit: Nat, used: Nat]

SceneType == [present: SUBSET Resources, disk: Nat,
              cluster: [cpu: Amount, memory: Amount],
              pool: [cpu: Limit, memory: Limit]]

ASSUME SpecsAssumption == Specs \subseteq SpecType
ASSUME ScenesAssumption == Scenes \subseteq SceneType
ASSUME BoundsAssumption == MaxReplicas \in Nat /\ MaxDisturbances \in Nat

Truth == {"unset", "True", "False"}

\* status.resourceUtilization: whether it is there, whether it is younger than
\* the polling interval, and the estimate in it.
Utilization == [made: BOOLEAN, recent: BOOLEAN, estimate: Nat]

NoUtilization == [made |-> FALSE, recent |-> FALSE, estimate |-> 0]

Conditions == {"VSphereConnected", "ResourcesValidated", "ResourcesAvailable",
               "QuotaAvailable"}

\* The template: its spec, whether the nodepool-ref annotation is the spec's
\* reference, and its status.
Template == [spec: Specs, annotated: BOOLEAN, desired: Nat, current: Nat,
             utilization: Utilization, conditions: [Conditions -> Truth]]

\* Utilization that is young is there.
WellFormed(t) == t \in Template /\ (t.utilization.recent => t.utilization.made)

NewTemplate(spec) ==
  [spec |-> spec, annotated |-> FALSE, desired |-> 0, current |-> 0,
   utilization |-> NoUtilization, conditions |-> [c \in Conditions |-> "unset"]]

Steps == {"idle", "connect", "poll", "replicas", "annotate", "vms", "write"}

TypeOK ==
  /\ replicas \in 0..MaxReplicas /\ scene \in Scenes /\ vms \in Nat
  /\ WellFormed(stored) /\ WellFormed(cached) /\ WellFormed(mem)
  /\ synced \in BOOLEAN /\ memFresh \in BOOLEAN
  /\ pc \in Steps
  /\ disturbances \in 0..MaxDisturbances

-----------------------------------------------------------------------------
Disturb(kind) ==
  /\ kind \in Kinds
  /\ disturbances > 0
  /\ disturbances' = disturbances - 1

Calm == UNCHANGED disturbances

At(step) == pc = step
Goto(step) == pc' = step

EndPass == Goto("idle") /\ mem' = cached /\ memFresh' = FALSE

-----------------------------------------------------------------------------
\* What a poll finds, and what it says of it.

\* Slip: one poll is enough.
DueOnce(t) == ~t.utilization.made

\* shouldPollResources.
Due(t) == t.utilization.made => ~t.utilization.recent

\* A resource pool's utilization: effectively there is all of the limit.
OfPool(limit) == [total |-> limit.limit, effective |-> limit.limit, used |-> limit.used]

\* GetClusterUtilization takes the effective memory for bytes, like the total.
OfCluster(measured) ==
  [measured EXCEPT !.memory.effective = @ \div (1024 * 1024)]

\* GetComputeUtilization: of the resource pool when one is named.
Compute(spec, part) ==
  IF "resourcePool" \in spec.named THEN OfPool(scene.pool[part])
  ELSE OfCluster(scene.cluster)[part]

\* Utilization can be had of a datastore and of the pool or cluster that is
\* named.
Queryable(spec) ==
  /\ "datastore" \in scene.present
  /\ IF "resourcePool" \in spec.named THEN "resourcePool" \in scene.present
     ELSE "cluster" \in spec.named \cap scene.present

UtilizationOf(spec) ==
  [disk |-> scene.disk, cpu |-> Compute(spec, "cpu"), memory |-> Compute(spec, "memory")]

EstimateFor(spec) == Estimate(UtilizationOf(spec), spec.vm, spec.effective)

\* Slip: the folder, which is created when it is needed, is required too.
RequiredWithFolder(spec) == {"datacenter", "datastore", "network"} \cup spec.named

\* All a spec names must exist, but the folder.
Required(spec) == {"datacenter", "datastore", "network"} \cup (spec.named \ {"folder"})

\* IsMaxVmsReached.
QuotaReached(spec, current) == spec.maxVms # Unset /\ current >= spec.maxVms

\* Slip: only the pass that is stopped by the hard limit speaks of it.
SoftQuotaLow(spec, current, desired) ==
  spec.softMaxVms # Unset /\ desired >= spec.softMaxVms

QuotaLow(spec, current, desired) ==
  QuotaReached(spec, current) \/ (spec.softMaxVms # Unset /\ desired >= spec.softMaxVms)

Says(b) == IF b THEN "True" ELSE "False"

\* The results of a poll: desired and current are those of an earlier pass.
Polled(t) ==
  [t EXCEPT
     !.utilization = [made |-> TRUE, recent |-> TRUE, estimate |-> EstimateFor(t.spec)],
     !.conditions["ResourcesValidated"] = Says(Required(t.spec) \subseteq scene.present),
     !.conditions["ResourcesAvailable"] = Says(EstimateFor(t.spec) >= t.desired),
     !.conditions["QuotaAvailable"] = Says(~QuotaLow(t.spec, t.current, t.desired))]

\* The response to the annotation's Update is decoded into the pass's template:
\* what is there of the stored status replaces what the pass has found.
Decoded(t) ==
  [t EXCEPT
     !.annotated = TRUE,
     !.desired = IF stored.desired # 0 THEN stored.desired ELSE @,
     !.current = IF stored.current # 0 THEN stored.current ELSE @,
     !.utilization = IF stored.utilization.made THEN stored.utilization ELSE @,
     !.conditions = IF \A c \in Conditions : stored.conditions[c] = "unset" THEN @
                    ELSE stored.conditions]

-----------------------------------------------------------------------------
Init ==
  /\ replicas \in 0..MaxReplicas /\ scene \in Scenes /\ vms = 0
  /\ \E spec \in Specs : stored = NewTemplate(spec)
  /\ cached = stored /\ synced = TRUE
  /\ pc = "idle" /\ mem = stored /\ memFresh = FALSE
  /\ disturbances = MaxDisturbances

\* Reconcile gets the template from the cache.
Begin ==
  /\ At("idle") /\ Goto("connect")
  /\ mem' = cached /\ memFresh' = synced
  /\ Calm /\ UNCHANGED <<world, cluster>>

\* Credentials, client, datacenter and Validate.
Connect ==
  /\ At("connect")
  /\ \/ /\ Calm /\ Goto("poll")
        /\ mem' = [mem EXCEPT !.conditions["VSphereConnected"] = "True"]
     \/ /\ Disturb("connect") /\ Goto("write")
        /\ mem' = [mem EXCEPT !.conditions["VSphereConnected"] = "False"]
  /\ UNCHANGED <<world, cluster, memFresh>>

\* reconcileResourceUtilization: a failure is noted in one condition and else
\* does not matter.
Poll ==
  /\ At("poll") /\ Goto("replicas")
  /\ \/ ~Due(mem) /\ Calm /\ UNCHANGED mem
     \/ Due(mem) /\ Queryable(mem.spec) /\ Calm /\ mem' = Polled(mem)
     \/ /\ Due(mem)
        /\ IF Queryable(mem.spec) THEN Disturb("query") ELSE Calm
        /\ mem' = [mem EXCEPT !.conditions["ResourcesValidated"] = "False"]
  /\ UNCHANGED <<world, cluster, memFresh>>

\* The NodePool says how many VMs are wanted.
Replicas ==
  /\ At("replicas")
  /\ \/ Calm /\ Goto("annotate") /\ mem' = [mem EXCEPT !.desired = replicas]
     \/ Disturb("poolRead") /\ Goto("write") /\ UNCHANGED mem
  /\ UNCHANGED <<world, cluster, memFresh>>

\* setNodePoolRefAnnotation, whose failure does not matter.
Annotate ==
  /\ At("annotate") /\ Goto("vms")
  /\ \/ /\ ~mem.annotated /\ memFresh /\ Calm
        /\ stored' = [stored EXCEPT !.annotated = TRUE] /\ synced' = FALSE
        /\ mem' = Decoded(mem)
     \/ /\ IF ~mem.annotated /\ memFresh THEN Disturb("annotationWrite") ELSE Calm
        /\ UNCHANGED <<stored, synced, mem>>
  /\ UNCHANGED <<world, cached, memFresh>>

\* How many VMs the quota leaves to be made.
Room(t) ==
  IF t.spec.maxVms # Unset /\ t.desired > t.spec.maxVms THEN t.spec.maxVms - vms
  ELSE t.desired - vms

\* reconcileVMs: VMs are counted, and made when there are too few, though any
\* of them may fail; the quota has a word here too.
ReconcileVMs ==
  /\ At("vms") /\ Goto("write")
  /\ \/ vms >= mem.desired /\ Calm /\ mem' = [mem EXCEPT !.current = vms] /\ UNCHANGED vms
     \/ /\ vms < mem.desired /\ QuotaReached(mem.spec, vms) /\ Calm /\ UNCHANGED vms
        /\ mem' = [mem EXCEPT !.current = vms, !.conditions["QuotaAvailable"] = "False"]
     \/ /\ vms < mem.desired /\ ~QuotaReached(mem.spec, vms) /\ Calm
        /\ \E made \in 0..Room(mem) :
             vms' = vms + made /\ mem' = [mem EXCEPT !.current = vms + made]
     \/ Disturb("list") /\ UNCHANGED <<vms, mem>>
  /\ UNCHANGED <<replicas, scene, cluster, memFresh>>

\* Slip: the status is written without the version it belongs to.
AcceptedBlindly == TRUE

StatusAccepted == memFresh

\* Status().Update.
WriteStatus ==
  /\ At("write")
  /\ \/ /\ StatusAccepted /\ Calm
        /\ stored' = [mem EXCEPT !.spec = stored.spec, !.annotated = stored.annotated]
        /\ synced' = FALSE
     \/ (IF StatusAccepted THEN Disturb("statusWrite") ELSE Calm) /\ UNCHANGED <<stored, synced>>
  /\ EndPass
  /\ UNCHANGED <<world, cached>>

\* The process dies and is started again.
Crash ==
  /\ ~At("idle") /\ Disturb("crash") /\ EndPass
  /\ UNCHANGED <<world, cluster>>

Pass == Begin \/ Connect \/ Poll \/ Replicas \/ Annotate \/ ReconcileVMs \/ WriteStatus

-----------------------------------------------------------------------------
\* The environment.

SyncCache ==
  /\ ~synced /\ cached' = stored /\ synced' = TRUE
  /\ mem' = (IF At("idle") THEN stored ELSE mem)
  /\ Calm /\ UNCHANGED <<world, stored, pc, memFresh>>

\* The polling interval has passed since the last poll.
Elapse ==
  LET Aged(t) == [t EXCEPT !.utilization.recent = FALSE]
  IN  /\ \E t \in {stored, cached, mem} : t.utilization.recent
      /\ stored' = Aged(stored) /\ cached' = Aged(cached) /\ mem' = Aged(mem)
      /\ Calm /\ UNCHANGED <<world, synced, pc, memFresh>>

\* A user edits the spec, perhaps also the reference to the NodePool.
EditTemplate ==
  /\ Disturb("edit")
  /\ \E spec \in Specs, annotated \in BOOLEAN :
       /\ annotated => stored.annotated
       /\ stored' = [stored EXCEPT !.spec = spec, !.annotated = annotated]
  /\ synced' = FALSE /\ memFresh' = FALSE
  /\ UNCHANGED <<world, cached, pc, mem>>

\* A user scales the NodePool.
Scale ==
  /\ Disturb("scale")
  /\ replicas' \in 0..MaxReplicas \ {replicas}
  /\ UNCHANGED <<scene, vms, cluster, pc, mem, memFresh>>

\* Administrators and other users of vSphere change what there is.
ChangeScene ==
  /\ Disturb("scene")
  /\ scene' \in Scenes \ {scene}
  /\ UNCHANGED <<replicas, vms, cluster, pc, mem, memFresh>>

\* An administrator or an Agent's finalizer removes a VM.
LoseVM ==
  /\ vms > 0 /\ Disturb("loseVM") /\ vms' = vms - 1
  /\ UNCHANGED <<replicas, scene, cluster, pc, mem, memFresh>>

Environment == SyncCache \/ Elapse \/ EditTemplate \/ Scale \/ ChangeScene \/ LoseVM

Next == Pass \/ Crash \/ Environment

Spec == Init /\ [][Next]_vars

\* A pass ends in a requeue after a fixed time, the informer catches up, and
\* time goes by.
Fairness == WF_vars(Pass) /\ WF_vars(SyncCache) /\ WF_vars(Elapse)

FairSpec == Spec /\ Fairness

-----------------------------------------------------------------------------
\* Properties.

\* "Poll if enough time has passed since last update" (vmwarenodepooltemplate_
\* controller.go:801): the published results of a poll are replaced by those of
\* another only after the interval, although passes begin with templates that
\* lag behind and are lost on the way.  (Queries that fail publish nothing, and
\* every pass repeats them.)
PollsSpaced ==
  [][(stored'.utilization # stored.utilization /\ stored'.utilization.recent)
       => ~stored.utilization.recent]_vars

\* "ResourcesValidated: True when all resources exist" (docs/resource-
\* utilization.md:140): so it is in the end, and False also when there is no
\* pool or cluster of which to get the utilization.
ValidatedSettles ==
  <>[](stored.conditions["ResourcesValidated"] =
         Says(/\ Queryable(stored.spec)
              /\ \A r \in (Resources \ Optional) \cup stored.spec.named :
                   r = "folder" \/ r \in scene.present))

\* What there really is for a spec.
ActualFor(spec) ==
  [disk |-> scene.disk,
   cpu    |-> IF "resourcePool" \in spec.named THEN OfPool(scene.pool.cpu) ELSE scene.cluster.cpu,
   memory |-> IF "resourcePool" \in spec.named THEN OfPool(scene.pool.memory)
              ELSE scene.cluster.memory]

\* So many VMs really fit for the stored spec.
Enough(k) == Fits(k, ActualFor(stored.spec), stored.spec.vm, stored.spec.effective)

\* Of the memory that a cluster effectively has only a millionth is seen.
Misread(spec) == spec.effective /\ "resourcePool" \notin spec.named

\* As long as vSphere can be queried the estimate becomes that of the present
\* spec and utilization, and ResourcesAvailable compares it with the present
\* desired count, although each poll knows only that of an earlier pass.  No
\* more is promised than fits; that as many are holds but for the effective
\* capacity of a cluster, whose memory is misread.
EstimateSettles ==
  <>[](Queryable(stored.spec) =>
         LET k == stored.utilization.estimate
         IN  /\ Enough(k) /\ (Enough(k + 1) => Misread(stored.spec))
             /\ stored.conditions["ResourcesAvailable"] = Says(k >= replicas))

\* "Uses: Effective Capacity - Used" (docs/resource-utilization.md:87), with the
\* "effective memory after HA/DRS overhead" (line 28): the estimate becomes the
\* largest number of VMs that fit, also in what a cluster effectively has.
EffectiveCapacityTold ==
  <>[](Queryable(stored.spec) => ~Enough(stored.utilization.estimate + 1))

\* QuotaAvailable becomes False exactly when the VMs have reached the hard limit
\* or the replicas asked for the soft one, whichever of the poll and the pass
\* that is stopped by the limit has written last.  (The soft limit is compared
\* with the desired count, as at vmwarenodepooltemplate_controller.go:887; the
\* comment on SoftMaxVms, types.go:177, speaks of the estimated capacity.)
QuotaSettles ==
  <>[](Queryable(stored.spec) =>
         (stored.conditions["QuotaAvailable"] = "False"
            <=> stored.spec.maxVms \in 0..vms \/ stored.spec.softMaxVms \in 0..replicas))
=============================================================================
