------------------------------ MODULE VMScaling ------------------------------
(***************************************************************************)
(* One VMwareNodePoolTemplate and the VMs it provisions: the reconcile     *)
(* pass of controllers/vmwarenodepooltemplate_controller.go                *)
(* (reconcileNormal) with controllers/vm_reconcile.go (reconcileVMs) and   *)
(* controllers/nodepool.go.  A pass is one action per call it makes to the *)
(* Kubernetes API or to vSphere, so that users, vSphere administrators,    *)
(* API failures, the informer cache and restarts act between any two.      *)
(*                                                                         *)
(* The manager has one worker, so passes never overlap.  Templates are     *)
(* read from the informer's cache, which may lag; NodePools are read live; *)
(* an Update carries the resource version that was read and fails when the *)
(* object has changed since.                                               *)
(*                                                                         *)
(* Left to other modules: the Agents and the VMs' removal through them (a  *)
(* VM's removal is here a step of the environment), the finalizers, how    *)
(* the ISO is prepared (here it is ready or not), utilization polling.     *)
(***************************************************************************)
EXTENDS Integers, FiniteSets

CONSTANTS
  Pools,            \* the NodePools
  NoPool,           \* spec.nodePoolRef is not set
  MaxReplicas,      \* bound on the replicas users ask for
  Numbers,          \* the node numbers X of the names "<prefix>-n0X"
  HasQuota,         \* spec.quota.maxVms is set ...
  MaxVms,           \* ... to this value
  Kinds,            \* the disturbances that may happen
  MaxDisturbances   \* bound on how many of them happen in a behaviour

Unset == -1         \* an optional number that is not set

ASSUME NoPoolAssumption == NoPool \notin Pools
ASSUME BoundsAssumption == MaxReplicas \in Nat /\ MaxDisturbances \in Nat
ASSUME NumbersAssumption ==
  Numbers \subseteq Nat \ {0} /\ \A n \in Numbers : 1..n \subseteq Numbers
ASSUME QuotaAssumption == HasQuota \in BOOLEAN /\ MaxVms \in Int

VARIABLES
  pools,       \* the NodePools: phase, spec.replicas, matchLabels set or not
  stored,      \* the template at the API server
  cached,      \* the template in the informer's cache
  cacheFresh,  \* the cached template is the stored one
  owned,       \* numbers of the VMs in the folder tagged with this template
  running,     \* the owned VMs that are powered on
  squatted,    \* numbers of the VMs of that name without tag or with another
  pc,          \* the next call of the pass, or "idle"
  mem,         \* the pass's copy of the template
  memFresh,    \* the stored template has not changed since it was read
  poolFresh,   \* the NodePool has not changed since it was read
  asked,       \* the replicas the pass read from the NodePool or the spec
  view,        \* currentVMs: the numbers of the VMs the pass knows of
  viewOn,      \* those seen powered on
  todo,        \* creations left in the loop
  disturbances \* disturbances left

cluster == <<pools, stored, cached, cacheFresh>>
vsphere == <<owned, running, squatted>>
fresh   == <<memFresh, poolFresh>>
lists   == <<view, viewOn>>
vars    == <<cluster, vsphere, pc, mem, fresh, asked, lists, todo, disturbances>>

PoolState == [phase: {"live", "deleting", "gone"},
              replicas: Unset..MaxReplicas, labelled: BOOLEAN]

\* The fields of the template that a pass reads or writes: spec.nodePoolRef,
\* spec.replicas (Unset unless testMode), the nodepool-ref annotation, the
\* status counters and whether the Ready condition is True.
Template == [ref: Pools \cup {NoPool}, test: Unset..MaxReplicas,
             annotation: Pools \cup {NoPool},
             desired: Nat, current: Nat, ready: Nat, allReady: BOOLEAN]

NewTemplate(ref) ==
  [ref |-> ref, test |-> Unset, annotation |-> NoPool,
   desired |-> 0, current |-> 0, ready |-> 0, allReady |-> FALSE]

Steps == {"idle", "connect", "replicas", "label", "annotate", "list",
          "decide", "create", "finish", "writeBack"}

TypeOK ==
  /\ pools \in [Pools -> PoolState]
  /\ stored \in Template /\ cached \in Template /\ mem \in Template
  /\ cacheFresh \in BOOLEAN /\ memFresh \in BOOLEAN /\ poolFresh \in BOOLEAN
  /\ owned \in SUBSET Numbers /\ squatted \in SUBSET Numbers
  /\ running \in SUBSET owned
  /\ pc \in Steps
  /\ asked \in Unset..MaxReplicas
  /\ view \in SUBSET Numbers /\ viewOn \in SUBSET view
  /\ todo \in Nat
  /\ disturbances \in 0..MaxDisturbances

-----------------------------------------------------------------------------
\* A disturbance of the given kind happens.  A step that may fail on its own
\* accounts for the failure with Disturb and for success with Calm.
Disturb(kind) ==
  /\ kind \in Kinds
  /\ disturbances > 0
  /\ disturbances' = disturbances - 1

Calm == UNCHANGED disturbances

At(step) == pc = step

\* The pass goes on with the given call.
Goto(step) == pc' = step

\* The pass is over: what it held in memory is gone.
EndPass ==
  /\ pc' = "idle"
  /\ mem' = NewTemplate(NoPool)
  /\ memFresh' = FALSE /\ poolFresh' = FALSE
  /\ asked' = 0
  /\ view' = {} /\ viewOn' = {}
  /\ todo' = 0

-----------------------------------------------------------------------------
\* The decisions of a pass.

\* desiredReplicas - currentReplicas.
Shortfall(desired, current) == desired - current

\* IsMaxVmsReached.
QuotaReached(current) == HasQuota /\ current >= MaxVms

\* Slip: the shortfall is not cut to the quota.
ToCreateUncut(desired, current) == Shortfall(desired, current)

\* Slip: the VMs that exist are not deducted.
ToCreateAll(desired, current) == desired

\* How many VMs to create: the shortfall, cut to what the quota leaves.
ToCreate(desired, current) ==
  LET diff == Shortfall(desired, current)
  IN  IF HasQuota /\ current + diff > MaxVms THEN MaxVms - current ELSE diff

\* Slip: the next number is one more than how many VMs there are.
IsCountPlusOne(n, used) == n = Cardinality(used) + 1

\* Slip: the next number is the one after the highest.
IsAfterHighest(n, used) == \A m \in Numbers : m < n <=> \E k \in used : m <= k

\* generateNextVMName picks the lowest number that no VM it knows of uses.
IsNextNumber(n, used) ==
  /\ n \notin used
  /\ \A m \in Numbers : m < n => m \in used

\* Slips: current counts the running VMs, ready counts all of them.
CountedRunning(t, vms, on) ==
  [t EXCEPT !.current = Cardinality(on), !.ready = Cardinality(on)]

CountedAllReady(t, vms, on) ==
  [t EXCEPT !.current = Cardinality(vms), !.ready = Cardinality(vms)]

\* The status counters reconcileVMs computes from its list of VMs.
Counted(t, vms, on) ==
  [t EXCEPT !.current = Cardinality(vms), !.ready = Cardinality(on)]

\* The response to an Update is decoded into the pass's own object: a stored
\* counter that is not zero replaces the one just computed.
Decoded(t) ==
  IF stored.desired # 0 THEN [t EXCEPT !.desired = stored.desired] ELSE t

-----------------------------------------------------------------------------
Init ==
  /\ pools \in [Pools -> [phase: {"live"}, replicas: 0..MaxReplicas, labelled: {FALSE}]]
  /\ \E ref \in Pools \cup {NoPool} : stored = NewTemplate(ref)
  /\ cached = stored /\ cacheFresh = TRUE
  /\ owned = {} /\ running = {} /\ squatted = {}
  /\ pc = "idle" /\ mem = NewTemplate(NoPool)
  /\ memFresh = FALSE /\ poolFresh = FALSE
  /\ asked = 0 /\ view = {} /\ viewOn = {} /\ todo = 0
  /\ disturbances = MaxDisturbances

\* Reconcile gets the template from the cache.
Begin ==
  /\ At("idle") /\ Goto("connect")
  /\ mem' = cached /\ memFresh' = cacheFresh
  /\ Calm
  /\ UNCHANGED <<cluster, vsphere, poolFresh, asked, lists, todo>>

\* Credentials, client, datacenter and Validate: any failure is written to
\* the status and ends the pass.
Connect ==
  /\ At("connect")
  /\ \/ Calm /\ Goto("replicas")
     \/ Disturb("connect") /\ Goto("writeBack")
  /\ UNCHANGED <<cluster, vsphere, mem, fresh, asked, lists, todo>>

\* The pass works for n replicas from here on.
Want(n) == mem' = [mem EXCEPT !.desired = n] /\ asked' = n

\* Test mode takes the replicas of the spec; without a nodePoolRef the pass
\* writes a desired count of 0 and ends.
ReplicasFromSpec ==
  /\ At("replicas")
  /\ \/ mem.test # Unset /\ Want(mem.test) /\ Goto("annotate")
     \/ mem.test = Unset /\ mem.ref = NoPool /\ Want(0) /\ Goto("writeBack")
  /\ Calm
  /\ UNCHANGED <<cluster, vsphere, fresh, lists, todo>>

\* Otherwise the NodePool is read.  A NodePool that is gone or going counts
\* as 0 replicas, a failed read ends the pass.
ReplicasFromPool ==
  /\ At("replicas") /\ mem.test = Unset /\ mem.ref \in Pools
  /\ LET pool == pools[mem.ref]
     IN  \/ /\ pool.phase = "live" /\ Calm
            /\ asked' = pool.replicas /\ poolFresh' = TRUE
            /\ Goto("label") /\ UNCHANGED mem
         \/ /\ pool.phase # "live" /\ Calm
            /\ Want(0) /\ Goto("annotate") /\ UNCHANGED poolFresh
         \/ /\ Disturb("poolRead") /\ Goto("writeBack")
            /\ UNCHANGED <<mem, asked, poolFresh>>
  /\ UNCHANGED <<cluster, vsphere, memFresh, lists, todo>>

\* Slip: an object is written without the resource version it was read at.
AcceptedBlindly == TRUE

\* The NodePool's Update is accepted when the object read is the current one.
PoolUpdateAccepted == poolFresh

\* ensureNodePoolMatchLabels writes back the NodePool it read, with labels,
\* unless it has some; its failure does not matter.
LabelPool ==
  IF PoolUpdateAccepted /\ ~pools[mem.ref].labelled
  THEN \/ /\ Calm
          /\ pools' = [pools EXCEPT ![mem.ref] =
                         [phase |-> "live", replicas |-> asked, labelled |-> TRUE]]
       \/ Disturb("labelWrite") /\ UNCHANGED pools
  ELSE Calm /\ UNCHANGED pools

\* Slip: spec.replicas is taken to be there.
ReplicasAssumed == TRUE

ReplicasFound == asked # Unset

\* After the labels the replicas are taken from the object read; a NodePool
\* without spec.replicas ends the pass, and nothing is written.
EnsureMatchLabels ==
  /\ At("label")
  /\ LabelPool
  /\ \/ ~ReplicasFound /\ EndPass
     \/ ReplicasFound /\ Want(asked) /\ Goto("annotate") /\ UNCHANGED <<fresh, lists, todo>>
  /\ UNCHANGED <<stored, cached, cacheFresh, vsphere>>

\* An Update of the template is accepted when the object read is the stored one.
TemplateUpdateAccepted == memFresh

\* setNodePoolRefAnnotation: an Update of the template, metadata and spec as
\* the pass read them, when the annotation is not the spec's nodePoolRef.
Annotate ==
  /\ At("annotate") /\ Goto("list")
  /\ IF mem.annotation # mem.ref /\ TemplateUpdateAccepted
     THEN \/ /\ Calm
             /\ stored' = [stored EXCEPT !.ref = mem.ref, !.test = mem.test,
                                         !.annotation = mem.ref]
             /\ mem' = [Decoded(mem) EXCEPT !.annotation = mem.ref]
             /\ cacheFresh' = FALSE
          \/ Disturb("annotationWrite") /\ UNCHANGED <<stored, mem, cacheFresh>>
     ELSE Calm /\ UNCHANGED <<stored, mem, cacheFresh>>
  /\ UNCHANGED <<pools, cached, vsphere, fresh, asked, lists, todo>>

\* getCurrentVMs lists the owned VMs; those whose information cannot be read
\* are left out, and failing to list at all is an error.
Listed(hidden) ==
  /\ hidden \in SUBSET owned
  /\ IF hidden = {} THEN Calm ELSE Disturb("hide")

List ==
  /\ At("list")
  /\ \/ \E hidden \in SUBSET owned :
          /\ Listed(hidden)
          /\ view' = owned \ hidden /\ viewOn' = running \ hidden
          /\ mem' = [mem EXCEPT !.current = Cardinality(owned \ hidden)]
          /\ Goto("decide")
     \/ Disturb("list") /\ Goto("writeBack") /\ UNCHANGED <<mem, lists>>
  /\ UNCHANGED <<cluster, vsphere, fresh, asked, todo>>

\* At the quota the pass skips the rest of reconcileVMs.
StopAtQuota ==
  /\ At("decide") /\ Shortfall(mem.desired, mem.current) > 0
  /\ QuotaReached(mem.current)
  /\ Goto("finish") /\ Calm
  /\ UNCHANGED <<cluster, vsphere, mem, fresh, asked, lists, todo>>

\* Scaling up starts with the ISO, whose failure ends the pass.
ScaleUp ==
  /\ At("decide") /\ Shortfall(mem.desired, mem.current) > 0
  /\ ~QuotaReached(mem.current)
  /\ \/ /\ Calm /\ Goto("create")
        /\ todo' = ToCreate(mem.desired, mem.current)
     \/ Disturb("iso") /\ Goto("writeBack") /\ UNCHANGED todo
  /\ UNCHANGED <<cluster, vsphere, mem, fresh, asked, lists>>

\* Enough VMs, or too many, which is left to the Agents: count and go on.
CountVMs ==
  /\ At("decide") /\ Shortfall(mem.desired, mem.current) <= 0
  /\ mem' = Counted(mem, view, viewOn)
  /\ Goto("finish") /\ Calm
  /\ UNCHANGED <<cluster, vsphere, fresh, asked, lists, todo>>

NameTaken(n) == n \in owned \cup squatted

\* createVM, called for number n.  vSphere refuses a name that is in use.  A
\* failure may come before the VM exists, after, or after it runs.  The loop
\* takes note of a VM only when all went well.
CreateVM(n) ==
  \/ /\ ~NameTaken(n) /\ Calm
     /\ owned' = owned \cup {n} /\ running' = running \cup {n}
     /\ view' = view \cup {n}
  \/ /\ NameTaken(n) /\ Calm
     /\ UNCHANGED <<owned, running, view>>
  \/ /\ Disturb("create")
     /\ \E made \in SUBSET ({n} \ (owned \cup squatted)) : \E on \in SUBSET made :
          owned' = owned \cup made /\ running' = running \cup on
     /\ UNCHANGED view

\* One iteration of the loop.
Create ==
  /\ At("create") /\ todo > 0
  /\ \E n \in Numbers : IsNextNumber(n, view) /\ CreateVM(n)
  /\ todo' = todo - 1
  /\ UNCHANGED <<cluster, squatted, pc, mem, fresh, asked, viewOn>>

\* Slip: after the loop the VMs it knows of are counted, without a new listing.
RefreshSkipped ==
  /\ At("create") /\ todo = 0
  /\ mem' = Counted(mem, view, viewOn) /\ Goto("finish") /\ Calm
  /\ UNCHANGED <<cluster, vsphere, fresh, asked, lists, todo>>

\* After the loop the VMs are listed again and counted.
Refresh ==
  /\ At("create") /\ todo = 0
  /\ \/ \E hidden \in SUBSET owned :
          /\ Listed(hidden)
          /\ mem' = Counted(mem, owned \ hidden, running \ hidden)
          /\ Goto("finish")
     \/ Disturb("list") /\ Goto("writeBack") /\ UNCHANGED mem
  /\ UNCHANGED <<cluster, vsphere, fresh, asked, lists, todo>>

\* Status().Update of the pass's object t; whether it is accepted or not, the
\* pass is over and the template is reconciled again.
WriteStatus(t) ==
  /\ IF TemplateUpdateAccepted
     THEN \/ /\ Calm /\ cacheFresh' = FALSE
             /\ stored' = [stored EXCEPT !.desired = t.desired, !.current = t.current,
                                         !.ready = t.ready, !.allReady = t.allReady]
          \/ Disturb("statusWrite") /\ UNCHANGED <<stored, cacheFresh>>
     ELSE Calm /\ UNCHANGED <<stored, cacheFresh>>
  /\ EndPass
  /\ UNCHANGED <<pools, cached, vsphere>>

\* A pass that got through sets the Ready condition.
\* Slip: it writes the condition it has read.
FinishAsRead == At("finish") /\ WriteStatus(mem)

Finish ==
  At("finish") /\ WriteStatus([mem EXCEPT !.allReady = (mem.ready = mem.desired)])

\* A pass that failed writes what it has.
WriteBack == At("writeBack") /\ WriteStatus(mem)

\* The process dies and is started again.
Crash ==
  /\ ~At("idle") /\ Disturb("crash") /\ EndPass
  /\ UNCHANGED <<cluster, vsphere>>

Pass ==
  \/ Begin \/ Connect \/ ReplicasFromSpec \/ ReplicasFromPool \/ EnsureMatchLabels
  \/ Annotate \/ List \/ StopAtQuota \/ ScaleUp \/ CountVMs \/ Create \/ Refresh
  \/ Finish \/ WriteBack

-----------------------------------------------------------------------------
\* The environment.

inPass == <<pc, mem, asked, lists, todo>>

SyncCache ==
  /\ ~cacheFresh
  /\ cached' = stored /\ cacheFresh' = TRUE
  /\ Calm
  /\ UNCHANGED <<pools, stored, vsphere, inPass, fresh>>

\* A user scales a NodePool, hands it to the autoscaler (no replicas), or
\* deletes it.
ChangePool ==
  /\ \E p \in Pools :
       /\ pools[p].phase # "gone"
       /\ \/ Disturb("scale") /\ \E n \in Unset..MaxReplicas \ {pools[p].replicas} :
               pools' = [pools EXCEPT ![p].replicas = n]
          \/ Disturb("poolDeletion") /\ pools' = [pools EXCEPT ![p].phase =
               IF pools[p].phase = "live" THEN "deleting" ELSE "gone"]
       /\ poolFresh' = (poolFresh /\ p # mem.ref)
  /\ UNCHANGED <<stored, cached, cacheFresh, vsphere, inPass, memFresh>>

\* A user points the template at another NodePool or changes test mode.
EditTemplate ==
  /\ \/ Disturb("ref") /\ \E ref \in (Pools \cup {NoPool}) \ {stored.ref} :
          stored' = [stored EXCEPT !.ref = ref]
     \/ Disturb("test") /\ \E n \in Unset..MaxReplicas \ {stored.test} :
          stored' = [stored EXCEPT !.test = n]
  /\ cacheFresh' = FALSE /\ memFresh' = FALSE
  /\ UNCHANGED <<pools, cached, vsphere, inPass, poolFresh>>

\* An owned VM disappears: its Agent's finalizer or an administrator
\* destroyed it; or it is powered off.
ChangeVM ==
  /\ \E n \in owned :
       \/ Disturb("removeVM") /\ owned' = owned \ {n} /\ running' = running \ {n}
       \/ Disturb("powerOff") /\ n \in running /\ running' = running \ {n} /\ UNCHANGED owned
  /\ UNCHANGED <<cluster, squatted, inPass, fresh>>

\* Somebody else's VM takes or leaves a name of the template.
ChangeSquatter ==
  /\ Disturb("squat")
  /\ \E n \in Numbers \ owned :
       squatted' = IF n \in squatted THEN squatted \ {n} ELSE squatted \cup {n}
  /\ UNCHANGED <<cluster, owned, running, inPass, fresh>>

Environment == SyncCache \/ ChangePool \/ EditTemplate \/ ChangeVM \/ ChangeSquatter

Next == Pass \/ Crash \/ Environment

Spec == Init /\ [][Next]_vars

\* The work queue always holds the template again: a pass ends in an error or
\* a requeue after a minute or five.  The informer catches up.
Fairness == WF_vars(Pass) /\ WF_vars(SyncCache)

FairSpec == Spec /\ Fairness

-----------------------------------------------------------------------------
\* Properties.

\* The hard limit: "MaxVms is the hard limit on the number of VMs this template
\* can create" (api/v1alpha1/vmwarenodepooltemplate_types.go:169).  However the
\* passes, removals, failures and restarts interleave, and although creations
\* may succeed unnoticed, the template never owns more VMs than MaxVms.
QuotaRespected == HasQuota => owned = {} \/ Cardinality(owned) <= MaxVms

\* A VM is added only while there are fewer than the desired count the pass
\* works with: what disappears or appears unnoticed between the listing and
\* the creations never makes reconcileVMs overshoot.
AddsOnlyBelowDesired ==
  [][owned' \ owned # {} => Cardinality(owned) < mem.desired]_vars

\* "Normal mode: get replicas from NodePool" (vmwarenodepooltemplate_
\* controller.go:224): a VM is added only while there are fewer than the
\* replicas this pass has read from the NodePool or the spec.
AddsOnlyBelowAsked ==
  [][owned' \ owned # {} => Cardinality(owned) < asked]_vars

\* What users set: a NodePool's replicas and phase, a template's spec.
UserFieldsSame ==
  /\ \A p \in Pools : /\ pools'[p].replicas = pools[p].replicas
                      /\ pools'[p].phase = pools[p].phase
  /\ stored'.ref = stored.ref /\ stored'.test = stored.test

\* What belongs to the users stays theirs: no step of a pass reverts a
\* NodePool's replicas or phase, or the template's spec, to the state it read
\* earlier, although it writes both objects whole (nodepool.go:146, 186).
UserFieldsKept == [][pc' # pc => UserFieldsSame]_vars

\* The counters in the status are those of a pass over the current spec: a
\* pass that worked from an outdated template cannot publish what it counted.
StatusOfCurrentSpec ==
  [][<<stored'.desired, stored'.current, stored'.ready>>
        # <<stored.desired, stored.current, stored.ready>>
     => mem.ref = stored.ref /\ mem.test = stored.test]_vars

\* A pass that gets through never publishes fewer VMs than there are: some may go
\* between the last count and the write, but creations that succeed unnoticed
\* are counted all the same.  A deletion that cannot reach vSphere goes by this
\* number (vmwarenodepooltemplate_controller.go:361).
CountsCover ==
  [][At("finish") /\ pc' # pc /\ stored' # stored
       => Cardinality(owned) <= stored'.current]_vars

\* The replicas the stored template stands for at this moment.
Source ==
  IF stored.test # Unset THEN stored.test
  ELSE IF stored.ref = NoPool THEN 0
  ELSE IF pools[stored.ref].phase = "live" THEN pools[stored.ref].replicas ELSE 0

\* A pass over the template gets as far as counting VMs.
Counting == stored.test # Unset \/ (stored.ref # NoPool /\ Source # Unset)

Target == IF HasQuota /\ Source > MaxVms THEN MaxVms ELSE Source

\* The template's VMs as an abstract fleet: with a quota there is a slot for
\* each VM the quota allows, and no other.
F == INSTANCE Fleet WITH
       Slots <- IF HasQuota THEN 1..MaxVms ELSE Numbers, vms <- owned, wanted <- Target

\* VMs come and go one at a time, and only in the slots of the template, which
\* hand out the lowest numbers, although passes and removals interleave and
\* creations succeed unnoticed.
OneFleet == F!Spec

\* Scaling up gets there: as long as there are fewer VMs than asked for, or
\* than the quota allows, VMs are added, once users, administrators and
\* failures leave the system alone.
FleetGrows == F!FairSpec

\* The status ends up with the number of VMs there are, unless the
\* template has no source of replicas.
CurrentSettles == <>[](Counting => stored.current = Cardinality(owned))

\* At the quota reconcileVMs skips the counting of the VMs that run.
BelowQuota == HasQuota => Source <= MaxVms

\* Short of that, the status ends up with the number of VMs that run:
\* "ReadyReplicas is the number of VMs that are ready (powered on)"
\* (vmwarenodepooltemplate_types.go:224).
ReadySettles == <>[](Counting /\ BelowQuota => stored.ready = Cardinality(running))

\* In any case the Ready condition, "All %d VMs are ready"
\* (vmwarenodepooltemplate_controller.go:317), ends up with whether as many VMs
\* run as replicas are asked for, whatever conditions and counts failed passes
\* have mixed before.
ReadyConditionSettles ==
  <>[](Counting => stored.allReady = (Cardinality(running) = Source))
=============================================================================
