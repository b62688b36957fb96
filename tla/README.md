# Verification of the VMware HCP agent companion

The controller in this repository reconciles `VMwareNodePoolTemplate` objects: it
creates VMs in vSphere for the replicas of a HyperShift NodePool, prepares the
Agents that boot on them, and removes VMs through a finalizer on those Agents.
This directory holds TLA+ models of its passes, the TLC runs that check them on
small instances, and TLAPS proofs for every size.

    tlc -workers 2 -config VMScaling_quota.cfg MCVMScaling.tla
    tlapm VMScalingProofs.tla

## The system

One manager process runs one worker (`MaxConcurrentReconciles` keeps its default;
`config/manager/deployment.yaml` sets one replica and leader election), so
reconciliations never overlap. What runs concurrently with a pass is everything
else: users, the autoscaler, the NodePool controller, the assisted service, vSphere
administrators, the informer that fills the cache, and the death of the process.

| part | state it keeps | operations |
|---|---|---|
| VM scaling (`reconcileNormal`, `vm_reconcile.go`, `nodepool.go`) | status counters, the nodepool-ref annotation, the NodePool's matchLabels, the VMs in the folder | read replicas, label the NodePool, annotate, list, create, count, write the status |
| Agent handling (`agent.go`) | labels, approval, annotations and finalizer of Agents, `vmStatus[].agentName` | adopt, label, retire (delete) |
| Agent finalizer (`reconcileAgentFinalizer`) | the finalizer, `vmStatus` | look up the VM, destroy it by name, drop the entry, take the finalizer off |
| Template deletion (`reconcileDelete`) | the template's and the secret's finalizers | count VMs, release |
| ISO preparation (`iso.go`, `UploadISO`) | `isoUploaded`, `isoPath`, the datastore | verify, upload |
| Resource polling (`reconcileResourceUtilization`, `resources.go`) | utilization, validation, three conditions | poll when due, estimate the capacity |
| vSphere client (`pkg/vsphere`) | a connection | one call per operation |
| API types | conditions, quota | `SetCondition`, `IsMaxVmsReached` |
| metrics, manager start-up, generated code | – | – |

They interact through three stores. The *API server*: templates are read from the
informer's cache, NodePools and Agents (unstructured objects) are read live; an
Update or a status Update carries the resource version that was read and is refused
when the object has changed since; a Delete carries none. *vSphere*: VMs are found
by listing a folder and by name; a name is refused when it is in use. *The pass's
memory*: the template object of a pass carries the desired count from
`reconcileNormal` to `reconcileVMs` and the VM list from there to `reconcileAgents`.

What is hard: a pass makes dozens of calls, each may fail, and most failures are
passed over; the world changes between any two; two objects are written back whole;
names are used again; the same call is repeated after a restart. `PROJECT.json`
lists these hazards by line.

What makes the parts correct:

- *Scaling*: never beyond the quota; never beyond what is asked for; as many as asked
  for in the end; the status tells the truth; what users set stays.
- *Agents and finalizer*: the VM goes with its Agent and no other VM does; only Agents
  that were bound and are no longer are deleted, and those are; an Agent is never stuck.
- *Template deletion*: ends; releases nothing that still has VMs.
- *Secret*: keeps its finalizer as long as a template has VMs.
- *ISO*: a VM boots the image of the URL it is created for; what is marked as uploaded
  is there; a failed upload is made good.
- *Polling, conditions*: polls are spaced; the estimate is what fits; in the end the
  conditions say what is the case.

## Modules

`VMScaling` – one template, its NodePools and VMs. A pass goes through the values
of `pc`, one action per call to the API server or vSphere, in the order of
`reconcileNormal`:

| `pc` | actions | code |
|---|---|---|
| `idle` | `Begin` | `Reconcile`, the `Get` from the cache |
| `connect` | `Connect` | credentials, client, datacenter, `Validate` |
| `replicas` | `ReplicasFromSpec`, `ReplicasFromPool` | test mode, missing nodePoolRef; the NodePool's `Get` |
| `label` | `EnsureMatchLabels` | the NodePool's Update, then its replicas |
| `annotate` | `Annotate` | `setNodePoolRefAnnotation`, with what the response of the Update does to the object in memory (`Decoded`) |
| `list` | `List` | `getCurrentVMs` |
| `decide` | `StopAtQuota`, `ScaleUp`, `CountVMs` | the three ways through `reconcileVMs` |
| `create` | `Create` (with `CreateVM`), `Refresh` | the loop and the listing after it |
| `finish`, `writeBack` | `Finish`, `WriteBack` | the last status Update, that of an error path |

`memFresh` and `poolFresh` say whether the object a pass holds still has the stored
resource version, `cacheFresh` whether the cache has. A VM is the number in its
name; `owned` are those with this template's tag, `squatted` names that others use.

`AgentCleanup` – the Agents of the template's VMs. A machine is one VM for its
lifetime; its `number` may be used again. Passes over the template and over an Agent
that is being deleted share `pc`:

| `pc` | actions | code |
|---|---|---|
| `idle` | `BeginTemplate`; `BeginFinalizer`, `DropRequest` | `Reconcile`: a template, or an Agent that is read live; when it cannot be read the request is dropped |
| `vms` | `ListVMs`, `StopAtQuota`, `ScaleUp` | `getCurrentVMs`, and the three ways through `reconcileVMs` |
| `create` | `CreateVM` (with `Make`), `Refresh` | the loop, which goes by the names of that listing (`view`), and the listing after it |
| `writeBack` | `WriteBack` | the status Update of an error path |
| `agentList`, `agents`, `adopted` | `ListAgents`, `Adopt`, `Retire`, `Prepare` | `reconcileAgents` |
| `status`, `release` | `WriteStatus`, `Release` | the last status Update; the end of `reconcileDelete` |
| `destroy`, `drop`, `unfinalize` | `Destroy`, `DropEntry`, `Unfinalize` | `reconcileAgentFinalizer` |

A creation may be refused by vSphere (`Refused`: the name is in use), may fail, and may
fail after the VM was made; in each case the loop goes on without taking note of it. At
the quota the early return leaves the list in the status as it was read. The status is
the machines listed in it and those whose entry has an `agentName`. The managed-by label
together with the finalizer is `adopted`; nodepool label, hostname, approval and annotations
are `prepared`; `binding` is the binding label. `SameNamespace` says whether the
Agents live in the template's namespace: the finalizer looks for the template there.

`Fleet` – what the two of them promise together, in three lines of state: the numbers
of the VMs that exist and how many are wanted. VMs come and go one at a time, each in
a free slot (`Spec`), and while there are too few they keep being added (`FairSpec`).
`VMScaling` implements it with `vms <- owned`, the slots being the numbers up to the quota,
and `wanted` what the present NodePool or spec asks for (`OneFleet`, `FleetGrows`);
`AgentCleanup` with the numbers of the machines that are alive (`OneFleet`).

`TemplateLifecycle` – templates that share a credentials secret, from the finalizer
(`guard`) to their release. Which VMs are created and removed is left to the two modules
above: here only their number counts, and a pass over an Agent (`FinalizeAgent`) is one
step. `connect` decides between the normal way (`list`, `decide`, `secret`, `create`,
`refresh`, `status`, and for a deletion `unprotect`, `release`) and, for a deletion
without vSphere, `blindRelease`. The secret has its own cache and resource version.

`ISOPreparation` – one template that may get its ISO from the datastore or from a URL.
`files` maps each path ISOs are uploaded to to the URL whose image it holds, `Partial`
or `Nothing`; the path of a URL without a chosen name is the URL (its hash). `UseISO`,
`NeedISO` and `Upload` are the three ways through `prepareISO`, `Create` the loop
that creates VMs with the path in `mem`. Other templates upload to the same datastore
(`OtherUploads`); `intact` remembers whether an upload was cut off or a file lost.

`ResourcePolling` – what the status says about vSphere. A scene is what vSphere has and
how much of it is used. `Poll` comes before `Replicas` and `ReconcileVMs`, as in
`reconcileNormal`, so that it knows the counts of an earlier pass only. Time is
`Elapse`: the polling interval has passed since the last poll. `Capacity` holds the
estimate (`CalculateEstimatedVMCapacity`) and, for comparison, what it means that k
VMs fit (`Fits`, without a division). What vSphere gives in bytes is in the scene as the
code rounds it, in MB and GB; the effective memory of a cluster, which vSphere gives in MB
and the code takes for bytes, is as vSphere gives it, and `OfCluster` does to it what the
code does. Both modules are checked together.

Everything that may go wrong or change is a *disturbance* of a kind in `Kinds`, and at
most `MaxDisturbances` of them happen, so that runs are finite and what must happen
afterwards can be stated. Bounds: `MaxReplicas`, `Replicas`, `Numbers`, `Machines`,
`MaxDisturbances`. Some failures are free, since they are frequent or bounded by
other things: in `TemplateLifecycle` failed creations, in `ResourcePolling` VMs that
fail to be created and queries of what does not exist.

The `MC` modules name the sets of kinds, specs and scenes the runs use, the `Proofs`
modules hold the theorems. `DestructionProofs` continues `AgentCleanupProofs` with what the finalizer
destroys, `ReleaseProofs` continues `TemplateLifecycleProofs` with what a release leaves behind.

A comment that begins with *Slip* marks an operator that changes the one it precedes the way a
mistake in the code would. No model uses them; they show that the properties notice.

## Runs

Bounds: two disturbances suffice for a removal or a failure racing a user, and for a
repeated failure; the violations below need one to three. NodePools: two, so
that a template can be pointed elsewhere. Replicas up to 3 over a quota of 2 gives
every relation of the two. Three machines let a name be used again while a third VM
exists. `Numbers` holds one number more than there may be VMs, so that the lowest free one is there.
`lifecycle_deletion` has three disturbances (a deletion, a failure, and something that
changes meanwhile) but one template: another one matters only to the secret, and for that
there is `lifecycle_shared_secret`. `iso_boots` has four, since its hazards take
an edit, a lost write, a second edit and a fault; two URLs, and specs for the
datastore, for either URL, for a chosen name and for no URL. `polling_settles` has two specs
(a cluster's total capacity with a hard limit; a resource pool's effective capacity, with a
folder that does not exist and a soft limit) and two scenes: in one, storage is the least for
the first spec and memory for the second, in the other more CPU is used than there nominally
is, and network and pool are gone. `polling_effective` takes the first spec with a cluster's
effective capacity. In `cleanup_faults` two replicas over a quota of one let the early return
at the quota happen, and three machines are enough for a name to be used three times.

Runs that find no error:

| run | question |
|---|---|
| `scaling_quota` | quota, user fields, counts of the current spec, the fleet; all kinds |
| `scaling_settles` | no VM beyond the desired count and no published count below the number of VMs, as long as listings are complete; VMs keep being added while there are too few; true counters and a true Ready condition in the end |
| `cleanup_faults` | the finalizer destroys no listed VM but its Agent's; the fleet; deleted Agents go, bound ones are labelled; all kinds |
| `cleanup_annotated` | the VM goes before its Agent, when the finalizer works from the annotation; who may be deleted, which label is true |
| `lifecycle_deletion` | what a deletion has counted stays so, nothing is created for a template that is gone, deletions end |
| `polling_settles` | polls are spaced; estimate and conditions come right |
| `iso_boots` | VMs boot their image, marks are true, VMs are created in the end |

`CHECK_DEADLOCK FALSE` is set where a user may delete the template: the system then stops.

Runs that show the code disagree with what it says of itself (`findings` in
`PROJECT.json` quotes both):

| run | what happens |
|---|---|
| `scaling_retarget` | pointed at another NodePool, the pass creates VMs for the count of the previous one |
| `cleanup_leak` | scaling down leaves the VM behind: the status entry has lost its `agentName` |
| `lifecycle_shared_secret` | deleting one template takes the finalizer off the secret that another needs |
| `polling_effective` | a cluster's effective memory is divided by 1024 * 1024 although it is in MB: with `useEffectiveCapacity` the estimate stays 0 while VMs fit |
| `lifecycle_blind_release` | a template deleted while its first VMs are being created is released without a connection, and the VMs stay |

The passing runs stay clear of what the code does not achieve; with the restriction
lifted, TLC finds a counterexample:

- `AddsOnlyBelowDesired` without the kind `hide`: a VM whose information cannot be
  read is not counted, and one too many is created (this takes three disturbances:
  scaling, the removal of a VM with a lower number, the failed read), or too few are
  published (`CountsCover`). Likewise `CountedEmpty`: a deletion releases a template with a VM it could not read.
- `AddsOnlyBelowAsked` is refuted by another NodePool (`scaling_retarget`). A failed Update of the
  annotation suffices as well: the pass then stores its count without the annotation, and the
  Update of a later pass brings that count back after the NodePool was scaled down.
- `FleetGrows` without `squat`: somebody else's VM under the lowest free name makes
  every creation fail, in every pass.
- `ReadySettles` below the quota: at the quota the running VMs are no longer counted.
  It does not say that VMs run: one whose power-on failed stays off.
- `ReadyConditionSettles` is about the end: a failed pass writes new counts under an
  older Ready condition.
- `NeverBoundKept` is about Agents that were never bound: one that is bound again
  after the pass has listed it is deleted. And an Agent that is bound and unbound
  between two passes never gets the binding label and is never deleted
  (`agent.go:385`), though `vm_reconcile.go:147` says that unbinding Agents are.
- `ListedVMsKept` is about VMs in the list the finalizer has read. A finalizer that is run
  again after the VM was destroyed (a restart, a refused Update), or that runs when the VM is
  lost, looks the name up again, and if a new VM has got it that is in no status yet, destroys it:
  `DestroysOnlyItsOwn`, which no run checks, holds under any two disturbances and not
  under three (the VM is lost, the process dies after it was made anew, the Agent is deleted).
  The theorems say when it holds.
- `FinalizerNeverBlocks` relies on the informer's resync when an Agent could not be read:
  `Reconcile` takes any error for "not found" and neither returns it nor requeues
  (`vmwarenodepooltemplate_controller.go:108`), so that the Agent waits for its next event, a restart
  or the resync, by default about ten hours.
- `BoundGetsLabelled` excepts machines that are `Overlooked`: when a status write was lost and
  the quota is reached while replicas are still missing, the early return (`vm_reconcile.go:63`)
  never makes the list anew, and the Agents of the machines missing there are never looked at.
- `DeletionEnds` is about templates without VMs: while the NodePool keeps its Agents bound,
  nothing removes their VMs, and the deletion waits. It also waits for ever when the
  secret is gone and the status still counts VMs, since the status is only corrected
  by a pass that connects.
- `SecretGuarded` fails for a single template as well, when adding the finalizer fails
  before the first VM: it is not tried again while there are VMs. When removing it
  fails, that is only logged, and a release without vSphere does not try: the secret
  keeps the finalizer for good.
- `BootsItsImage` asks for the whole image only while the datastore is `intact`: only
  the directory of an ISO is looked up, not the file, so that a lost ISO, and one that
  was cut off when it was uploaded again (under a stale cache, over the good one),
  pass for the ISO. `GetsItsVMs` excepts a directory that is lost: the ISO is not
  uploaded again. With a chosen name the ISO of the previous URL is used on.
- `EstimateSettles` and `QuotaSettles` except specs that vSphere cannot be queried for:
  the conditions then stay what they were. `ResourcesAvailable` compares the estimate,
  which is of *more* VMs, with all the replicas asked for, so it is False also
  when those that are missing would fit; the property says what the code does.
  An edit of the spec does not make a poll due, although `docs/resource-utilization.md:112`
  says so; it is seen after the interval. And the conditions of a poll can be lost with
  the annotation's Update while its time stays, so that they are missing for an interval.
- `EstimateSettles` asks for all that fits except of the effective capacity of a cluster
  (`Misread`), for which `polling_effective` refutes it; that no more is promised than fits holds there too.
- `QuotaSettles` follows the code in comparing `softMaxVms` with the desired count
  (`vmwarenodepooltemplate_controller.go:887`). The comment on the field (`types.go:177`) says that it
  warns "when EstimatedVMCapacity falls below this value": the two differ as soon as the
  estimate is low while few replicas are asked for, or the reverse.
- `PollsSpaced` is about polls that publish their results. A query that fails sets no time and
  is repeated in every pass, that is, every requeue rather than every interval.
- In test mode the code and the model take `spec.replicas` also when `nodePoolRef` is set, which
  `types.go:53` says is ignored then; `FleetGrows` and the properties on the status are about that.

## Fairness

`VMScaling`, `ISOPreparation`, `ResourcePolling`: every pass ends in an error or in
`RequeueAfter`, so the template is always reconciled again and a pass goes on
(`WF(Pass)`); the informer catches up (`WF(SyncCache)`); and time goes by (`WF(Elapse)`).
`Fleet`: growth is weakly fair; it is implemented by `VMScaling` under the fairness just named.
`AgentCleanup`: template and Agent requests wait in one
first-in-first-out queue, the template's always, an Agent's until its finalizer is
off (a failed Update returns the error, which puts it back) or the Agent cannot be read,
which drops it. A dropped one comes back with the informer's resync, which happens
periodically (`WF(Requeue(m))`). The worker therefore
takes up each of them again and again although passes of the other kind come in
between: strong fairness of `BeginTemplate` and `BeginFinalizer(m)`, which is enabled
only while the request is not dropped. The assisted
service and the NodePool controller do what they are there for (`Register`, `Bind`,
`Unbind`). `TemplateLifecycle`: the same queue, hence strong fairness of `Begin(t)`; the
Agents' passes are not fair, so no deletion is helped by them. No disturbance is fair.

## Proofs

For all constants that meet the assumptions named in the modules, and any number of
disturbances (the fault kinds too, unless a theorem names the ones it excludes):

- `TypeCorrect` in each of the `Proofs` modules but that of `Capacity`.
- `QuotaSafe`: `QuotaRespected`. It is not inductive: the count the pass works with
  may be too low, when VMs were overlooked. What holds in every state is that the
  *numbers* are at most `MaxVms` (`NumbersWithinQuota`): the lowest free number is
  at most one more than how many VMs the pass knows of (`NextNumberBound`), and those
  plus what is left to create stay within the quota (`LoopWithinQuota`).
- `ScalingImplementsFleet`: `OneFleet`, a step of the pass or of its environment is an `Add`
  or a `Remove` of the fleet or leaves it alone. That the number is within the quota is
  the same invariant. `CleanupImplementsFleet` likewise, where the names
  the loop knows of and what is left to create are within the quota (`LoopWithinQuota`).
- `NoOvershoot`: `AddsOnlyBelowDesired`, assuming that no VM is overlooked. The
  invariant `NothingOverlooked` says that the pass knows of all VMs until it creates
  some, and has no more left to create than are missing.
- `NoOvershootAsked`: `AddsOnlyBelowAsked`, assuming that users do not point the template
  elsewhere, the annotation's Update does not fail and no VM is overlooked. The invariant
  `AskedInv` says why the count that this Update brings back is harmless then: it only happens
  while the annotation is missing, and until then no count has got into the stored status
  (`CountsAnnotated`), a cached copy that still passes for current is the stored one
  (`CopiesAgree`), so that the pass works with what it has read (`WorksAsAsked`) or with 0.
- `CountsCoverAll`: `CountsCover`, assuming that no VM is overlooked; `CountsExact`: if none
  is removed during the pass either, what it publishes is how many there are. The invariant
  `CoverInv` follows the count from the first listing, or from the last, to the status.
- `StatusCurrent`, `UserFieldsSafe`: `StatusOfCurrentSpec`, `UserFieldsKept`, from
  what an unchanged resource version means (`PoolFreshMeans`, `TemplateFreshMeans`).
- `ListedVMsSafe`: `ListedVMsKept`, with all faults. The names within a list of VMs are
  distinct, in the status and in every copy of it (`ListsInv`), as vSphere refuses a name in use
  (lemma `NamesStep`); so a VM found by the subject's name and listed with it is the subject.
- `DestroysOwnByStatus`, `DestroysOwnAtOnce`: `DestroysOnlyItsOwn`, under either of two
  assumptions. (1) The Agents live in the template's namespace, no cache lags, no VM is lost,
  no status write fails and the process lives; the finalizer's own Update may fail
  any number of times. `OwnInv` says that a name in the status belongs to nobody but the
  machine listed (`Entries`), so that a finalizer that is run again finds no entry. (2) No VM is lost,
  the finalizer's Update is accepted and the process lives; caches may lag, status writes
  may fail, and the namespace does not matter. `OnceInv` says that an Agent outlives its VM
  only until the pass that destroyed it ends (`GoneTogether`).
- `BindingLabelTrue`, `NeverBoundSafe`: `BindingLabelTruthful`, `NeverBoundKept`. The
  invariant carries the same facts over to the Agents *as the pass saw them*
  (`Marked`, `Seen`), and that an Agent which has not changed is as it was seen (`SeenFresh`).
- `AnnotationsSuffice`: `GoneTakesVMAlong`, assuming that the Agents have a namespace of
  their own, that no user deletes an Agent and that no destruction fails. An Agent is
  annotated before it is deleted (`Annotated`), and between the destruction and the
  end of the finalizer its VM does not come back (`Placed`, `SubjectPlaced`).
- `CountedEmptySafe`: `CountedEmpty`, assuming that no VM is overlooked: from the count to
  the release only the pass itself could create a VM, and it no longer does.
- `GoneLeavesNoVMConnected`: `GoneLeavesNoVM`, for any number of templates, assuming that
  vSphere answers, the secret is not deleted and no VM is overlooked. `EmptyInv` adds to the count before a
  release that only guarded templates have VMs (`GuardedWithVMs`), that is, the
  finalizer is stored before the first creation, however stale the cache is.
- `SecretGuardedAlone`: `SecretGuarded`, for a template that has the secret for itself or
  any number that are not deleted, assuming that the secret is neither edited nor deleted, its
  Updates do not fail and no VM is overlooked. `SecretInv`: either the secret has
  the finalizer or the next pass can see in the cache that it is missing and add it
  (`Protectable`), or no pass will ask for VMs again (`DeletionsSeen`).
- `NoVMForGoneSafe`: `NoVMForGone`, for any number of templates: a pass creates VMs only
  with a guarded template in memory, and what is stored of a guarded one goes only through
  a release in a pass of its own.
- `EstimateExact`: the estimate is a natural number, that many VMs fit and one more does
  not. Each quotient is the largest number that fits (`Quotient`), what is clamped at 0 leaves
  room for none (`FreeExact`, `FitsByFree`), and the least of the three fits all of them.
- `EstimatePublishedExact`: the estimate in the status never promises more than what really
  fits, and is exact but for a cluster's effective capacity, from the moment it appears, as
  long as the spec and vSphere stay as they are. What the code makes of a figure is the figure itself or,
  misread, less (`SeenOfActual`, `SeenFits`). Every copy of the template
  carries the estimate (`CopiesExact`), since a stale one may be written back.
- `PollsSpacedSafe`: `PollsSpaced`. The invariant `PollInv` says that, as long as the stored
  template is the one that was read, the pass holds the stored results or the stored
  ones were due.
- `UploadedTrue`, `BootsItsOwn`: `UploadedTruthful`, `BootsItsImage`, from an invariant that
  says the same of every copy of the status, those in the cache and in the pass's
  memory included, since a stale one may be written back or acted upon.

Where a theorem excludes kinds of disturbances, TLC finds a counterexample as soon as any
one of them is allowed: the assumptions of `NoOvershootAsked`, `CountsCoverAll`, `DestroysOwnByStatus`,
`DestroysOwnAtOnce`, `GoneLeavesNoVMConnected`, `SecretGuardedAlone` and
`EstimatePublishedExact` are each necessary. Of `AddsOnlyBelowAsked`, `SecretGuarded` and `GoneLeavesNoVM`, which the
`violation` runs refute, the theorems thus say that nothing else breaks them.

Model-checked only: the liveness properties (`FleetGrows`, `CurrentSettles`, `ReadySettles`,
`ReadyConditionSettles`, `FinalizerNeverBlocks`, `BoundGetsLabelled`, `DeletionEnds`,
`ValidatedSettles`, `EstimateSettles`, `QuotaSettles`, `GetsItsVMs`), which are out of the
prover's reach. The refutations are TLC's too; a proof can only show what they need.

## What the models leave out

- In `VMScaling`: the Agents (a VM's removal is a step of the environment), finalizers,
  resource polling (it decides nothing here), how the ISO is prepared (it is ready or
  the pass fails), changes of prefix, folder and quota, and 32-bit truncation of counts.
- In `AgentCleanup`: VMs of other owners and with them the ownership check, listings
  that overlook VMs, changes of nodePoolRef, an Agent that registers again under its
  old name, Agents that share a name with a template, deletion while vSphere cannot be
  reached (in `TemplateLifecycle`). Reading a cache that lags costs a disturbance there;
  elsewhere it is free.
- In `TemplateLifecycle`: credentials that change to another secret, and what is in the secret.
- In `ISOPreparation`: the `ISOReady` condition, a change of the datastore, a URL whose
  image changes, a creation that fails after the VM exists, two templates in one pass's
  course (they are serialised).
- In `ResourcePolling` and `Capacity`: sizes of VMs below 0, which the CRD allows and for which the
  code estimates 0; the fractions of a MB or GB that the code rounds off; percentages, reasons and messages; the addition of the
  hosts' usage (the figures hold the sum); conversions to int32, which 2^31 VMs would
  take to overflow; an edit of the polling interval; errors of single lookups, which
  look like a missing resource.
- The transition times of conditions (`SetCondition`); nothing reads them.
- Metrics, events and logging decide nothing. Start-up and generated code are as the
  libraries document them. The construction of device specifications (`CreateVM` of
  `pkg/vsphere`) is data no property tells apart.

## Plan

Extensions of `AgentCleanup`: foreign VMs and the ownership check, a nodePoolRef that
changes, overlooked VMs; of `VMScaling`: prefix and quota that change. With each of them, the
invariants above have to be carried over.
