---------------------------- MODULE AgentCleanup ----------------------------
(***************************************************************************)
(* The Agents that boot on a template's VMs, and how VMs are removed       *)
(* through them: reconcileAgents (controllers/agent.go),                   *)
(* reconcileAgentFinalizer and reconcileDelete                             *)
(* (controllers/vmwarenodepooltemplate_controller.go), with the list of    *)
(* VMs that reconcileVMs (controllers/vm_reconcile.go) keeps in the        *)
(* template's status.                                                      *)
(*                                                                         *)
(* A machine is one VM for its lifetime (a UUID); its name may be used     *)
(* again by a later machine.  The Agent of a machine is matched to it by   *)
(* UUID or serial number, so a machine stands for both.  The one worker    *)
(* runs passes of two kinds, over the template and over an Agent that is   *)
(* being deleted; within a pass every API call is a step.                  *)
(*                                                                         *)
(* What a pass does before it lists the VMs, and what VMs that a listing   *)
(* overlooks and VMs of others do to it, is VMScaling's matter.  The       *)
(* template's nodePoolRef does not change.                                 *)
(***************************************************************************)
EXTENDS Integers, FiniteSets

CONSTANTS
  Machines,         \* the VMs there may ever be
  None,             \* no machine
  MaxReplicas,      \* bound on the NodePool's replicas
  MaxVms,           \* spec.quota.maxVms
  SameNamespace,    \* the Agents live in the template's namespace
  Kinds,            \* the disturbances that may happen
  MaxDisturbances   \* bound on how many of them happen in a behaviour

Numbers == 1..(Cardinality(Machines) + 1)   \* enough for one name more

ASSUME NoneAssumption == None \notin Machines
ASSUME MachinesAssumption == IsFiniteSet(Machines)
ASSUME BoundsAssumption ==
  MaxReplicas \in Nat /\ MaxVms \in Nat /\ MaxDisturbances \in Nat
ASSUME NamespaceAssumption == SameNamespace \in BOOLEAN

VARIABLES
  replicas,    \* the NodePool's spec.replicas
  alive,       \* the machines that exist in vSphere
  number,      \* the number in a machine's name, 0 before it is created
  agents,      \* the Agent of each machine
  stored,      \* the template at the API server
  cached,      \* the template in the informer's cache
  cacheFresh,  \* the cached template is the stored one
  pc,          \* the next call of the pass, or "idle"
  mem,         \* the pass's copy of the template
  memFresh,    \* the stored template has not changed since it was read
  seen,        \* the Agents as the pass read them
  agentFresh,  \* the machines whose Agent has not changed since
  left,        \* the machines whose Agent the pass has yet to handle
  subject,     \* the machine whose Agent the pass handles
  view,        \* currentVMs: the machines whose names the loop knows of
  todo,        \* the VMs wanted; in the loop, the creations left
  dropped,     \* the machines whose Agent's request is not in the queue
  disturbances \* disturbances left

vars == <<replicas, alive, number, agents, stored, cached, cacheFresh, pc, mem,
          memFresh, seen, agentFresh, left, subject, view, todo, dropped, disturbances>>
machines == <<alive, number>>
store    == <<stored, cached, cacheFresh>>
reading  == <<seen, agentFresh, left, subject>>
loop     == <<view, todo>>
copies   == <<mem, memFresh, reading, loop>>

\* An Agent.  adopted: our finalizer and managed-by label are on it; prepared:
\* nodepool label, hostname, approval and the vm-name annotation; binding: the
\* binding label.  everBound remembers whether it has been Bound at all.
Agent == [phase: {"none", "live", "deleting", "gone"},
          status: {"new", "bound", "unbinding"},
          adopted: BOOLEAN, prepared: BOOLEAN, binding: BOOLEAN,
          everBound: BOOLEAN]

NoAgent == [phase |-> "none", status |-> "new", adopted |-> FALSE,
            prepared |-> FALSE, binding |-> FALSE, everBound |-> FALSE]

\* The template: status.vmStatus as the machines listed in it, and those of
\* them whose entry has an agentName.
Template == [phase: {"live", "deleting", "gone"},
             listed: SUBSET Machines, named: SUBSET Machines]

Steps == {"idle", "vms", "create", "writeBack", "agentList", "agents", "adopted",
          "status", "release", "destroy", "drop", "unfinalize"}

TypeOK ==
  /\ replicas \in 0..MaxReplicas
  /\ alive \in SUBSET Machines /\ number \in [Machines -> Numbers \cup {0}]
  /\ agents \in [Machines -> Agent] /\ seen \in [Machines -> Agent]
  /\ stored \in Template /\ cached \in Template /\ mem \in Template
  /\ cacheFresh \in BOOLEAN /\ memFresh \in BOOLEAN
  /\ pc \in Steps
  /\ agentFresh \in SUBSET Machines /\ left \in SUBSET Machines
  /\ subject \in Machines \cup {None}
  /\ view \in SUBSET Machines /\ todo \in Nat /\ dropped \in SUBSET Machines
  /\ disturbances \in 0..MaxDisturbances
  /\ \A t \in {stored, cached, mem} : t.named \subseteq t.listed

-----------------------------------------------------------------------------
Disturb(kind) ==
  /\ kind \in Kinds
  /\ disturbances > 0
  /\ disturbances' = disturbances - 1

Calm == UNCHANGED disturbances

At(step) == pc = step
Goto(step) == pc' = step

NoTemplate == [phase |-> "gone", listed |-> {}, named |-> {}]

\* The pass is over: what it held in memory is gone.
EndPass ==
  /\ pc' = "idle"
  /\ mem' = NoTemplate /\ memFresh' = FALSE
  /\ seen' = [m \in Machines |-> NoAgent]
  /\ agentFresh' = {} /\ left' = {} /\ subject' = None
  /\ view' = {} /\ todo' = 0

\* A template is read from the cache, which rarely lags behind.
ReadTemplate == IF cacheFresh THEN Calm ELSE Disturb("lag")

\* An Update or a Status().Update of what the pass read is accepted when the
\* object has not changed since.
TemplateWritable == memFresh
AgentWritable(m) == m \in agentFresh

-----------------------------------------------------------------------------
\* What the passes decide.

Exists(m) == agents[m].phase \in {"live", "deleting"}

\* What reconcileVMs makes of the listing: VMs are missing, the quota is reached,
\* and how many the quota allows to be created.
TooFew == Cardinality(alive) < todo

QuotaReached == Cardinality(alive) >= MaxVms

ToCreate == (IF todo > MaxVms THEN MaxVms ELSE todo) - Cardinality(alive)

\* Slip: the number is one that no VM has ever had.
NeverReused(n) == n = Cardinality({m \in Machines : number[m] # 0}) + 1

\* A new VM's name takes the lowest number that no VM uses which the loop knows
\* of, whether that one still exists or not.
FreeNumber(n) ==
  \A k \in 1..n : (k = n) <=> k \notin {number[x] : x \in view}

\* vSphere refuses a name that is in use.  (The bound on machines also shows as
\* a refusal.)
Refused(n) ==
  n \in {number[x] : x \in alive} \/ \A m \in Machines : number[m] # 0

\* The names of the status after reconcileVMs has rebuilt it from the folder:
\* the entries are made anew, without agentName.
\* Slip: the names in the old entries are all carried over.
NamesCarried(t) == t.named

NamesKept(t) == {}

\* An Agent that reports Unbinding or Unbound is deleted when it carries our
\* finalizer and labels and has the binding label.
\* Slip: the binding label is not looked at.
ToRetireUnbound(a) == a.status # "bound" /\ a.adopted /\ a.prepared

ToRetire(a) == a.status # "bound" /\ a.adopted /\ a.prepared /\ a.binding

\* Labels, hostname, approval or annotations have to be written.  The binding
\* label is added when the Agent is seen Bound.
\* Slip: an Agent that has all the rest is not looked at again.
ToPrepareOnce(a) == ~a.prepared

ToPrepare(a) == ~a.prepared \/ (a.status = "bound" /\ ~a.binding)

\* Slip: the binding label is written with the other ones.
PreparedAndBound(a) == [a EXCEPT !.prepared = TRUE, !.binding = TRUE]

Prepared(a) ==
  [a EXCEPT !.prepared = TRUE, !.binding = @ \/ a.status = "bound"]

\* The finalizer finds the template under the name in the managed-by label in
\* the Agent's namespace.
TemplateFound == SameNamespace /\ cached.phase # "gone"

\* It learns the name of the VM from the status entry that names the Agent, or,
\* without the template, from the Agent's annotation.
\* Slips: the annotation is used also when no entry names the Agent; it is
\* never used.
VMKnownEitherWay(m) == m \in cached.named \/ agents[m].prepared
VMKnownByStatus(m) == m \in cached.named

VMKnown(m) ==
  IF TemplateFound THEN m \in cached.named ELSE agents[m].prepared

\* What the finalizer goes on with: without a VM to remove, only the finalizer
\* is taken off.
\* Slip: without a VM to remove, nothing is done.
NothingToDo(m) == IF VMKnown(m) THEN "destroy" ELSE "idle"

AfterLookup(m) == IF VMKnown(m) THEN "destroy" ELSE "unfinalize"

-----------------------------------------------------------------------------
Init ==
  /\ replicas \in 0..MaxReplicas
  /\ alive = {} /\ number = [m \in Machines |-> 0]
  /\ agents = [m \in Machines |-> NoAgent]
  /\ stored = [phase |-> "live", listed |-> {}, named |-> {}]
  /\ cached = stored /\ cacheFresh = TRUE
  /\ pc = "idle" /\ mem = NoTemplate /\ memFresh = FALSE
  /\ seen = agents /\ agentFresh = {} /\ left = {} /\ subject = None
  /\ view = {} /\ todo = 0 /\ dropped = {}
  /\ disturbances = MaxDisturbances

\* A pass over the template starts, and reads how many VMs the NodePool wants.
\* (Of a template that is being deleted none are wanted.)
BeginTemplate ==
  /\ At("idle") /\ cached.phase # "gone"
  /\ ReadTemplate /\ Goto("vms")
  /\ mem' = cached /\ memFresh' = cacheFresh
  /\ todo' = IF cached.phase = "live" THEN replicas ELSE 0
  /\ UNCHANGED <<replicas, dropped, machines, agents, store, reading, view>>

\* The list in the status is made anew from a listing of the VMs.
RebuildList ==
  /\ mem' = [mem EXCEPT !.listed = alive, !.named = NamesKept(mem)]
  /\ Goto(IF mem.phase = "live" THEN "agentList" ELSE "status")
  /\ view' = {} /\ todo' = 0

\* The VMs cannot be listed, or the ISO for new ones not be prepared: the pass
\* ends with the list it has read.
GiveUp(kind) == Disturb(kind) /\ Goto("writeBack") /\ UNCHANGED <<mem, loop>>

\* There are VMs enough, or too many.
ListVMs ==
  /\ At("vms")
  /\ \/ ~TooFew /\ Calm /\ RebuildList
     \/ GiveUp("list")
  /\ UNCHANGED <<replicas, dropped, machines, agents, store, memFresh, reading>>

\* The quota is reached: the list in the status stays as it was read.
StopAtQuota ==
  /\ At("vms") /\ TooFew /\ QuotaReached
  /\ Goto("agentList") /\ Calm /\ todo' = 0
  /\ UNCHANGED <<replicas, dropped, machines, agents, store, mem, memFresh, reading, view>>

\* The loop goes by this one listing.
ScaleUp ==
  /\ At("vms") /\ TooFew /\ ~QuotaReached
  /\ \/ Calm /\ Goto("create") /\ view' = alive /\ todo' = ToCreate /\ UNCHANGED mem
     \/ GiveUp("iso")
  /\ UNCHANGED <<replicas, dropped, machines, agents, store, memFresh, reading>>

\* A machine comes into being under number n.
Make(m, n) ==
  /\ number[m] = 0
  /\ alive' = alive \cup {m} /\ number' = [number EXCEPT ![m] = n]

\* One iteration of the loop.  A creation may also fail after the VM was made;
\* the loop takes note of it only when all went well.
CreateVM ==
  /\ At("create") /\ todo > 0 /\ todo' = todo - 1
  /\ \E n \in Numbers :
       /\ FreeNumber(n)
       /\ \/ Refused(n) /\ Calm /\ UNCHANGED <<machines, view>>
          \/ Disturb("create") /\ UNCHANGED <<machines, view>>
          \/ /\ ~Refused(n)
             /\ \E m \in Machines :
                  /\ Make(m, n)
                  /\ \/ Calm /\ view' = view \cup {m}
                     \/ Disturb("create") /\ UNCHANGED view
  /\ UNCHANGED <<replicas, dropped, agents, store, pc, mem, memFresh, reading>>

\* After the loop the VMs are listed again.
Refresh ==
  /\ At("create") /\ todo = 0
  /\ \/ Calm /\ RebuildList
     \/ GiveUp("list")
  /\ UNCHANGED <<replicas, dropped, machines, agents, store, memFresh, reading>>

\* reconcileAgents lists the Agents and handles those of the listed machines.
ListAgents ==
  /\ At("agentList")
  /\ \/ LET matching == {m \in mem.listed : Exists(m)}
        IN  /\ left' = matching /\ agentFresh' = matching /\ seen' = agents
            /\ Goto("agents") /\ Calm
     \/ Disturb("agentList") /\ Goto("status") /\ UNCHANGED <<left, agentFresh, seen>>
  /\ UNCHANGED <<replicas, dropped, machines, agents, store, mem, memFresh, subject, loop>>

\* The pass writes machine m's Agent as changed from what it saw; the object it
\* holds is then the stored one.
UpdateAgent(m, changed) ==
  /\ agents' = [agents EXCEPT ![m] = changed]
  /\ seen' = [seen EXCEPT ![m] = changed]

\* The Agent of m is done with.
NextAgent(m) == left' = left \ {m} /\ subject' = None /\ Goto("agents")

\* An Agent without our finalizer and managed-by label gets them first.  When
\* that fails the Agent is skipped.  (The API refuses finalizers on an object
\* that is being deleted.)
Adopt(m) ==
  /\ At("agents") /\ m \in left /\ ~seen[m].adopted
  /\ IF AgentWritable(m) /\ agents[m].phase = "live"
     THEN \/ /\ Calm /\ UpdateAgent(m, [seen[m] EXCEPT !.adopted = TRUE])
             /\ Goto("adopted") /\ subject' = m /\ UNCHANGED left
          \/ Disturb("agentWrite") /\ NextAgent(m) /\ UNCHANGED <<agents, seen>>
     ELSE Calm /\ NextAgent(m) /\ UNCHANGED <<agents, seen>>
  /\ UNCHANGED <<replicas, dropped, machines, store, mem, memFresh, agentFresh, loop>>

\* The pass is at the rest of its work for m's Agent.
Handling(m) == \/ At("agents") /\ m \in left /\ seen[m].adopted
               \/ At("adopted") /\ m = subject

\* It was bound and no longer is: delete it (unconditionally), so that its
\* finalizer removes the VM.
Retire(m) ==
  /\ Handling(m) /\ ToRetire(seen[m])
  /\ \/ /\ Calm
        /\ agents' = IF agents[m].phase # "live" THEN agents
                     ELSE [agents EXCEPT ![m].phase = "deleting"]
     \/ Disturb("agentDelete") /\ UNCHANGED agents
  /\ agentFresh' = agentFresh \ {m}
  /\ NextAgent(m)
  /\ UNCHANGED <<replicas, dropped, machines, store, mem, memFresh, seen, loop>>

\* Otherwise it is labelled, approved and annotated if need be, and only a
\* successful Update puts its name into the status.
Prepare(m) ==
  /\ Handling(m) /\ ~ToRetire(seen[m])
  /\ IF ToPrepare(seen[m]) /\ AgentWritable(m)
     THEN \/ /\ Calm /\ UpdateAgent(m, Prepared(seen[m]))
             /\ mem' = [mem EXCEPT !.named = @ \cup ({m} \cap mem.listed)]
          \/ Disturb("agentWrite") /\ UNCHANGED <<agents, seen, mem>>
     ELSE Calm /\ UNCHANGED <<agents, seen, mem>>
  /\ NextAgent(m)
  /\ UNCHANGED <<replicas, dropped, machines, store, memFresh, agentFresh, loop>>

\* The status is stored with the list that the pass has.
StoreStatus ==
  /\ cacheFresh' = FALSE
  /\ stored' = [stored EXCEPT !.listed = mem.listed, !.named = mem.named]

\* Status().Update of a pass that failed, which is then over.
WriteBack ==
  /\ At("writeBack") /\ EndPass
  /\ IF TemplateWritable
     THEN \/ Calm /\ StoreStatus
          \/ Disturb("statusWrite") /\ UNCHANGED <<stored, cacheFresh>>
     ELSE Calm /\ UNCHANGED <<stored, cacheFresh>>
  /\ UNCHANGED <<replicas, dropped, machines, agents, cached>>

\* Status().Update at the end of a pass.  A template being deleted whose list
\* is empty then loses its finalizer; otherwise the pass is over.
WriteStatus ==
  /\ At("status") \/ (At("agents") /\ left = {})
  /\ IF TemplateWritable
     THEN \/ /\ Calm /\ StoreStatus
             /\ IF mem.phase = "deleting" /\ mem.listed = {}
                THEN Goto("release") /\ UNCHANGED copies
                ELSE EndPass
          \/ Disturb("statusWrite") /\ EndPass /\ UNCHANGED <<stored, cacheFresh>>
     ELSE Calm /\ EndPass /\ UNCHANGED <<stored, cacheFresh>>
  /\ UNCHANGED <<replicas, dropped, machines, agents, cached>>

\* The finalizer is removed from the template, which is then gone.
Release ==
  /\ At("release") /\ EndPass
  /\ IF TemplateWritable
     THEN \/ Calm /\ stored' = [stored EXCEPT !.phase = "gone"] /\ cacheFresh' = FALSE
          \/ Disturb("templateWrite") /\ UNCHANGED <<stored, cacheFresh>>
     ELSE Calm /\ UNCHANGED <<stored, cacheFresh>>
  /\ UNCHANGED <<replicas, dropped, machines, agents, cached>>

-----------------------------------------------------------------------------
\* The request for the Agent of m, which is being deleted, is taken off the queue.
Requested(m) == At("idle") /\ agents[m].phase = "deleting" /\ m \notin dropped

\* The Agent, which is read live, cannot be read: that is taken for its not being
\* there, and the request is dropped for good.
DropRequest(m) ==
  /\ Requested(m) /\ Disturb("agentRead")
  /\ dropped' = dropped \cup {m}
  /\ UNCHANGED <<replicas, machines, agents, store, pc, copies>>

\* Otherwise the pass over the Agent starts.
BeginFinalizer(m) ==
  /\ Requested(m)
  /\ ReadTemplate
  /\ mem' = IF TemplateFound THEN cached ELSE NoTemplate
  /\ memFresh' = cacheFresh
  /\ seen' = agents /\ agentFresh' = {m} /\ subject' = m
  /\ Goto(AfterLookup(m))
  /\ UNCHANGED <<replicas, dropped, machines, agents, store, left, loop>>

\* The VM is looked up by name and destroyed, whichever machine has the name
\* now.  (Its owner is this template in either case.)  Failures are passed over.
Destroy ==
  /\ At("destroy")
  /\ \/ Calm /\ alive' = {x \in alive : number[x] # number[subject]}
     \/ Disturb("destroy") /\ UNCHANGED alive
  /\ Goto(IF mem.phase = "gone" THEN "unfinalize" ELSE "drop")
  /\ UNCHANGED <<replicas, dropped, number, agents, store, copies>>

\* The entry leaves the status; failing to write that is only logged.
DropEntry ==
  /\ At("drop") /\ Goto("unfinalize")
  /\ LET kept == mem.listed \ (mem.named \cap {subject})
     IN  IF TemplateWritable
         THEN \/ /\ Calm /\ cacheFresh' = FALSE
                 /\ stored' = [stored EXCEPT !.listed = kept, !.named = mem.named \ {subject}]
              \/ Disturb("statusWrite") /\ UNCHANGED <<stored, cacheFresh>>
         ELSE Calm /\ UNCHANGED <<stored, cacheFresh>>
  /\ UNCHANGED <<replicas, dropped, machines, agents, cached, copies>>

\* The finalizer comes off and the Agent is gone; if that fails it is retried
\* from the start.
Unfinalize ==
  /\ At("unfinalize") /\ EndPass
  /\ IF AgentWritable(subject)
     THEN \/ Calm /\ agents' = [agents EXCEPT ![subject].phase = "gone"]
          \/ Disturb("agentWrite") /\ UNCHANGED agents
     ELSE Calm /\ UNCHANGED agents
  /\ UNCHANGED <<replicas, dropped, machines, store>>

Pass ==
  \/ BeginTemplate \/ ListVMs \/ StopAtQuota \/ ScaleUp \/ CreateVM \/ Refresh \/ ListAgents
  \/ \E m \in Machines :
       Adopt(m) \/ Retire(m) \/ Prepare(m) \/ DropRequest(m) \/ BeginFinalizer(m)
  \/ WriteBack \/ WriteStatus \/ Release \/ Destroy \/ DropEntry \/ Unfinalize

\* The process dies and is started again, with a request for every object.
Crash ==
  /\ ~At("idle") /\ Disturb("crash") /\ EndPass /\ dropped' = {}
  /\ UNCHANGED <<replicas, machines, agents, store>>

-----------------------------------------------------------------------------
\* The environment.

unread == <<pc, mem, memFresh, seen, left, subject, loop>>

\* An Agent's event, at the latest that of the informer's periodic resync, puts
\* the request for it back.
Requeue(m) ==
  /\ m \in dropped /\ dropped' = dropped \ {m} /\ Calm
  /\ UNCHANGED <<replicas, machines, agents, store, pc, copies>>

SyncCache ==
  /\ ~cacheFresh
  /\ cached' = stored /\ cacheFresh' = TRUE
  /\ Calm
  /\ UNCHANGED <<replicas, dropped, machines, agents, stored, pc, copies>>

\* An Agent changes: what a pass read of it is outdated.
AgentChanges(m, changed) ==
  /\ agents' = [agents EXCEPT ![m] = changed]
  /\ agentFresh' = agentFresh \ {m}
  /\ UNCHANGED <<replicas, dropped, machines, store, unread>>

\* The ISO boots on a new VM and its Agent registers.
Register(m) ==
  /\ m \in alive /\ agents[m].phase = "none" /\ Calm
  /\ AgentChanges(m, [NoAgent EXCEPT !.phase = "live"])

\* The Agents that count as the NodePool's nodes.
Bound == {m \in Machines : agents[m].phase = "live" /\ agents[m].status = "bound"}

\* The NodePool binds an approved Agent while it has too few, and unbinds one
\* while it has too many.
Bind(m) ==
  /\ agents[m].phase = "live" /\ agents[m].prepared /\ m \notin Bound
  /\ Cardinality(Bound) < replicas /\ Calm
  /\ AgentChanges(m, [agents[m] EXCEPT !.status = "bound", !.everBound = TRUE])

Unbind(m) ==
  /\ m \in Bound /\ Cardinality(Bound) > replicas /\ Calm
  /\ AgentChanges(m, [agents[m] EXCEPT !.status = "unbinding"])

\* A user deletes an Agent; without a finalizer it is gone at once.
DeleteAgent(m) ==
  /\ agents[m].phase = "live" /\ Disturb("deleteAgent")
  /\ AgentChanges(m, [agents[m] EXCEPT !.phase =
                        IF agents[m].adopted THEN "deleting" ELSE "gone"])

\* A user scales the NodePool.
Scale ==
  /\ Disturb("scale")
  /\ replicas' \in 0..MaxReplicas /\ replicas' # replicas
  /\ UNCHANGED <<machines, dropped, agents, store, pc, copies>>

\* A user deletes the template.
DeleteTemplate ==
  /\ stored.phase = "live" /\ Disturb("deleteTemplate")
  /\ stored' = [stored EXCEPT !.phase = "deleting"]
  /\ cacheFresh' = FALSE /\ memFresh' = FALSE
  /\ UNCHANGED <<replicas, dropped, machines, agents, cached, pc, mem, seen, agentFresh, left,
                 subject, loop>>

\* An administrator destroys a VM.
LoseVM ==
  /\ Disturb("loseVM")
  /\ \E m \in alive : alive' = alive \ {m}
  /\ UNCHANGED <<replicas, dropped, number, agents, store, pc, copies>>

\* What the assisted service and the NodePool controller do.
Cluster == \E m \in Machines : Register(m) \/ Bind(m) \/ Unbind(m)

Environment ==
  \/ SyncCache \/ Cluster \/ Scale \/ DeleteTemplate \/ LoseVM
  \/ \E m \in Machines : DeleteAgent(m) \/ Requeue(m)

Next == Pass \/ Crash \/ Environment

Spec == Init /\ [][Next]_vars

\* Both kinds of requests wait in one first-in-first-out queue: the template's
\* is put back by every pass, an Agent's until its finalizer is off or it is
\* dropped.  A dropped one comes back with the informer's resync, which is
\* periodic (every ten hours or so).  A pass goes on until it ends, and the
\* cache catches up.
Fairness ==
  /\ WF_vars(Pass)
  /\ SF_vars(BeginTemplate)
  /\ \A m \in Machines : SF_vars(BeginFinalizer(m)) /\ WF_vars(Requeue(m))
  /\ WF_vars(SyncCache)

FairSpec == Spec /\ Fairness

-----------------------------------------------------------------------------
\* Properties.

\* "This ensures we only delete VMs for Agents that were actually removed from
\* the NodePool" (vm_reconcile.go:149): the pass over an Agent destroys no
\* other VM than the one this Agent runs on, although it goes by the name.  So it
\* is without certain faults (see the theorems).
DestroysOnlyItsOwn ==
  [][At("destroy") /\ pc' # pc => alive \ alive' \subseteq {subject}]_vars

\* With any faults, a VM that the status lists goes only with its own Agent: the
\* pass over an Agent whose VM is gone, say one that is repeated after a restart,
\* may destroy the VM that has got the name since, but none that the status it
\* has read lists already.
ListedVMsKept ==
  [][At("destroy") /\ pc' # pc => (alive \ alive') \cap mem.listed \subseteq {subject}]_vars

\* "NEW agents with Unbound status (never bound, no binding label)"
\* (agent.go:279) are not taken for unbound ones: no Agent that was never bound
\* is deleted, however old the list is that the pass works from.
NeverBoundKept ==
  [][\A m \in left : agents[m].phase = "live" /\ agents'[m].phase = "deleting"
        /\ disturbances' = disturbances => agents[m].everBound]_vars

\* The binding label "tracks if an agent was ever bound" (agent.go:367): it is
\* on no other Agent, and with it always go the markers that deletion and the
\* finalizer rely on.
BindingLabelTruthful ==
  \A m \in Machines :
    agents[m].binding => agents[m].everBound /\ agents[m].adopted /\ agents[m].prepared

\* An Agent is never blocked by the VM's cleanup: once it is being deleted it
\* goes, whatever failed ("removing finalizer to prevent blocking",
\* vmwarenodepooltemplate_controller.go:606); when the Agent could not be read
\* (line 108) only because of the resync.
FinalizerNeverBlocks ==
  \A m \in Machines : agents[m].phase = "deleting" ~> agents[m].phase = "gone"

\* At the quota the list in the status is not made anew (vm_reconcile.go:63): a
\* machine that is missing there, because a status write was lost, remains
\* missing, and its Agent is not looked at.
Overlooked(m) == m \notin stored.listed /\ Cardinality(alive) \in MaxVms..(replicas - 1)

StaysBound(m) ==
  /\ agents[m].phase = "live" /\ agents[m].status = "bound"
  /\ m \in alive /\ stored.phase = "live"

\* An Agent that stays bound to the NodePool on a VM that exists ends up with the
\* binding label, without which it would not be deleted when it is unbound
\* (agent.go:290), or is overlooked for good.
BoundGetsLabelled ==
  \A m \in Machines : <>[]StaysBound(m) => <>[](agents[m].binding \/ Overlooked(m))

\* "Agent finalizer cleans up the corresponding VMs in vSphere"
\* (vm_reconcile.go:148): the VM of an Agent is gone before the Agent is.
GoneTakesVMAlong ==
  \A m \in Machines : agents[m].phase = "gone" /\ agents[m].adopted => m \notin alive

\* The template's VMs as an abstract fleet, whose slots are those of the quota.
F == INSTANCE Fleet WITH
       Slots <- 1..MaxVms, vms <- {number[m] : m \in alive}, wanted <- replicas

\* However VMs are removed through their Agents, lost and made anew under names
\* used before, they come and go one at a time, each under a number of its own
\* that the quota allows.
OneFleet == F!Spec
=============================================================================
