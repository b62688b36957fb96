-------------------------- MODULE TemplateLifecycle --------------------------
(***************************************************************************)
(* The life of templates that share one secret with the vSphere            *)
(* credentials: Reconcile, reconcileDelete, ensureSecretFinalizer and      *)
(* removeSecretFinalizer of controllers/vmwarenodepooltemplate_            *)
(* controller.go, with what reconcileVMs (controllers/vm_reconcile.go)     *)
(* does with the secret and with the counts in the status.                 *)
(*                                                                         *)
(* The one worker runs a pass over one template at a time.  Templates and  *)
(* the secret are read from the informer's cache, which may lag behind but *)
(* never goes back; an Update is refused when the object has changed since *)
(* the version it was read at.                                             *)
(*                                                                         *)
(* Which VMs are created is VMScaling's matter and which are removed is    *)
(* AgentCleanup's: here only their number counts, and a pass over an Agent *)
(* that is being deleted is one step between two passes over templates.    *)
(***************************************************************************)
EXTENDS Integers

CONSTANTS
  Templates,        \* the templates
  None,             \* no template
  MaxReplicas,      \* bound on the replicas users ask for
  Kinds,            \* the disturbances that may happen
  MaxDisturbances   \* bound on how many of them happen in a behaviour

ASSUME NoneAssumption == None \notin Templates
ASSUME BoundsAssumption == MaxReplicas \in Nat /\ MaxDisturbances \in Nat

VARIABLES
  wanted,        \* the replicas of each template's NodePool
  vms,           \* how many VMs of each template exist
  stored,        \* the templates at the API server
  cached,        \* the templates in the informer's cache
  synced,        \* those whose cached copy is the stored one
  secret,        \* the secret at the API server
  cachedSecret,  \* the secret in the informer's cache
  secretSynced,  \* the cached secret is the stored one
  pc,            \* the next call of the pass, or "idle"
  subject,       \* the template the pass is over
  mem,           \* the pass's copy of the template
  memFresh,      \* the stored template has not changed since it was read
  todo,          \* VMs the pass is going to create
  disturbances   \* disturbances left

templates == <<stored, cached, synced>>
secrets   == <<secret, cachedSecret, secretSynced>>
pass      == <<subject, mem, memFresh, todo>>
vars      == <<wanted, vms, templates, secrets, pc, pass, disturbances>>

Phases == {"live", "deleting", "gone"}

\* A template: guarded when it has our finalizer; status.currentReplicas and
\* how many entries status.vmStatus has.
Template == [phase: Phases, guarded: BOOLEAN, current: Nat, entries: Nat]

NewTemplate == [phase |-> "live", guarded |-> FALSE, current |-> 0, entries |-> 0]

NoTemplate == [NewTemplate EXCEPT !.phase = "gone"]

\* The secret: protected when it has our finalizer.
Secret == [phase: Phases, protected: BOOLEAN]

Steps == {"idle", "guard", "connect", "list", "decide", "secret", "create", "refresh",
          "status", "writeBack", "unprotect", "release", "blindRelease"}

TypeOK ==
  /\ wanted \in [Templates -> 0..MaxReplicas]
  /\ vms \in [Templates -> Nat]
  /\ stored \in [Templates -> Template] /\ cached \in [Templates -> Template]
  /\ synced \in SUBSET Templates
  /\ secret \in Secret /\ cachedSecret \in Secret /\ secretSynced \in BOOLEAN
  /\ pc \in Steps
  /\ subject \in Templates \cup {None}
  /\ pc # "idle" => subject \in Templates
  /\ mem \in Template /\ memFresh \in BOOLEAN
  /\ todo \in Nat
  /\ disturbances \in 0..MaxDisturbances

-----------------------------------------------------------------------------
Disturb(kind) ==
  /\ kind \in Kinds
  /\ disturbances > 0
  /\ disturbances' = disturbances - 1

Calm == UNCHANGED disturbances

At(step) == pc = step
Goto(step) == pc' = step

Deleting == mem.phase = "deleting"

\* The pass is over: what it held in memory is gone.
EndPass ==
  /\ pc' = "idle" /\ subject' = None
  /\ mem' = NoTemplate /\ memFresh' = FALSE /\ todo' = 0

\* The pass goes on, with t in memory.
Continue(step, t) ==
  Goto(step) /\ mem' = t /\ UNCHANGED <<subject, memFresh, todo>>

\* The stored template of the pass becomes t.
Store(t) ==
  /\ stored' = [stored EXCEPT ![subject] = t]
  /\ synced' = synced \ {subject}
  /\ UNCHANGED cached

\* An object that loses its last finalizer while it is being deleted is gone.
StoreSecret(protected) ==
  /\ secret' = [phase |-> IF secret.phase = "deleting" /\ ~protected THEN "gone"
                          ELSE secret.phase,
                protected |-> protected]
  /\ secretSynced' = FALSE
  /\ UNCHANGED cachedSecret

-----------------------------------------------------------------------------
\* What the passes decide.

\* Slip: the template goes without our finalizer.
NoFinalizerNeeded(t) == FALSE

\* A template that is not being deleted and lacks our finalizer gets it first.
FinalizerNeeded(t) == t.phase = "live" /\ ~t.guarded

\* Slip: without vSphere a deletion always waits.
NeverBlindly(t) == FALSE

\* Without vSphere a template that is being deleted is released when its status
\* counts no VM.
ReleasableBlindly(t) == t.current = 0

\* The list of n VMs replaces the counts and the entries of the status.
Counted(t, n) == [t EXCEPT !.current = n, !.entries = n]

\* A template that is being deleted wants no VM.
Desired == IF Deleting THEN 0 ELSE wanted[subject]

\* Slip: VMs are created whenever there are not as many as desired.
NotAsMany == mem.current # Desired

TooFew == mem.current < Desired

\* Slip: the count in the status before this pass decides.
NoneStored == stored[subject].current = 0

\* A deletion goes on when this pass has counted no VM.
NoneLeft == mem.current = 0

\* ensureSecretFinalizer is called before the first VM is created.
FirstVM == mem.current = 0

-----------------------------------------------------------------------------
Init ==
  /\ wanted \in [Templates -> 0..MaxReplicas]
  /\ vms = [t \in Templates |-> 0]
  /\ stored = [t \in Templates |-> NewTemplate]
  /\ cached = stored /\ synced = Templates
  /\ secret = [phase |-> "live", protected |-> FALSE]
  /\ cachedSecret = secret /\ secretSynced = TRUE
  /\ pc = "idle" /\ subject = None
  /\ mem = NoTemplate /\ memFresh = FALSE /\ todo = 0
  /\ disturbances = MaxDisturbances

\* Reconcile gets the template from the cache.
Begin(t) ==
  /\ At("idle") /\ cached[t].phase # "gone"
  /\ subject' = t /\ mem' = cached[t] /\ memFresh' = (t \in synced)
  /\ Goto(IF FinalizerNeeded(cached[t]) THEN "guard" ELSE "connect")
  /\ Calm
  /\ UNCHANGED <<wanted, vms, templates, secrets, todo>>

\* AddFinalizer and Update; a failure ends the pass.
AddFinalizer ==
  /\ At("guard")
  /\ \/ /\ memFresh /\ Calm
        /\ Store([stored[subject] EXCEPT !.guarded = TRUE])
        /\ Continue("connect", [mem EXCEPT !.guarded = TRUE])
     \/ /\ IF memFresh THEN Disturb("templateWrite") ELSE Calm
        /\ EndPass /\ UNCHANGED templates
  /\ UNCHANGED <<wanted, vms, secrets>>

\* Credentials, client and datacenter are there.
Connect ==
  /\ At("connect") /\ cachedSecret.phase # "gone" /\ Calm
  /\ Continue("list", mem)
  /\ UNCHANGED <<wanted, vms, templates, secrets>>

\* One of them is not: a normal pass writes the status as it is, a deletion
\* goes by the count in it.
FailToConnect ==
  /\ At("connect")
  /\ IF cachedSecret.phase = "gone" THEN Calm ELSE Disturb("connect")
  /\ \/ ~Deleting /\ Continue("writeBack", mem)
     \/ Deleting /\ ReleasableBlindly(mem) /\ Continue("blindRelease", mem)
     \/ Deleting /\ ~ReleasableBlindly(mem) /\ EndPass
  /\ UNCHANGED <<wanted, vms, templates, secrets>>

\* The VMs that a listing finds: all, unless the information of some cannot be
\* read.
Listed(n) ==
  /\ n \in 0..vms[subject]
  /\ IF n = vms[subject] THEN Calm ELSE Disturb("hide")

\* getCurrentVMs.
List ==
  /\ At("list")
  /\ \/ \E n \in 0..vms[subject] : Listed(n) /\ Continue("decide", [mem EXCEPT !.current = n])
     \/ Disturb("list") /\ Continue("writeBack", mem)
  /\ UNCHANGED <<wanted, vms, templates, secrets>>

\* There are enough VMs: they are counted, and the rest is left to the Agents.
CountVMs ==
  /\ At("decide") /\ ~TooFew
  /\ Continue("status", Counted(mem, mem.current)) /\ Calm
  /\ UNCHANGED <<wanted, vms, templates, secrets>>

\* There are too few.
ScaleUp ==
  /\ At("decide") /\ TooFew
  /\ todo' = Desired - mem.current
  /\ Goto(IF FirstVM THEN "secret" ELSE "create") /\ Calm
  /\ UNCHANGED <<wanted, vms, templates, secrets, subject, mem, memFresh>>

\* ensureSecretFinalizer, whose failure does not matter.  The API refuses a new
\* finalizer on a secret that is being deleted.
EnsureSecretFinalizer ==
  /\ At("secret") /\ Goto("create")
  /\ \/ /\ cachedSecret.phase # "gone" /\ ~cachedSecret.protected
        /\ secretSynced /\ secret.phase = "live" /\ Calm
        /\ StoreSecret(TRUE)
     \/ /\ cachedSecret.phase = "gone" \/ cachedSecret.protected
           \/ ~secretSynced \/ secret.phase # "live"
        /\ Calm /\ UNCHANGED secrets
     \/ Disturb("secretWrite") /\ UNCHANGED secrets
  /\ UNCHANGED <<wanted, vms, templates, pass>>

\* The ISO fails, or VMs are created, any of which may fail.
Create ==
  /\ At("create") /\ Calm
  /\ \/ \E made \in 0..todo :
          vms' = [vms EXCEPT ![subject] = @ + made] /\ Goto("refresh")
     \/ Goto("writeBack") /\ UNCHANGED vms
  /\ UNCHANGED <<wanted, templates, secrets, pass>>

\* The VMs are listed again; when that fails the count from before is written.
Refresh ==
  /\ At("refresh")
  /\ \/ \E n \in 0..vms[subject] : Listed(n) /\ Continue("status", Counted(mem, n))
     \/ Disturb("list") /\ Continue("writeBack", mem)
  /\ UNCHANGED <<wanted, vms, templates, secrets>>

\* Status().Update; a pass that failed ends here, and so does a deletion that
\* has VMs left.
WriteStatus ==
  /\ At("status") \/ At("writeBack")
  /\ \/ /\ memFresh /\ Calm
        /\ Store([stored[subject] EXCEPT !.current = mem.current, !.entries = mem.entries])
        /\ IF At("status") /\ Deleting /\ NoneLeft
           THEN Continue("unprotect", mem) ELSE EndPass
     \/ /\ IF memFresh THEN Disturb("statusWrite") ELSE Calm
        /\ EndPass /\ UNCHANGED templates
  /\ UNCHANGED <<wanted, vms, secrets>>

\* removeSecretFinalizer, whose failure does not matter either.
RemoveSecretFinalizer ==
  /\ At("unprotect") /\ Continue("release", mem)
  /\ \/ /\ cachedSecret.phase # "gone" /\ cachedSecret.protected /\ secretSynced /\ Calm
        /\ StoreSecret(FALSE)
     \/ /\ cachedSecret.phase = "gone" \/ ~cachedSecret.protected \/ ~secretSynced
        /\ Calm /\ UNCHANGED secrets
     \/ Disturb("secretWrite") /\ UNCHANGED secrets
  /\ UNCHANGED <<wanted, vms, templates>>

\* The template loses its finalizer and is gone.
Release ==
  /\ At("release") \/ At("blindRelease")
  /\ \/ memFresh /\ Calm /\ Store([NoTemplate EXCEPT !.current = mem.current])
     \/ (IF memFresh THEN Disturb("templateWrite") ELSE Calm) /\ UNCHANGED templates
  /\ EndPass
  /\ UNCHANGED <<wanted, vms, secrets>>

\* A pass over an Agent that is being deleted: its VM goes, unless it has gone
\* before or cannot be destroyed, and the Agent's entry leaves the status of
\* the template, if there is one; the Update may fail.
FinalizeAgent(t) ==
  /\ At("idle")
  /\ vms' = vms \/ (vms[t] > 0 /\ vms' = [vms EXCEPT ![t] = @ - 1])
  /\ \/ /\ cached[t].phase # "gone" /\ cached[t].entries > 0 /\ t \in synced
        /\ stored' = [stored EXCEPT ![t].entries = cached[t].entries - 1,
                                    ![t].current = cached[t].entries - 1]
        /\ synced' = synced \ {t}
     \/ UNCHANGED <<stored, synced>>
  /\ Calm
  /\ UNCHANGED <<wanted, cached, secrets, pc, pass>>

\* The process dies and is started again.
Crash ==
  /\ ~At("idle") /\ Disturb("crash") /\ EndPass
  /\ UNCHANGED <<wanted, vms, templates, secrets>>

Pass ==
  \/ \E t \in Templates : Begin(t)
  \/ AddFinalizer \/ Connect \/ FailToConnect \/ List \/ CountVMs \/ ScaleUp
  \/ EnsureSecretFinalizer \/ Create \/ Refresh \/ WriteStatus
  \/ RemoveSecretFinalizer \/ Release

-----------------------------------------------------------------------------
\* The environment.

inPass == <<pc, subject, mem, todo>>

SyncTemplate(t) ==
  /\ t \notin synced
  /\ cached' = [cached EXCEPT ![t] = stored[t]] /\ synced' = synced \cup {t}
  /\ Calm
  /\ UNCHANGED <<wanted, vms, stored, secrets, pc, pass>>

SyncSecret ==
  /\ ~secretSynced
  /\ cachedSecret' = secret /\ secretSynced' = TRUE
  /\ Calm
  /\ UNCHANGED <<wanted, vms, templates, secret, pc, pass>>

\* A user scales a template's NodePool.
Scale(t) ==
  /\ Disturb("scale")
  /\ \E n \in 0..MaxReplicas \ {wanted[t]} : wanted' = [wanted EXCEPT ![t] = n]
  /\ UNCHANGED <<vms, templates, secrets, pc, pass>>

\* A user changes the template, so that what was read of it is outdated, or
\* deletes it; without a finalizer it is gone at once.
ChangeTemplate(t) ==
  /\ stored[t].phase # "gone"
  /\ \/ Disturb("editTemplate") /\ UNCHANGED stored
     \/ /\ stored[t].phase = "live" /\ Disturb("deleteTemplate")
        /\ stored' = [stored EXCEPT ![t].phase =
                        IF stored[t].guarded THEN "deleting" ELSE "gone"]
  /\ synced' = synced \ {t} /\ memFresh' = (memFresh /\ t # subject)
  /\ UNCHANGED <<wanted, vms, cached, secrets, inPass>>

\* A user changes the secret, or deletes it.
ChangeSecret ==
  /\ secret.phase # "gone"
  /\ \/ Disturb("editSecret") /\ UNCHANGED secret
     \/ /\ secret.phase = "live" /\ Disturb("deleteSecret")
        /\ secret' = [secret EXCEPT !.phase = IF secret.protected THEN "deleting" ELSE "gone"]
  /\ secretSynced' = FALSE
  /\ UNCHANGED <<wanted, vms, templates, cachedSecret, pc, pass>>

\* An administrator destroys a VM.
LoseVM(t) ==
  /\ vms[t] > 0 /\ Disturb("loseVM")
  /\ vms' = [vms EXCEPT ![t] = @ - 1]
  /\ UNCHANGED <<wanted, templates, secrets, pc, pass>>

Environment ==
  \/ \E t \in Templates :
       \/ FinalizeAgent(t) \/ SyncTemplate(t) \/ Scale(t) \/ ChangeTemplate(t) \/ LoseVM(t)
  \/ SyncSecret \/ ChangeSecret

Next == Pass \/ Crash \/ Environment

Spec == Init /\ [][Next]_vars

\* The work queue holds every template until it is gone (a pass ends in an
\* error or a requeue) and serves them in turn.  The informer catches up.
Fairness ==
  /\ WF_vars(Pass)
  /\ \A t \in Templates : SF_vars(Begin(t)) /\ WF_vars(SyncTemplate(t))
  /\ WF_vars(SyncSecret)

FairSpec == Spec /\ Fairness

-----------------------------------------------------------------------------
\* Properties.

\* "All VMs have been deleted - remove finalizer from secret" (vmwarenodepool
\* template_controller.go:414): when a pass that has counted gives up the secret
\* and then the template, there is no VM of it, although other passes, Agents
\* and users have been at work since the count.
CountedEmpty ==
  pc \in {"unprotect", "release"} => vms[subject] = 0

\* No VM is created for a template that is gone: the finalizer is there before
\* the first VM, and a deletion that has been seen once is never forgotten,
\* however far the cache lags behind.
NoVMForGone ==
  [][\A t \in Templates : vms'[t] > vms[t] => stored[t].phase # "gone"]_vars

\* A template that is being deleted and has no VMs goes, whatever has failed;
\* it waits for ever only if the secret is gone and the status, which nobody
\* can correct any more, counts VMs.
DeletionEnds ==
  \A t \in Templates :
    []<>(stored[t].phase = "deleting" =>
           vms[t] > 0 \/ (secret.phase = "gone" /\ stored[t].current > 0))

\* "If we can't connect to vSphere, check if all VMs are already gone"
\* (vmwarenodepooltemplate_controller.go:360): a template that is gone leaves
\* no VM behind.
GoneLeavesNoVM ==
  \A t \in Templates : stored[t].phase = "gone" => vms[t] = 0

\* "All VMs have been deleted - remove finalizer from secret" (:414): the
\* credentials stay as long as there are VMs to remove with them.
SecretGuarded ==
  (\E t \in Templates : vms[t] > 0) => secret.protected
=============================================================================
