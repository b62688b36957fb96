---------------------------- MODULE ReleaseProofs ----------------------------
(***************************************************************************)
(* What TemplateLifecycle leaves behind, for any number of templates, VMs  *)
(* and disturbances.                                                       *)
(*                                                                         *)
(* GoneLeavesNoVM and SecretGuarded do not hold of the code as it is: the  *)
(* runs TemplateLifecycle_blind_release and _shared_secret show how they   *)
(* fail.  The theorems say that nothing else than what they exclude breaks *)
(* them.                                                                   *)
(***************************************************************************)
EXTENDS TemplateLifecycleProofs

-----------------------------------------------------------------------------
\* Neither the stored secret nor the cached one is ever being deleted.
SecretStays == secret.phase = "live" /\ cachedSecret.phase = "live"

\* Only a template that has our finalizer has VMs, and only one without it can
\* be gone.
GuardedWithVMs ==
  \A t \in Templates :
    /\ ~stored[t].guarded => vms[t] = 0
    /\ stored[t].phase = "gone" => ~stored[t].guarded

\* Nothing is released without having counted, if vSphere always answers.
NeverBlind == SecretStays /\ pc # "blindRelease"

EmptyInv == GoneInv /\ CountInv /\ NeverBlind /\ GuardedWithVMs

-----------------------------------------------------------------------------
LEMMA SecretStaysStep ==
  ASSUME "deleteSecret" \notin Kinds, TypeOK, SecretStays, [Next]_vars
  PROVE  SecretStays'
<1>1. CASE EnsureSecretFinalizer \/ RemoveSecretFinalizer
  BY <1>1 DEF EnsureSecretFinalizer, RemoveSecretFinalizer, StoreSecret, secrets,
              SecretStays
<1>2. CASE SyncSecret \/ ChangeSecret
  BY <1>2 DEF SyncSecret, ChangeSecret, Disturb, SecretStays
<1>3. CASE ~ \/ EnsureSecretFinalizer \/ RemoveSecretFinalizer
             \/ SyncSecret \/ ChangeSecret
  <2>1. UNCHANGED secrets
    BY <1>3 DEF Next, Pass, Environment, Begin, AddFinalizer, Connect, FailToConnect, List,
                CountVMs, ScaleUp, Create, Refresh, WriteStatus, Release, Crash,
                FinalizeAgent, SyncTemplate, Scale, ChangeTemplate, LoseVM, vars
  <2> QED
    BY <2>1 DEF secrets, SecretStays
<1> QED
  BY <1>1, <1>2, <1>3

LEMMA NeverBlindStep ==
  ASSUME {"connect", "deleteSecret"} \cap Kinds = {}, TypeOK, NeverBlind, [Next]_vars
  PROVE  NeverBlind'
<1>1. SecretStays'
  BY SecretStaysStep DEF NeverBlind
<1>2. ~FailToConnect
  BY DEF FailToConnect, Disturb, NeverBlind, SecretStays
<1>3. pc' # "blindRelease"
  <2>1. CASE Pass \/ Crash
    BY <1>2, <2>1 DEF Pass, Begin, AddFinalizer, Connect, List, CountVMs, ScaleUp,
                      EnsureSecretFinalizer, Create, Refresh, WriteStatus,
                      RemoveSecretFinalizer, Release, Crash, Continue, Goto, EndPass
  <2>2. CASE Environment \/ UNCHANGED vars
    BY <2>2 DEF Environment, FinalizeAgent, SyncTemplate, Scale, ChangeTemplate, LoseVM,
                SyncSecret, ChangeSecret, inPass, vars, NeverBlind
  <2> QED
    BY <2>1, <2>2 DEF Next
<1> QED
  BY <1>1, <1>3 DEF NeverBlind

\* What a step can do to a stored template: leave its finalizer alone, and let
\* it go only without one; give it the finalizer; or release it, which only the
\* end of a deletion does.
LEMMA StoredStep ==
  ASSUME GoneInv, [Next]_vars, NEW t \in Templates
  PROVE  \/ /\ stored'[t].guarded = stored[t].guarded
            /\ stored'[t].phase = "gone" => stored[t].phase = "gone" \/ ~stored[t].guarded
         \/ stored'[t].guarded /\ stored'[t].phase # "gone"
         \/ /\ pc \in {"release", "blindRelease"} /\ t = subject /\ vms' = vms
            /\ ~stored'[t].guarded
<1> USE DEF GoneInv
<1>1. CASE AddFinalizer
  <2>1. CASE Store([stored[subject] EXCEPT !.guarded = TRUE]) /\ memFresh
    <3>1. subject \in Templates /\ stored[subject].phase = "live"
      BY <1>1, <2>1 DEF AddFinalizer, At, PassInv, TypeOK
    <3>2. stored' = [stored EXCEPT ![subject] = [stored[subject] EXCEPT !.guarded = TRUE]]
      BY <2>1 DEF Store
    <3>3. \/ t # subject /\ stored'[t] = stored[t]
          \/ t = subject /\ stored'[t] = [stored[subject] EXCEPT !.guarded = TRUE]
      BY <3>1, <3>2 DEF TypeOK
    <3>4. /\ [stored[subject] EXCEPT !.guarded = TRUE].guarded
          /\ [stored[subject] EXCEPT !.guarded = TRUE].phase = "live"
      BY <3>1 DEF TypeOK, Template
    <3> QED
      BY <3>3, <3>4
  <2> QED
    BY <1>1, <2>1 DEF AddFinalizer, templates
<1>2. CASE WriteStatus
  <2>1. CASE Store([stored[subject] EXCEPT !.current = mem.current, !.entries = mem.entries])
    <3>1. subject \in Templates
      BY <1>2 DEF WriteStatus, At, TypeOK
    <3> QED
      BY <2>1, <3>1 DEF Store, TypeOK, Template
  <2> QED
    BY <1>2, <2>1 DEF WriteStatus, templates
<1>3. CASE Release
  <2>1. CASE Store([NoTemplate EXCEPT !.current = mem.current])
    <3>1. subject \in Templates /\ pc \in {"release", "blindRelease"} /\ vms' = vms
      BY <1>3 DEF Release, At, TypeOK
    <3>2. ~[NoTemplate EXCEPT !.current = mem.current].guarded
      BY DEF NoTemplate, NewTemplate
    <3>3. \/ t # subject /\ stored'[t] = stored[t]
          \/ t = subject /\ stored'[t] = [NoTemplate EXCEPT !.current = mem.current]
      BY <2>1, <3>1 DEF Store, TypeOK
    <3> QED
      BY <3>1, <3>2, <3>3
  <2> QED
    BY <1>3, <2>1 DEF Release, templates
<1>4. ASSUME NEW u \in Templates, FinalizeAgent(u) \/ ChangeTemplate(u)
      PROVE  /\ stored'[t].guarded = stored[t].guarded
             /\ stored'[t].phase = "gone" => stored[t].phase = "gone" \/ ~stored[t].guarded
  <2>1. CASE FinalizeAgent(u)
    BY <2>1 DEF FinalizeAgent, TypeOK, Template
  <2>2. CASE ChangeTemplate(u)
    BY <2>2 DEF ChangeTemplate, TypeOK, Template
  <2> QED
    BY <1>4, <2>1, <2>2
<1>5. CASE ~ \/ AddFinalizer \/ WriteStatus \/ Release
             \/ \E u \in Templates : FinalizeAgent(u) \/ ChangeTemplate(u)
  BY <1>5 DEF Next, Pass, Environment, Begin, Connect, FailToConnect, List, CountVMs,
              ScaleUp, EnsureSecretFinalizer, Create, Refresh, RemoveSecretFinalizer, Crash,
              SyncTemplate, Scale, LoseVM, SyncSecret, ChangeSecret, templates, vars
<1> QED
  BY <1>1, <1>2, <1>3, <1>4, <1>5

LEMMA GuardedWithVMsStep ==
  ASSUME EmptyInv, [Next]_vars  PROVE GuardedWithVMs'
<1> USE DEF EmptyInv, GuardedWithVMs
<1> SUFFICES ASSUME NEW t \in Templates
             PROVE  /\ ~stored'[t].guarded => vms'[t] = 0
                    /\ stored'[t].phase = "gone" => ~stored'[t].guarded
  OBVIOUS
<1>1. vms[t] \in Nat /\ vms'[t] \in Nat
  BY TypeStep DEF GoneInv, TypeOK
<1>2. ~stored[t].guarded => vms'[t] <= vms[t]
  BY <1>1, CreatesForLiving
<1>3. pc \in {"release", "blindRelease"} /\ t = subject => vms[t] = 0
  BY DEF CountInv, CountedEmpty, NeverBlind
<1> QED
  BY <1>1, <1>2, <1>3, StoredStep

\* As long as vSphere answers and the secret stays, a template that is gone
\* leaves no VM behind: however many templates share the secret, whatever else
\* fails, and however far the cache lags.
THEOREM GoneLeavesNoVMConnected ==
  ASSUME {"hide", "connect", "deleteSecret"} \cap Kinds = {}
  PROVE  Spec => []GoneLeavesNoVM
<1>1. Init => EmptyInv
  <2> SUFFICES ASSUME Init  PROVE EmptyInv
    OBVIOUS
  <2>1. \A t \in Templates : ~stored[t].guarded /\ vms[t] = 0
    BY DEF Init, NewTemplate
  <2> QED
    BY <2>1, GoneInit
       DEF Init, EmptyInv, CountInv, CountedEmpty, NeverBlind, SecretStays, GuardedWithVMs
<1>2. EmptyInv /\ [Next]_vars => EmptyInv'
  <2> SUFFICES ASSUME EmptyInv, [Next]_vars  PROVE EmptyInv'
    OBVIOUS
  <2>1. GoneInv' /\ TypeOK'
    BY GoneStep DEF EmptyInv, GoneInv
  <2>2. CountInv'
    BY <2>1, CountStep DEF EmptyInv, GoneInv
  <2>3. NeverBlind'
    BY NeverBlindStep DEF EmptyInv, GoneInv
  <2> QED
    BY <2>1, <2>2, <2>3, GuardedWithVMsStep DEF EmptyInv
<1>3. EmptyInv => GoneLeavesNoVM
  BY DEF EmptyInv, GuardedWithVMs, GoneLeavesNoVM
<1> QED
  BY <1>1, <1>2, <1>3, PTL DEF Spec

-----------------------------------------------------------------------------
\* One template has the secret for itself.
Alone == \A t, u \in Templates : t = u

\* No template is being deleted, and none has been.
AllLive ==
  /\ \A t \in Templates : stored[t].phase = "live" /\ cached[t].phase = "live"
  /\ pc # "idle" => ~Deleting

\* The secret has our finalizer, or the next pass that wants it there can see
\* that it is missing and add it.
Protectable == secret.protected \/ (secretSynced /\ ~cachedSecret.protected)

\* The deletion of every template has been noticed: no pass will ask for VMs.
DeletionsSeen ==
  /\ \A t \in Templates : cached[t].phase # "live"
  /\ pc # "idle" => Deleting

\* Before a VM is created, and after one has been counted, the secret has our
\* finalizer; it can be added until the last pass that creates VMs is over.
SecretInv ==
  /\ SecretStays
  /\ secretSynced => cachedSecret = secret
  /\ Protectable \/ DeletionsSeen
  /\ At("create") => secret.protected
  /\ At("decide") /\ mem.current > 0 => secret.protected
  /\ SecretGuarded

GuardInv == GoneInv /\ CountInv /\ SecretInv /\ (Alone \/ AllLive)

-----------------------------------------------------------------------------
\* A pass knows from its first call to its last whether its template is being
\* deleted.
LEMMA PhaseKept ==
  ASSUME TypeOK, [Next]_vars, pc' # "idle"
  PROVE  \/ pc # "idle" /\ mem'.phase = mem.phase /\ subject' = subject
         \/ \E t \in Templates : Begin(t)
<1>1. CASE Pass /\ ~ \E t \in Templates : Begin(t)
  <2>1. pc # "idle"
    BY <1>1 DEF Pass, AddFinalizer, Connect, FailToConnect, List, CountVMs, ScaleUp,
                EnsureSecretFinalizer, Create, Refresh, WriteStatus, RemoveSecretFinalizer,
                Release, At
  <2>2. mem \in Template
    BY DEF TypeOK
  <2>3. CASE AddFinalizer \/ List \/ CountVMs \/ Refresh
    BY <2>1, <2>2, <2>3 DEF AddFinalizer, List, CountVMs, Refresh, Counted, Continue,
                            EndPass, Template
  <2>4. CASE Connect \/ FailToConnect \/ WriteStatus \/ RemoveSecretFinalizer
    BY <2>1, <2>4 DEF Connect, FailToConnect, WriteStatus, RemoveSecretFinalizer, Continue,
                      EndPass
  <2>5. CASE ScaleUp \/ EnsureSecretFinalizer \/ Create \/ Release
    BY <2>1, <2>5 DEF ScaleUp, EnsureSecretFinalizer, Create, Release, EndPass, pass
  <2> QED
    BY <1>1, <2>1, <2>3, <2>4, <2>5 DEF Pass
<1>2. CASE Crash
  BY <1>2 DEF Crash, EndPass
<1>3. CASE Environment \/ UNCHANGED vars
  BY <1>3 DEF Environment, FinalizeAgent, SyncTemplate, Scale, ChangeTemplate, LoseVM,
              SyncSecret, ChangeSecret, pass, inPass, vars, At
<1> QED
  BY <1>1, <1>2, <1>3 DEF Next

\* A deletion that the cache has shown stays shown.
LEMMA CacheKept ==
  ASSUME GoneInv, [Next]_vars, NEW t \in Templates
  PROVE  cached'[t] = cached[t] \/ cached'[t] = stored[t]
<1>1. CASE \E u \in Templates : SyncTemplate(u)
  BY <1>1 DEF SyncTemplate, GoneInv, TypeOK
<1>2. CASE ~ \E u \in Templates : SyncTemplate(u)
  <2>1. cached' = cached
    BY <1>2 DEF Next, Pass, Environment, Begin, AddFinalizer, Connect, FailToConnect, List,
                CountVMs, ScaleUp, EnsureSecretFinalizer, Create, Refresh, WriteStatus,
                RemoveSecretFinalizer, Release, Crash, FinalizeAgent, Scale, ChangeTemplate,
                LoseVM, SyncSecret, ChangeSecret, Store, templates, vars
  <2> QED
    BY <2>1
<1> QED
  BY <1>1, <1>2

LEMMA DeletionsSeenStep ==
  ASSUME GoneInv, DeletionsSeen, [Next]_vars  PROVE DeletionsSeen'
<1>1. ASSUME NEW t \in Templates  PROVE cached'[t].phase # "live"
  <2>1. cached[t].phase # "live" /\ stored[t].phase # "live"
    BY DEF DeletionsSeen, GoneInv, CacheInv
  <2> QED
    BY <2>1, CacheKept
<1>2. ASSUME pc' # "idle"  PROVE Deleting'
  <2>1. CASE pc # "idle" /\ mem'.phase = mem.phase
    BY <2>1 DEF DeletionsSeen, Deleting
  <2>2. CASE \E t \in Templates : Begin(t)
    <3>1. PICK t \in Templates : Begin(t)
      BY <2>2
    <3>2. mem' = cached[t] /\ cached[t].phase \in Phases \ {"gone", "live"}
      BY <3>1 DEF Begin, DeletionsSeen, GoneInv, TypeOK, Template
    <3> QED
      BY <3>2 DEF Deleting, Phases
  <2> QED
    BY <1>2, <2>1, <2>2, PhaseKept DEF GoneInv
<1> QED
  BY <1>1, <1>2 DEF DeletionsSeen

\* Nothing is ever released when users delete nothing.
LEMMA AllLiveStep ==
  ASSUME "deleteTemplate" \notin Kinds, GoneInv, AllLive, [Next]_vars  PROVE AllLive'
<1>1. ASSUME NEW t \in Templates  PROVE stored'[t].phase = "live"
  <2>1. stored[t].phase = "live"
    BY DEF AllLive
  <2>2. ~Release
    BY DEF Release, At, AllLive, GoneInv, PassInv
  <2>3. CASE AddFinalizer \/ WriteStatus
    <3>1. subject \in Templates /\ stored[subject] \in Template /\ stored[subject].phase = "live"
      BY <2>3 DEF AddFinalizer, WriteStatus, At, GoneInv, TypeOK, AllLive
    <3>2. \/ stored' = stored
          \/ \E new : new.phase = "live" /\ stored' = [stored EXCEPT ![subject] = new]
      <4>1. CASE Store([stored[subject] EXCEPT !.guarded = TRUE])
        <5>1. [stored[subject] EXCEPT !.guarded = TRUE].phase = "live"
          BY <3>1 DEF Template
        <5> QED
          BY <4>1, <5>1 DEF Store
      <4>2. CASE Store([stored[subject] EXCEPT !.current = mem.current, !.entries = mem.entries])
        <5>1. [stored[subject] EXCEPT !.current = mem.current,
                                      !.entries = mem.entries].phase = "live"
          BY <3>1 DEF Template
        <5> QED
          BY <4>2, <5>1 DEF Store
      <4>3. CASE UNCHANGED templates
        BY <4>3 DEF templates
      <4> QED
        BY <2>3, <4>1, <4>2, <4>3 DEF AddFinalizer, WriteStatus
    <3> QED
      BY <2>1, <3>1, <3>2 DEF GoneInv, TypeOK
  <2>4. ASSUME NEW u \in Templates, FinalizeAgent(u) \/ ChangeTemplate(u)
        PROVE  stored'[t].phase = "live"
    <3>1. CASE FinalizeAgent(u)
      BY <2>1, <3>1 DEF FinalizeAgent, GoneInv, TypeOK, Template
    <3>2. CASE ChangeTemplate(u)
      BY <2>1, <3>2 DEF ChangeTemplate, Disturb
    <3> QED
      BY <2>4, <3>1, <3>2
  <2>5. CASE ~ \/ AddFinalizer \/ WriteStatus
               \/ \E u \in Templates : FinalizeAgent(u) \/ ChangeTemplate(u)
    BY <2>1, <2>2, <2>5
       DEF Next, Pass, Environment, Begin, Connect, FailToConnect, List, CountVMs, ScaleUp,
           EnsureSecretFinalizer, Create, Refresh, RemoveSecretFinalizer, Crash,
           SyncTemplate, Scale, LoseVM, SyncSecret, ChangeSecret, templates, vars
  <2> QED
    BY <2>3, <2>4, <2>5
<1>2. ASSUME NEW t \in Templates  PROVE cached'[t].phase = "live"
  BY CacheKept DEF AllLive
<1>3. ASSUME pc' # "idle"  PROVE ~Deleting'
  BY <1>3, PhaseKept DEF AllLive, Begin, Deleting, GoneInv
<1> QED
  BY <1>1, <1>2, <1>3 DEF AllLive

\* Only the end of a deletion takes the finalizer from the secret, and then no
\* template has VMs and the deletion of every template has been seen.
LEMMA Unprotected ==
  ASSUME GuardInv, [Next]_vars, RemoveSecretFinalizer
  PROVE  /\ DeletionsSeen /\ \A t \in Templates : vms'[t] = 0
         /\ pc' = "release"
<1>1. pc = "unprotect" /\ subject \in Templates /\ pc' = "release" /\ vms' = vms
  BY DEF RemoveSecretFinalizer, At, GuardInv, GoneInv, TypeOK, Continue, Goto
<1>2. Deleting /\ cached[subject].phase # "live" /\ vms[subject] = 0
  BY <1>1 DEF GuardInv, GoneInv, PassInv, CountInv, CountedEmpty
<1>3. Alone
  BY <1>1, <1>2 DEF GuardInv, AllLive
<1> QED
  BY <1>1, <1>2, <1>3 DEF Alone, DeletionsSeen

\* Every other step leaves the finalizer of the secret, or the way to add it.
LEMMA Protected ==
  ASSUME {"secretWrite", "editSecret", "deleteSecret"} \cap Kinds = {},
         TypeOK, SecretInv, [Next]_vars, ~RemoveSecretFinalizer
  PROVE  /\ secret.protected => secret'.protected
         /\ Protectable => Protectable'
         /\ EnsureSecretFinalizer /\ Protectable => secret'.protected
<1>1. CASE EnsureSecretFinalizer
  BY <1>1 DEF EnsureSecretFinalizer, StoreSecret, Disturb, secrets, Protectable, SecretInv,
              SecretStays, TypeOK, Secret
<1>2. CASE SyncSecret
  <2>1. ~EnsureSecretFinalizer
    BY <1>2 DEF SyncSecret, EnsureSecretFinalizer, Goto, pass, At
  <2> QED
    BY <1>2, <2>1 DEF SyncSecret, Protectable
<1>3. CASE ~EnsureSecretFinalizer /\ ~SyncSecret
  <2>1. UNCHANGED secrets
    BY <1>3 DEF Next, Pass, Environment, Begin, AddFinalizer, Connect, FailToConnect, List,
                CountVMs, ScaleUp, Create, Refresh, WriteStatus, Release, Crash,
                FinalizeAgent, SyncTemplate, Scale, ChangeTemplate, LoseVM, ChangeSecret,
                Disturb, vars
  <2> QED
    BY <1>3, <2>1 DEF secrets, Protectable
<1> QED
  BY <1>1, <1>2, <1>3

\* How a pass comes to create VMs, and to have counted some.
LEMMA CreateReached ==
  ASSUME TypeOK, [Next]_vars, pc' = "create"
  PROVE  \/ EnsureSecretFinalizer \/ pc = "create"
         \/ pc = "decide" /\ mem.current > 0
<1>1. CASE Pass \/ Crash
  <2>1. ScaleUp => pc = "decide" /\ (FirstVM \/ mem.current > 0)
    BY DEF ScaleUp, At, FirstVM, TypeOK, Template
  <2> QED
    BY <1>1, <2>1 DEF Pass, Crash, Begin, AddFinalizer, Connect, FailToConnect, List, CountVMs,
             ScaleUp, Create, Refresh, WriteStatus, RemoveSecretFinalizer, Release, Continue,
             Goto, EndPass
<1>2. CASE Environment \/ UNCHANGED vars
  BY <1>2 DEF Environment, FinalizeAgent, SyncTemplate, Scale, ChangeTemplate, LoseVM,
              SyncSecret, ChangeSecret, inPass, pass, vars
<1> QED
  BY <1>1, <1>2 DEF Next

LEMMA DecideReached ==
  ASSUME "hide" \notin Kinds, TypeOK, [Next]_vars, pc' = "decide", mem'.current > 0
  PROVE  \/ pc = "decide" /\ mem.current > 0
         \/ subject \in Templates /\ vms[subject] > 0
<1>1. CASE List
  <2>1. subject \in Templates /\ mem \in Template /\ vms[subject] \in Nat
    BY <1>1 DEF List, At, TypeOK
  <2>2. PICK n \in 0..vms[subject] :
          Listed(n) /\ Continue("decide", [mem EXCEPT !.current = n])
    BY <1>1 DEF List, Continue, Goto
  <2>3. n = vms[subject] /\ mem' = [mem EXCEPT !.current = n]
    BY <2>2 DEF Listed, Disturb, Continue
  <2> QED
    BY <2>1, <2>3 DEF Template
<1>2. CASE (Pass \/ Crash) /\ ~List
  BY <1>2 DEF Pass, Crash, Begin, AddFinalizer, Connect, FailToConnect, CountVMs, ScaleUp,
              EnsureSecretFinalizer, Create, Refresh, WriteStatus, RemoveSecretFinalizer,
              Release, Continue, Goto, EndPass
<1>3. CASE Environment \/ UNCHANGED vars
  BY <1>3 DEF Environment, FinalizeAgent, SyncTemplate, Scale, ChangeTemplate, LoseVM,
              SyncSecret, ChangeSecret, inPass, pass, vars
<1> QED
  BY <1>1, <1>2, <1>3 DEF Next

LEMMA SecretStep ==
  ASSUME {"hide", "secretWrite", "editSecret", "deleteSecret"} \cap Kinds = {},
         GuardInv, [Next]_vars
  PROVE  SecretInv'
<1> USE DEF GuardInv
<1>t. TypeOK
  BY DEF GoneInv
<1>1. SecretStays'
  BY <1>t, SecretStaysStep DEF SecretInv
<1>2. secretSynced' => cachedSecret' = secret'
  <2>1. CASE EnsureSecretFinalizer \/ RemoveSecretFinalizer
    BY <2>1 DEF EnsureSecretFinalizer, RemoveSecretFinalizer, StoreSecret, secrets, SecretInv
  <2>2. CASE SyncSecret \/ ChangeSecret
    BY <2>2 DEF SyncSecret, ChangeSecret
  <2>3. CASE ~ \/ EnsureSecretFinalizer \/ RemoveSecretFinalizer
               \/ SyncSecret \/ ChangeSecret
    <3>1. UNCHANGED secrets
      BY <2>3 DEF Next, Pass, Environment, Begin, AddFinalizer, Connect, FailToConnect, List,
                  CountVMs, ScaleUp, Create, Refresh, WriteStatus, Release, Crash,
                  FinalizeAgent, SyncTemplate, Scale, ChangeTemplate, LoseVM, vars
    <3> QED
      BY <3>1 DEF secrets, SecretInv
  <2> QED
    BY <2>1, <2>2, <2>3
<1>3. CASE RemoveSecretFinalizer
  <2>1. DeletionsSeen /\ pc' = "release" /\ \A t \in Templates : vms'[t] = 0
    BY <1>3, Unprotected
  <2>2. DeletionsSeen'
    BY <2>1, DeletionsSeenStep
  <2> QED
    BY <1>1, <1>2, <2>1, <2>2 DEF SecretInv, SecretGuarded, At
<1>4. CASE ~RemoveSecretFinalizer
  <2>1. secret.protected => secret'.protected
    BY <1>4, <1>t, Protected
  <2>2. (Protectable \/ DeletionsSeen)'
    BY <1>4, <1>t, Protected, DeletionsSeenStep DEF SecretInv
  <2>3. ASSUME pc' = "create"  PROVE secret'.protected
    <3>1. CASE EnsureSecretFinalizer
      <4>1. pc = "secret" /\ ~Deleting
        BY <3>1 DEF EnsureSecretFinalizer, At, GoneInv, PassInv
      <4>2. Protectable
        BY <4>1 DEF SecretInv, DeletionsSeen
      <4> QED
        BY <1>4, <1>t, <3>1, <4>2, Protected
    <3>2. CASE pc = "create" \/ (pc = "decide" /\ mem.current > 0)
      BY <2>1, <3>2 DEF SecretInv, At
    <3> QED
      BY <1>t, <2>3, <3>1, <3>2, CreateReached
  <2>4. ASSUME pc' = "decide", mem'.current > 0  PROVE secret'.protected
    BY <1>t, <2>1, <2>4, DecideReached DEF SecretInv, SecretGuarded, At
  <2>5. ASSUME NEW t \in Templates, vms'[t] > 0  PROVE secret'.protected
    <3>1. CASE vms[t] > 0
      BY <2>1, <3>1 DEF SecretInv, SecretGuarded
    <3>2. CASE ~(vms[t] > 0)
      <4>1. vms[t] \in Nat /\ vms'[t] > vms[t]
        BY <1>t, <2>5, <3>2 DEF TypeOK
      <4>2. pc = "create"
        BY <1>t, <4>1, AddsOnlyToSubject
      <4> QED
        BY <2>1, <4>2 DEF SecretInv, At
    <3> QED
      BY <3>1, <3>2
  <2>6. SecretGuarded'
    BY <2>5 DEF SecretGuarded
  <2> QED
    BY <1>1, <1>2, <2>2, <2>3, <2>4, <2>6 DEF SecretInv, At
<1> QED
  BY <1>3, <1>4

\* As long as the secret is left alone and can be written, it keeps the
\* finalizer while there are VMs to remove with it, for a template that has it
\* for itself, and for any number of templates that are not deleted; vSphere,
\* the informer's cache and every other call may fail.
THEOREM SecretGuardedAlone ==
  ASSUME {"hide", "secretWrite", "editSecret", "deleteSecret"} \cap Kinds = {},
         Alone \/ "deleteTemplate" \notin Kinds
  PROVE  Spec => []SecretGuarded
<1>1. Init => GuardInv
  <2> SUFFICES ASSUME Init  PROVE GuardInv
    OBVIOUS
  <2>1. SecretInv
    <3>1. secret = [phase |-> "live", protected |-> FALSE] /\ cachedSecret = secret
      BY DEF Init
    <3>2. secretSynced = TRUE
      BY Zenon DEF Init
    <3>3. pc = "idle" /\ \A t \in Templates : vms[t] = 0
      BY DEF Init
    <3> QED
      BY <3>1, <3>2, <3>3 DEF SecretInv, SecretStays, Protectable, SecretGuarded, At
  <2>2. AllLive
    BY DEF Init, AllLive, NewTemplate
  <2> QED
    BY <2>1, <2>2, GoneInit DEF Init, GuardInv, CountInv, CountedEmpty
<1>2. GuardInv /\ [Next]_vars => GuardInv'
  <2> SUFFICES ASSUME GuardInv, [Next]_vars  PROVE GuardInv'
    OBVIOUS
  <2>1. GoneInv' /\ TypeOK /\ TypeOK'
    BY GoneStep DEF GuardInv, GoneInv
  <2>2. CountInv'
    BY <2>1, CountStep DEF GuardInv
  <2>3. SecretInv'
    BY SecretStep
  <2>4. Alone' \/ AllLive'
    BY AllLiveStep DEF GuardInv, Alone
  <2> QED
    BY <2>1, <2>2, <2>3, <2>4 DEF GuardInv
<1>3. GuardInv => SecretGuarded
  BY DEF GuardInv, SecretInv
<1> QED
  BY <1>1, <1>2, <1>3, PTL DEF Spec
=============================================================================
