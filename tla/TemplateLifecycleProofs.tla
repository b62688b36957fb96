----------------------- MODULE TemplateLifecycleProofs -----------------------
(***************************************************************************)
(* What TemplateLifecycle guarantees for any number of templates, VMs and  *)
(* disturbances.                                                           *)
(***************************************************************************)
EXTENDS TemplateLifecycle, TLAPS

\* A pass over a template that is being deleted creates nothing, and what it
\* has counted is at least what there is.
CountInv ==
  /\ Deleting => ~(pc \in {"secret", "create", "refresh"})
  /\ Deleting /\ pc \in {"decide", "status"} => vms[subject] <= mem.current
  /\ CountedEmpty

\* The cache never runs ahead, and a template that it shows alive with our
\* finalizer still has the finalizer, so that it cannot be gone.
CacheInv ==
  \A t \in Templates :
    /\ t \in synced => cached[t] = stored[t]
    /\ cached[t].phase # "live" => stored[t].phase # "live"
    /\ cached[t].phase = "live" /\ cached[t].guarded =>
         stored[t].phase # "gone" /\ stored[t].guarded

\* The same of the pass's copy; and only what is being deleted is released.
PassInv ==
  pc # "idle" =>
    /\ mem.phase # "gone"
    /\ pc = "guard" => mem.phase = "live"
    /\ pc = "guard" /\ memFresh => stored[subject].phase = "live"
    /\ mem.phase = "live" /\ pc # "guard" =>
         stored[subject].phase # "gone" /\ stored[subject].guarded
    /\ Deleting => cached[subject].phase # "live" /\ stored[subject].phase # "live"
    /\ pc \in {"unprotect", "release", "blindRelease"} => Deleting
    /\ pc \in {"secret", "create", "refresh"} => ~Deleting

-----------------------------------------------------------------------------
LEMMA TypeInit == Init => TypeOK
<1> SUFFICES ASSUME Init  PROVE TypeOK
  OBVIOUS
<1>1. NewTemplate \in Template /\ NoTemplate \in Template
  BY DEF NewTemplate, NoTemplate, Template, Phases
<1>2. secret \in Secret
  BY DEF Init, Secret, Phases
<1>3. stored \in [Templates -> Template] /\ vms \in [Templates -> Nat]
  BY <1>1 DEF Init
<1>4. memFresh \in BOOLEAN /\ secretSynced \in BOOLEAN
  BY Zenon DEF Init
<1> QED
  BY <1>1, <1>2, <1>3, <1>4, BoundsAssumption DEF Init, TypeOK, Steps

\* A pass that is over leaves values of their types.
LEMMA EndPassType ==
  ASSUME EndPass
  PROVE  /\ pc' = "idle" /\ pc' \in Steps /\ subject' = None
         /\ mem' \in Template /\ memFresh' \in BOOLEAN /\ todo' = 0
BY DEF EndPass, Steps, NoTemplate, NewTemplate, Template, Phases

LEMMA DisturbType ==
  ASSUME disturbances \in 0..MaxDisturbances, NEW k, Disturb(k) \/ Calm
  PROVE  disturbances' \in 0..MaxDisturbances
BY BoundsAssumption DEF Disturb, Calm

\* Going on with a copy of the template.
LEMMA ContinueType ==
  ASSUME TypeOK, pc # "idle", NEW step \in Steps, NEW t \in Template, Continue(step, t)
  PROVE  /\ pc' \in Steps /\ subject' \in Templates /\ mem' \in Template
         /\ memFresh' \in BOOLEAN /\ todo' \in Nat
BY DEF TypeOK, Continue, Goto

LEMMA StoreType ==
  ASSUME TypeOK, NEW t \in Template, Store(t)
  PROVE  stored' \in [Templates -> Template] /\ cached' \in [Templates -> Template]
         /\ synced' \in SUBSET Templates
BY DEF TypeOK, Store

LEMMA StoreSecretType ==
  ASSUME TypeOK, NEW b \in BOOLEAN, StoreSecret(b)
  PROVE  secret' \in Secret /\ cachedSecret' \in Secret /\ secretSynced' \in BOOLEAN
BY DEF TypeOK, StoreSecret, Secret, Phases

LEMMA TypeStep == TypeOK /\ [Next]_vars => TypeOK'
<1> SUFFICES ASSUME TypeOK, [Next]_vars  PROVE TypeOK'
  OBVIOUS
<1>d. ASSUME \/ Calm
             \/ \E k : Disturb(k)
      PROVE  disturbances' \in 0..MaxDisturbances
  BY <1>d, DisturbType DEF TypeOK
<1>1. ASSUME NEW t \in Templates, Begin(t)  PROVE TypeOK'
  <2>1. cached[t] \in Template /\ memFresh' \in BOOLEAN
    BY <1>1 DEF TypeOK, Begin
  <2> QED
    BY <1>1, <1>d, <2>1 DEF TypeOK, Begin, Goto, Steps, templates, secrets
<1>2. CASE AddFinalizer
  <2>1. subject \in Templates /\ pc # "idle"
    BY <1>2 DEF AddFinalizer, At, TypeOK
  <2>2. /\ [stored[subject] EXCEPT !.guarded = TRUE] \in Template
        /\ [mem EXCEPT !.guarded = TRUE] \in Template
    BY <2>1 DEF TypeOK, Template
  <2>3. disturbances' \in 0..MaxDisturbances
    BY <1>2, <1>d DEF AddFinalizer
  <2>4. CASE EndPass /\ UNCHANGED templates
    BY <1>2, <2>3, <2>4, EndPassType DEF AddFinalizer, TypeOK, templates, secrets
  <2>5. CASE /\ Store([stored[subject] EXCEPT !.guarded = TRUE])
             /\ Continue("connect", [mem EXCEPT !.guarded = TRUE])
    <3>1. "connect" \in Steps
      BY DEF Steps
    <3> QED
      BY <1>2, <2>1, <2>2, <2>3, <2>5, <3>1, ContinueType, StoreType
         DEF AddFinalizer, TypeOK, secrets
  <2> QED
    BY <1>2, <2>4, <2>5 DEF AddFinalizer
<1>3. CASE Connect \/ FailToConnect \/ List \/ CountVMs \/ Refresh
  <2>1. pc # "idle" /\ subject \in Templates
    BY <1>3 DEF Connect, FailToConnect, List, CountVMs, Refresh, At, TypeOK
  <2>2. disturbances' \in 0..MaxDisturbances
    BY <1>3, <1>d DEF Connect, FailToConnect, List, CountVMs, Refresh, Listed
  <2>3. EndPass \/ \E step \in Steps, t \in Template : Continue(step, t)
    <3>1. {"list", "decide", "writeBack", "blindRelease", "status"} \subseteq Steps
      BY DEF Steps
    <3>2. mem \in Template
      BY DEF TypeOK
    <3>3. \A n \in Nat : [mem EXCEPT !.current = n] \in Template /\ Counted(mem, n) \in Template
      BY <3>2 DEF Counted, Template
    <3>4. 0..vms[subject] \subseteq Nat /\ mem.current \in Nat
      BY <2>1, <3>2 DEF TypeOK, Template
    <3> QED
      BY <1>3, <3>1, <3>2, <3>3, <3>4 DEF Connect, FailToConnect, List, CountVMs, Refresh
  <2>4. UNCHANGED <<wanted, vms, templates, secrets>>
    BY <1>3 DEF Connect, FailToConnect, List, CountVMs, Refresh
  <2>5. CASE EndPass
    BY <2>2, <2>4, <2>5, EndPassType DEF TypeOK, templates, secrets
  <2>6. CASE \E step \in Steps, t \in Template : Continue(step, t)
    BY <2>1, <2>2, <2>4, <2>6, ContinueType DEF TypeOK, templates, secrets
  <2> QED
    BY <2>3, <2>5, <2>6
<1>4. CASE ScaleUp
  <2>1. pc # "idle" /\ subject \in Templates /\ mem.current \in Nat /\ Desired \in Nat
    BY <1>4, BoundsAssumption DEF ScaleUp, At, TypeOK, Template, Desired
  <2>2. todo' \in Nat /\ pc' \in Steps
    BY <1>4, <2>1 DEF ScaleUp, TooFew, Goto, Steps
  <2> QED
    BY <1>4, <1>d, <2>1, <2>2 DEF ScaleUp, TypeOK, templates, secrets
<1>5. CASE EnsureSecretFinalizer \/ RemoveSecretFinalizer
  <2>1. pc # "idle" /\ subject \in Templates
    BY <1>5 DEF EnsureSecretFinalizer, RemoveSecretFinalizer, At, TypeOK
  <2>2. disturbances' \in 0..MaxDisturbances
    BY <1>5, <1>d DEF EnsureSecretFinalizer, RemoveSecretFinalizer
  <2>3. secret' \in Secret /\ cachedSecret' \in Secret /\ secretSynced' \in BOOLEAN
    BY <1>5, StoreSecretType
       DEF EnsureSecretFinalizer, RemoveSecretFinalizer, TypeOK, secrets
  <2>4. pc' \in Steps /\ UNCHANGED pass /\ UNCHANGED <<wanted, vms, templates>>
    BY <1>5 DEF EnsureSecretFinalizer, RemoveSecretFinalizer, Goto, Continue, pass, Steps
  <2> QED
    BY <2>1, <2>2, <2>3, <2>4 DEF TypeOK, pass, templates
<1>6. CASE Create
  <2>1. pc # "idle" /\ subject \in Templates
    BY <1>6 DEF Create, At, TypeOK
  <2>2. vms' \in [Templates -> Nat]
    BY <1>6 DEF Create, TypeOK
  <2>3. pc' \in Steps
    BY <1>6 DEF Create, Goto, Steps
  <2> QED
    BY <1>6, <1>d, <2>1, <2>2, <2>3 DEF Create, TypeOK, pass, templates, secrets
<1>7. CASE WriteStatus
  <2>1. subject \in Templates /\ pc # "idle" /\ mem \in Template
    BY <1>7 DEF WriteStatus, At, TypeOK
  <2>2. disturbances' \in 0..MaxDisturbances
    BY <1>7, <1>d DEF WriteStatus
  <2>3. EndPass \/ Continue("unprotect", mem)
    BY <1>7 DEF WriteStatus
  <2>4. /\ pc' \in Steps /\ (pc' # "idle" => subject' \in Templates)
        /\ subject' \in Templates \cup {None}
        /\ mem' \in Template /\ memFresh' \in BOOLEAN /\ todo' \in Nat
    <3>1. "unprotect" \in Steps
      BY DEF Steps
    <3> QED
      BY <2>1, <2>3, <3>1, EndPassType, ContinueType
  <2>5. /\ stored' \in [Templates -> Template] /\ cached' \in [Templates -> Template]
        /\ synced' \in SUBSET Templates
    <3>1. [stored[subject] EXCEPT !.current = mem.current, !.entries = mem.entries] \in Template
      BY <2>1 DEF TypeOK, Template
    <3>2. CASE Store([stored[subject] EXCEPT !.current = mem.current, !.entries = mem.entries])
      BY <3>1, <3>2, StoreType
    <3>3. CASE UNCHANGED templates
      BY <3>3 DEF templates, TypeOK
    <3> QED
      BY <1>7, <3>2, <3>3 DEF WriteStatus
  <2> QED
    BY <1>7, <2>2, <2>4, <2>5 DEF WriteStatus, TypeOK, secrets
<1>8. CASE Release
  <2>1. subject \in Templates /\ mem.current \in Nat
    BY <1>8 DEF Release, At, TypeOK, Template
  <2>2. [NoTemplate EXCEPT !.current = mem.current] \in Template
    BY <2>1 DEF NoTemplate, NewTemplate, Template, Phases
  <2>3. /\ stored' \in [Templates -> Template] /\ cached' \in [Templates -> Template]
        /\ synced' \in SUBSET Templates
    <3>1. CASE Store([NoTemplate EXCEPT !.current = mem.current])
      BY <2>2, <3>1, StoreType
    <3>2. CASE UNCHANGED templates
      BY <3>2 DEF templates, TypeOK
    <3> QED
      BY <1>8, <3>1, <3>2 DEF Release
  <2>4. disturbances' \in 0..MaxDisturbances
    BY <1>8, <1>d DEF Release
  <2> QED
    BY <1>8, <2>3, <2>4, EndPassType DEF Release, TypeOK, secrets
<1>9. CASE Crash
  BY <1>9, <1>d, EndPassType DEF Crash, TypeOK, templates, secrets
<1>10. ASSUME NEW t \in Templates, FinalizeAgent(t)  PROVE TypeOK'
  <2>1. vms' \in [Templates -> Nat]
    BY <1>10 DEF FinalizeAgent, TypeOK
  <2>2. stored' \in [Templates -> Template]
    <3>1. CASE UNCHANGED stored
      BY <3>1 DEF TypeOK
    <3>2. CASE ~ UNCHANGED stored
      <4>1. /\ cached[t].entries > 0
            /\ stored' = [stored EXCEPT ![t].entries = cached[t].entries - 1,
                                        ![t].current = cached[t].entries - 1]
        BY <1>10, <3>2 DEF FinalizeAgent
      <4>2. cached[t].entries - 1 \in Nat /\ stored[t] \in Template
        BY <4>1 DEF TypeOK, Template
      <4>3. [stored[t] EXCEPT !.entries = cached[t].entries - 1,
                              !.current = cached[t].entries - 1] \in Template
        BY <4>2 DEF Template
      <4> QED
        BY <4>1, <4>2, <4>3 DEF TypeOK
    <3> QED
      BY <3>1, <3>2
  <2>3. synced' \in SUBSET Templates
    BY <1>10 DEF FinalizeAgent, TypeOK
  <2> QED
    BY <1>10, <1>d, <2>1, <2>2, <2>3 DEF FinalizeAgent, TypeOK, pass, secrets
<1>11. ASSUME NEW t \in Templates, SyncTemplate(t)  PROVE TypeOK'
  BY <1>11, <1>d DEF SyncTemplate, TypeOK, pass, secrets
<1>12. CASE SyncSecret
  BY <1>12, <1>d DEF SyncSecret, TypeOK, pass, templates
<1>13. ASSUME NEW t \in Templates, Scale(t)  PROVE TypeOK'
  BY <1>13, <1>d DEF Scale, TypeOK, pass, templates, secrets
<1>14. ASSUME NEW t \in Templates, ChangeTemplate(t)  PROVE TypeOK'
  <2>1. stored' \in [Templates -> Template]
    BY <1>14 DEF ChangeTemplate, TypeOK, Template, Phases
  <2>2. synced' \in SUBSET Templates /\ memFresh' \in BOOLEAN
    BY <1>14 DEF ChangeTemplate, TypeOK
  <2> QED
    BY <1>14, <1>d, <2>1, <2>2 DEF ChangeTemplate, TypeOK, inPass, secrets
<1>15. CASE ChangeSecret
  <2>1. secret' \in Secret
    BY <1>15 DEF ChangeSecret, TypeOK, Secret, Phases
  <2> QED
    BY <1>15, <1>d, <2>1 DEF ChangeSecret, TypeOK, pass, templates
<1>16. ASSUME NEW t \in Templates, LoseVM(t)  PROVE TypeOK'
  <2>1. vms' \in [Templates -> Nat]
    BY <1>16 DEF LoseVM, TypeOK
  <2> QED
    BY <1>16, <1>d, <2>1 DEF LoseVM, TypeOK, pass, templates, secrets
<1>17. CASE UNCHANGED vars
  BY <1>17 DEF vars, TypeOK, pass, templates, secrets
<1> QED
  BY <1>1, <1>2, <1>3, <1>4, <1>5, <1>6, <1>7, <1>8, <1>9, <1>10, <1>11, <1>12, <1>13,
     <1>14, <1>15, <1>16, <1>17 DEF Next, Pass, Environment

\* The counts, phases and flags keep their types.
THEOREM TypeCorrect == Spec => []TypeOK
BY TypeInit, TypeStep, PTL DEF Spec

-----------------------------------------------------------------------------
\* Every step of a pass from which one of the calls before a release is reached.
LEMMA CountStep ==
  ASSUME "hide" \notin Kinds, TypeOK, TypeOK', CountInv, [Next]_vars
  PROVE  CountInv'
<1> USE DEF CountInv, CountedEmpty, Deleting, At
<1>1. CASE pc' = "idle"
  BY <1>1
<1>2. CASE List
  <2>1. CASE Continue("writeBack", mem)
    BY <2>1 DEF Continue, Goto
  <2>2. CASE \E n \in 0..vms[subject] :
               Listed(n) /\ Continue("decide", [mem EXCEPT !.current = n])
    <3>1. PICK n \in 0..vms[subject] :
            Listed(n) /\ Continue("decide", [mem EXCEPT !.current = n])
      BY <2>2
    <3>2. n = vms[subject]
      BY <3>1 DEF Listed, Disturb
    <3>3. mem' = [mem EXCEPT !.current = n] /\ pc' = "decide" /\ subject' = subject
      BY <3>1 DEF Continue, Goto
    <3>4. mem'.current = n /\ vms' = vms /\ vms[subject] \in Nat
      BY <1>2, <3>3 DEF List, TypeOK, Template
    <3> QED
      BY <3>2, <3>3, <3>4
  <2> QED
    BY <1>2, <2>1, <2>2 DEF List
<1>3. CASE CountVMs
  <2>1. /\ pc = "decide" /\ pc' = "status" /\ subject' = subject /\ vms' = vms
        /\ mem' = Counted(mem, mem.current)
    BY <1>3 DEF CountVMs, Continue, Goto
  <2>2. mem'.current = mem.current /\ mem'.phase = mem.phase
    BY <2>1 DEF Counted, TypeOK, Template
  <2> QED
    BY <2>1, <2>2
<1>4. CASE ScaleUp
  <2>1. ~Deleting
    BY <1>4 DEF ScaleUp, TooFew, Desired, TypeOK, Template
  <2> QED
    BY <1>4, <2>1 DEF ScaleUp, Goto
<1>5. CASE Refresh
  <2>1. ~Deleting
    BY <1>5 DEF Refresh
  <2>2. mem'.phase = mem.phase /\ pc' \in {"status", "writeBack"}
    BY <1>5 DEF Refresh, Continue, Goto, Counted, TypeOK, Template
  <2> QED
    BY <2>1, <2>2
<1>6. CASE WriteStatus
  <2>1. SUFFICES ASSUME pc' # "idle"  PROVE CountInv'
    BY <1>1
  <2>2. /\ pc = "status" /\ Deleting /\ mem.current = 0 /\ Continue("unprotect", mem)
        /\ vms' = vms
    BY <1>6, <2>1 DEF WriteStatus, EndPass, NoneLeft
  <2>3. vms[subject] = 0
    BY <2>2 DEF TypeOK
  <2> QED
    BY <2>2, <2>3 DEF Continue, Goto
<1>7. CASE RemoveSecretFinalizer \/ EnsureSecretFinalizer \/ Create
  BY <1>7 DEF RemoveSecretFinalizer, EnsureSecretFinalizer, Create, Continue, Goto, pass
<1>8. CASE Connect \/ FailToConnect \/ AddFinalizer
  <2>1. pc' \in {"idle", "list", "writeBack", "blindRelease", "connect"}
    BY <1>8 DEF Connect, FailToConnect, AddFinalizer, Continue, Goto, EndPass
  <2> QED
    BY <2>1
<1>9. ASSUME NEW t \in Templates, Begin(t)  PROVE CountInv'
  BY <1>9 DEF Begin, Goto
<1>10. CASE Release \/ Crash
  BY <1>1, <1>10 DEF Release, Crash, EndPass
<1>11. ASSUME UNCHANGED <<pc, subject, mem>>, pc # "idle" => vms'[subject] <= vms[subject]
       PROVE  CountInv'
  BY <1>11 DEF TypeOK, Template
<1>12. CASE Environment \/ UNCHANGED vars
  <2>1. UNCHANGED <<pc, subject, mem>>
    BY <1>12 DEF Environment, FinalizeAgent, SyncTemplate, Scale, ChangeTemplate, LoseVM,
                 SyncSecret, ChangeSecret, pass, inPass, vars
  <2>2. pc # "idle" => vms'[subject] <= vms[subject]
    <3>1. CASE UNCHANGED vms
      BY <3>1 DEF TypeOK
    <3>2. CASE \E t \in Templates : vms[t] > 0 /\ vms' = [vms EXCEPT ![t] = @ - 1]
      BY <3>2 DEF TypeOK
    <3> QED
      BY <1>12, <3>1, <3>2
         DEF Environment, FinalizeAgent, SyncTemplate, Scale, ChangeTemplate, LoseVM,
             SyncSecret, ChangeSecret, vars
  <2> QED
    BY <1>11, <2>1, <2>2
<1> QED
  BY <1>2, <1>3, <1>4, <1>5, <1>6, <1>7, <1>8, <1>9, <1>10, <1>12 DEF Next, Pass

\* When listings find every VM, a template that is given up after a count has
\* none, for any number of templates, VMs and disturbances.
THEOREM CountedEmptySafe ==
  ASSUME "hide" \notin Kinds
  PROVE  Spec => []CountedEmpty
<1>1. Init => TypeOK /\ CountInv
  BY TypeInit DEF Init, CountInv, CountedEmpty
<1>2. (TypeOK /\ CountInv) /\ [Next]_vars => (TypeOK /\ CountInv)'
  BY TypeStep, CountStep
<1>3. CountInv => CountedEmpty
  BY DEF CountInv
<1> QED
  BY <1>1, <1>2, <1>3, PTL DEF Spec

-----------------------------------------------------------------------------
GoneInv == TypeOK /\ CacheInv /\ PassInv

LEMMA GoneInit == Init => GoneInv
<1> SUFFICES ASSUME Init  PROVE GoneInv
  OBVIOUS
<1>1. \A t \in Templates : cached[t] = stored[t] /\ stored[t].phase = "live" /\ ~stored[t].guarded
  BY DEF Init, NewTemplate
<1> QED
  BY <1>1, TypeInit DEF Init, GoneInv, CacheInv, PassInv

\* Only the pass's own template changes, and what a pass writes to it neither
\* revives it nor takes its finalizer away unless it is being deleted.
LEMMA StoreCache ==
  ASSUME GoneInv, pc # "idle", NEW new \in Template, Store(new),
         new.phase = "live" => stored[subject].phase = "live",
         stored[subject].guarded /\ stored[subject].phase # "gone"
           => (new.guarded /\ new.phase # "gone") \/ cached[subject].phase # "live"
  PROVE  /\ CacheInv' /\ cached' = cached /\ stored'[subject] = new
         /\ \A t \in Templates \ {subject} : stored'[t] = stored[t]
<1>1. subject \in Templates
  BY DEF GoneInv, TypeOK
<1>2. /\ cached' = cached /\ stored'[subject] = new /\ synced' = synced \ {subject}
      /\ \A t \in Templates \ {subject} : stored'[t] = stored[t]
  BY <1>1 DEF Store, GoneInv, TypeOK
<1> QED
  BY <1>1, <1>2 DEF GoneInv, CacheInv

LEMMA GoneStep ==
  ASSUME GoneInv, [Next]_vars  PROVE GoneInv'
<1> SUFFICES CacheInv' /\ PassInv'
  BY TypeStep DEF GoneInv
<1> USE DEF GoneInv, At, Deleting
<1>s. pc # "idle" => subject \in Templates
  BY DEF TypeOK
<1>1. ASSUME NEW t \in Templates, Begin(t)  PROVE CacheInv' /\ PassInv'
  <2>1. CacheInv'
    BY <1>1 DEF Begin, templates, CacheInv
  <2>2. /\ mem' = cached[t] /\ subject' = t /\ memFresh' = (t \in synced)
        /\ pc' = IF FinalizerNeeded(cached[t]) THEN "guard" ELSE "connect"
        /\ stored' = stored /\ cached' = cached /\ cached[t].phase # "gone"
    BY <1>1 DEF Begin, Goto, templates
  <2>3. pc' = "guard" /\ memFresh' => stored[t].phase = "live"
    BY <2>2 DEF CacheInv, FinalizerNeeded
  <2>4. mem'.phase = "live" /\ pc' # "guard" => stored[t].phase # "gone" /\ stored[t].guarded
    BY <2>2 DEF CacheInv, FinalizerNeeded
  <2> QED
    BY <2>1, <2>2, <2>3, <2>4 DEF PassInv, CacheInv, FinalizerNeeded
<1>2. ASSUME EndPass  PROVE PassInv'
  BY <1>2 DEF EndPass, PassInv
<1>3. CASE AddFinalizer
  <2>1. CASE EndPass /\ UNCHANGED templates
    BY <1>2, <2>1 DEF templates, CacheInv
  <2>2. CASE /\ memFresh /\ Store([stored[subject] EXCEPT !.guarded = TRUE])
             /\ Continue("connect", [mem EXCEPT !.guarded = TRUE])
    <3> DEFINE new == [stored[subject] EXCEPT !.guarded = TRUE]
    <3>1. pc = "guard" /\ stored[subject].phase = "live" /\ mem.phase = "live"
      BY <1>3, <2>2 DEF AddFinalizer, PassInv
    <3>2. new \in Template /\ new.phase = "live" /\ new.guarded
      BY <1>s, <3>1 DEF TypeOK, Template
    <3>3. CacheInv' /\ stored'[subject] = new
      BY <2>2, <3>1, <3>2, StoreCache
    <3>4. mem'.phase = "live" /\ pc' = "connect" /\ subject' = subject
      BY <2>2, <3>1 DEF Continue, Goto, TypeOK, Template
    <3> QED
      BY <3>2, <3>3, <3>4 DEF PassInv
  <2> QED
    BY <1>3, <2>1, <2>2 DEF AddFinalizer
<1>4. CASE Connect \/ FailToConnect \/ List \/ CountVMs \/ Refresh
  <2>1. UNCHANGED templates /\ CacheInv'
    BY <1>4 DEF Connect, FailToConnect, List, CountVMs, Refresh, templates, CacheInv
  <2>2. CASE EndPass
    BY <1>2, <2>1, <2>2
  <2>3. CASE ~EndPass
    <3>1. /\ subject' = subject /\ mem'.phase = mem.phase /\ memFresh' = memFresh
          /\ pc' \in {"list", "decide", "writeBack", "blindRelease", "status"}
          /\ pc' = "blindRelease" => Deleting
      BY <1>4, <2>3 DEF Connect, FailToConnect, List, CountVMs, Refresh, Continue, Goto,
                        Counted, TypeOK, Template
    <3>2. pc \notin {"idle", "guard"}
      BY <1>4 DEF Connect, FailToConnect, List, CountVMs, Refresh
    <3> QED
      BY <2>1, <3>1, <3>2 DEF PassInv, templates
  <2> QED
    BY <2>2, <2>3
<1>5. CASE ScaleUp
  <2>1. ~Deleting
    BY <1>5, <1>s DEF ScaleUp, TooFew, Desired, TypeOK, Template
  <2>2. /\ UNCHANGED <<subject, mem, memFresh, templates>> /\ pc' \in {"secret", "create"}
        /\ pc = "decide"
    BY <1>5 DEF ScaleUp, Goto
  <2> QED
    BY <2>1, <2>2 DEF PassInv, CacheInv, templates
<1>6. CASE EnsureSecretFinalizer \/ Create \/ RemoveSecretFinalizer
  <2>1. /\ UNCHANGED <<subject, mem, memFresh, templates>>
        /\ \/ pc \in {"secret", "create"} /\ pc' \in {"create", "refresh", "writeBack"}
           \/ pc = "unprotect" /\ pc' = "release"
    BY <1>6 DEF EnsureSecretFinalizer, Create, RemoveSecretFinalizer, Continue, Goto, pass
  <2> QED
    BY <2>1 DEF PassInv, CacheInv, templates
<1>7. CASE WriteStatus
  <2> DEFINE new == [stored[subject] EXCEPT !.current = mem.current, !.entries = mem.entries]
  <2>1. CASE EndPass /\ UNCHANGED templates
    BY <1>2, <2>1 DEF templates, CacheInv
  <2>2. CASE Store(new)
    <3>1. /\ new \in Template /\ new.phase = stored[subject].phase
          /\ new.guarded = stored[subject].guarded
      BY <1>7, <1>s DEF WriteStatus, TypeOK, Template
    <3>2. CacheInv' /\ cached' = cached /\ stored'[subject] = new
      BY <1>7, <2>2, <3>1, StoreCache DEF WriteStatus
    <3>3. CASE EndPass
      BY <1>2, <3>2, <3>3
    <3>4. CASE Continue("unprotect", mem) /\ Deleting
      BY <1>7, <3>1, <3>2, <3>4 DEF WriteStatus, PassInv, Continue, Goto
    <3> QED
      BY <1>7, <2>2, <3>3, <3>4 DEF WriteStatus, EndPass
  <2> QED
    BY <1>7, <2>1, <2>2 DEF WriteStatus
<1>8. CASE Release
  <2>1. EndPass
    BY <1>8 DEF Release
  <2>2. CASE UNCHANGED templates
    BY <1>2, <2>1, <2>2 DEF templates, CacheInv
  <2>3. CASE Store([NoTemplate EXCEPT !.current = mem.current])
    <3> DEFINE new == [NoTemplate EXCEPT !.current = mem.current]
    <3>1. new \in Template /\ new.phase = "gone"
      BY DEF NoTemplate, NewTemplate, Template, Phases, TypeOK
    <3>2. cached[subject].phase # "live"
      BY <1>8 DEF Release, PassInv
    <3>3. CacheInv'
      BY <1>8, <2>3, <3>1, <3>2, StoreCache DEF Release
    <3> QED
      BY <1>2, <2>1, <3>3
  <2> QED
    BY <1>8, <2>2, <2>3 DEF Release
<1>9. CASE Crash
  BY <1>2, <1>9 DEF Crash, templates, CacheInv
<1>10. ASSUME NEW t \in Templates, FinalizeAgent(t)  PROVE CacheInv' /\ PassInv'
  <2>1. pc' = "idle" /\ cached' = cached /\ synced' \subseteq synced
    BY <1>10 DEF FinalizeAgent
  <2>2. \A u \in Templates : /\ stored'[u].phase = stored[u].phase
                             /\ stored'[u].guarded = stored[u].guarded
                             /\ u \in synced' => stored'[u] = stored[u]
    BY <1>10 DEF FinalizeAgent, TypeOK, Template
  <2> QED
    BY <2>1, <2>2 DEF CacheInv, PassInv
<1>11. ASSUME NEW t \in Templates, SyncTemplate(t)  PROVE CacheInv' /\ PassInv'
  <2>1. /\ stored' = stored /\ cached' = [cached EXCEPT ![t] = stored[t]]
        /\ synced' = synced \cup {t} /\ UNCHANGED <<pc, subject, mem, memFresh>>
    BY <1>11 DEF SyncTemplate, pass
  <2>2. cached'[t] = stored[t] /\ \A u \in Templates \ {t} : cached'[u] = cached[u]
    BY <2>1 DEF TypeOK
  <2>3. stored[t].phase = "live" => cached[t].phase = "live"
    BY DEF CacheInv
  <2>4. ASSUME pc # "idle", Deleting
        PROVE  cached'[subject].phase # "live"
    BY <1>s, <2>2, <2>4 DEF PassInv
  <2>5. PassInv'
    BY <2>1, <2>4 DEF PassInv
  <2>6. ASSUME NEW u \in Templates, cached'[u].phase = "live", cached'[u].guarded
        PROVE  stored'[u].phase # "gone" /\ stored'[u].guarded
    BY <2>1, <2>2, <2>6 DEF CacheInv
  <2>7. ASSUME NEW u \in Templates
        PROVE  /\ u \in synced' => cached'[u] = stored'[u]
               /\ cached'[u].phase # "live" => stored'[u].phase # "live"
    BY <2>1, <2>2 DEF CacheInv
  <2> QED
    BY <2>5, <2>6, <2>7 DEF CacheInv
<1>12. ASSUME NEW t \in Templates, ChangeTemplate(t)  PROVE CacheInv' /\ PassInv'
  <2>1. /\ cached' = cached /\ synced' = synced \ {t}
        /\ UNCHANGED <<pc, subject, mem>> /\ memFresh' = (memFresh /\ t # subject)
    BY <1>12 DEF ChangeTemplate, inPass
  <2>2. \A u \in Templates : u # t => stored'[u] = stored[u]
    BY <1>12 DEF ChangeTemplate, TypeOK
  <2>3. /\ stored'[t].guarded = stored[t].guarded
        /\ stored'[t].phase = "live" => stored[t].phase = "live"
        /\ stored[t].guarded /\ stored[t].phase # "gone" => stored'[t].phase # "gone"
    BY <1>12 DEF ChangeTemplate, TypeOK, Template
  <2>4. CacheInv'
    BY <2>1, <2>2, <2>3 DEF CacheInv
  <2>5. ASSUME pc # "idle"
        PROVE  /\ stored'[subject].phase = "live" => stored[subject].phase = "live"
               /\ stored[subject].guarded /\ stored[subject].phase # "gone"
                    => stored'[subject].phase # "gone" /\ stored'[subject].guarded
               /\ memFresh' => memFresh /\ stored'[subject] = stored[subject]
    BY <1>s, <2>1, <2>2, <2>3, <2>5
  <2> QED
    BY <2>1, <2>4, <2>5 DEF PassInv
<1>13. CASE \/ SyncSecret \/ ChangeSecret \/ UNCHANGED vars
            \/ \E t \in Templates : Scale(t) \/ LoseVM(t)
  <2>1. UNCHANGED <<templates, pc, pass>>
    BY <1>13 DEF SyncSecret, ChangeSecret, Scale, LoseVM, vars
  <2> QED
    BY <2>1 DEF templates, pass, CacheInv, PassInv
<1> QED
  BY <1>1, <1>3, <1>4, <1>5, <1>6, <1>7, <1>8, <1>9, <1>10, <1>11, <1>12, <1>13
     DEF Next, Pass, Environment

\* Only the creations of a pass add a VM, and to the pass's own template.
LEMMA AddsOnlyToSubject ==
  ASSUME TypeOK, [Next]_vars, NEW t \in Templates, vms'[t] > vms[t]
  PROVE  Create /\ pc = "create" /\ subject \in Templates /\ t = subject
<1>1. vms[t] \in Nat /\ vms'[t] \in Nat
  BY TypeStep DEF TypeOK
<1>2. CASE Create
  <2>1. pc = "create" /\ subject \in Templates
    BY <1>2 DEF Create, At, TypeOK
  <2> QED
    BY <1>1, <1>2, <2>1 DEF Create, TypeOK
<1>3. CASE ~Create
  <2>1. \/ UNCHANGED vms
        \/ \E u \in Templates : vms[u] > 0 /\ vms' = [vms EXCEPT ![u] = @ - 1]
    BY <1>3 DEF Next, Pass, Environment, Begin, AddFinalizer, Connect, FailToConnect, List,
                CountVMs, ScaleUp, EnsureSecretFinalizer, Refresh, WriteStatus,
                RemoveSecretFinalizer, Release, Crash, FinalizeAgent, SyncTemplate, Scale,
                ChangeTemplate, LoseVM, SyncSecret, ChangeSecret, vars
  <2>2. vms'[t] <= vms[t]
    BY <1>1, <2>1 DEF TypeOK
  <2> QED
    BY <1>1, <2>2
<1> QED
  BY <1>2, <1>3

\* A VM is created only by a normal pass, whose template has our finalizer and
\* so is not gone.
LEMMA CreatesForLiving ==
  ASSUME GoneInv, [Next]_vars, NEW t \in Templates, vms'[t] > vms[t]
  PROVE  stored[t].phase # "gone" /\ stored[t].guarded
<1>1. pc = "create" /\ t = subject /\ subject \in Templates
  BY AddsOnlyToSubject DEF GoneInv
<1>2. ~Deleting /\ mem.phase # "gone" /\ mem.phase \in Phases
  BY <1>1 DEF GoneInv, PassInv, TypeOK, Template
<1> QED
  BY <1>1, <1>2 DEF GoneInv, PassInv, Deleting, Phases

\* No VM is created for a template that is gone, however far the cache lags and
\* whatever fails.
THEOREM NoVMForGoneSafe == Spec => NoVMForGone
<1>1. Init => GoneInv
  BY GoneInit
<1>2. GoneInv /\ [Next]_vars => GoneInv'
  BY GoneStep
<1>3. GoneInv /\ [Next]_vars =>
        [\A t \in Templates : vms'[t] > vms[t] => stored[t].phase # "gone"]_vars
  BY CreatesForLiving
<1> QED
  BY <1>1, <1>2, <1>3, PTL DEF Spec, NoVMForGone
=============================================================================
