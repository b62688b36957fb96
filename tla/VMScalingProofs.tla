-------------------------- MODULE VMScalingProofs --------------------------
(***************************************************************************)
(* What VMScaling guarantees for any number of NodePools, replicas, VMs    *)
(* and disturbances.                                                       *)
(***************************************************************************)
EXTENDS VMScaling, FiniteSetTheorems, TLAPS

\* Only finitely many VMs exist at any time.
Finite == IsFiniteSet(owned) /\ IsFiniteSet(view)

\* After a listing, currentReplicas is the length of the list.
ViewCounted == At("decide") => mem.current = Cardinality(view)

\* The loop never has more VMs to create than the quota leaves for the ones
\* the pass knows of.
LoopWithinQuota ==
  HasQuota /\ At("create") => Cardinality(view) + todo <= MaxVms

\* The numbers handed out are the lowest: they stay within the quota even
\* when the pass does not know of all the VMs.
NumbersWithinQuota == HasQuota => owned \subseteq 1..MaxVms

QuotaInv == TypeOK /\ Finite /\ ViewCounted /\ LoopWithinQuota /\ NumbersWithinQuota

\* A NodePool that has not changed since it was read still is what was read.
PoolFreshMeans ==
  At("label") => /\ mem.ref \in Pools
                 /\ poolFresh => /\ pools[mem.ref].phase = "live"
                                 /\ pools[mem.ref].replicas = asked

\* A template that has not changed since it was read has the spec that was
\* read, and so has a cache that is up to date.
TemplateFreshMeans ==
  /\ memFresh => mem.ref = stored.ref /\ mem.test = stored.test
  /\ cacheFresh => cached.ref = stored.ref /\ cached.test = stored.test

FreshInv == TypeOK /\ Finite /\ PoolFreshMeans /\ TemplateFreshMeans

\* When no VM is overlooked, the pass knows of all the VMs until it creates
\* some, and it never has more to create than are missing.
NothingOverlooked ==
  /\ At("decide") => owned \subseteq view
  /\ At("create") => Cardinality(owned) + todo <= mem.desired

DesiredInv == TypeOK /\ Finite /\ ViewCounted /\ NothingOverlooked

-----------------------------------------------------------------------------
\* The lowest number that n VMs leave unused is at most n + 1.
LEMMA NextNumberBound ==
  ASSUME NEW used, IsFiniteSet(used), NEW n \in Numbers, IsNextNumber(n, used)
  PROVE  n <= Cardinality(used) + 1
<1>1. n \in Nat \ {0} /\ 1..n \subseteq Numbers
  BY NumbersAssumption
<1>2. 1..(n - 1) \in SUBSET used
  <2>1. ASSUME NEW m \in 1..(n - 1)  PROVE m \in used
    <3>1. m \in Numbers /\ m < n
      BY <1>1
    <3> QED
      BY <3>1 DEF IsNextNumber
  <2> QED
    BY <2>1
<1>3. Cardinality(1..(n - 1)) = n - 1
  BY <1>1, FS_Interval
<1>4. Cardinality(1..(n - 1)) <= Cardinality(used)
  BY <1>2, FS_Subset
<1>5. Cardinality(used) \in Nat
  BY FS_CardinalityType
<1> QED
  BY <1>1, <1>3, <1>4, <1>5

\* Counting a list of VMs gives a template.
LEMMA CountedType ==
  ASSUME NEW t \in Template, NEW vms, NEW on,
         IsFiniteSet(vms), on \subseteq vms
  PROVE  Counted(t, vms, on) \in Template
<1>1. IsFiniteSet(on)
  BY FS_Subset
<1>2. Cardinality(vms) \in Nat /\ Cardinality(on) \in Nat
  BY <1>1, FS_CardinalityType
<1> QED
  BY <1>2 DEF Counted, Template

\* The end of a pass leaves nothing behind.
LEMMA EndPassType ==
  EndPass => /\ pc' \in Steps /\ pc' = "idle" /\ mem' \in Template
             /\ memFresh' \in BOOLEAN /\ poolFresh' \in BOOLEAN
             /\ asked' \in Unset..MaxReplicas /\ todo' \in Nat
             /\ view' \in SUBSET Numbers /\ viewOn' \in SUBSET view'
             /\ IsFiniteSet(view')
<1> SUFFICES ASSUME EndPass
             PROVE  /\ pc' \in Steps /\ pc' = "idle" /\ mem' \in Template
                    /\ memFresh' \in BOOLEAN /\ poolFresh' \in BOOLEAN
                    /\ asked' \in Unset..MaxReplicas /\ todo' \in Nat
                    /\ view' \in SUBSET Numbers /\ viewOn' \in SUBSET view'
                    /\ IsFiniteSet(view')
  OBVIOUS
<1>1. mem' \in Template
  BY BoundsAssumption DEF EndPass, NewTemplate, Template, Unset
<1>2. memFresh' \in BOOLEAN /\ poolFresh' \in BOOLEAN
  BY Zenon DEF EndPass
<1>3. asked' \in Unset..MaxReplicas /\ todo' \in Nat
  BY BoundsAssumption DEF EndPass, Unset
<1>4. IsFiniteSet(view') /\ view' \in SUBSET Numbers /\ viewOn' \in SUBSET view'
  BY FS_EmptySet DEF EndPass
<1> QED
  BY <1>1, <1>2, <1>3, <1>4 DEF EndPass, Steps

\* A disturbance takes one from the bound.
LEMMA DisturbType ==
  ASSUME disturbances \in 0..MaxDisturbances, NEW kind, Disturb(kind) \/ Calm
  PROVE  disturbances' \in 0..MaxDisturbances
BY BoundsAssumption DEF Disturb, Calm

-----------------------------------------------------------------------------
\* Types hold, and sets of VMs stay finite.
LEMMA TypeInit == Init => TypeOK /\ Finite
<1> SUFFICES ASSUME Init PROVE TypeOK /\ Finite
  OBVIOUS
<1>1. pools \in [Pools -> PoolState]
  <2>1. pools \in [Pools -> [phase: {"live"}, replicas: 0..MaxReplicas, labelled: {FALSE}]]
    BY DEF Init
  <2>2. ASSUME NEW p \in Pools  PROVE pools[p] \in PoolState
    <3>1. pools[p] \in [phase: {"live"}, replicas: 0..MaxReplicas, labelled: {FALSE}]
      BY <2>1
    <3>2. 0..MaxReplicas \subseteq Unset..MaxReplicas
      BY BoundsAssumption DEF Unset
    <3> QED
      BY <3>1, <3>2, Zenon DEF PoolState
  <2>3. pools = [p \in Pools |-> pools[p]]
    BY <2>1
  <2> QED
    BY <2>2, <2>3
<1>2. /\ \A ref \in Pools \cup {NoPool} : NewTemplate(ref) \in Template
  BY BoundsAssumption DEF NewTemplate, Template, Unset
<1>3. stored \in Template /\ cached \in Template /\ mem \in Template
  BY <1>2 DEF Init
<1>4. Finite
  BY FS_EmptySet DEF Init, Finite
<1>5. /\ cacheFresh = TRUE /\ memFresh = FALSE /\ poolFresh = FALSE
      /\ owned = {} /\ running = {} /\ squatted = {} /\ pc = "idle"
      /\ asked = 0 /\ view = {} /\ viewOn = {} /\ todo = 0
      /\ disturbances = MaxDisturbances
  BY DEF Init
<1>6. cacheFresh \in BOOLEAN /\ memFresh \in BOOLEAN /\ poolFresh \in BOOLEAN
  BY <1>5
<1>7. asked \in Unset..MaxReplicas /\ todo \in Nat /\ disturbances \in 0..MaxDisturbances
  BY <1>5, BoundsAssumption DEF Unset
<1>8. /\ owned \in SUBSET Numbers /\ squatted \in SUBSET Numbers /\ running \in SUBSET owned
      /\ view \in SUBSET Numbers /\ viewOn \in SUBSET view /\ pc \in Steps
  BY <1>5 DEF Steps
<1> QED
  BY <1>1, <1>3, <1>4, <1>6, <1>7, <1>8 DEF TypeOK

LEMMA TypeStep ==
  ASSUME TypeOK, Finite, [Next]_vars  PROVE TypeOK' /\ Finite'
<1> USE DEF TypeOK, Finite
<1>d. ASSUME NEW kind, Disturb(kind) \/ Calm  PROVE disturbances' \in 0..MaxDisturbances
  BY <1>d, DisturbType
<1>1. CASE Begin
  BY <1>1, <1>d DEF Begin, cluster, vsphere, lists, At, Goto, Steps
<1>2. CASE Connect
  BY <1>2, <1>d DEF Connect, cluster, vsphere, fresh, lists, Goto, Steps
<1>3. CASE ReplicasFromSpec
  <2>1. mem.test \in Unset..MaxReplicas
    BY DEF Template
  <2>2. /\ asked' \in Unset..MaxReplicas /\ asked' \in Nat
        /\ mem' = [mem EXCEPT !.desired = asked']
    BY <1>3, <2>1, BoundsAssumption DEF ReplicasFromSpec, Want, Unset
  <2>3. mem' \in Template
    BY <2>2 DEF Template
  <2> QED
    BY <1>3, <1>d, <2>2, <2>3 DEF ReplicasFromSpec, cluster, vsphere, fresh, lists, Goto, Steps
<1>4. CASE ReplicasFromPool
  <2>1. pools[mem.ref].replicas \in Unset..MaxReplicas
    BY <1>4 DEF ReplicasFromPool, PoolState
  <2>2. [mem EXCEPT !.desired = 0] \in Template
    BY DEF Template
  <2>3. mem' \in Template /\ asked' \in Unset..MaxReplicas
    BY <1>4, <2>1, <2>2, BoundsAssumption DEF ReplicasFromPool, Want, Unset
  <2>4. poolFresh' \in BOOLEAN
    BY <1>4 DEF ReplicasFromPool
  <2>5. disturbances' \in 0..MaxDisturbances
    BY <1>4, <1>d DEF ReplicasFromPool
  <2>6. pc' \in Steps
    BY <1>4 DEF ReplicasFromPool, Goto, Steps
  <2> QED
    BY <1>4, <2>3, <2>4, <2>5, <2>6 DEF ReplicasFromPool, cluster, vsphere, lists
<1>5. CASE EnsureMatchLabels
  <2>1. pools' \in [Pools -> PoolState]
    <3>1. [phase |-> "live", replicas |-> asked, labelled |-> TRUE] \in PoolState
      BY DEF PoolState
    <3> QED
      BY <1>5, <3>1 DEF EnsureMatchLabels, LabelPool
  <2>2. CASE EndPass
    BY <1>5, <1>d, <2>1, <2>2, EndPassType
       DEF EnsureMatchLabels, LabelPool, vsphere
  <2>3. CASE ~EndPass
    <3>1. asked \in Nat /\ mem' = [mem EXCEPT !.desired = asked] /\ asked' = asked
      BY <1>5, <2>3 DEF EnsureMatchLabels, ReplicasFound, Want, Unset
    <3>2. mem' \in Template
      BY <3>1 DEF Template
    <3> QED
      BY <1>5, <1>d, <2>1, <2>3, <3>1, <3>2
         DEF EnsureMatchLabels, LabelPool, vsphere, fresh, lists, Goto, Steps
  <2> QED
    BY <2>2, <2>3
<1>6. CASE Annotate
  <2>1. stored' \in Template /\ mem' \in Template
    <3>1. mem.ref \in Pools \cup {NoPool} /\ mem.test \in Unset..MaxReplicas
      BY DEF Template
    <3>2. [stored EXCEPT !.ref = mem.ref, !.test = mem.test, !.annotation = mem.ref] \in Template
      BY <3>1 DEF Template
    <3>3. [Decoded(mem) EXCEPT !.annotation = mem.ref] \in Template
      BY <3>1 DEF Template, Decoded
    <3> QED
      BY <1>6, <3>2, <3>3 DEF Annotate
  <2> QED
    BY <1>6, <1>d, <2>1 DEF Annotate, vsphere, fresh, lists, Goto, Steps
<1>7. CASE List
  <2>1. CASE UNCHANGED <<mem, lists>>
    BY <1>7, <1>d, <2>1 DEF List, Listed, cluster, vsphere, fresh, lists, Goto, Steps
  <2>2. CASE ~UNCHANGED <<mem, lists>>
    <3>1. PICK hidden \in SUBSET owned :
            /\ Listed(hidden) /\ Goto("decide")
            /\ view' = owned \ hidden /\ viewOn' = running \ hidden
            /\ mem' = [mem EXCEPT !.current = Cardinality(owned \ hidden)]
      BY <1>7, <2>2 DEF List
    <3>2. IsFiniteSet(owned \ hidden) /\ Cardinality(owned \ hidden) \in Nat
      BY FS_Subset, FS_CardinalityType
    <3>3. mem' \in Template
      BY <3>1, <3>2 DEF Template
    <3> QED
      BY <1>7, <1>d, <3>1, <3>2, <3>3
         DEF List, Listed, cluster, vsphere, fresh, Goto, Steps
  <2> QED
    BY <2>1, <2>2
<1>8. CASE StopAtQuota
  BY <1>8, <1>d DEF StopAtQuota, cluster, vsphere, fresh, lists, Goto, Steps
<1>9. CASE ScaleUp
  <2>1. ToCreate(mem.desired, mem.current) \in Nat
    <3>1. mem.desired \in Nat /\ mem.current \in Nat
      BY DEF Template
    <3> QED
      BY <1>9, <3>1, QuotaAssumption DEF ScaleUp, ToCreate, Shortfall, QuotaReached
  <2> QED
    BY <1>9, <1>d, <2>1 DEF ScaleUp, cluster, vsphere, fresh, lists, Goto, Steps
<1>10. CASE CountVMs
  <2>1. mem' \in Template
    BY <1>10, CountedType DEF CountVMs
  <2> QED
    BY <1>10, <1>d, <2>1 DEF CountVMs, cluster, vsphere, fresh, lists, Goto, Steps
<1>11. CASE Create
  <2>1. PICK n \in Numbers :
          \/ Calm /\ owned' = owned \cup {n} /\ running' = running \cup {n}
                  /\ view' = view \cup {n}
          \/ Calm /\ UNCHANGED <<owned, running, view>>
          \/ /\ Disturb("create") /\ UNCHANGED view
             /\ \E made \in SUBSET {n} : \E on \in SUBSET made :
                  owned' = owned \cup made /\ running' = running \cup on
    BY <1>11 DEF Create, CreateVM
  <2>2. /\ owned' \in SUBSET Numbers /\ running' \in SUBSET owned'
        /\ view' \in SUBSET Numbers /\ viewOn' \in SUBSET view'
    BY <1>11, <2>1 DEF Create, CreateVM
  <2>3. IsFiniteSet(owned') /\ IsFiniteSet(view')
    <3>1. IsFiniteSet(owned \cup {n}) /\ IsFiniteSet(view \cup {n})
      BY FS_AddElement
    <3>2. owned' \subseteq owned \cup {n} /\ view' \subseteq view \cup {n}
      BY <2>1
    <3> QED
      BY <3>1, <3>2, FS_Subset
  <2>4. disturbances' \in 0..MaxDisturbances /\ todo' \in Nat
    BY <1>11, <1>d, <2>1 DEF Create, CreateVM
  <2> QED
    BY <1>11, <2>2, <2>3, <2>4 DEF Create, CreateVM, cluster, fresh
<1>12. CASE Refresh
  <2>1. mem' \in Template
    <3>1. ASSUME NEW hidden \in SUBSET owned
          PROVE  Counted(mem, owned \ hidden, running \ hidden) \in Template
      BY CountedType, FS_Subset
    <3> QED
      BY <1>12, <3>1 DEF Refresh
  <2>2. disturbances' \in 0..MaxDisturbances
    BY <1>12, <1>d DEF Refresh, Listed
  <2> QED
    BY <1>12, <2>1, <2>2 DEF Refresh, cluster, vsphere, fresh, lists, Goto, Steps
<1>13. ASSUME NEW t \in Template, WriteStatus(t)  PROVE TypeOK' /\ Finite'
  <2>1. stored' \in Template
    BY <1>13 DEF WriteStatus, Template
  <2>2. cacheFresh' \in BOOLEAN
    BY <1>13 DEF WriteStatus
  <2>3. disturbances' \in 0..MaxDisturbances
    BY <1>13, <1>d DEF WriteStatus
  <2> QED
    BY <1>13, <2>1, <2>2, <2>3, EndPassType DEF WriteStatus, vsphere
<1>14. CASE Finish
  <2>1. [mem EXCEPT !.allReady = (mem.ready = mem.desired)] \in Template
    BY DEF Template
  <2> QED
    BY <1>13, <1>14, <2>1 DEF Finish
<1>15. CASE WriteBack
  BY <1>13, <1>15 DEF WriteBack
<1>16. CASE Crash
  BY <1>16, <1>d, EndPassType DEF Crash, cluster, vsphere
<1>17. CASE SyncCache
  BY <1>17, <1>d DEF SyncCache, vsphere, inPass, fresh, lists
<1>18. CASE ChangePool
  <2>1. pools' \in [Pools -> PoolState]
    BY <1>18 DEF ChangePool, PoolState
  <2>2. disturbances' \in 0..MaxDisturbances
    BY <1>18, <1>d DEF ChangePool
  <2>3. poolFresh' \in BOOLEAN
    BY <1>18 DEF ChangePool
  <2> QED
    BY <1>18, <2>1, <2>2, <2>3 DEF ChangePool, vsphere, inPass, lists
<1>19. CASE EditTemplate
  <2>1. stored' \in Template
    BY <1>19 DEF EditTemplate, Template
  <2>2. disturbances' \in 0..MaxDisturbances
    BY <1>19, <1>d DEF EditTemplate
  <2> QED
    BY <1>19, <2>1, <2>2 DEF EditTemplate, vsphere, inPass, lists
<1>20. CASE ChangeVM
  <2>1. owned' \in SUBSET owned /\ running' \in SUBSET owned'
    BY <1>20 DEF ChangeVM
  <2>2. IsFiniteSet(owned')
    BY <2>1, FS_Subset
  <2>3. disturbances' \in 0..MaxDisturbances
    BY <1>20, <1>d DEF ChangeVM
  <2> QED
    BY <1>20, <2>1, <2>2, <2>3 DEF ChangeVM, cluster, inPass, fresh, lists
<1>21. CASE ChangeSquatter
  <2>1. squatted' \in SUBSET Numbers
    BY <1>21 DEF ChangeSquatter
  <2> QED
    BY <1>21, <1>d, <2>1 DEF ChangeSquatter, cluster, inPass, fresh, lists
<1>22. CASE UNCHANGED vars
  BY <1>22 DEF vars, cluster, vsphere, fresh, lists
<1> QED
  BY <1>1, <1>2, <1>3, <1>4, <1>5, <1>6, <1>7, <1>8, <1>9, <1>10, <1>11, <1>12,
     <1>14, <1>15, <1>16, <1>17, <1>18, <1>19, <1>20, <1>21, <1>22
     DEF Next, Pass, Environment

\* Every value a pass computes, in whatever order users, failures and restarts
\* come, is of its type, and there are finitely many VMs.
THEOREM TypeCorrect == Spec => []TypeOK
<1>1. Init => TypeOK /\ Finite
  BY TypeInit
<1>2. (TypeOK /\ Finite) /\ [Next]_vars => (TypeOK /\ Finite)'
  BY TypeStep
<1> QED
  BY <1>1, <1>2, PTL DEF Spec

-----------------------------------------------------------------------------
\* The steps a claim about the scaling decision has to look at: all the others
\* leave the decision and the loop alone, or are not in them.
Elsewhere == pc' \notin {"decide", "create"} /\ owned' \subseteq owned
Outside   == UNCHANGED <<pc, mem, view, todo>> /\ owned' \subseteq owned

LEMMA StepKinds ==
  ASSUME TypeOK, [Next]_vars
  PROVE  Elsewhere \/ Outside \/ List \/ ScaleUp \/ Create
<1> USE DEF Elsewhere, Outside
<1>1. CASE \/ Begin \/ Connect \/ ReplicasFromSpec \/ ReplicasFromPool \/ Annotate
           \/ StopAtQuota \/ CountVMs \/ Refresh
  BY <1>1 DEF Begin, Connect, ReplicasFromSpec, ReplicasFromPool, Annotate, StopAtQuota,
              CountVMs, Refresh, Goto, vsphere
<1>2. CASE EnsureMatchLabels \/ Finish \/ WriteBack \/ Crash
  BY <1>2, EndPassType
     DEF EnsureMatchLabels, Finish, WriteBack, WriteStatus, Crash, Goto, vsphere
<1>3. CASE Environment
  BY <1>3 DEF Environment, SyncCache, ChangePool, EditTemplate, ChangeVM, ChangeSquatter,
              inPass, lists, vsphere
<1>4. CASE UNCHANGED vars
  BY <1>4 DEF vars, vsphere, lists
<1> QED
  BY <1>1, <1>2, <1>3, <1>4 DEF Next, Pass

LEMMA QuotaStep ==
  ASSUME QuotaInv, [Next]_vars  PROVE QuotaInv'
<1>t. TypeOK' /\ Finite'
  BY TypeStep DEF QuotaInv
<1> USE DEF ViewCounted, LoopWithinQuota, NumbersWithinQuota, At
<1>1. CASE Elsewhere
  BY <1>t, <1>1 DEF QuotaInv, Elsewhere
<1>2. CASE Outside
  BY <1>t, <1>2 DEF QuotaInv, Outside
<1>3. CASE List
  <2>1. owned' = owned /\ pc' # "create"
    BY <1>3 DEF List, Goto, vsphere
  <2>2. mem \in Template
    BY DEF QuotaInv, TypeOK
  <2>3. ViewCounted'
    <3>1. SUFFICES ASSUME pc' = "decide"  PROVE mem'.current = Cardinality(view')
      OBVIOUS
    <3>2. PICK hidden \in SUBSET owned :
            /\ view' = owned \ hidden
            /\ mem' = [mem EXCEPT !.current = Cardinality(owned \ hidden)]
      BY <1>3, <3>1 DEF List, Goto
    <3> QED
      BY <2>2, <3>2 DEF Template
  <2> QED
    BY <1>t, <2>1, <2>3 DEF QuotaInv
<1>4. CASE ScaleUp
  <2>1. owned' = owned /\ view' = view /\ pc' # "decide"
    BY <1>4 DEF ScaleUp, Goto, vsphere, lists
  <2>2. LoopWithinQuota'
    <3>1. SUFFICES ASSUME HasQuota, pc' = "create"
                   PROVE  Cardinality(view) + todo' <= MaxVms
      BY <2>1
    <3>2. todo' = ToCreate(mem.desired, mem.current) /\ mem.current = Cardinality(view)
      BY <1>4, <3>1 DEF ScaleUp, Goto, QuotaInv
    <3>3. mem.desired \in Nat /\ mem.current \in Nat
      BY DEF QuotaInv, TypeOK, Template
    <3> QED
      BY <3>1, <3>2, <3>3, QuotaAssumption DEF ToCreate, Shortfall
  <2> QED
    BY <1>t, <2>1, <2>2 DEF QuotaInv
<1>5. CASE Create
  <2>1. PICK n \in Numbers :
          /\ IsNextNumber(n, view)
          /\ owned' \subseteq owned \cup {n}
          /\ view' = view \/ view' = view \cup {n}
    BY <1>5 DEF Create, CreateVM
  <2>2. pc = "create" /\ pc' = "create" /\ todo \in Nat /\ todo > 0 /\ todo' = todo - 1
    BY <1>5 DEF Create, CreateVM, QuotaInv, TypeOK
  <2>3. IsFiniteSet(view) /\ Cardinality(view) \in Nat
    BY FS_CardinalityType DEF QuotaInv, Finite
  <2>4. Cardinality(view') <= Cardinality(view) + 1 /\ Cardinality(view') \in Nat
    BY <2>1, <2>3, FS_AddElement
  <2>5. LoopWithinQuota'
    BY <2>2, <2>3, <2>4, QuotaAssumption DEF QuotaInv
  <2>6. NumbersWithinQuota'
    <3>1. n <= Cardinality(view) + 1
      BY <2>1, <2>3, NextNumberBound
    <3>2. HasQuota => n \in 1..MaxVms
      BY <2>2, <2>3, <3>1, NumbersAssumption, QuotaAssumption DEF QuotaInv
    <3> QED
      BY <2>1, <3>2 DEF QuotaInv
  <2> QED
    BY <1>t, <2>2, <2>5, <2>6 DEF QuotaInv
<1> QED
  BY <1>1, <1>2, <1>3, <1>4, <1>5, StepKinds DEF QuotaInv

\* For any quota and whatever happens, VMs the pass cannot see included: the
\* numbers handed out stay within 1..MaxVms, and so does the number of VMs.
THEOREM QuotaSafe == Spec => []QuotaRespected
<1>1. Init => QuotaInv
  BY TypeInit DEF Init, QuotaInv, ViewCounted, LoopWithinQuota, NumbersWithinQuota, At
<1>2. QuotaInv /\ [Next]_vars => QuotaInv'
  BY QuotaStep
<1>3. QuotaInv => QuotaRespected
  <2> SUFFICES ASSUME QuotaInv, HasQuota, owned # {}
               PROVE  Cardinality(owned) <= MaxVms
    BY DEF QuotaRespected
  <2>1. owned \in SUBSET (1..MaxVms) /\ MaxVms >= 1
    BY QuotaAssumption DEF QuotaInv, NumbersWithinQuota
  <2>2. IsFiniteSet(1..MaxVms) /\ Cardinality(1..MaxVms) = MaxVms
    BY <2>1, QuotaAssumption, FS_Interval
  <2> QED
    BY <2>1, <2>2, FS_Subset
<1> QED
  BY <1>1, <1>2, <1>3, PTL DEF Spec

\* Every step adds at most one VM, or removes at most one.
LEMMA OneAtATime ==
  ASSUME TypeOK, [Next]_vars
  PROVE  \/ owned' = owned
         \/ \E n \in Numbers \ owned : owned' = owned \cup {n}
         \/ \E n \in owned : owned' = owned \ {n}
<1>1. CASE Create
  <2>1. PICK n \in Numbers : CreateVM(n)
    BY <1>1 DEF Create
  <2>2. owned' = owned \/ owned' = owned \cup {n}
    BY <2>1 DEF CreateVM
  <2> QED
    BY <2>2
<1>2. CASE ChangeVM
  BY <1>2 DEF ChangeVM
<1>3. CASE ~Create /\ ~ChangeVM
  <2>1. owned' = owned
    <3> USE DEF vsphere
    <3>1. CASE \/ Begin \/ Connect \/ ReplicasFromSpec \/ ReplicasFromPool \/ Annotate
               \/ StopAtQuota \/ CountVMs \/ Refresh \/ List \/ ScaleUp
      BY <3>1 DEF Begin, Connect, ReplicasFromSpec, ReplicasFromPool, Annotate, StopAtQuota,
                  CountVMs, Refresh, List, ScaleUp
    <3>2. CASE EnsureMatchLabels \/ Finish \/ WriteBack \/ Crash
      BY <3>2 DEF EnsureMatchLabels, Finish, WriteBack, WriteStatus, Crash
    <3>3. CASE Environment
      BY <1>3, <3>3 DEF Environment, SyncCache, ChangePool, EditTemplate, ChangeSquatter
    <3>4. CASE UNCHANGED vars
      BY <3>4 DEF vars
    <3> QED
      BY <1>3, <3>1, <3>2, <3>3, <3>4 DEF Next, Pass
  <2> QED
    BY <2>1
<1> QED
  BY <1>1, <1>2, <1>3

\* The pass implements the abstract fleet: its VMs come and go one at a time,
\* in the slots the quota allows.
THEOREM ScalingImplementsFleet == Spec => OneFleet
<1>1. Init => QuotaInv /\ F!Init
  BY TypeInit DEF Init, QuotaInv, ViewCounted, LoopWithinQuota, NumbersWithinQuota, At, F!Init
<1>2. QuotaInv /\ [Next]_vars => QuotaInv'
  BY QuotaStep
<1>3. QuotaInv /\ QuotaInv' /\ [Next]_vars => [F!Add \/ F!Remove]_owned
  <2> SUFFICES ASSUME QuotaInv, QuotaInv', [Next]_vars, owned' # owned
               PROVE  F!Add \/ F!Remove
    OBVIOUS
  <2>1. CASE \E n \in owned : owned' = owned \ {n}
    BY <2>1 DEF F!Remove
  <2>2. CASE \E n \in Numbers \ owned : owned' = owned \cup {n}
    <3>1. PICK n \in Numbers \ owned : owned' = owned \cup {n}
      BY <2>2
    <3>2. HasQuota => n \in 1..MaxVms
      BY <3>1 DEF QuotaInv, NumbersWithinQuota
    <3> QED
      BY <3>1, <3>2 DEF F!Add
  <2> QED
    BY <2>1, <2>2, OneAtATime DEF QuotaInv
<1> QED
  BY <1>1, <1>2, <1>3, PTL DEF Spec, OneFleet, F!Spec

-----------------------------------------------------------------------------
LEMMA DesiredStep ==
  ASSUME DesiredInv, [Next]_vars, "hide" \notin Kinds  PROVE DesiredInv'
<1>t. TypeOK' /\ Finite'
  BY TypeStep DEF DesiredInv
<1>c. Cardinality(owned) \in Nat /\ Cardinality(view) \in Nat /\ Cardinality(owned') \in Nat
  BY <1>t, FS_CardinalityType DEF DesiredInv, Finite
<1>s. mem \in Template /\ todo \in Nat
  BY DEF DesiredInv, TypeOK
<1> USE DEF ViewCounted, NothingOverlooked, At
<1>1. CASE Elsewhere
  BY <1>t, <1>1 DEF DesiredInv, Elsewhere
<1>2. CASE Outside
  <2>1. Cardinality(owned') <= Cardinality(owned)
    BY <1>2, FS_Subset DEF DesiredInv, Finite, Outside
  <2>2. mem.desired \in Nat
    BY <1>s DEF Template
  <2> QED
    BY <1>t, <1>c, <1>s, <1>2, <2>1, <2>2 DEF DesiredInv, Outside
<1>3. CASE List
  <2>1. pc' # "create"
    BY <1>3 DEF List, Goto
  <2>2. CASE pc' = "decide"
    <3>1. PICK hidden \in SUBSET owned :
            /\ Listed(hidden) /\ view' = owned \ hidden
            /\ mem' = [mem EXCEPT !.current = Cardinality(owned \ hidden)]
      BY <1>3, <2>2 DEF List, Goto
    <3>2. hidden = {} /\ owned' = owned
      BY <1>3, <3>1 DEF List, Listed, Disturb, vsphere
    <3>3. mem'.current = Cardinality(view')
      BY <1>s, <3>1 DEF Template
    <3> QED
      BY <1>t, <2>1, <3>1, <3>2, <3>3 DEF DesiredInv
  <2> QED
    BY <1>t, <2>1, <2>2 DEF DesiredInv
<1>4. CASE ScaleUp
  <2>1. owned' = owned /\ mem' = mem /\ pc' # "decide" /\ pc = "decide"
    BY <1>4 DEF ScaleUp, Goto, vsphere
  <2>2. Cardinality(owned) <= Cardinality(view)
    BY <2>1, FS_Subset DEF DesiredInv, Finite
  <2>3. pc' = "create" => Cardinality(owned) + todo' <= mem.desired
    <3>1. SUFFICES ASSUME pc' = "create"  PROVE Cardinality(owned) + todo' <= mem.desired
      OBVIOUS
    <3>2. todo' = ToCreate(mem.desired, mem.current) /\ mem.current = Cardinality(view)
      BY <1>4, <2>1, <3>1 DEF ScaleUp, Goto, DesiredInv
    <3>3. mem.desired \in Nat /\ mem.current \in Nat
      BY <1>s DEF Template
    <3> QED
      BY <1>c, <2>2, <3>2, <3>3, QuotaAssumption DEF ToCreate, Shortfall
  <2> QED
    BY <1>t, <2>1, <2>3 DEF DesiredInv
<1>5. CASE Create
  <2>1. PICK n \in Numbers : owned' \subseteq owned \cup {n}
    BY <1>5 DEF Create, CreateVM
  <2>2. /\ pc = "create" /\ pc' = "create" /\ mem' = mem
        /\ todo > 0 /\ todo' = todo - 1
    BY <1>5 DEF Create, CreateVM
  <2>3. Cardinality(owned') <= Cardinality(owned) + 1
    <3>1. IsFiniteSet(owned \cup {n}) /\ Cardinality(owned \cup {n}) <= Cardinality(owned) + 1
      BY <1>c, FS_AddElement DEF DesiredInv, Finite
    <3>2. Cardinality(owned') <= Cardinality(owned \cup {n}) /\ Cardinality(owned \cup {n}) \in Nat
      BY <2>1, <3>1, FS_Subset, FS_CardinalityType
    <3> QED
      BY <1>c, <3>1, <3>2
  <2>4. mem.desired \in Nat
    BY <1>s DEF Template
  <2> QED
    BY <1>t, <1>c, <1>s, <2>2, <2>3, <2>4 DEF DesiredInv
<1> QED
  BY <1>1, <1>2, <1>3, <1>4, <1>5, StepKinds DEF DesiredInv

\* Only the loop adds VMs, and only while some are missing.
LEMMA CreatesBelowDesired ==
  ASSUME DesiredInv, [Next]_vars, owned' \ owned # {}
  PROVE  Create /\ Cardinality(owned) < mem.desired
<1>1. Create
  BY StepKinds DEF DesiredInv, Elsewhere, Outside, List, ScaleUp, vsphere
<1>2. Cardinality(owned) \in Nat /\ mem.desired \in Nat /\ todo \in Nat
  BY FS_CardinalityType DEF DesiredInv, Finite, TypeOK, Template
<1>3. At("create") /\ todo > 0
  BY <1>1 DEF Create
<1>4. Cardinality(owned) + todo <= mem.desired
  BY <1>3 DEF DesiredInv, NothingOverlooked
<1> QED
  BY <1>1, <1>2, <1>3, <1>4

\* As long as every VM of the folder can be read, a creation never takes the
\* number of VMs beyond the desired count the pass works with.
THEOREM NoOvershoot ==
  ASSUME "hide" \notin Kinds  PROVE Spec => AddsOnlyBelowDesired
<1>1. Init => DesiredInv
  BY TypeInit DEF Init, DesiredInv, ViewCounted, NothingOverlooked, At
<1>2. DesiredInv /\ [Next]_vars => DesiredInv'
  BY DesiredStep
<1>3. DesiredInv /\ [Next]_vars
        => [owned' \ owned # {} => Cardinality(owned) < mem.desired]_vars
  BY CreatesBelowDesired
<1> QED
  BY <1>1, <1>2, <1>3, PTL DEF Spec, AddsOnlyBelowDesired

-----------------------------------------------------------------------------
\* The annotation is not that of the template's NodePool: a pass writes it.
Unannotated(t) == t.annotation # t.ref

\* What the stored and the cached template and the pass's copy have to do with
\* each other.
CopiesAgree ==
  /\ cacheFresh => cached = stored
  /\ memFresh => mem.ref = stored.ref /\ mem.annotation = stored.annotation

\* No count goes into the status before the annotation is there.
CountsAnnotated ==
  /\ Unannotated(stored) => stored.desired = 0
  /\ Unannotated(cached) => cached.desired = 0
  /\ memFresh /\ Unannotated(mem) =>
       /\ pc \notin {"list", "decide", "create", "finish"}
       /\ pc # "annotate" => mem.desired = 0

\* The pass works with the count it has read.
WorksAsAsked == pc \in {"annotate", "list", "decide", "create"} => mem.desired = asked

AskedInv == TypeOK /\ Finite /\ CopiesAgree /\ CountsAnnotated /\ WorksAsAsked

\* A step of the pass that writes no object and, but for the count that the
\* pass has read, leaves the template in memory as it is.
LEMMA AskedWithin ==
  ASSUME AskedInv, UNCHANGED <<stored, cached, cacheFresh, memFresh>>,
         mem'.ref = mem.ref, mem'.annotation = mem.annotation,
         \/ pc' \in {"list", "decide", "create", "finish"}
              => pc \in {"list", "decide", "create", "finish"},
         \/ mem'.desired = mem.desired /\ asked' = asked
              /\ (pc' \in {"annotate", "list", "decide", "create"}
                    => pc \in {"annotate", "list", "decide", "create"})
         \/ mem'.desired = asked' /\ pc' = "annotate"
         \/ mem'.desired = 0 /\ pc' = "writeBack"
         \/ mem'.desired = mem.desired /\ pc' \notin {"annotate", "list", "decide", "create"},
         pc # "annotate"
  PROVE  CopiesAgree' /\ CountsAnnotated' /\ WorksAsAsked'
BY DEF AskedInv, CopiesAgree, CountsAnnotated, WorksAsAsked, Unannotated

LEMMA AskedStep ==
  ASSUME AskedInv, [Next]_vars, {"ref", "annotationWrite"} \cap Kinds = {}
  PROVE  AskedInv'
<1>t. TypeOK' /\ Finite'
  BY TypeStep DEF AskedInv
<1>s. mem \in Template /\ stored \in Template /\ cached \in Template
  BY DEF AskedInv, TypeOK
<1> SUFFICES CopiesAgree' /\ CountsAnnotated' /\ WorksAsAsked'
  BY <1>t DEF AskedInv
<1> USE DEF At, Goto
<1> CopiesAgree /\ CountsAnnotated /\ WorksAsAsked
  BY DEF AskedInv
<1>1. CASE Begin
  <2>1. mem' = cached /\ memFresh' = cacheFresh /\ pc' = "connect"
        /\ UNCHANGED <<stored, cached, cacheFresh>>
    BY <1>1 DEF Begin, cluster
  <2> QED
    BY <2>1 DEF CopiesAgree, CountsAnnotated, WorksAsAsked, Unannotated
<1>2. CASE Connect \/ StopAtQuota \/ ScaleUp \/ Create
  <2>1. /\ UNCHANGED <<stored, cached, cacheFresh, memFresh, mem, asked>> /\ pc # "annotate"
        /\ \/ pc = "connect" /\ pc' \in {"replicas", "writeBack"}
           \/ pc \in {"decide", "create"} /\ pc' \in {"finish", "create", "writeBack"}
    BY <1>2 DEF Connect, StopAtQuota, ScaleUp, Create, CreateVM, cluster, fresh
  <2> QED
    BY <2>1, AskedWithin
<1>3. CASE List \/ CountVMs \/ Refresh
  <2>1. /\ UNCHANGED <<stored, cached, cacheFresh, memFresh, asked>> /\ pc # "annotate"
        /\ pc \in {"list", "decide", "create"} /\ pc' \in {"decide", "finish", "writeBack"}
    BY <1>3 DEF List, CountVMs, Refresh, cluster, fresh
  <2>2. mem'.ref = mem.ref /\ mem'.annotation = mem.annotation /\ mem'.desired = mem.desired
    BY <1>s, <1>3 DEF List, CountVMs, Refresh, Counted, Template
  <2> QED
    BY <2>1, <2>2, AskedWithin
<1>4. CASE ReplicasFromSpec \/ ReplicasFromPool \/ (EnsureMatchLabels /\ ~EndPass)
  <2>1. /\ UNCHANGED <<stored, cached, cacheFresh, memFresh>>
        /\ pc \in {"replicas", "label"}
    BY <1>4 DEF ReplicasFromSpec, ReplicasFromPool, EnsureMatchLabels, cluster, fresh
  <2>2. mem'.ref = mem.ref /\ mem'.annotation = mem.annotation
    BY <1>s, <1>4 DEF ReplicasFromSpec, ReplicasFromPool, EnsureMatchLabels, Want, Template
  <2>3. \/ mem'.desired = asked' /\ pc' = "annotate"
        \/ mem'.desired = 0 /\ pc' = "writeBack"
        \/ mem'.desired = mem.desired /\ pc' \in {"label", "writeBack"}
    BY <1>s, <1>4 DEF ReplicasFromSpec, ReplicasFromPool, EnsureMatchLabels, Want, Template
  <2> QED
    BY <2>1, <2>2, <2>3, AskedWithin
<1>5. CASE Annotate
  <2>1. /\ pc = "annotate" /\ pc' = "list" /\ UNCHANGED <<cached, memFresh, asked>>
    BY <1>5 DEF Annotate, fresh
  <2>2. CASE Unannotated(mem) /\ memFresh
    <3>1. /\ stored' = [stored EXCEPT !.ref = mem.ref, !.test = mem.test,
                                      !.annotation = mem.ref]
          /\ mem' = [Decoded(mem) EXCEPT !.annotation = mem.ref]
          /\ cacheFresh' = FALSE
      BY <1>5, <2>2 DEF Annotate, Unannotated, TemplateUpdateAccepted, Disturb
    <3>2. stored.desired = 0
      BY <2>2 DEF CopiesAgree, CountsAnnotated, Unannotated
    <3>3. /\ mem'.desired = mem.desired /\ mem'.ref = mem.ref /\ mem'.annotation = mem.ref
          /\ stored'.ref = mem.ref /\ stored'.annotation = mem.ref
      BY <1>s, <3>1, <3>2 DEF Decoded, Template
    <3> QED
      BY <2>1, <3>1, <3>3 DEF CopiesAgree, CountsAnnotated, WorksAsAsked, Unannotated
  <2>3. CASE ~(Unannotated(mem) /\ memFresh)
    <3>1. UNCHANGED <<stored, mem, cacheFresh>>
      BY <1>5, <2>3 DEF Annotate, Unannotated, TemplateUpdateAccepted
    <3> QED
      BY <2>1, <2>3, <3>1 DEF CopiesAgree, CountsAnnotated, WorksAsAsked, Unannotated
  <2> QED
    BY <2>2, <2>3
<1>6. ASSUME UNCHANGED <<stored, cached, cacheFresh>>, EndPass
      PROVE  CopiesAgree' /\ CountsAnnotated' /\ WorksAsAsked'
  BY <1>6 DEF EndPass, CopiesAgree, CountsAnnotated, WorksAsAsked
<1>7. ASSUME NEW b \in BOOLEAN, WriteStatus([mem EXCEPT !.allReady = b]),
             pc \in {"finish", "writeBack"}
      PROVE  CopiesAgree' /\ CountsAnnotated' /\ WorksAsAsked'
  <2> DEFINE written == [mem EXCEPT !.allReady = b]
  <2>1. EndPass /\ cached' = cached
    BY <1>7 DEF WriteStatus
  <2>2. CASE UNCHANGED <<stored, cacheFresh>>
    BY <1>6, <2>1, <2>2
  <2>3. CASE ~UNCHANGED <<stored, cacheFresh>>
    <3>1. memFresh /\ cacheFresh' = FALSE
          /\ stored' = [stored EXCEPT !.desired = written.desired,
                          !.current = written.current, !.ready = written.ready,
                          !.allReady = written.allReady]
      BY <1>7, <2>3 DEF WriteStatus, TemplateUpdateAccepted
    <3>2. written.desired = mem.desired
      BY <1>s DEF Template
    <3>3. /\ stored'.desired = mem.desired /\ stored'.ref = stored.ref
          /\ stored'.annotation = stored.annotation
      BY <1>s, <3>1, <3>2 DEF Template
    <3> QED
      BY <1>7, <2>1, <3>1, <3>3
      DEF EndPass, CopiesAgree, CountsAnnotated, WorksAsAsked, Unannotated
  <2> QED
    BY <2>2, <2>3
<1>8. CASE Finish \/ WriteBack
  <2>1. [mem EXCEPT !.allReady = mem.allReady] = mem /\ mem.allReady \in BOOLEAN
    BY <1>s DEF Template
  <2>2. (mem.ready = mem.desired) \in BOOLEAN
    OBVIOUS
  <2>3. CASE Finish
    BY <1>7, <2>2, <2>3 DEF Finish
  <2>4. CASE WriteBack
    BY <1>7, <2>1, <2>4 DEF WriteBack
  <2> QED
    BY <1>8, <2>3, <2>4
<1>9. CASE Crash \/ (EnsureMatchLabels /\ EndPass)
  BY <1>6, <1>9 DEF Crash, EnsureMatchLabels, cluster
<1>10. CASE SyncCache
  BY <1>10 DEF SyncCache, inPass, fresh, CopiesAgree, CountsAnnotated, WorksAsAsked, Unannotated
<1>11. CASE EditTemplate
  <2>1. /\ UNCHANGED <<cached, pc, mem, asked>> /\ cacheFresh' = FALSE /\ memFresh' = FALSE
        /\ stored'.ref = stored.ref /\ stored'.annotation = stored.annotation
        /\ stored'.desired = stored.desired
    BY <1>s, <1>11 DEF EditTemplate, inPass, Disturb, Template
  <2> QED
    BY <2>1 DEF CopiesAgree, CountsAnnotated, WorksAsAsked, Unannotated
<1>12. CASE ChangePool \/ ChangeVM \/ ChangeSquatter \/ UNCHANGED vars
  <2>1. UNCHANGED <<stored, cached, cacheFresh, memFresh, pc, mem, asked>>
    BY <1>12 DEF ChangePool, ChangeVM, ChangeSquatter, vars, inPass, cluster, fresh
  <2> QED
    BY <2>1 DEF CopiesAgree, CountsAnnotated, WorksAsAsked, Unannotated
<1> QED
  BY <1>1, <1>2, <1>3, <1>4, <1>5, <1>8, <1>9, <1>10, <1>11, <1>12
  DEF Next, Pass, Environment

LEMMA AskedInit == Init => AskedInv
<1> SUFFICES ASSUME Init  PROVE AskedInv
  OBVIOUS
<1>1. stored.desired = 0 /\ cached = stored /\ pc = "idle" /\ memFresh = FALSE
  BY DEF Init, NewTemplate
<1> QED
  BY <1>1, TypeInit DEF AskedInv, CopiesAgree, CountsAnnotated, WorksAsAsked

\* The count that the response to the annotation's Update brings back is the
\* only way to create VMs beyond what the pass has read: as long as users do not
\* point the template elsewhere and that Update does not fail (the count of a
\* pass without annotation may then be stored), a VM is added only while there
\* are fewer than the NodePool or the spec asks for.
THEOREM NoOvershootAsked ==
  ASSUME {"hide", "ref", "annotationWrite"} \cap Kinds = {}
  PROVE  Spec => AddsOnlyBelowAsked
<1>1. Init => DesiredInv /\ AskedInv
  BY AskedInit, TypeInit DEF Init, DesiredInv, ViewCounted, NothingOverlooked, At
<1>2. (DesiredInv /\ AskedInv) /\ [Next]_vars => (DesiredInv /\ AskedInv)'
  BY DesiredStep, AskedStep
<1>3. (DesiredInv /\ AskedInv) /\ [Next]_vars
        => [owned' \ owned # {} => Cardinality(owned) < asked]_vars
  <2> SUFFICES ASSUME DesiredInv, AskedInv, [Next]_vars, owned' \ owned # {}
               PROVE  Cardinality(owned) < asked
    OBVIOUS
  <2>1. Cardinality(owned) < mem.desired /\ Create
    BY CreatesBelowDesired
  <2> QED
    BY <2>1 DEF Create, At, AskedInv, WorksAsAsked
<1> QED
  BY <1>1, <1>2, <1>3, PTL DEF Spec, AddsOnlyBelowAsked

-----------------------------------------------------------------------------
\* At its end a pass has counted all the VMs there are, and no more unless some
\* have been removed since; and so it has before it creates any.
CountCovers ==
  /\ At("decide") /\ "removeVM" \notin Kinds => view \subseteq owned
  /\ At("finish") => /\ Cardinality(owned) <= mem.current
                     /\ "removeVM" \notin Kinds => Cardinality(owned) = mem.current

CoverInv == DesiredInv /\ CountCovers

\* A pass gets to its end with the VMs of its first listing or of its last.
LEMMA FinishReached ==
  ASSUME "hide" \notin Kinds, TypeOK, [Next]_vars, pc' = "finish"
  PROVE  \/ /\ pc = "decide" /\ owned' = owned
            /\ mem'.current \in {mem.current, Cardinality(view)}
         \/ owned' = owned /\ mem'.current = Cardinality(owned)
         \/ /\ pc = "finish" /\ mem' = mem /\ owned' \subseteq owned
            /\ "removeVM" \notin Kinds => owned' = owned
<1>s. mem \in Template
  BY DEF TypeOK
<1>1. CASE StopAtQuota \/ CountVMs
  BY <1>s, <1>1 DEF StopAtQuota, CountVMs, Counted, At, vsphere, Template
<1>2. CASE Refresh
  <2>1. PICK hidden \in SUBSET owned :
          Listed(hidden) /\ mem' = Counted(mem, owned \ hidden, running \ hidden)
    BY <1>2 DEF Refresh, Goto
  <2>2. hidden = {}
    BY <2>1 DEF Listed, Disturb
  <2>3. mem'.current = Cardinality(owned)
    BY <1>s, <2>1, <2>2 DEF Counted, Template
  <2> QED
    BY <1>2, <2>3 DEF Refresh, vsphere
<1>3. CASE (Pass \/ Crash) /\ ~(StopAtQuota \/ CountVMs \/ Refresh)
  BY <1>3, EndPassType
     DEF Pass, Begin, Connect, ReplicasFromSpec, ReplicasFromPool, EnsureMatchLabels, Annotate,
         List, ScaleUp, Create, Finish, WriteBack, WriteStatus, Crash, Goto, At
<1>4. CASE Environment \/ UNCHANGED vars
  BY <1>4 DEF Environment, SyncCache, ChangePool, EditTemplate, ChangeVM, ChangeSquatter,
              Disturb, inPass, vsphere, vars
<1> QED
  BY <1>1, <1>2, <1>3, <1>4 DEF Next

LEMMA CoverStep ==
  ASSUME "hide" \notin Kinds, CoverInv, [Next]_vars  PROVE CoverInv'
<1> USE DEF CoverInv
<1>t. TypeOK /\ Finite /\ DesiredInv' /\ Finite'
  BY DesiredStep DEF DesiredInv
<1>1. ASSUME pc' = "decide", "removeVM" \notin Kinds  PROVE view' \subseteq owned'
  <2>1. CASE List
    BY <1>1, <2>1 DEF List, Goto, vsphere
  <2>2. CASE pc = "decide" /\ UNCHANGED <<view, owned>>
    BY <1>1, <2>2 DEF CountCovers, At
  <2>3. CASE (Pass \/ Crash) /\ ~List
    BY <1>1, <2>3, EndPassType
       DEF Pass, Begin, Connect, ReplicasFromSpec, ReplicasFromPool, EnsureMatchLabels, Annotate,
           StopAtQuota, ScaleUp, CountVMs, Create, Refresh, Finish, WriteBack, WriteStatus,
           Crash, Goto, At
  <2>4. CASE Environment \/ UNCHANGED vars
    BY <1>1, <2>2, <2>4
       DEF Environment, SyncCache, ChangePool, EditTemplate, ChangeVM, ChangeSquatter, Disturb,
           inPass, lists, vsphere, vars
  <2> QED
    BY <2>1, <2>3, <2>4 DEF Next
<1>2. ASSUME pc' = "finish"
      PROVE  /\ Cardinality(owned') <= mem'.current
             /\ "removeVM" \notin Kinds => Cardinality(owned') = mem'.current
  <2>1. Cardinality(owned) \in Nat /\ Cardinality(owned') \in Nat
    BY <1>t, FS_CardinalityType DEF Finite
  <2>2. CASE pc = "decide" /\ owned' = owned /\ mem'.current \in {mem.current, Cardinality(view)}
    <3>1. mem'.current = Cardinality(view) /\ owned \subseteq view /\ IsFiniteSet(view)
      BY <2>2, <1>t DEF DesiredInv, ViewCounted, NothingOverlooked, Finite, At
    <3>2. Cardinality(owned) <= Cardinality(view)
      BY <3>1, FS_Subset
    <3>3. "removeVM" \notin Kinds => owned = view
      BY <2>2, <3>1 DEF CountCovers, At
    <3> QED
      BY <2>2, <3>1, <3>2, <3>3
  <2>3. CASE owned' = owned /\ mem'.current = Cardinality(owned)
    BY <2>1, <2>3
  <2>4. CASE /\ pc = "finish" /\ mem' = mem /\ owned' \subseteq owned
             /\ "removeVM" \notin Kinds => owned' = owned
    <3>1. Cardinality(owned') <= Cardinality(owned)
      BY <1>t, <2>4, FS_Subset DEF Finite
    <3>2. mem.current \in Nat
      BY <1>t DEF TypeOK, Template
    <3> QED
      BY <2>1, <2>4, <3>1, <3>2 DEF CountCovers, At
  <2> QED
    BY <1>t, <1>2, <2>2, <2>3, <2>4, FinishReached
<1> QED
  BY <1>t, <1>1, <1>2 DEF CountCovers, At

\* What the last step of a pass publishes is what it holds.
LEMMA FinishPublishes ==
  ASSUME TypeOK, [Next]_vars, At("finish"), pc' # pc, stored' # stored
  PROVE  stored'.current = mem.current
<1>1. Finish
  BY DEF At, Next, Pass, Begin, Connect, ReplicasFromSpec, ReplicasFromPool, EnsureMatchLabels,
         Annotate, List, StopAtQuota, ScaleUp, CountVMs, Create, Refresh, WriteBack, Crash,
         Environment, SyncCache, ChangePool, EditTemplate, ChangeVM, ChangeSquatter, inPass,
         cluster, vars
<1>2. mem \in Template /\ stored \in Template
  BY DEF TypeOK
<1>3. [mem EXCEPT !.allReady = (mem.ready = mem.desired)].current = mem.current
  BY <1>2 DEF Template
<1> DEFINE t == [mem EXCEPT !.allReady = (mem.ready = mem.desired)]
<1>4. stored' = [stored EXCEPT !.desired = t.desired, !.current = t.current,
                               !.ready = t.ready, !.allReady = t.allReady]
  BY <1>1 DEF Finish, WriteStatus
<1> HIDE DEF t
<1>5. stored'.current = t.current
  BY <1>2, <1>4 DEF Template
<1> QED
  BY <1>3, <1>5 DEF t

LEMMA CoverInit == Init => CoverInv
BY TypeInit DEF Init, CoverInv, CountCovers, DesiredInv, ViewCounted, NothingOverlooked, At

\* As long as every VM can be read, a pass that gets through publishes at least
\* as many VMs as there are: for any number of VMs, creations that succeed
\* unnoticed, removals and restarts.
THEOREM CountsCoverAll ==
  ASSUME "hide" \notin Kinds  PROVE Spec => CountsCover
<1>1. CoverInv /\ [Next]_vars
        => [At("finish") /\ pc' # pc /\ stored' # stored
              => Cardinality(owned) <= stored'.current]_vars
  BY FinishPublishes DEF CoverInv, CountCovers, DesiredInv
<1>2. CoverInv /\ [Next]_vars => CoverInv'
  BY CoverStep
<1> QED
  BY <1>1, <1>2, CoverInit, PTL DEF Spec, CountsCover

\* When VMs are not removed either, it publishes exactly as many as there are.
THEOREM CountsExact ==
  ASSUME {"hide", "removeVM"} \cap Kinds = {}
  PROVE  Spec => [][At("finish") /\ pc' # pc /\ stored' # stored
                      => stored'.current = Cardinality(owned)]_vars
<1>1. CoverInv /\ [Next]_vars
        => [At("finish") /\ pc' # pc /\ stored' # stored
              => stored'.current = Cardinality(owned)]_vars
  BY FinishPublishes DEF CoverInv, CountCovers, DesiredInv
<1>2. CoverInv /\ [Next]_vars => CoverInv'
  BY CoverStep
<1> QED
  BY <1>1, <1>2, CoverInit, PTL DEF Spec

-----------------------------------------------------------------------------
LEMMA FreshStep ==
  ASSUME FreshInv, [Next]_vars  PROVE FreshInv'
<1>t. TypeOK' /\ Finite'
  BY TypeStep DEF FreshInv
<1>s. mem \in Template /\ stored \in Template
  BY DEF FreshInv, TypeOK
<1> USE DEF PoolFreshMeans, TemplateFreshMeans, At
<1>1. CASE Begin
  BY <1>t, <1>1 DEF FreshInv, Begin, Goto, cluster
<1>2. CASE Connect \/ List \/ StopAtQuota \/ ScaleUp \/ CountVMs \/ Create \/ Refresh
  <2>1. mem'.ref = mem.ref /\ mem'.test = mem.test /\ pc' # "label"
    BY <1>s, <1>2 DEF Connect, List, StopAtQuota, ScaleUp, CountVMs, Create, CreateVM, Refresh,
                      Goto, Counted, Template
  <2>2. UNCHANGED cluster /\ UNCHANGED memFresh
    BY <1>2 DEF Connect, List, StopAtQuota, ScaleUp, CountVMs, Create, CreateVM, Refresh, fresh
  <2> QED
    BY <1>t, <2>1, <2>2 DEF FreshInv, cluster
<1>3. CASE ReplicasFromSpec \/ ReplicasFromPool
  <2>1. mem'.ref = mem.ref /\ mem'.test = mem.test
    BY <1>s, <1>3 DEF ReplicasFromSpec, ReplicasFromPool, Want, Template
  <2>2. UNCHANGED cluster /\ UNCHANGED memFresh
    BY <1>3 DEF ReplicasFromSpec, ReplicasFromPool, fresh
  <2>3. PoolFreshMeans'
    BY <1>3, <2>1, <2>2 DEF ReplicasFromSpec, ReplicasFromPool, Goto, cluster
  <2> QED
    BY <1>t, <2>1, <2>2, <2>3 DEF FreshInv, cluster
<1>4. CASE EnsureMatchLabels
  <2>1. UNCHANGED <<stored, cached, cacheFresh>> /\ pc' # "label"
    BY <1>4, EndPassType DEF EnsureMatchLabels, Goto
  <2>2. memFresh' => memFresh /\ mem'.ref = mem.ref /\ mem'.test = mem.test
    BY <1>s, <1>4 DEF EnsureMatchLabels, EndPass, Want, fresh, Template
  <2> QED
    BY <1>t, <2>1, <2>2 DEF FreshInv
<1>5. CASE Annotate
  <2>1. mem'.ref = mem.ref /\ mem'.test = mem.test /\ pc' # "label"
    BY <1>s, <1>5 DEF Annotate, Goto, Decoded, Template
  <2>2. UNCHANGED <<memFresh, cached>>
    BY <1>5 DEF Annotate, fresh
  <2>3. \/ UNCHANGED <<stored, cacheFresh>>
        \/ cacheFresh' = FALSE /\ stored'.ref = mem.ref /\ stored'.test = mem.test
    BY <1>s, <1>5 DEF Annotate, Template
  <2> QED
    BY <1>t, <2>1, <2>2, <2>3 DEF FreshInv
<1>6. ASSUME NEW w, WriteStatus(w)  PROVE FreshInv'
  <2>1. pc' = "idle" /\ memFresh' = FALSE /\ cached' = cached
    BY <1>6 DEF WriteStatus, EndPass
  <2>2. UNCHANGED <<stored, cacheFresh>> \/ cacheFresh' = FALSE
    BY <1>6 DEF WriteStatus
  <2> QED
    BY <1>t, <2>1, <2>2 DEF FreshInv
<1>7. CASE Finish \/ WriteBack
  BY <1>6, <1>7 DEF Finish, WriteBack
<1>8. CASE Crash
  BY <1>t, <1>8 DEF FreshInv, Crash, EndPass, cluster
<1>9. CASE SyncCache
  BY <1>t, <1>9 DEF FreshInv, SyncCache, inPass, fresh
<1>10. CASE ChangePool
  <2>1. PICK p \in Pools :
          /\ poolFresh' = (poolFresh /\ p # mem.ref)
          /\ \A q \in Pools : q # p => pools'[q] = pools[q]
    BY <1>10 DEF ChangePool, FreshInv, TypeOK
  <2>2. PoolFreshMeans'
    BY <1>10, <2>1 DEF ChangePool, inPass, FreshInv
  <2> QED
    BY <1>t, <1>10, <2>2 DEF FreshInv, ChangePool, inPass
<1>11. CASE EditTemplate
  BY <1>t, <1>11 DEF FreshInv, EditTemplate, inPass
<1>12. CASE ChangeVM \/ ChangeSquatter \/ UNCHANGED vars
  <2>1. UNCHANGED <<cluster, pc, mem, asked, memFresh, poolFresh>>
    BY <1>12 DEF ChangeVM, ChangeSquatter, vars, inPass, fresh
  <2> QED
    BY <1>t, <2>1 DEF FreshInv, cluster
<1> QED
  BY <1>1, <1>2, <1>3, <1>4, <1>5, <1>7, <1>8, <1>9, <1>10, <1>11, <1>12
     DEF Next, Pass, Environment

LEMMA FreshInit == Init => FreshInv
BY TypeInit DEF Init, FreshInv, PoolFreshMeans, TemplateFreshMeans, At

\* A write of the status comes from a pass whose template has not changed.
LEMMA StatusWrittenFresh ==
  ASSUME TypeOK, [Next]_vars,
         <<stored'.desired, stored'.current, stored'.ready>>
           # <<stored.desired, stored.current, stored.ready>>
  PROVE  memFresh
<1>s. stored \in Template
  BY DEF TypeOK
<1>1. CASE Finish \/ WriteBack
  BY <1>1 DEF Finish, WriteBack, WriteStatus, TemplateUpdateAccepted
<1>2. CASE Annotate
  BY <1>s, <1>2 DEF Annotate, Template
<1>3. CASE EditTemplate
  BY <1>s, <1>3 DEF EditTemplate, Template
<1>4. CASE UNCHANGED stored
  BY <1>4
<1> QED
  BY <1>1, <1>2, <1>3, <1>4
     DEF Next, Pass, Environment, Begin, Connect, ReplicasFromSpec, ReplicasFromPool,
         EnsureMatchLabels, List, StopAtQuota, ScaleUp, CountVMs, Create, CreateVM, Refresh, Crash,
         SyncCache, ChangePool, ChangeVM, ChangeSquatter, cluster, vars

\* No pass publishes counters it worked out for a template that has changed.
THEOREM StatusCurrent == Spec => StatusOfCurrentSpec
<1>1. FreshInv /\ [Next]_vars
        => [<<stored'.desired, stored'.current, stored'.ready>>
              # <<stored.desired, stored.current, stored.ready>>
            => mem.ref = stored.ref /\ mem.test = stored.test]_vars
  BY StatusWrittenFresh DEF FreshInv, TemplateFreshMeans
<1> QED
  BY <1>1, FreshInit, FreshStep, PTL DEF Spec, StatusOfCurrentSpec

\* Writing whole objects back, a pass never undoes what users did meanwhile to
\* the NodePool or to the template's spec.
THEOREM UserFieldsSafe == Spec => UserFieldsKept
<1>1. FreshInv /\ [Next]_vars => [pc' # pc => UserFieldsSame]_vars
  <2> SUFFICES ASSUME FreshInv, [Next]_vars, pc' # pc  PROVE UserFieldsSame
    OBVIOUS
  <2> USE DEF UserFieldsSame
  <2>s. mem \in Template /\ stored \in Template /\ pools \in [Pools -> PoolState]
    BY DEF FreshInv, TypeOK
  <2>1. CASE EnsureMatchLabels
    <3>1. \/ pools' = pools
          \/ /\ poolFresh /\ At("label")
             /\ pools' = [pools EXCEPT ![mem.ref] =
                             [phase |-> "live", replicas |-> asked, labelled |-> TRUE]]
      BY <2>1 DEF EnsureMatchLabels, LabelPool, PoolUpdateAccepted
    <3>2. stored' = stored
      BY <2>1 DEF EnsureMatchLabels
    <3> QED
      BY <2>s, <3>1, <3>2 DEF FreshInv, PoolFreshMeans
  <2>2. CASE Annotate
    BY <2>s, <2>2 DEF Annotate, FreshInv, TemplateFreshMeans, TemplateUpdateAccepted, Template
  <2>3. CASE Finish \/ WriteBack
    BY <2>s, <2>3 DEF Finish, WriteBack, WriteStatus, Template
  <2>4. CASE UNCHANGED <<pools, stored>>
    BY <2>4
  <2> QED
    BY <2>1, <2>2, <2>3, <2>4
       DEF Next, Pass, Environment, Begin, Connect, ReplicasFromSpec, ReplicasFromPool,
           List, StopAtQuota, ScaleUp, CountVMs, Create, CreateVM, Refresh, Crash, SyncCache,
           ChangePool, EditTemplate, ChangeVM, ChangeSquatter, inPass, cluster, vars
<1> QED
  BY <1>1, FreshInit, FreshStep, PTL DEF Spec, UserFieldsKept
=============================================================================
