------------------------ MODULE ResourcePollingProofs ------------------------
(* What ResourcePolling guarantees for all specs, utilizations and faults. *)
EXTENDS ResourcePolling, CapacityProofs

USE DEF At, Goto, Calm, Disturb

\* What is measured are figures, and what is asked for is a size.
LEMMA ActualType ==
  ASSUME scene \in Scenes, NEW spec \in Specs
  PROVE  ActualFor(spec) \in Figures /\ spec.vm \in VMSize /\ spec.effective \in BOOLEAN
<1>1. scene \in SceneType /\ spec \in SpecType
  BY ScenesAssumption, SpecsAssumption
<1>2. /\ OfPool(scene.pool.cpu) \in Amount /\ OfPool(scene.pool.memory) \in Amount
      /\ scene.cluster.cpu \in Amount /\ scene.cluster.memory \in Amount
  BY <1>1 DEF SceneType, Limit, OfPool, Amount
<1>3. scene.disk \in Nat
  BY <1>1 DEF SceneType
<1> QED BY <1>1, <1>2, <1>3 DEF ActualFor, Figures, SpecType

\* A division by something positive does not make a number larger.
LEMMA Scaled ==
  ASSUME NEW n \in Nat, NEW d \in Nat \ {0}
  PROVE  n \div d \in Nat /\ n \div d <= n
BY SMTT(30)

\* What the code sees is what there is, but for the effective memory of a
\* cluster, of which it sees less.
LEMMA SeenOfActual ==
  ASSUME scene \in Scenes, NEW spec \in Specs
  PROVE  LET seen == UtilizationOf(spec)
             real == ActualFor(spec)
         IN  /\ seen \in Figures
             /\ seen.disk = real.disk /\ seen.cpu = real.cpu
             /\ seen.memory.total = real.memory.total /\ seen.memory.used = real.memory.used
             /\ seen.memory.effective <= real.memory.effective
             /\ "resourcePool" \in spec.named => seen.memory = real.memory
<1>1. scene \in SceneType /\ ActualFor(spec) \in Figures
  BY ScenesAssumption, ActualType
<1>2. CASE "resourcePool" \in spec.named
  <2>1. UtilizationOf(spec) = ActualFor(spec)
    BY <1>2 DEF UtilizationOf, Compute, ActualFor
  <2>2. ActualFor(spec).memory.effective \in Nat
    BY <1>1 DEF Figures, Amount
  <2> QED BY <1>1, <2>1, <2>2
<1>3. CASE "resourcePool" \notin spec.named
  <2> DEFINE e == scene.cluster.memory.effective
             d == 1024 * 1024
             memory == [scene.cluster.memory EXCEPT !.effective = e \div d]
  <2>1. scene.cluster.memory \in Amount /\ scene.cluster.cpu \in Amount
    BY <1>1 DEF SceneType
  <2>2. e \in Nat /\ d \in Nat \ {0}
    BY <2>1 DEF Amount
  <2>3. OfCluster(scene.cluster) = [scene.cluster EXCEPT !.memory = memory]
    BY <1>1 DEF OfCluster, SceneType
  <2> HIDE DEF d
  <2>4. e \div d \in Nat /\ e \div d <= e
    BY <2>2, Scaled
  <2>5. /\ memory \in Amount /\ memory.effective = e \div d
        /\ memory.total = scene.cluster.memory.total
        /\ memory.used = scene.cluster.memory.used
    BY <2>1, <2>4 DEF Amount
  <2> HIDE DEF e, memory
  <2>6. UtilizationOf(spec) = [disk |-> scene.disk, cpu |-> scene.cluster.cpu,
                               memory |-> memory]
    BY <1>1, <1>3, <2>3 DEF UtilizationOf, Compute, SceneType
  <2>7. ActualFor(spec) = [disk |-> scene.disk, cpu |-> scene.cluster.cpu,
                           memory |-> scene.cluster.memory]
    BY <1>3 DEF ActualFor
  <2>8. scene.disk \in Nat
    BY <1>1 DEF SceneType
  <2> QED BY <1>3, <2>1, <2>4, <2>5, <2>6, <2>7, <2>8 DEF e, Figures
<1> QED BY <1>2, <1>3

LEMMA UtilizationType ==
  ASSUME scene \in Scenes, NEW spec \in Specs
  PROVE  UtilizationOf(spec) \in Figures /\ spec.vm \in VMSize /\ spec.effective \in BOOLEAN
BY ActualType, SeenOfActual

LEMMA EstimateType ==
  ASSUME scene \in Scenes, NEW spec \in Specs
  PROVE  EstimateFor(spec) \in Nat
BY UtilizationType, EstimateExact DEF EstimateFor

\* A condition that is set leaves a template well-formed.
LEMMA ConditionSet ==
  ASSUME NEW t, WellFormed(t), NEW c \in Conditions, NEW truth \in Truth
  PROVE  /\ WellFormed([t EXCEPT !.conditions[c] = truth])
         /\ [t EXCEPT !.conditions[c] = truth].utilization = t.utilization
BY DEF WellFormed, Template

LEMMA CountSet ==
  ASSUME NEW t, WellFormed(t), NEW n \in Nat
  PROVE  /\ WellFormed([t EXCEPT !.desired = n])
         /\ WellFormed([t EXCEPT !.current = n])
         /\ [t EXCEPT !.desired = n].utilization = t.utilization
         /\ [t EXCEPT !.current = n].utilization = t.utilization
BY DEF WellFormed, Template

LEMMA SpecSet ==
  ASSUME NEW t, WellFormed(t), NEW spec \in Specs, NEW annotated \in BOOLEAN
  PROVE  /\ WellFormed([t EXCEPT !.spec = spec, !.annotated = annotated])
         /\ [t EXCEPT !.spec = spec, !.annotated = annotated].utilization = t.utilization
BY DEF WellFormed, Template

LEMMA UtilizationSet ==
  ASSUME NEW t, WellFormed(t), NEW u \in Utilization, u.recent => u.made
  PROVE  /\ WellFormed([t EXCEPT !.utilization = u])
         /\ [t EXCEPT !.utilization = u].utilization = u
BY DEF WellFormed, Template

LEMMA PolledType ==
  ASSUME scene \in Scenes, NEW t, WellFormed(t)
  PROVE  WellFormed(Polled(t))
<1> DEFINE u == [made |-> TRUE, recent |-> TRUE, estimate |-> EstimateFor(t.spec)]
           v == Says(Required(t.spec) \subseteq scene.present)
           a == Says(EstimateFor(t.spec) >= t.desired)
           q == Says(~QuotaLow(t.spec, t.current, t.desired))
           t1 == [t EXCEPT !.utilization = u]
           t2 == [t1 EXCEPT !.conditions["ResourcesValidated"] = v]
           t3 == [t2 EXCEPT !.conditions["ResourcesAvailable"] = a]
           t4 == [t3 EXCEPT !.conditions["QuotaAvailable"] = q]
<1>1. u \in Utilization /\ u.recent /\ u.made
  BY EstimateType DEF WellFormed, Template, Utilization
<1>2. v \in Truth /\ a \in Truth /\ q \in Truth
  BY DEF Says, Truth
<1>3. {"ResourcesValidated", "ResourcesAvailable", "QuotaAvailable"} \subseteq Conditions
  BY DEF Conditions
<1>4. Polled(t) = t4
  BY DEF Polled
<1> HIDE DEF u, v, a, q
<1>5. WellFormed(t1)
  BY <1>1, UtilizationSet
<1> HIDE DEF t1
<1>6. WellFormed(t2)
  BY <1>2, <1>3, <1>5, ConditionSet
<1> HIDE DEF t2
<1>7. WellFormed(t3)
  BY <1>2, <1>3, <1>6, ConditionSet
<1> HIDE DEF t3
<1>8. WellFormed(t4)
  BY <1>2, <1>3, <1>7, ConditionSet
<1> QED BY <1>4, <1>8

LEMMA DecodedType ==
  ASSUME NEW t, WellFormed(t), WellFormed(stored)
  PROVE  /\ WellFormed(Decoded(t))
         /\ Decoded(t).utilization \in {t.utilization, stored.utilization}
BY DEF WellFormed, Decoded, Template
-----------------------------------------------------------------------------
\* The polling interval has passed for one copy of the template.
Aged(t) == [t EXCEPT !.utilization.recent = FALSE]

LEMMA AgedType ==
  ASSUME NEW t, WellFormed(t)
  PROVE  WellFormed(Aged(t)) /\ ~Aged(t).utilization.recent
         /\ Aged(t).utilization.estimate = t.utilization.estimate
         /\ Aged(t).utilization.made = t.utilization.made
<1> DEFINE u == [t.utilization EXCEPT !.recent = FALSE]
<1>1. t.utilization \in Utilization
  BY DEF WellFormed, Template
<1>2. u \in Utilization /\ ~u.recent /\ u.estimate = t.utilization.estimate
      /\ u.made = t.utilization.made
  BY <1>1 DEF Utilization
<1>3. Aged(t) = [t EXCEPT !.utilization = u]
  BY DEF Aged
<1> HIDE DEF u
<1> QED BY <1>2, <1>3, UtilizationSet

\* What a pass has polled, if the template is as it was read: the utilization is
\* the stored one until the poll, and else the stored one was due.
PollInv ==
  /\ synced => cached = stored
  /\ memFresh /\ pc \in {"connect", "poll"} => mem.utilization = stored.utilization
  /\ memFresh => mem.utilization = stored.utilization \/ ~stored.utilization.recent

Flags == synced \in BOOLEAN /\ memFresh \in BOOLEAN

LEMMA FlagsKept == Flags /\ [Next]_vars => Flags'
<1> SUFFICES ASSUME Flags, [Next]_vars PROVE Flags'
  OBVIOUS
<1> USE DEF Flags, cluster
<1>1. CASE Begin
  BY <1>1, Zenon DEF Begin
<1>2. CASE Connect
  BY <1>2, Zenon DEF Connect
<1>3. CASE Poll
  BY <1>3, Zenon DEF Poll
<1>4. CASE Replicas
  BY <1>4, Zenon DEF Replicas
<1>5. CASE Annotate
  BY <1>5, Zenon DEF Annotate
<1>6. CASE ReconcileVMs
  BY <1>6, Zenon DEF ReconcileVMs
<1>7. CASE WriteStatus
  BY <1>7, Zenon DEF WriteStatus, EndPass
<1>8. CASE Crash
  BY <1>8, Zenon DEF Crash, EndPass
<1>9. CASE SyncCache
  BY <1>9, Zenon DEF SyncCache
<1>10. CASE Elapse
  BY <1>10, Zenon DEF Elapse
<1>11. CASE EditTemplate
  BY <1>11, Zenon DEF EditTemplate
<1>12. CASE Scale
  BY <1>12, Zenon DEF Scale
<1>13. CASE ChangeScene
  BY <1>13, Zenon DEF ChangeScene
<1>14. CASE LoseVM
  BY <1>14, Zenon DEF LoseVM
<1>15. CASE UNCHANGED vars
  BY <1>15, Zenon DEF vars
<1> QED BY <1>1, <1>2, <1>3, <1>4, <1>5, <1>6, <1>7, <1>8, <1>9, <1>10, <1>11, <1>12,
           <1>13, <1>14, <1>15 DEF Next, Pass, Environment

LEMMA Initially == Init => TypeOK /\ PollInv
<1> SUFFICES ASSUME Init PROVE TypeOK /\ PollInv
  OBVIOUS
<1>1. Flags
  BY Zenon DEF Init, Flags
<1>2. WellFormed(stored)
  <2>1. PICK spec \in Specs : stored = NewTemplate(spec)
    BY DEF Init
  <2>2. WellFormed(NewTemplate(spec))
    BY DEF NewTemplate, NoUtilization, WellFormed, Template, Utilization, Truth
  <2> QED BY <2>1, <2>2
<1>3. TypeOK
  BY <1>1, <1>2, BoundsAssumption DEF Init, TypeOK, Flags, Steps
<1>4. ~memFresh /\ cached = stored
  BY Zenon DEF Init
<1> QED BY <1>3, <1>4 DEF PollInv

LEMMA TypeStep == TypeOK /\ [Next]_vars => TypeOK'
<1> SUFFICES ASSUME TypeOK, [Next]_vars PROVE TypeOK'
  OBVIOUS
<1> USE BoundsAssumption DEF TypeOK, Steps, Flags, world, cluster
<1>0. Flags'
  BY FlagsKept
<1>1. CASE Begin
  BY <1>0, <1>1 DEF Begin
<1>2. CASE Connect
  <2>1. WellFormed(mem')
    BY <1>2, ConditionSet DEF Connect, Conditions, Truth
  <2> QED BY <1>0, <1>2, <2>1 DEF Connect
<1>3. CASE Poll
  <2>1. WellFormed(mem')
    <3>1. WellFormed([mem EXCEPT !.conditions["ResourcesValidated"] = "False"])
      BY ConditionSet DEF Conditions, Truth
    <3>2. WellFormed(Polled(mem))
      BY PolledType
    <3>3. mem' \in {mem, Polled(mem), [mem EXCEPT !.conditions["ResourcesValidated"] = "False"]}
      BY <1>3 DEF Poll
    <3> QED BY <3>1, <3>2, <3>3
  <2> QED BY <1>0, <1>3, <2>1 DEF Poll
<1>4. CASE Replicas
  <2>1. WellFormed([mem EXCEPT !.desired = replicas])
    <3>1. replicas \in Nat
      OBVIOUS
    <3> QED BY <3>1, CountSet
  <2>2. mem' = mem \/ mem' = [mem EXCEPT !.desired = replicas]
    BY <1>4 DEF Replicas
  <2>3. WellFormed(mem')
    BY <2>1, <2>2
  <2> QED BY <1>0, <1>4, <2>3 DEF Replicas
<1>5. CASE Annotate
  <2>1. WellFormed(mem')
    BY <1>5, DecodedType DEF Annotate
  <2>2. WellFormed([stored EXCEPT !.annotated = TRUE])
    BY DEF WellFormed, Template
  <2>3. stored' = stored \/ stored' = [stored EXCEPT !.annotated = TRUE]
    BY <1>5 DEF Annotate
  <2>4. WellFormed(stored')
    BY <2>2, <2>3
  <2> QED BY <1>0, <1>5, <2>1, <2>4 DEF Annotate
<1>6. CASE ReconcileVMs
  <2>1. CASE vms < mem.desired /\ ~QuotaReached(mem.spec, vms) /\ Calm
             /\ \E made \in 0..Room(mem) :
                  vms' = vms + made /\ mem' = [mem EXCEPT !.current = vms + made]
    <3>1. PICK made \in 0..Room(mem) :
            vms' = vms + made /\ mem' = [mem EXCEPT !.current = vms + made]
      BY <2>1
    <3>2. vms + made \in Nat
      OBVIOUS
    <3>3. WellFormed(mem') /\ vms' \in Nat
      BY <3>1, <3>2, CountSet
    <3> QED BY <1>0, <1>6, <2>1, <3>3 DEF ReconcileVMs
  <2>2. CASE vms >= mem.desired /\ Calm /\ mem' = [mem EXCEPT !.current = vms] /\ UNCHANGED vms
    <3>1. WellFormed(mem')
      BY <2>2, CountSet
    <3> QED BY <1>0, <1>6, <2>2, <3>1 DEF ReconcileVMs
  <2>3. CASE /\ Calm /\ UNCHANGED vms
             /\ mem' = [mem EXCEPT !.current = vms, !.conditions["QuotaAvailable"] = "False"]
    <3>1. WellFormed([mem EXCEPT !.current = vms])
      BY CountSet
    <3>2. mem' = [[mem EXCEPT !.current = vms] EXCEPT !.conditions["QuotaAvailable"] = "False"]
      BY <2>3
    <3>3. WellFormed(mem')
      BY <3>1, <3>2, ConditionSet DEF Conditions, Truth
    <3> QED BY <1>0, <1>6, <2>3, <3>3 DEF ReconcileVMs
  <2>4. CASE Disturb("list") /\ UNCHANGED <<vms, mem>>
    BY <1>0, <1>6, <2>4 DEF ReconcileVMs
  <2> QED BY <1>6, <2>1, <2>2, <2>3, <2>4 DEF ReconcileVMs
<1>7. CASE WriteStatus
  <2>1. stored.spec \in Specs /\ stored.annotated \in BOOLEAN
    BY DEF WellFormed, Template
  <2>2. WellFormed([mem EXCEPT !.spec = stored.spec, !.annotated = stored.annotated])
    BY <2>1, SpecSet
  <2>3. stored' = stored
        \/ stored' = [mem EXCEPT !.spec = stored.spec, !.annotated = stored.annotated]
    BY <1>7, Zenon DEF WriteStatus
  <2>4. WellFormed(stored')
    BY <2>2, <2>3
  <2>5. disturbances' \in 0..MaxDisturbances
    BY <1>7 DEF WriteStatus
  <2> QED BY <1>0, <1>7, <2>4, <2>5 DEF WriteStatus, EndPass
<1>8. CASE Crash
  BY <1>0, <1>8 DEF Crash, EndPass
<1>9. CASE SyncCache
  BY <1>0, <1>9 DEF SyncCache
<1>10. CASE Elapse
  <2>1. stored' = Aged(stored) /\ cached' = Aged(cached) /\ mem' = Aged(mem)
    BY <1>10 DEF Elapse, Aged
  <2>2. WellFormed(stored') /\ WellFormed(cached') /\ WellFormed(mem')
    BY <2>1, AgedType
  <2> QED BY <1>0, <1>10, <2>2 DEF Elapse
<1>11. CASE EditTemplate
  <2>1. PICK spec \in Specs, annotated \in BOOLEAN :
          stored' = [stored EXCEPT !.spec = spec, !.annotated = annotated]
    BY <1>11, Zenon DEF EditTemplate
  <2>2. WellFormed(stored')
    BY <2>1, SpecSet
  <2> QED BY <1>0, <1>11, <2>2 DEF EditTemplate
<1>12. CASE Scale
  BY <1>0, <1>12 DEF Scale
<1>13. CASE ChangeScene
  BY <1>0, <1>13 DEF ChangeScene
<1>14. CASE LoseVM
  BY <1>0, <1>14 DEF LoseVM
<1>15. CASE UNCHANGED vars
  BY <1>0, <1>15 DEF vars
<1> QED BY <1>1, <1>2, <1>3, <1>4, <1>5, <1>6, <1>7, <1>8, <1>9, <1>10, <1>11, <1>12,
           <1>13, <1>14, <1>15 DEF Next, Pass, Environment

\* Every variable keeps its type; the estimate is never negative.
THEOREM TypeCorrect == Spec => []TypeOK
<1> QED BY Initially, TypeStep, PTL DEF Spec

-----------------------------------------------------------------------------
LEMMA PolledUtilization ==
  ASSUME NEW t, WellFormed(t)
  PROVE  Polled(t).utilization.recent
<1> DEFINE u == [made |-> TRUE, recent |-> TRUE, estimate |-> EstimateFor(t.spec)]
<1>1. Polled(t).utilization = u
  BY DEF Polled, WellFormed, Template
<1> QED BY <1>1

LEMMA PollStep == TypeOK /\ PollInv /\ [Next]_vars => PollInv'
<1> SUFFICES ASSUME TypeOK, PollInv, [Next]_vars PROVE PollInv'
  OBVIOUS
<1> USE DEF TypeOK, PollInv, world, cluster
<1>1. CASE Begin
  BY <1>1 DEF Begin
<1>2. CASE Connect
  <2>1. mem'.utilization = mem.utilization
    BY <1>2, ConditionSet DEF Connect, Conditions, Truth
  <2> QED BY <1>2, <2>1 DEF Connect
<1>3. CASE Poll
  <2>1. CASE Due(mem)
    <3>1. ~mem.utilization.recent
      BY <2>1 DEF Due, WellFormed
    <3>2. memFresh' => ~stored.utilization.recent
      BY <1>3, <3>1 DEF Poll
    <3> QED BY <1>3, <3>2 DEF Poll
  <2>2. CASE ~Due(mem)
    BY <1>3, <2>2 DEF Poll
  <2> QED BY <2>1, <2>2
<1>4. CASE Replicas
  <2>1. [mem EXCEPT !.desired = replicas].utilization = mem.utilization
    BY DEF WellFormed, Template
  <2>2. mem'.utilization = mem.utilization
    BY <1>4, <2>1 DEF Replicas
  <2> QED BY <1>4, <2>2 DEF Replicas
<1>5. CASE Annotate
  <2>1. CASE mem' = Decoded(mem) /\ stored' = [stored EXCEPT !.annotated = TRUE]
             /\ ~synced'
    <3>1. stored'.utilization = stored.utilization
      BY <2>1 DEF WellFormed, Template
    <3>2. mem'.utilization \in {mem.utilization, stored.utilization}
      BY <2>1, DecodedType
    <3> QED BY <1>5, <2>1, <3>1, <3>2 DEF Annotate
  <2>2. CASE UNCHANGED <<stored, synced, mem>>
    BY <1>5, <2>2 DEF Annotate
  <2> QED BY <1>5, <2>1, <2>2, Zenon DEF Annotate
<1>6. CASE ReconcileVMs
  <2>1. mem'.utilization = mem.utilization
    BY <1>6 DEF ReconcileVMs, WellFormed, Template
  <2> QED BY <1>6, <2>1 DEF ReconcileVMs
<1>7. CASE WriteStatus
  <2>1. memFresh' = FALSE
    BY <1>7 DEF WriteStatus, EndPass
  <2>2. synced' => cached' = stored'
    BY <1>7, Zenon DEF WriteStatus, PollInv, EndPass
  <2> QED BY <2>1, <2>2
<1>8. CASE Crash
  BY <1>8 DEF Crash, EndPass
<1>9. CASE SyncCache
  BY <1>9 DEF SyncCache
<1>10. CASE Elapse
  <2>1. stored' = Aged(stored) /\ cached' = Aged(cached) /\ mem' = Aged(mem)
    BY <1>10 DEF Elapse, Aged
  <2>2. ~stored'.utilization.recent
    BY <2>1, AgedType
  <2>3. mem.utilization = stored.utilization => mem'.utilization = stored'.utilization
    BY <2>1 DEF Aged, WellFormed, Template
  <2> QED BY <1>10, <2>1, <2>2, <2>3 DEF Elapse
<1>11. CASE EditTemplate
  <2>1. ~synced' /\ ~memFresh'
    BY <1>11, Zenon DEF EditTemplate
  <2> QED BY <2>1
<1>12. CASE Scale
  BY <1>12 DEF Scale
<1>13. CASE ChangeScene
  BY <1>13 DEF ChangeScene
<1>14. CASE LoseVM
  BY <1>14 DEF LoseVM
<1>15. CASE UNCHANGED vars
  BY <1>15 DEF vars
<1> QED BY <1>1, <1>2, <1>3, <1>4, <1>5, <1>6, <1>7, <1>8, <1>9, <1>10, <1>11, <1>12,
           <1>13, <1>14, <1>15 DEF Next, Pass, Environment

\* Only the write of the status publishes a poll, and it is refused unless the
\* poll was due by what is stored.
LEMMA SpacedStep ==
  ASSUME TypeOK, PollInv, [Next]_vars,
         stored'.utilization # stored.utilization, stored'.utilization.recent
  PROVE  ~stored.utilization.recent
<1> USE DEF TypeOK, PollInv, world, cluster
<1>1. CASE WriteStatus
  <2>1. StatusAccepted
        /\ stored' = [mem EXCEPT !.spec = stored.spec, !.annotated = stored.annotated]
    BY <1>1, Zenon DEF WriteStatus
  <2>2. stored'.utilization = mem.utilization
    BY <2>1 DEF WellFormed, Template
  <2> QED BY <2>1, <2>2 DEF StatusAccepted
<1>2. CASE Annotate
  <2>1. stored' = stored \/ stored' = [stored EXCEPT !.annotated = TRUE]
    BY <1>2 DEF Annotate
  <2> QED BY <2>1 DEF WellFormed, Template
<1>3. CASE EditTemplate
  <2>1. PICK spec \in Specs, annotated \in BOOLEAN :
          stored' = [stored EXCEPT !.spec = spec, !.annotated = annotated]
    BY <1>3, Zenon DEF EditTemplate
  <2> QED BY <2>1, SpecSet
<1>4. CASE Elapse
  <2>1. stored' = Aged(stored)
    BY <1>4 DEF Elapse, Aged
  <2> QED BY <2>1, AgedType
<1>5. CASE UNCHANGED stored
  BY <1>5
<1> QED BY <1>1, <1>2, <1>3, <1>4, <1>5
        DEF Next, Pass, Environment, Begin, Connect, Poll, Replicas, ReconcileVMs, Crash,
            SyncCache, Scale, ChangeScene, LoseVM, vars

\* The published results of a poll last for the interval, whatever is edited,
\* read late, lost or restarted.
THEOREM PollsSpacedSafe == Spec => PollsSpaced
<1> DEFINE Published == stored'.utilization # stored.utilization /\ stored'.utilization.recent
<1>1. TypeOK /\ PollInv /\ [Next]_vars => [Published => ~stored.utilization.recent]_vars
  BY SpacedStep
<1> QED BY <1>1, Initially, TypeStep, PollStep, PTL DEF Spec, PollsSpaced

-----------------------------------------------------------------------------
\* A copy of the template that has the stored spec, and whose estimate is that
\* of this spec and the present utilization.
Exact(t) ==
  /\ t.spec = stored.spec
  /\ t.utilization.made => t.utilization.estimate = EstimateFor(stored.spec)

\* The stored copy, the cached one and the pass's.
CopiesExact == Exact(stored) /\ Exact(cached) /\ Exact(mem)

\* What the status says of the capacity is so: as many VMs fit, and no more, but
\* for the misread effective capacity of a cluster.
EstimateTrue ==
  LET k == stored.utilization.estimate
  IN  stored.utilization.made => Enough(k) /\ (Enough(k + 1) => Misread(stored.spec))

\* What fits in what the code sees fits in what there is, and conversely unless
\* it is misread.
LEMMA SeenFits ==
  ASSUME scene \in Scenes, NEW spec \in Specs, NEW k \in Nat
  PROVE  /\ Fits(k, UtilizationOf(spec), spec.vm, spec.effective)
              => Fits(k, ActualFor(spec), spec.vm, spec.effective)
         /\ Fits(k, ActualFor(spec), spec.vm, spec.effective)
              => Fits(k, UtilizationOf(spec), spec.vm, spec.effective) \/ Misread(spec)
<1> DEFINE seen == UtilizationOf(spec)
           real == ActualFor(spec)
           see  == Capacity(seen.memory, spec.effective)
           have == Capacity(real.memory, spec.effective)
<1>1. /\ seen.disk = real.disk /\ seen.cpu = real.cpu
      /\ seen.memory.used = real.memory.used
      /\ see \in Nat /\ have \in Nat /\ see <= have
      /\ ~Misread(spec) => see = have
  <2>1. seen.memory \in Amount /\ real.memory \in Amount
    BY SeenOfActual, ActualType DEF Figures
  <2> QED BY <2>1, SeenOfActual, ActualType DEF Capacity, Misread, Amount
<1>2. real.memory.used \in Nat /\ k * MemoryOf(spec.vm) \in Nat
  <2>1. real.memory \in Amount /\ MemoryOf(spec.vm) \in Nat
    BY ActualType, SizesPositive DEF Figures
  <2>2. \A n \in Nat : k * n \in Nat
    OBVIOUS
  <2> QED BY <2>1, <2>2 DEF Amount
<1> DEFINE need == real.memory.used + k * MemoryOf(spec.vm)
<1>3. need \in Nat
  BY <1>2
<1>4. need <= see => need <= have
  BY <1>1, <1>3
<1>5. ~Misread(spec) => (need <= have => need <= see)
  BY <1>1
<1> HIDE DEF see, have
<1> QED BY <1>1, <1>4, <1>5 DEF Fits, see, have

\* An estimate depends only on the spec, as long as vSphere stays as it is.
LEMMA EstimateSame ==
  ASSUME scene' = scene, stored'.spec = stored.spec
  PROVE  EstimateFor(stored.spec)' = EstimateFor(stored.spec)
BY DEF EstimateFor, UtilizationOf, Compute, OfPool, OfCluster

\* The template of the pass keeps its spec; only a poll gives it an estimate,
\* and the response of the annotation's Update that of what is stored.
LEMMA PassExact ==
  ASSUME TypeOK, CopiesExact,
         Connect \/ Poll \/ Replicas \/ Annotate \/ ReconcileVMs
  PROVE  Exact(mem')
<1> USE DEF TypeOK, CopiesExact
<1>1. CASE Connect
  <2>1. mem'.utilization = mem.utilization /\ mem'.spec = mem.spec
    BY <1>1 DEF Connect, WellFormed, Template
  <2> QED BY <2>1 DEF Exact
<1>2. CASE Poll
  <2>1. CASE mem' = Polled(mem)
    <3> DEFINE u == [made |-> TRUE, recent |-> TRUE, estimate |-> EstimateFor(mem.spec)]
    <3>1. Polled(mem).utilization = u /\ Polled(mem).spec = mem.spec
      BY DEF Polled, WellFormed, Template
    <3> QED BY <2>1, <3>1 DEF Exact
  <2>2. CASE mem' = mem \/ mem' = [mem EXCEPT !.conditions["ResourcesValidated"] = "False"]
    <3>1. mem'.utilization = mem.utilization /\ mem'.spec = mem.spec
      BY <2>2 DEF WellFormed, Template
    <3> QED BY <3>1 DEF Exact
  <2> QED BY <1>2, <2>1, <2>2 DEF Poll
<1>3. CASE Replicas
  <2>1. mem'.utilization = mem.utilization /\ mem'.spec = mem.spec
    BY <1>3 DEF Replicas, WellFormed, Template
  <2> QED BY <2>1 DEF Exact
<1>4. CASE Annotate
  <2>1. mem'.utilization \in {mem.utilization, stored.utilization} /\ mem'.spec = mem.spec
    BY <1>4, DecodedType DEF Annotate, Decoded, WellFormed, Template
  <2> QED BY <2>1 DEF Exact
<1>5. CASE ReconcileVMs
  <2>1. mem'.utilization = mem.utilization /\ mem'.spec = mem.spec
    BY <1>5 DEF ReconcileVMs, WellFormed, Template
  <2> QED BY <2>1 DEF Exact
<1> QED BY <1>1, <1>2, <1>3, <1>4, <1>5

LEMMA ExactStep ==
  ASSUME {"edit", "scene"} \cap Kinds = {}, TypeOK, CopiesExact, [Next]_vars
  PROVE  CopiesExact'
<1> USE DEF TypeOK
<1>1. scene' = scene
  BY DEF Next, Pass, Environment, Begin, Connect, Poll, Replicas, Annotate, ReconcileVMs,
         WriteStatus, Crash, SyncCache, Elapse, EditTemplate, Scale, ChangeScene, LoseVM,
         Disturb, world, vars
<1>2. ASSUME stored'.spec = stored.spec,
             \E t : /\ Exact(t) /\ stored'.spec = t.spec
                    /\ stored'.utilization.made = t.utilization.made
                    /\ stored'.utilization.estimate = t.utilization.estimate,
             \E t : /\ Exact(t) /\ cached'.spec = t.spec
                    /\ cached'.utilization.made = t.utilization.made
                    /\ cached'.utilization.estimate = t.utilization.estimate,
             \E t : /\ Exact(t) /\ mem'.spec = t.spec
                    /\ mem'.utilization.made = t.utilization.made
                    /\ mem'.utilization.estimate = t.utilization.estimate
      PROVE  CopiesExact'
  <2>0. EstimateFor(stored.spec)' = EstimateFor(stored.spec)
    BY <1>1, <1>2, EstimateSame
  <2>1. Exact(stored)'
    BY <1>2, <2>0 DEF Exact
  <2>2. Exact(cached)'
    BY <1>2, <2>0 DEF Exact
  <2>3. Exact(mem)'
    BY <1>2, <2>0 DEF Exact
  <2> QED BY <2>1, <2>2, <2>3 DEF CopiesExact
<1>3. Exact(stored) /\ Exact(cached) /\ Exact(mem)
  BY DEF CopiesExact
<1>4. CASE Connect \/ Poll \/ Replicas \/ Annotate \/ ReconcileVMs
  <2>1. Exact(mem')
    BY <1>4, PassExact
  <2>2. cached' = cached
    BY <1>4 DEF Connect, Poll, Replicas, Annotate, ReconcileVMs, cluster
  <2>3. stored'.spec = stored.spec /\ stored'.utilization = stored.utilization
    BY <1>4 DEF Connect, Poll, Replicas, Annotate, ReconcileVMs, cluster, WellFormed, Template
  <2> QED BY <1>2, <1>3, <2>1, <2>2, <2>3
<1>5. CASE WriteStatus
  <2>1. cached' = cached /\ mem' = cached
    BY <1>5 DEF WriteStatus, EndPass
  <2>2. \/ stored' = stored
        \/ stored' = [mem EXCEPT !.spec = stored.spec, !.annotated = stored.annotated]
    BY <1>5, Zenon DEF WriteStatus
  <2>3. /\ stored'.spec = stored.spec
        /\ stored'.utilization \in {stored.utilization, mem.utilization}
    BY <2>2 DEF WellFormed, Template
  <2>4. mem.spec = stored.spec
    BY <1>3 DEF Exact
  <2> QED BY <1>2, <1>3, <2>1, <2>3, <2>4
<1>6. CASE Elapse
  <2>1. stored' = Aged(stored) /\ cached' = Aged(cached) /\ mem' = Aged(mem)
    BY <1>6 DEF Elapse, Aged
  <2>2. ASSUME NEW t, WellFormed(t)  PROVE Aged(t).spec = t.spec
    BY <2>2 DEF Aged, WellFormed, Template
  <2> QED BY <1>2, <1>3, <2>1, <2>2, AgedType
<1>7. CASE Begin \/ Crash \/ SyncCache
  <2>1. stored' = stored /\ {cached', mem'} \subseteq {stored, cached, mem}
    BY <1>7 DEF Begin, Crash, SyncCache, EndPass, cluster
  <2> QED BY <1>2, <1>3, <2>1
<1>8. CASE Scale \/ LoseVM \/ UNCHANGED vars
  <2>1. stored' = stored /\ cached' = cached /\ mem' = mem
    BY <1>8 DEF Scale, LoseVM, cluster, vars
  <2> QED BY <1>2, <1>3, <2>1
<1>9. ~EditTemplate /\ ~ChangeScene
  BY DEF EditTemplate, ChangeScene, Disturb
<1> QED BY <1>4, <1>5, <1>6, <1>7, <1>8, <1>9 DEF Next, Pass, Environment

\* As long as users leave the spec and others leave vSphere alone, an estimate
\* in the status is true of vSphere from the moment it appears: that many VMs
\* fit, and one more does only in the effective capacity of a cluster, whose
\* memory the code misreads.  Neither a pass with an outdated template, a lost
\* write or a restart, nor what the annotation's Update brings back puts a wrong
\* one there.
THEOREM EstimatePublishedExact ==
  ASSUME {"edit", "scene"} \cap Kinds = {}
  PROVE  Spec => []EstimateTrue
<1>1. Init => CopiesExact
  <2> SUFFICES ASSUME Init  PROVE CopiesExact
    OBVIOUS
  <2>1. ~stored.utilization.made
    BY DEF Init, NewTemplate, NoUtilization
  <2>2. cached = stored /\ mem = stored
    BY DEF Init
  <2> QED BY <2>1, <2>2 DEF CopiesExact, Exact
<1>2. TypeOK /\ CopiesExact /\ [Next]_vars => CopiesExact'
  BY ExactStep
<1>3. TypeOK /\ CopiesExact => EstimateTrue
  <2> DEFINE k == stored.utilization.estimate
             spec == stored.spec
  <2> SUFFICES ASSUME TypeOK, CopiesExact, stored.utilization.made
               PROVE  Enough(k) /\ (Enough(k + 1) => Misread(spec))
    BY DEF EstimateTrue
  <2>1. k = Estimate(UtilizationOf(spec), spec.vm, spec.effective)
    BY DEF CopiesExact, Exact, EstimateFor
  <2>2. spec \in Specs /\ scene \in Scenes
    BY DEF TypeOK, WellFormed, Template
  <2>3. /\ UtilizationOf(spec) \in Figures /\ spec.vm \in VMSize
        /\ spec.effective \in BOOLEAN
    BY <2>2, UtilizationType
  <2>4. /\ k \in Nat /\ k + 1 \in Nat
        /\ Fits(k, UtilizationOf(spec), spec.vm, spec.effective)
        /\ ~Fits(k + 1, UtilizationOf(spec), spec.vm, spec.effective)
    BY <2>1, <2>3, EstimateExact
  <2> HIDE DEF k
  <2>5. Enough(k)
    BY <2>2, <2>4, SeenFits DEF Enough
  <2>6. Enough(k + 1) => Misread(spec)
    BY <2>2, <2>4, SeenFits DEF Enough
  <2> QED BY <2>5, <2>6
<1> QED BY <1>1, <1>2, <1>3, Initially, TypeStep, PTL DEF Spec
=============================================================================
