------------------------- MODULE AgentCleanupProofs -------------------------
(***************************************************************************)
(* What AgentCleanup guarantees for any number of machines, replicas and   *)
(* disturbances.                                                           *)
(***************************************************************************)
EXTENDS AgentCleanup, FiniteSetTheorems, TLAPS

\* What the markers of an Agent say of it.
Marked(a) ==
  /\ a.binding => a.everBound /\ a.adopted /\ a.prepared
  /\ a.status = "bound" => a.everBound
  /\ a.phase = "none" => ~a.everBound

\* What the pass saw of an Agent was true of it, and an Agent that was bound
\* remains one that was.
Seen(m) == Marked(seen[m]) /\ (seen[m].everBound => agents[m].everBound)

\* The Agent that the pass goes on with has been adopted.
SubjectAdopted == At("adopted") => subject \in Machines /\ seen[subject].adopted

MarkersInv ==
  /\ TypeOK
  /\ \A m \in Machines : Marked(agents[m]) /\ Seen(m)
  /\ SubjectAdopted

-----------------------------------------------------------------------------
LEMMA TypeInit == Init => TypeOK
<1> SUFFICES ASSUME Init  PROVE TypeOK
  OBVIOUS
<1>1. NoAgent \in Agent
  BY DEF NoAgent, Agent
<1>2. stored \in Template /\ cached = stored /\ mem \in Template
  BY DEF Init, Template, NoTemplate
<1>3. stored.named = {} /\ mem.named = {}
  BY DEF Init, NoTemplate
<1>4. disturbances \in 0..MaxDisturbances
  BY BoundsAssumption DEF Init
<1> QED
  BY <1>1, <1>2, <1>3, <1>4 DEF Init, TypeOK, Steps, At

\* The steps of reconcileVMs that create nothing.
Listing == ListVMs \/ StopAtQuota \/ ScaleUp \/ Refresh

\* What they leave alone, where they lead, and what they make of the list.
LEMMA ListingFrame ==
  ASSUME Listing
  PROVE  /\ UNCHANGED <<replicas, dropped, alive, number, agents, stored, cached,
                        cacheFresh, memFresh, seen, agentFresh, left, subject>>
         /\ pc \in {"vms", "create"}
         /\ pc' \in {"create", "agentList", "status", "writeBack"}
         /\ \/ UNCHANGED mem
            \/ mem' = [mem EXCEPT !.listed = alive, !.named = {}]
BY DEF Listing, ListVMs, StopAtQuota, ScaleUp, Refresh, RebuildList, GiveUp, NamesKept,
       At, Goto, machines, store, reading

\* Requests come and go and touch nothing else.
LEMMA RequestFrame ==
  ASSUME NEW m \in Machines, DropRequest(m) \/ Requeue(m)
  PROVE  /\ UNCHANGED <<replicas, alive, number, agents, stored, cached, cacheFresh, pc,
                        mem, memFresh, seen, agentFresh, left, subject, view, todo>>
         /\ dropped' = dropped \cup {m} \/ dropped' = dropped \ {m}
BY DEF DropRequest, Requeue, machines, store, copies, reading, loop

\* There are finitely many VMs.
LEMMA AliveFinite ==
  ASSUME TypeOK
  PROVE  IsFiniteSet(alive) /\ Cardinality(alive) \in Nat
BY MachinesAssumption, FS_Subset, FS_CardinalityType DEF TypeOK

\* The loop creates as many VMs as are missing and the quota allows.
LEMMA ToCreateBound ==
  ASSUME TypeOK, TooFew, ~QuotaReached
  PROVE  ToCreate \in Nat /\ Cardinality(alive) + ToCreate <= MaxVms
BY AliveFinite, BoundsAssumption DEF TypeOK, TooFew, QuotaReached, ToCreate

\* A pass that is over leaves values of their types.
LEMMA EndPassType ==
  ASSUME EndPass
  PROVE  /\ pc' \in Steps /\ mem' \in Template /\ mem'.named \subseteq mem'.listed
         /\ memFresh' \in BOOLEAN /\ seen' \in [Machines -> Agent]
         /\ agentFresh' \in SUBSET Machines /\ left' \in SUBSET Machines
         /\ subject' \in Machines \cup {None}
         /\ view' \in SUBSET Machines /\ todo' \in Nat
BY DEF EndPass, Steps, NoTemplate, Template, NoAgent, Agent

LEMMA DisturbType ==
  ASSUME disturbances \in 0..MaxDisturbances, NEW k, Disturb(k) \/ Calm
  PROVE  disturbances' \in 0..MaxDisturbances
BY BoundsAssumption DEF Disturb, Calm

LEMMA TypeStep == TypeOK /\ [Next]_vars => TypeOK'
<1> SUFFICES ASSUME TypeOK, [Next]_vars  PROVE TypeOK'
  OBVIOUS
<1> USE DEF At, Goto, machines, store, copies, reading, loop
<1>1. CASE BeginTemplate
  <2>1. disturbances' \in 0..MaxDisturbances
    BY <1>1, DisturbType DEF TypeOK, BeginTemplate, ReadTemplate
  <2> QED
    BY <1>1, <2>1, BoundsAssumption DEF TypeOK, BeginTemplate, Steps
<1>2. CASE CreateVM
  <2>1. disturbances' \in 0..MaxDisturbances
    BY <1>2, DisturbType DEF TypeOK, CreateVM
  <2>2. todo' \in Nat
    BY <1>2 DEF TypeOK, CreateVM
  <2>3. \/ UNCHANGED <<alive, number, view>>
        \/ \E m \in Machines, n \in Numbers :
             /\ alive' = alive \cup {m} /\ number' = [number EXCEPT ![m] = n]
             /\ view' = view \/ view' = view \cup {m}
    BY <1>2 DEF CreateVM, Make
  <2> QED
    BY <1>2, <2>1, <2>2, <2>3 DEF TypeOK, CreateVM
<1>3. CASE Listing
  <2>1. disturbances' \in 0..MaxDisturbances
    BY <1>3, DisturbType
    DEF TypeOK, Listing, ListVMs, StopAtQuota, ScaleUp, Refresh, GiveUp
  <2>2. mem' \in Template /\ mem'.named \subseteq mem'.listed
    BY <1>3, ListingFrame DEF TypeOK, Template
  <2>3. view' \in SUBSET Machines /\ todo' \in Nat
    BY <1>3, ToCreateBound
    DEF TypeOK, Listing, ListVMs, StopAtQuota, ScaleUp, Refresh, GiveUp, RebuildList
  <2> QED
    BY <1>3, <2>1, <2>2, <2>3, ListingFrame DEF TypeOK, Steps
<1>4. CASE ListAgents
  <2>1. disturbances' \in 0..MaxDisturbances
    BY <1>4, DisturbType DEF TypeOK, ListAgents
  <2>2. seen' \in [Machines -> Agent] /\ left' \in SUBSET Machines
        /\ agentFresh' \in SUBSET Machines /\ pc' \in Steps
    <3>1. CASE /\ left' = {x \in mem.listed : Exists(x)}
               /\ agentFresh' = {x \in mem.listed : Exists(x)}
               /\ seen' = agents /\ pc' = "agents"
      <4>1. mem.listed \subseteq Machines
        BY DEF TypeOK, Template
      <4> QED
        BY <3>1, <4>1 DEF TypeOK, Steps
    <3>2. CASE UNCHANGED <<left, agentFresh, seen>> /\ pc' = "status"
      BY <3>2 DEF TypeOK, Steps
    <3> QED
      BY <1>4, <3>1, <3>2 DEF ListAgents
  <2> QED
    BY <1>4, <2>1, <2>2 DEF TypeOK, ListAgents
<1>5. ASSUME NEW m \in Machines, Adopt(m)  PROVE TypeOK'
  <2>1. disturbances' \in 0..MaxDisturbances
    BY <1>5, DisturbType DEF TypeOK, Adopt
  <2>2. [seen[m] EXCEPT !.adopted = TRUE] \in Agent
    BY DEF TypeOK, Agent
  <2> QED
    BY <1>5, <2>1, <2>2 DEF TypeOK, Adopt, UpdateAgent, NextAgent, Steps
<1>6. ASSUME NEW m \in Machines, Retire(m)  PROVE TypeOK'
  <2>1. disturbances' \in 0..MaxDisturbances
    BY <1>6, DisturbType DEF TypeOK, Retire
  <2>2. [agents[m] EXCEPT !.phase = "deleting"] \in Agent
    BY DEF TypeOK, Agent
  <2> QED
    BY <1>6, <2>1, <2>2 DEF TypeOK, Retire, NextAgent, Steps
<1>7. ASSUME NEW m \in Machines, Prepare(m)  PROVE TypeOK'
  <2>1. disturbances' \in 0..MaxDisturbances
    BY <1>7, DisturbType DEF TypeOK, Prepare
  <2>2. Prepared(seen[m]) \in Agent
    BY DEF TypeOK, Agent, Prepared
  <2>3. mem' \in Template /\ mem'.named \subseteq mem'.listed
    BY <1>7 DEF TypeOK, Prepare, Template
  <2> QED
    BY <1>7, <2>1, <2>2, <2>3 DEF TypeOK, Prepare, UpdateAgent, NextAgent, Steps
<1>8. ASSUME NEW m \in Machines, BeginFinalizer(m)  PROVE TypeOK'
  <2>1. disturbances' \in 0..MaxDisturbances
    BY <1>8, DisturbType DEF TypeOK, BeginFinalizer, ReadTemplate
  <2>2. mem' \in Template /\ mem'.named \subseteq mem'.listed
    BY <1>8 DEF TypeOK, BeginFinalizer, Template, NoTemplate
  <2> QED
    BY <1>8, <2>1, <2>2 DEF TypeOK, BeginFinalizer, AfterLookup, Steps
<1>9. CASE WriteStatus
  <2>1. disturbances' \in 0..MaxDisturbances
    BY <1>9, DisturbType DEF TypeOK, WriteStatus
  <2>2. stored' \in Template /\ stored'.named \subseteq stored'.listed
    BY <1>9 DEF TypeOK, WriteStatus, StoreStatus, Template
  <2>3. CASE EndPass
    BY <1>9, <2>1, <2>2, <2>3, EndPassType DEF TypeOK, WriteStatus, StoreStatus
  <2>4. CASE ~EndPass
    BY <1>9, <2>1, <2>2, <2>4 DEF TypeOK, WriteStatus, StoreStatus, Steps
  <2> QED
    BY <2>3, <2>4
<1>10. CASE Release
  <2>1. disturbances' \in 0..MaxDisturbances
    BY <1>10, DisturbType DEF TypeOK, Release
  <2>2. stored' \in Template /\ stored'.named \subseteq stored'.listed
    BY <1>10 DEF TypeOK, Release, Template
  <2> QED
    BY <1>10, <2>1, <2>2, EndPassType DEF TypeOK, Release
<1>11. CASE Destroy
  <2>1. disturbances' \in 0..MaxDisturbances
    BY <1>11, DisturbType DEF TypeOK, Destroy
  <2> QED
    BY <1>11, <2>1 DEF TypeOK, Destroy, Steps
<1>12. CASE DropEntry
  <2>1. disturbances' \in 0..MaxDisturbances
    BY <1>12, DisturbType DEF TypeOK, DropEntry
  <2>2. stored' \in Template /\ stored'.named \subseteq stored'.listed
    <3>1. CASE UNCHANGED stored
      BY <3>1 DEF TypeOK
    <3>2. CASE stored' = [stored EXCEPT !.listed = mem.listed \ (mem.named \cap {subject}),
                                        !.named = mem.named \ {subject}]
      BY <3>2 DEF TypeOK, Template
    <3> QED
      BY <1>12, <3>1, <3>2 DEF DropEntry
  <2> QED
    BY <1>12, <2>1, <2>2 DEF TypeOK, DropEntry, Steps
<1>13. CASE Unfinalize
  <2>1. disturbances' \in 0..MaxDisturbances
    BY <1>13, DisturbType DEF TypeOK, Unfinalize
  <2>2. agents' \in [Machines -> Agent]
    BY <1>13 DEF TypeOK, Unfinalize, Agent
  <2> QED
    BY <1>13, <2>1, <2>2, EndPassType DEF TypeOK, Unfinalize
<1>14. CASE Crash
  <2>1. disturbances' \in 0..MaxDisturbances
    BY <1>14, DisturbType DEF TypeOK, Crash
  <2> QED
    BY <1>14, <2>1, EndPassType DEF TypeOK, Crash
<1>15. CASE SyncCache
  BY <1>15 DEF TypeOK, SyncCache, Calm
<1>16. ASSUME NEW m \in Machines, Register(m) \/ Bind(m) \/ Unbind(m) \/ DeleteAgent(m)
       PROVE  TypeOK'
  <2>1. disturbances' \in 0..MaxDisturbances
    BY <1>16, DisturbType DEF TypeOK, Register, Bind, Unbind, DeleteAgent
  <2>2. PICK changed : AgentChanges(m, changed) /\ changed \in Agent
    <3> agents[m] \in Agent
      BY DEF TypeOK
    <3>1. CASE Register(m)
      <4>1. [NoAgent EXCEPT !.phase = "live"] \in Agent
        BY DEF NoAgent, Agent
      <4> QED
        BY <3>1, <4>1 DEF Register
    <3>2. CASE Bind(m)
      <4>1. [agents[m] EXCEPT !.status = "bound", !.everBound = TRUE] \in Agent
        BY DEF Agent
      <4> QED
        BY <3>2, <4>1 DEF Bind
    <3>3. CASE Unbind(m)
      <4>1. [agents[m] EXCEPT !.status = "unbinding"] \in Agent
        BY DEF Agent
      <4> QED
        BY <3>3, <4>1 DEF Unbind
    <3>4. CASE DeleteAgent(m)
      <4>1. [agents[m] EXCEPT !.phase = IF agents[m].adopted THEN "deleting"
                                        ELSE "gone"] \in Agent
        BY DEF Agent
      <4> QED
        BY <3>4, <4>1 DEF DeleteAgent
    <3> QED
      BY <1>16, <3>1, <3>2, <3>3, <3>4
  <2> QED
    BY <2>1, <2>2 DEF TypeOK, AgentChanges, unread
<1>17. CASE Scale
  <2>1. disturbances' \in 0..MaxDisturbances
    BY <1>17, DisturbType DEF TypeOK, Scale
  <2> QED
    BY <1>17, <2>1 DEF TypeOK, Scale
<1>18. CASE DeleteTemplate
  <2>1. disturbances' \in 0..MaxDisturbances
    BY <1>18, DisturbType DEF TypeOK, DeleteTemplate
  <2> QED
    BY <1>18, <2>1 DEF TypeOK, DeleteTemplate, Template
<1>19. CASE LoseVM
  <2>1. disturbances' \in 0..MaxDisturbances
    BY <1>19, DisturbType DEF TypeOK, LoseVM
  <2> QED
    BY <1>19, <2>1 DEF TypeOK, LoseVM
<1>20. CASE UNCHANGED vars
  BY <1>20 DEF TypeOK, vars
<1>21. CASE WriteBack
  <2>1. disturbances' \in 0..MaxDisturbances
    BY <1>21, DisturbType DEF TypeOK, WriteBack
  <2>2. stored' \in Template /\ stored'.named \subseteq stored'.listed
    BY <1>21 DEF TypeOK, WriteBack, StoreStatus, Template
  <2>3. cacheFresh' \in BOOLEAN
    BY <1>21 DEF TypeOK, WriteBack, StoreStatus
  <2> QED
    BY <1>21, <2>1, <2>2, <2>3, EndPassType DEF TypeOK, WriteBack
<1>22. ASSUME NEW m \in Machines, DropRequest(m) \/ Requeue(m)
       PROVE  TypeOK'
  <2>1. disturbances' \in 0..MaxDisturbances
    BY <1>22, DisturbType DEF TypeOK, DropRequest, Requeue
  <2> QED
    BY <1>22, <2>1, RequestFrame DEF TypeOK
<1> QED
  BY <1>1, <1>2, <1>3, <1>4, <1>5, <1>6, <1>7, <1>8, <1>9, <1>10, <1>11, <1>12,
     <1>13, <1>14, <1>15, <1>16, <1>17, <1>18, <1>19, <1>20, <1>21, <1>22
  DEF Next, Pass, Environment, Cluster, Listing

\* Every variable keeps its type, and no entry of the status is named that is
\* not there, whatever fails and however many machines there are.
THEOREM TypeCorrect == Spec => []TypeOK
BY TypeInit, TypeStep, PTL DEF Spec

-----------------------------------------------------------------------------
\* No other step than CreateVM adds a machine or names one.
LEMMA OnlyCreateVMAdds ==
  ASSUME [Next]_vars, ~CreateVM
  PROVE  alive' \subseteq alive /\ number' = number
<1>1. CASE Listing
  BY <1>1, ListingFrame
<1>2. ASSUME NEW m \in Machines, DropRequest(m) \/ Requeue(m)
      PROVE  alive' \subseteq alive /\ number' = number
  BY <1>2, RequestFrame
<1> QED
  BY <1>1, <1>2
  DEF Next, vars, machines, Pass, Listing, BeginTemplate, ListAgents, Adopt, Retire,
      Prepare, BeginFinalizer, WriteBack, WriteStatus, Release, Destroy, DropEntry,
      Unfinalize, Crash, Environment, Cluster, SyncCache, Register, Bind, Unbind,
      AgentChanges, DeleteAgent, Scale, DeleteTemplate, LoseVM

\* CreateVM adds one new machine at most, under a name that no VM has.
LEMMA Created ==
  ASSUME CreateVM, TypeOK
  PROVE  \/ UNCHANGED <<alive, number, view>>
         \/ \E m \in Machines, n \in Numbers :
              /\ FreeNumber(n) /\ n \notin {number[x] : x \in alive}
              /\ number[m] = 0
              /\ alive' = alive \cup {m} /\ number' = [number EXCEPT ![m] = n]
              /\ view' = view \/ view' = view \cup {m}
BY DEF CreateVM, Make, Refused, machines

\* Two VMs never share a name.  vSphere sees to that; the pass knows only the
\* VMs of its last listing and those it has created itself.
NamesUnique ==
  \A x, y \in alive : number[x] = number[y] => x = y

LEMMA NamesStep == TypeOK /\ NamesUnique /\ [Next]_vars => NamesUnique'
<1> SUFFICES ASSUME TypeOK, NamesUnique, [Next]_vars  PROVE NamesUnique'
  OBVIOUS
<1>1. CASE CreateVM
  <2>1. CASE UNCHANGED <<alive, number>>
    BY <2>1 DEF NamesUnique
  <2>2. ASSUME NEW m \in Machines, NEW n \in Numbers,
               n \notin {number[x] : x \in alive},
               alive' = alive \cup {m}, number' = [number EXCEPT ![m] = n]
        PROVE  NamesUnique'
    <3>1. \A x \in alive : x # m => number'[x] = number[x] /\ number[x] # n
      BY <2>2 DEF TypeOK
    <3> QED
      BY <2>2, <3>1 DEF NamesUnique, TypeOK
  <2> QED
    BY <1>1, <2>1, <2>2, Created
<1>2. CASE ~CreateVM
  <2>1. alive' \subseteq alive /\ number' = number
    BY <1>2, OnlyCreateVMAdds
  <2> QED
    BY <2>1 DEF NamesUnique
<1> QED
  BY <1>1, <1>2

-----------------------------------------------------------------------------
\* What the loop may still create is within the quota, by the VMs it knows of.
LoopWithinQuota == At("create") => Cardinality(view) + todo <= MaxVms

\* The names in use stay within the quota.
FleetInv ==
  /\ TypeOK /\ NamesUnique /\ LoopWithinQuota
  /\ \A m \in alive : number[m] \in 1..MaxVms

LEMMA ViewFinite ==
  ASSUME TypeOK
  PROVE  IsFiniteSet(view) /\ Cardinality(view) \in Nat
BY MachinesAssumption, FS_Subset, FS_CardinalityType DEF TypeOK

LEMMA LoopStep == TypeOK /\ LoopWithinQuota /\ [Next]_vars => LoopWithinQuota'
<1> SUFFICES ASSUME TypeOK, LoopWithinQuota, [Next]_vars, At("create")'
             PROVE  (Cardinality(view) + todo <= MaxVms)'
  BY DEF LoopWithinQuota
<1> USE DEF At, Goto, machines, store, copies, reading, loop
<1>1. CASE ScaleUp
  BY <1>1, ToCreateBound DEF ScaleUp, GiveUp
<1>2. CASE CreateVM
  <2>1. /\ At("create") /\ todo' = todo - 1
        /\ view' = view \/ \E m \in Machines : view' = view \cup {m}
    BY <1>2 DEF CreateVM
  <2>2. Cardinality(view') <= Cardinality(view) + 1 /\ Cardinality(view') \in Nat
    BY <2>1, ViewFinite, FS_AddElement
  <2> QED
    BY <2>1, <2>2, ViewFinite, BoundsAssumption DEF LoopWithinQuota, TypeOK
<1>3. CASE UNCHANGED <<pc, view, todo>>
  BY <1>3 DEF LoopWithinQuota
<1>4. CASE EndPass
  BY <1>4 DEF EndPass
<1>5. ASSUME NEW m \in Machines, DropRequest(m) \/ Requeue(m)
      PROVE  UNCHANGED <<pc, view, todo>>
  BY <1>5, RequestFrame
<1>6. CASE ListVMs \/ StopAtQuota \/ Refresh
  BY <1>6 DEF ListVMs, StopAtQuota, Refresh, RebuildList, GiveUp
<1> QED
  BY <1>1, <1>2, <1>3, <1>4, <1>5, <1>6
  DEF Next, vars, Pass, BeginTemplate, ListAgents, Adopt, Retire, Prepare, NextAgent,
      BeginFinalizer, AfterLookup, WriteBack, WriteStatus, Release, Destroy, DropEntry,
      Unfinalize, Crash, Environment, Cluster, SyncCache, Register, Bind, Unbind,
      AgentChanges, unread, DeleteAgent, Scale, DeleteTemplate, LoseVM

\* The number that a new VM takes is within the quota while the loop knows of
\* fewer VMs than the quota allows.
LEMMA FreeNumberBound ==
  ASSUME TypeOK, NEW n \in Numbers, FreeNumber(n), Cardinality(view) < MaxVms
  PROVE  n \in 1..MaxVms
<1> DEFINE used == {number[x] : x \in view}
<1>1. IsFiniteSet(view) /\ Cardinality(view) \in Nat
  BY ViewFinite
<1>2. IsFiniteSet(used) /\ Cardinality(used) <= Cardinality(view) /\ Cardinality(used) \in Nat
  <2>1. [x \in view |-> number[x]] \in Surjection(view, used)
    BY DEF Surjection
  <2> QED
    BY <1>1, <2>1, FS_Surjection, FS_CardinalityType
<1>3. n \in Nat \ {0} /\ 1..(n - 1) \subseteq used
  <2>1. n \in Nat \ {0}
    BY MachinesAssumption, FS_CardinalityType DEF Numbers
  <2>2. \A k \in 1..(n - 1) : k \in used
    BY <2>1 DEF FreeNumber
  <2> QED
    BY <2>1, <2>2
<1>4. Cardinality(1..(n - 1)) = n - 1
  BY <1>3, FS_Interval
<1>5. n - 1 <= Cardinality(used)
  BY <1>2, <1>3, <1>4, FS_Subset
<1> QED
  BY <1>1, <1>2, <1>3, <1>5, BoundsAssumption

LEMMA FleetInit == Init => FleetInv /\ F!Init
BY TypeInit DEF Init, FleetInv, NamesUnique, LoopWithinQuota, At, F!Init

\* A step creates a VM under a free number, or removes one VM at most.
LEMMA FleetStep ==
  ASSUME FleetInv, [Next]_vars
  PROVE  FleetInv' /\ [F!Add \/ F!Remove]_{number[m] : m \in alive}
<1> DEFINE used == {number[m] : m \in alive}
<1>1. TypeOK' /\ NamesUnique' /\ LoopWithinQuota'
  BY TypeStep, NamesStep, LoopStep DEF FleetInv
<1>2. CASE CreateVM
  <2>1. CASE UNCHANGED <<alive, number>>
    BY <1>1, <2>1 DEF FleetInv
  <2>2. ASSUME NEW m \in Machines, NEW n \in Numbers,
               FreeNumber(n), n \notin used, number[m] = 0,
               alive' = alive \cup {m}, number' = [number EXCEPT ![m] = n]
        PROVE  FleetInv' /\ F!Add
    <3>1. Cardinality(view) < MaxVms
      BY <1>2, ViewFinite, BoundsAssumption
      DEF CreateVM, FleetInv, LoopWithinQuota, TypeOK
    <3>2. n \in 1..MaxVms
      BY <2>2, <3>1, FreeNumberBound DEF FleetInv
    <3>3. m \notin alive
      BY <2>2 DEF FleetInv
    <3>4. number'[m] = n /\ \A x \in alive : number'[x] = number[x]
      BY <2>2, <3>3 DEF FleetInv, TypeOK
    <3>5. used' = used \cup {n}
      BY <2>2, <3>4
    <3>6. F!Add
      BY <2>2, <3>2, <3>5 DEF F!Add
    <3> QED
      BY <1>1, <2>2, <3>2, <3>4, <3>6 DEF FleetInv
  <2> QED
    BY <1>2, <2>1, <2>2, Created DEF FleetInv
<1>3. CASE ~CreateVM
  <2>1. /\ number' = number
        /\ \/ alive' = alive
           \/ \E n : alive' = {x \in alive : number[x] # n}
    <3>1. CASE Destroy
      BY <3>1 DEF Destroy
    <3>2. CASE LoseVM
      <4>1. PICK m \in alive : alive' = alive \ {m} /\ number' = number
        BY <3>2 DEF LoseVM
      <4>2. alive' = {x \in alive : number[x] # number[m]}
        BY <4>1 DEF FleetInv, NamesUnique
      <4> QED
        BY <4>1, <4>2
    <3>3. CASE Listing
      BY <3>3, ListingFrame
    <3>4. ASSUME NEW m \in Machines, DropRequest(m) \/ Requeue(m)
          PROVE  number' = number /\ alive' = alive
      BY <3>4, RequestFrame
    <3>5. CASE ~Destroy /\ ~LoseVM /\ ~Listing
      BY <1>3, <3>4, <3>5
      DEF Next, vars, machines, Pass, Listing, BeginTemplate, ListAgents, Adopt, Retire,
          Prepare, BeginFinalizer, WriteBack, WriteStatus, Release, DropEntry, Unfinalize,
          Crash, Environment, Cluster, SyncCache, Register, Bind, Unbind, AgentChanges,
          DeleteAgent, Scale, DeleteTemplate
    <3> QED
      BY <3>1, <3>2, <3>3, <3>5
  <2>2. used' = used \/ \E n \in used : used' = used \ {n}
    BY <2>1
  <2> QED
    BY <1>1, <2>1, <2>2 DEF FleetInv, F!Remove
<1> QED
  BY <1>2, <1>3

\* However VMs are created, destroyed by name and lost, they are the abstract
\* fleet of the template: one at a time, within the quota.
THEOREM CleanupImplementsFleet == Spec => OneFleet
BY FleetInit, FleetStep, PTL DEF Spec, OneFleet, F!Spec

-----------------------------------------------------------------------------
\* An Agent that has not changed since the pass read it is as it was read.
SeenFresh == \A m \in agentFresh : agents[m] = seen[m]

LEMMA FreshStep == TypeOK /\ SeenFresh /\ [Next]_vars => SeenFresh'
<1> SUFFICES ASSUME TypeOK, SeenFresh, [Next]_vars  PROVE SeenFresh'
  OBVIOUS
<1> USE DEF machines, store, copies, reading
<1>1. CASE UNCHANGED <<agents, seen, agentFresh>>
  BY <1>1 DEF SeenFresh
<1>2. CASE EndPass
  BY <1>2 DEF EndPass, SeenFresh
<1>3. CASE ListAgents
  BY <1>3 DEF ListAgents, SeenFresh
<1>4. ASSUME NEW m \in Machines, Adopt(m) \/ Prepare(m)  PROVE SeenFresh'
  BY <1>4 DEF Adopt, Prepare, UpdateAgent, SeenFresh, TypeOK
<1>5. ASSUME NEW m \in Machines, Retire(m)  PROVE SeenFresh'
  BY <1>5 DEF Retire, SeenFresh, TypeOK
<1>6. ASSUME NEW m \in Machines, BeginFinalizer(m)  PROVE SeenFresh'
  BY <1>6 DEF BeginFinalizer, SeenFresh
<1>7. ASSUME NEW m \in Machines, NEW changed, AgentChanges(m, changed)  PROVE SeenFresh'
  BY <1>7 DEF AgentChanges, unread, SeenFresh, TypeOK
<1>8. ASSUME NEW m \in Machines, Register(m) \/ Bind(m) \/ Unbind(m) \/ DeleteAgent(m)
      PROVE  SeenFresh'
  BY <1>7, <1>8 DEF Register, Bind, Unbind, DeleteAgent
<1>9. CASE \/ BeginTemplate \/ CreateVM \/ Destroy \/ DropEntry
           \/ SyncCache \/ Scale \/ DeleteTemplate \/ LoseVM \/ UNCHANGED vars
  BY <1>1, <1>9 DEF BeginTemplate, CreateVM, Destroy, DropEntry, SyncCache,
                    Scale, DeleteTemplate, LoseVM, vars
<1>10. CASE WriteStatus
  BY <1>1, <1>2, <1>10 DEF WriteStatus
<1>11. CASE WriteBack \/ Release \/ Unfinalize \/ Crash
  BY <1>2, <1>11 DEF WriteBack, Release, Unfinalize, Crash
<1>12. CASE Listing
  BY <1>1, <1>12, ListingFrame
<1>13. ASSUME NEW m \in Machines, DropRequest(m) \/ Requeue(m)  PROVE SeenFresh'
  BY <1>1, <1>13, RequestFrame
<1> QED
  BY <1>3, <1>4, <1>5, <1>6, <1>8, <1>9, <1>10, <1>11, <1>12, <1>13
  DEF Listing, Next, Pass, Environment, Cluster

-----------------------------------------------------------------------------
LEMMA MarkersInit == Init => MarkersInv
<1>1. Init => \A m \in Machines : Marked(agents[m]) /\ Seen(m)
  BY DEF Init, Marked, Seen, NoAgent
<1>2. Init => SubjectAdopted
  BY DEF Init, SubjectAdopted, At
<1> QED
  BY <1>1, <1>2, TypeInit DEF MarkersInv

\* A pass may always see the Agents as they are, or forget what it has seen.
LEMMA SeenAgain ==
  ASSUME MarkersInv, agents' = agents,
         seen' = seen \/ seen' = agents \/ seen' = [m \in Machines |-> NoAgent]
  PROVE  \A m \in Machines : Marked(agents'[m]) /\ Seen(m)'
BY DEF MarkersInv, Marked, Seen, NoAgent

\* Nothing that the pass writes to an Agent that it saw breaks the markers.
LEMMA MarkersWritten ==
  ASSUME MarkersInv, NEW m \in Machines, NEW changed, Marked(changed),
         \/ UpdateAgent(m, changed)
         \/ UNCHANGED <<agents, seen>>
  PROVE  \A x \in Machines : Marked(agents'[x]) /\ Seen(x)'
BY DEF MarkersInv, UpdateAgent, Seen, TypeOK

\* Nor does a change of an Agent that was bound and remains one that was.
LEMMA MarkersChanged ==
  ASSUME MarkersInv, NEW m \in Machines, NEW changed, Marked(changed),
         agents[m].everBound => changed.everBound,
         agents' = [agents EXCEPT ![m] = changed],
         seen' = seen \/ seen' = [x \in Machines |-> NoAgent]
  PROVE  \A x \in Machines : Marked(agents'[x]) /\ Seen(x)'
BY DEF MarkersInv, Seen, TypeOK, Marked, NoAgent

LEMMA MarkersStep == MarkersInv /\ [Next]_vars => MarkersInv'
<1> SUFFICES ASSUME MarkersInv, [Next]_vars
             PROVE (\A m \in Machines : Marked(agents[m]) /\ Seen(m))' /\ SubjectAdopted'
  BY TypeStep DEF MarkersInv
<1> USE DEF machines, store, copies, reading, Goto
<1>1. CASE BeginTemplate \/ CreateVM \/ ListAgents \/ Destroy \/ DropEntry
           \/ SyncCache \/ Scale \/ DeleteTemplate \/ LoseVM \/ UNCHANGED vars
  <2>1. agents' = agents /\ (seen' = seen \/ seen' = agents)
    BY <1>1 DEF BeginTemplate, CreateVM, ListAgents, Destroy, DropEntry, SyncCache, Scale, DeleteTemplate, LoseVM, vars
  <2>2. pc' # "adopted" \/ (UNCHANGED <<pc, subject, seen>>)
    BY <1>1 DEF BeginTemplate, CreateVM, ListAgents, Destroy, DropEntry, SyncCache, Scale, DeleteTemplate, LoseVM, vars
  <2> QED
    BY <2>1, <2>2, SeenAgain DEF SubjectAdopted, At, MarkersInv
<1>2. ASSUME NEW m \in Machines, Adopt(m)
      PROVE  (\A x \in Machines : Marked(agents[x]) /\ Seen(x))' /\ SubjectAdopted'
  <2>1. Marked([seen[m] EXCEPT !.adopted = TRUE])
    BY DEF MarkersInv, Seen, Marked, TypeOK, Agent
  <2>2. \/ UpdateAgent(m, [seen[m] EXCEPT !.adopted = TRUE])
        \/ UNCHANGED <<agents, seen>>
    BY <1>2 DEF Adopt
  <2>3. SubjectAdopted'
    BY <1>2 DEF Adopt, SubjectAdopted, At, UpdateAgent, NextAgent, MarkersInv, TypeOK, Agent
  <2> QED
    BY <2>1, <2>2, <2>3, MarkersWritten
<1>3. ASSUME NEW m \in Machines, Retire(m)
      PROVE  (\A x \in Machines : Marked(agents[x]) /\ Seen(x))' /\ SubjectAdopted'
  <2>1. SubjectAdopted'
    BY <1>3 DEF Retire, SubjectAdopted, At, NextAgent
  <2>2. CASE UNCHANGED agents
    BY <1>3, <2>1, <2>2, SeenAgain DEF Retire
  <2>3. CASE agents' = [agents EXCEPT ![m].phase = "deleting"]
    <3>1. agents' = [agents EXCEPT ![m] = [agents[m] EXCEPT !.phase = "deleting"]]
      BY <2>3
    <3>2. Marked([agents[m] EXCEPT !.phase = "deleting"])
      BY DEF MarkersInv, Marked, TypeOK, Agent
    <3>3. [agents[m] EXCEPT !.phase = "deleting"].everBound = agents[m].everBound
      BY DEF MarkersInv, TypeOK, Agent
    <3> QED
      BY <1>3, <2>1, <3>1, <3>2, <3>3, MarkersChanged DEF Retire
  <2> QED
    BY <1>3, <2>2, <2>3 DEF Retire
<1>4. ASSUME NEW m \in Machines, Prepare(m)
      PROVE  (\A x \in Machines : Marked(agents[x]) /\ Seen(x))' /\ SubjectAdopted'
  <2>1. seen[m].adopted
    BY <1>4 DEF Prepare, Handling, SubjectAdopted, MarkersInv
  <2>2. Marked(Prepared(seen[m]))
    BY <2>1 DEF MarkersInv, Seen, Marked, Prepared, TypeOK, Agent
  <2>3. UpdateAgent(m, Prepared(seen[m])) \/ UNCHANGED <<agents, seen>>
    BY <1>4 DEF Prepare
  <2>4. SubjectAdopted'
    BY <1>4 DEF Prepare, SubjectAdopted, At, NextAgent
  <2> QED
    BY <2>2, <2>3, <2>4, MarkersWritten
<1>5. ASSUME NEW m \in Machines, BeginFinalizer(m)
      PROVE  (\A x \in Machines : Marked(agents[x]) /\ Seen(x))' /\ SubjectAdopted'
  <2>1. SubjectAdopted'
    BY <1>5 DEF BeginFinalizer, AfterLookup, SubjectAdopted, At
  <2> QED
    BY <1>5, <2>1, SeenAgain DEF BeginFinalizer
<1>6. CASE WriteBack \/ WriteStatus \/ Release \/ Crash
  <2>1. agents' = agents /\ pc' # "adopted"
    BY <1>6 DEF WriteBack, WriteStatus, Release, Crash, EndPass
  <2>2. seen' = seen \/ seen' = [m \in Machines |-> NoAgent]
    BY <1>6 DEF WriteBack, WriteStatus, Release, Crash, EndPass
  <2> QED
    BY <2>1, <2>2, SeenAgain DEF SubjectAdopted, At
<1>7. CASE Unfinalize
  <2>1. seen' = [m \in Machines |-> NoAgent] /\ pc' # "adopted"
    BY <1>7 DEF Unfinalize, EndPass
  <2>2. CASE UNCHANGED agents
    BY <2>1, <2>2, SeenAgain DEF SubjectAdopted, At
  <2>3. CASE agents' # agents
    <3>1. AgentWritable(subject) /\ agents' = [agents EXCEPT ![subject].phase = "gone"]
      BY <1>7, <2>3 DEF Unfinalize
    <3>2. subject \in Machines
      BY <3>1 DEF AgentWritable, MarkersInv, TypeOK
    <3>3. agents' = [agents EXCEPT ![subject] = [agents[subject] EXCEPT !.phase = "gone"]]
      BY <3>1
    <3>4. Marked([agents[subject] EXCEPT !.phase = "gone"])
      BY <3>2 DEF MarkersInv, Marked, TypeOK, Agent
    <3>5. [agents[subject] EXCEPT !.phase = "gone"].everBound = agents[subject].everBound
      BY <3>2 DEF MarkersInv, TypeOK, Agent
    <3> QED
      BY <2>1, <3>2, <3>3, <3>4, <3>5, MarkersChanged DEF SubjectAdopted, At
  <2> QED
    BY <2>2, <2>3
<1>8. ASSUME NEW m \in Machines, Register(m) \/ Bind(m) \/ Unbind(m) \/ DeleteAgent(m)
      PROVE  (\A x \in Machines : Marked(agents[x]) /\ Seen(x))' /\ SubjectAdopted'
  <2> agents[m] \in Agent /\ Marked(agents[m])
    BY DEF MarkersInv, TypeOK
  <2>1. PICK changed : /\ AgentChanges(m, changed) /\ Marked(changed)
                       /\ agents[m].everBound => changed.everBound
    <3>1. CASE Register(m)
      <4> DEFINE new == [NoAgent EXCEPT !.phase = "live"]
      <4>1. Marked(new)
        BY DEF Marked, NoAgent
      <4>2. ~agents[m].everBound
        BY <3>1 DEF Register, Marked
      <4>3. AgentChanges(m, new)
        BY <3>1 DEF Register
      <4> HIDE DEF new
      <4> QED
        BY <4>1, <4>2, <4>3
    <3>2. CASE Bind(m)
      <4> DEFINE new == [agents[m] EXCEPT !.status = "bound", !.everBound = TRUE]
      <4>1. Marked(new) /\ new.everBound
        BY <3>2 DEF Bind, Marked, Agent
      <4>2. AgentChanges(m, new)
        BY <3>2 DEF Bind
      <4> QED
        BY <4>1, <4>2
    <3>3. CASE Unbind(m)
      <4> DEFINE new == [agents[m] EXCEPT !.status = "unbinding"]
      <4>1. Marked(new) /\ new.everBound = agents[m].everBound
        BY DEF Marked, Agent
      <4> QED
        BY <3>3, <4>1 DEF Unbind
    <3>4. CASE DeleteAgent(m)
      <4> DEFINE new == [agents[m] EXCEPT !.phase = IF agents[m].adopted THEN "deleting"
                                                    ELSE "gone"]
      <4>1. Marked(new) /\ new.everBound = agents[m].everBound
        BY DEF Marked, Agent
      <4> QED
        BY <3>4, <4>1 DEF DeleteAgent
    <3> QED
      BY <1>8, <3>1, <3>2, <3>3, <3>4
  <2>2. agents' = [agents EXCEPT ![m] = changed] /\ seen' = seen
    BY <2>1 DEF AgentChanges, unread
  <2>3. SubjectAdopted'
    BY <2>1 DEF AgentChanges, unread, SubjectAdopted, At, MarkersInv
  <2> QED
    BY <2>1, <2>2, <2>3, MarkersChanged
<1>9. CASE Listing
  BY <1>9, ListingFrame, SeenAgain DEF SubjectAdopted, At
<1>10. ASSUME NEW m \in Machines, DropRequest(m) \/ Requeue(m)
       PROVE  (\A x \in Machines : Marked(agents[x]) /\ Seen(x))' /\ SubjectAdopted'
  BY <1>10, RequestFrame, SeenAgain DEF SubjectAdopted, At, MarkersInv
<1> QED
  BY <1>1, <1>2, <1>3, <1>4, <1>5, <1>6, <1>7, <1>8, <1>9, <1>10
  DEF Listing, Next, Pass, Environment, Cluster

\* The binding label is only on Agents that have been Bound, together with the
\* markers that deletion relies on: the pass may work from an old list, be
\* interrupted anywhere and have any of its calls fail.
THEOREM BindingLabelTrue == Spec => []BindingLabelTruthful
<1>1. MarkersInv => BindingLabelTruthful
  BY DEF MarkersInv, Marked, BindingLabelTruthful
<1> QED
  BY <1>1, MarkersInit, MarkersStep, PTL DEF Spec

\* No Agent that was never bound is deleted by the pass.
THEOREM NeverBoundSafe == Spec => NeverBoundKept
<1> DEFINE Inv == MarkersInv /\ SeenFresh
<1>1. Inv /\ [Next]_vars
        => [\A m \in left : agents[m].phase = "live" /\ agents'[m].phase = "deleting"
              /\ disturbances' = disturbances => agents[m].everBound]_vars
  <2> SUFFICES ASSUME Inv, [Next]_vars, NEW m \in left,
                      agents[m].phase = "live", agents'[m].phase = "deleting",
                      disturbances' = disturbances
               PROVE  agents[m].everBound
    OBVIOUS
  <2> m \in Machines /\ TypeOK
    BY DEF MarkersInv, TypeOK
  <2> USE DEF machines, store, copies
  <2>1. PICK x \in Machines : Adopt(x) \/ Retire(x) \/ Prepare(x) \/ Unfinalize
                              \/ Register(x) \/ Bind(x) \/ Unbind(x) \/ DeleteAgent(x)
    <3>1. agents' # agents
      OBVIOUS
    <3>2. ~Listing /\ \A y \in Machines : ~DropRequest(y) /\ ~Requeue(y)
      BY <3>1, ListingFrame, RequestFrame
    <3> QED
      BY <3>1, <3>2
      DEF Next, vars, Pass, Listing, BeginTemplate, CreateVM, ListAgents, BeginFinalizer,
          WriteBack, WriteStatus, Release, Destroy, DropEntry, Crash, Environment, Cluster,
          SyncCache, Scale, DeleteTemplate, LoseVM
  <2>2. CASE Adopt(x) \/ Prepare(x)
    <3>1. agents'[x].phase = agents[x].phase
      <4>1. CASE agents' = agents
        BY <4>1
      <4>2. PICK changed :
                   \/ /\ agents' = [agents EXCEPT ![x] = changed]
                      /\ changed.phase = seen[x].phase /\ x \in agentFresh
                   \/ agents' = agents
        <5> seen[x] \in Agent
          BY DEF TypeOK
        <5>1. [seen[x] EXCEPT !.adopted = TRUE].phase = seen[x].phase
          BY DEF Agent
        <5>2. Prepared(seen[x]).phase = seen[x].phase
          BY DEF Agent, Prepared
        <5> QED
          BY <2>2, <5>1, <5>2 DEF Adopt, Prepare, UpdateAgent, AgentWritable
      <4> QED
        BY <4>1, <4>2 DEF SeenFresh, TypeOK
    <3>2. x # m => agents'[m] = agents[m]
      BY <2>2 DEF Adopt, Prepare, UpdateAgent, TypeOK
    <3> QED
      BY <3>1, <3>2
  <2>3. CASE Retire(x)
    <3>1. x = m
      BY <2>3 DEF Retire, TypeOK
    <3>2. seen[m].binding
      BY <2>3, <3>1 DEF Retire, ToRetire
    <3> QED
      BY <3>2 DEF MarkersInv, Seen, Marked
  <2>4. CASE Unfinalize
    BY <2>4 DEF Unfinalize, TypeOK, Agent
  <2>5. CASE Register(x) \/ Bind(x) \/ Unbind(x)
    <3>1. x # m => agents'[m] = agents[m]
      BY <2>5 DEF Register, Bind, Unbind, AgentChanges, TypeOK
    <3>2. agents[x] \in Agent
      BY DEF TypeOK
    <3>3. agents'[x].phase # "deleting" \/ agents'[x].phase = agents[x].phase
      <4>1. CASE Register(x)
        BY <4>1 DEF Register, AgentChanges, NoAgent, TypeOK
      <4>2. CASE Bind(x)
        BY <3>2, <4>2 DEF Bind, AgentChanges, TypeOK, Agent
      <4>3. CASE Unbind(x)
        BY <3>2, <4>3 DEF Unbind, AgentChanges, TypeOK, Agent
      <4> QED
        BY <2>5, <4>1, <4>2, <4>3
    <3> QED
      BY <3>1, <3>3
  <2>6. CASE DeleteAgent(x)
    <3>1. disturbances' # disturbances
      BY <2>6 DEF DeleteAgent, Disturb, TypeOK
    <3> QED
      BY <3>1
  <2> QED
    BY <2>1, <2>2, <2>3, <2>4, <2>5, <2>6
<1>2. Init => Inv
  BY MarkersInit DEF Init, SeenFresh
<1>3. Inv /\ [Next]_vars => Inv'
  BY MarkersStep, FreshStep DEF MarkersInv
<1> QED
  BY <1>1, <1>2, <1>3, PTL DEF Spec, NeverBoundKept

-----------------------------------------------------------------------------
\* What the annotation knows of a machine, when the finalizer never finds the
\* template: an Agent has a VM and is annotated before the pass deletes it.
Annotated(m) ==
  /\ agents[m].phase = "none" => ~agents[m].adopted /\ ~agents[m].prepared
  /\ seen[m].phase = "none" => ~seen[m].adopted
  /\ seen[m].prepared => agents[m].prepared
  /\ agents[m].phase = "deleting" => agents[m].prepared

\* A machine is created once, before its Agent registers, and is destroyed
\* before the Agent is gone.
Placed(m) ==
  /\ m \in alive => number[m] # 0
  /\ agents[m].phase # "none" => number[m] # 0
  /\ agents[m].phase = "gone" => m \notin alive

\* The finalizer is on its way to a VM, or past it.
SubjectPlaced ==
  /\ At("destroy") \/ At("drop") \/ At("unfinalize")
       => subject \in Machines /\ number[subject] # 0
  /\ At("drop") \/ At("unfinalize") => subject \notin alive

AnnotatedInv ==
  /\ MarkersInv /\ SeenFresh
  /\ \A m \in Machines : Annotated(m) /\ Placed(m)
  /\ SubjectPlaced

LEMMA AnnotatedInit == Init => AnnotatedInv
<1>1. Init => MarkersInv /\ SeenFresh
  BY MarkersInit DEF Init, SeenFresh
<1>2. Init => (\A m \in Machines : Annotated(m) /\ Placed(m)) /\ SubjectPlaced
  BY DEF Init, Annotated, Placed, SubjectPlaced, NoAgent, At
<1> QED
  BY <1>1, <1>2 DEF AnnotatedInv

\* An Agent changes while the machines stay as they are.
LEMMA AnnotatedChanged ==
  ASSUME AnnotatedInv, NEW m \in Machines, NEW changed,
         agents' = [agents EXCEPT ![m] = changed], UNCHANGED number, UNCHANGED alive,
         seen' = seen \/ seen' = [x \in Machines |-> NoAgent]
           \/ (seen' = [seen EXCEPT ![m] = changed]),
         changed.phase # "none", number[m] # 0,
         agents[m].prepared => changed.prepared,
         changed.phase = "deleting" => changed.prepared,
         changed.phase = "gone" => m \notin alive
  PROVE  \A x \in Machines : (Annotated(x) /\ Placed(x))'
<1> SUFFICES ASSUME NEW x \in Machines  PROVE (Annotated(x) /\ Placed(x))'
  OBVIOUS
<1>1. agents'[x] = IF x = m THEN changed ELSE agents[x]
  BY DEF AnnotatedInv, MarkersInv, TypeOK
<1>2. seen'[x] = seen[x] \/ seen'[x] = NoAgent \/ (x = m /\ seen'[x] = changed)
  BY DEF AnnotatedInv, MarkersInv, TypeOK
<1>3. ~NoAgent.adopted /\ ~NoAgent.prepared
  BY DEF NoAgent
<1>4. Annotated(x) /\ Placed(x)
  BY DEF AnnotatedInv
<1>5. Annotated(x)'
  BY <1>1, <1>2, <1>3, <1>4 DEF Annotated
<1>6. Placed(x)'
  BY <1>1, <1>4 DEF Placed
<1> QED
  BY <1>5, <1>6

\* Machines change, or what the pass has seen, while the Agents stay as they are.
LEMMA AnnotatedSame ==
  ASSUME AnnotatedInv, UNCHANGED agents,
         seen' = seen \/ seen' = agents \/ seen' = [x \in Machines |-> NoAgent],
         \/ UNCHANGED number /\ alive' \subseteq alive
         \/ \E m \in Machines, n \in Numbers :
              /\ number[m] = 0 /\ alive' = alive \cup {m}
              /\ number' = [number EXCEPT ![m] = n]
  PROVE  \A x \in Machines : (Annotated(x) /\ Placed(x))'
<1> SUFFICES ASSUME NEW x \in Machines  PROVE (Annotated(x) /\ Placed(x))'
  OBVIOUS
<1>1. Annotated(x) /\ Placed(x)
  BY DEF AnnotatedInv
<1>2. Annotated(x)'
  <2>1. seen'[x] = seen[x] \/ seen'[x] = agents[x] \/ seen'[x] = NoAgent
    BY DEF AnnotatedInv, MarkersInv, TypeOK
  <2> QED
    BY <1>1, <2>1 DEF Annotated, NoAgent
<1>3. Placed(x)'
  <2>1. CASE UNCHANGED number /\ alive' \subseteq alive
    BY <1>1, <2>1 DEF Placed
  <2>2. ASSUME NEW m \in Machines, NEW n \in Numbers, number[m] = 0,
               alive' = alive \cup {m}, number' = [number EXCEPT ![m] = n]
        PROVE  Placed(x)'
    <3>1. n # 0
      BY DEF Numbers
    <3>2. number'[x] = IF x = m THEN n ELSE number[x]
      BY <2>2 DEF AnnotatedInv, MarkersInv, TypeOK
    <3> QED
      BY <1>1, <2>2, <3>1, <3>2 DEF Placed
  <2> QED
    BY <2>1, <2>2
<1> QED
  BY <1>2, <1>3

LEMMA AnnotatedStep ==
  ASSUME ~SameNamespace, "deleteAgent" \notin Kinds, "destroy" \notin Kinds
  PROVE  AnnotatedInv /\ [Next]_vars => AnnotatedInv'
<1> SUFFICES ASSUME AnnotatedInv, [Next]_vars
             PROVE (\A x \in Machines : (Annotated(x) /\ Placed(x))') /\ SubjectPlaced'
  BY MarkersStep, FreshStep DEF AnnotatedInv, MarkersInv
<1> USE DEF machines, store, copies, reading, Goto, At
<1> TypeOK
  BY DEF AnnotatedInv, MarkersInv
<1>1. CASE BeginTemplate \/ ListAgents \/ SyncCache \/ Scale
           \/ DeleteTemplate \/ LoseVM \/ UNCHANGED vars
  <2>1. UNCHANGED agents /\ (seen' = seen \/ seen' = agents)
    BY <1>1 DEF BeginTemplate, ListAgents, SyncCache, Scale, DeleteTemplate, LoseVM, vars
  <2>2. UNCHANGED number /\ alive' \subseteq alive
    BY <1>1 DEF BeginTemplate, ListAgents, SyncCache, Scale, DeleteTemplate, LoseVM, vars
  <2>3. pc' \in {"vms", "agentList", "status", "agents"} \/ UNCHANGED <<pc, subject>>
    BY <1>1 DEF BeginTemplate, ListAgents, SyncCache, Scale, DeleteTemplate, LoseVM, vars
  <2>4. SubjectPlaced'
    BY <2>2, <2>3 DEF SubjectPlaced, AnnotatedInv
  <2> QED
    BY <2>1, <2>2, <2>4, AnnotatedSame
<1>2. CASE CreateVM
  <2>1. SubjectPlaced'
    BY <1>2 DEF CreateVM, SubjectPlaced
  <2>2. UNCHANGED <<agents, seen>>
    BY <1>2 DEF CreateVM
  <2>3. \/ UNCHANGED number /\ alive' \subseteq alive
        \/ \E m \in Machines, n \in Numbers :
             /\ number[m] = 0 /\ alive' = alive \cup {m}
             /\ number' = [number EXCEPT ![m] = n]
    BY <1>2, Created
  <2> QED
    BY <2>1, <2>2, <2>3, AnnotatedSame
<1>3. ASSUME NEW m \in Machines, Adopt(m) \/ Prepare(m)
      PROVE  (\A x \in Machines : (Annotated(x) /\ Placed(x))') /\ SubjectPlaced'
  <2>1. SubjectPlaced'
    BY <1>3 DEF Adopt, Prepare, NextAgent, SubjectPlaced
  <2>2. CASE UNCHANGED <<agents, seen>>
    BY <1>3, <2>1, <2>2, AnnotatedSame DEF Adopt, Prepare
  <2>3. CASE ~UNCHANGED <<agents, seen>>
    <3>1. m \in agentFresh /\ agents[m] = seen[m]
      BY <1>3, <2>3 DEF Adopt, Prepare, AgentWritable, AnnotatedInv, SeenFresh
    <3>2. agents[m] \in Agent
      BY DEF TypeOK
    <3>3. Annotated(m) /\ Placed(m)
      BY DEF AnnotatedInv
    <3>4. agents[m].phase # "none"
      <4>1. CASE Adopt(m)
        BY <2>3, <4>1 DEF Adopt
      <4>2. CASE Prepare(m)
        <5>1. seen[m].adopted
          BY <4>2 DEF Prepare, Handling, SubjectAdopted, AnnotatedInv, MarkersInv
        <5> QED
          BY <3>1, <3>3, <5>1 DEF Annotated
      <4> QED
        BY <1>3, <4>1, <4>2
    <3>5. PICK changed :
            /\ UpdateAgent(m, changed)
            /\ changed.phase = agents[m].phase
            /\ agents[m].prepared => changed.prepared
      <4>1. CASE Adopt(m)
        <5>1. [seen[m] EXCEPT !.adopted = TRUE].phase = agents[m].phase
          BY <3>1, <3>2 DEF Agent
        <5>2. [seen[m] EXCEPT !.adopted = TRUE].prepared = agents[m].prepared
          BY <3>1, <3>2 DEF Agent
        <5> QED
          BY <2>3, <4>1, <5>1, <5>2 DEF Adopt
      <4>2. CASE Prepare(m)
        <5>1. Prepared(seen[m]).phase = agents[m].phase /\ Prepared(seen[m]).prepared
          BY <3>1, <3>2 DEF Agent, Prepared
        <5> QED
          BY <2>3, <4>2, <5>1 DEF Prepare
      <4> QED
        BY <1>3, <4>1, <4>2
    <3>6. UNCHANGED <<number, alive>>
      BY <1>3 DEF Adopt, Prepare
    <3>7. /\ changed.phase # "none" /\ number[m] # 0
          /\ changed.phase = "deleting" => changed.prepared
          /\ changed.phase = "gone" => m \notin alive
      BY <3>3, <3>4, <3>5 DEF Annotated, Placed
    <3> QED
      BY <2>1, <3>5, <3>6, <3>7, AnnotatedChanged DEF UpdateAgent
  <2> QED
    BY <2>2, <2>3
<1>4. ASSUME NEW m \in Machines, Retire(m)
      PROVE  (\A x \in Machines : (Annotated(x) /\ Placed(x))') /\ SubjectPlaced'
  <2>1. SubjectPlaced'
    BY <1>4 DEF Retire, NextAgent, SubjectPlaced
  <2>2. CASE UNCHANGED agents
    BY <1>4, <2>1, <2>2, AnnotatedSame DEF Retire
  <2>3. CASE agents[m].phase = "live" /\ agents' = [agents EXCEPT ![m].phase = "deleting"]
    <3> DEFINE new == [agents[m] EXCEPT !.phase = "deleting"]
    <3>1. agents' = [agents EXCEPT ![m] = new] /\ agents[m] \in Agent
      BY <2>3 DEF TypeOK
    <3>2. Annotated(m) /\ Placed(m)
      BY DEF AnnotatedInv
    <3>3. agents[m].prepared
      BY <1>4, <3>2 DEF Retire, ToRetire, Annotated
    <3>4. new.phase = "deleting" /\ new.prepared
      BY <3>1, <3>3 DEF Agent
    <3>5. number[m] # 0 /\ UNCHANGED <<number, alive, seen>>
      BY <1>4, <2>3, <3>2 DEF Retire, Placed
    <3> HIDE DEF new
    <3> QED
      BY <2>1, <3>1, <3>4, <3>5, AnnotatedChanged
  <2> QED
    BY <1>4, <2>2, <2>3 DEF Retire
<1>5. ASSUME NEW m \in Machines, BeginFinalizer(m)
      PROVE  (\A x \in Machines : (Annotated(x) /\ Placed(x))') /\ SubjectPlaced'
  <2>1. Annotated(m) /\ Placed(m)
    BY DEF AnnotatedInv
  <2>2. AfterLookup(m) = "destroy"
    BY <1>5, <2>1 DEF BeginFinalizer, Requested, AfterLookup, VMKnown, TemplateFound, Annotated
  <2>3. SubjectPlaced'
    BY <1>5, <2>1, <2>2 DEF BeginFinalizer, Requested, SubjectPlaced, Placed
  <2> QED
    BY <1>5, <2>3, AnnotatedSame DEF BeginFinalizer
<1>6. CASE Destroy
  <2>1. alive' = {x \in alive : number[x] # number[subject]} /\ UNCHANGED number
    BY <1>6 DEF Destroy, Disturb
  <2>2. SubjectPlaced'
    BY <1>6, <2>1 DEF Destroy, SubjectPlaced, AnnotatedInv
  <2>3. UNCHANGED <<agents, seen>>
    BY <1>6 DEF Destroy
  <2> QED
    BY <2>1, <2>2, <2>3, AnnotatedSame
<1>7. CASE DropEntry
  <2>1. SubjectPlaced'
    BY <1>7 DEF DropEntry, SubjectPlaced, AnnotatedInv
  <2> QED
    BY <1>7, <2>1, AnnotatedSame DEF DropEntry
<1>8. CASE WriteBack \/ WriteStatus \/ Release \/ Crash
  <2>1. UNCHANGED agents /\ (seen' = seen \/ seen' = [x \in Machines |-> NoAgent])
    BY <1>8 DEF WriteBack, WriteStatus, Release, Crash, EndPass
  <2>2. UNCHANGED <<number, alive>>
    BY <1>8 DEF WriteBack, WriteStatus, Release, Crash
  <2>3. pc' \in {"idle", "release"}
    BY <1>8 DEF WriteBack, WriteStatus, Release, Crash, EndPass
  <2> QED
    BY <2>1, <2>2, <2>3, AnnotatedSame DEF SubjectPlaced
<1>9. CASE Unfinalize
  <2>1. seen' = [x \in Machines |-> NoAgent] /\ pc' = "idle" /\ UNCHANGED <<number, alive>>
    BY <1>9 DEF Unfinalize, EndPass
  <2>2. SubjectPlaced'
    BY <2>1 DEF SubjectPlaced
  <2>3. CASE UNCHANGED agents
    BY <2>1, <2>2, <2>3, AnnotatedSame
  <2>4. CASE agents' = [agents EXCEPT ![subject].phase = "gone"]
    <3> DEFINE new == [agents[subject] EXCEPT !.phase = "gone"]
    <3>1. subject \in Machines /\ number[subject] # 0 /\ subject \notin alive
      BY <1>9 DEF Unfinalize, SubjectPlaced, AnnotatedInv
    <3>2. agents' = [agents EXCEPT ![subject] = new] /\ agents[subject] \in Agent
      BY <2>4, <3>1 DEF TypeOK
    <3>3. new.phase = "gone" /\ new.prepared = agents[subject].prepared
      BY <3>2 DEF Agent
    <3> HIDE DEF new
    <3> QED
      BY <2>1, <2>2, <3>1, <3>2, <3>3, AnnotatedChanged
  <2> QED
    BY <1>9, <2>3, <2>4 DEF Unfinalize
<1>10. ASSUME NEW m \in Machines, Register(m) \/ Bind(m) \/ Unbind(m) \/ DeleteAgent(m)
       PROVE  (\A x \in Machines : (Annotated(x) /\ Placed(x))') /\ SubjectPlaced'
  <2> Annotated(m) /\ Placed(m) /\ agents[m] \in Agent
    BY DEF AnnotatedInv, TypeOK
  <2>1. ~DeleteAgent(m)
    BY DEF DeleteAgent, Disturb
  <2>2. PICK changed :
          /\ AgentChanges(m, changed) /\ changed.phase = "live" /\ number[m] # 0
          /\ agents[m].prepared => changed.prepared
    <3>1. CASE Register(m)
      <4> DEFINE new == [NoAgent EXCEPT !.phase = "live"]
      <4>1. new.phase = "live"
        BY DEF NoAgent
      <4>2. AgentChanges(m, new) /\ ~agents[m].prepared /\ number[m] # 0
        BY <3>1 DEF Register, Annotated, Placed
      <4> HIDE DEF new
      <4> QED
        BY <4>1, <4>2
    <3>2. CASE Bind(m)
      <4> DEFINE new == [agents[m] EXCEPT !.status = "bound", !.everBound = TRUE]
      <4>1. new.phase = "live" /\ new.prepared = agents[m].prepared
        BY <3>2 DEF Bind, Agent
      <4>2. AgentChanges(m, new) /\ number[m] # 0
        BY <3>2 DEF Bind, Placed
      <4> HIDE DEF new
      <4> QED
        BY <4>1, <4>2
    <3>3. CASE Unbind(m)
      <4> DEFINE new == [agents[m] EXCEPT !.status = "unbinding"]
      <4>1. new.phase = "live" /\ new.prepared = agents[m].prepared
        BY <3>3 DEF Unbind, Bound, Agent
      <4>2. AgentChanges(m, new) /\ number[m] # 0
        BY <3>3 DEF Unbind, Bound, Placed
      <4> HIDE DEF new
      <4> QED
        BY <4>1, <4>2
    <3> QED
      BY <1>10, <2>1, <3>1, <3>2, <3>3
  <2>3. /\ agents' = [agents EXCEPT ![m] = changed]
        /\ UNCHANGED <<number, alive, seen, pc, subject>>
    BY <2>2 DEF AgentChanges, unread
  <2>4. SubjectPlaced'
    BY <2>3 DEF SubjectPlaced, AnnotatedInv
  <2> QED
    BY <2>2, <2>3, <2>4, AnnotatedChanged
<1>11. CASE Listing
  <2>1. SubjectPlaced'
    BY <1>11, ListingFrame DEF SubjectPlaced
  <2> QED
    BY <1>11, <2>1, ListingFrame, AnnotatedSame
<1>12. ASSUME NEW m \in Machines, DropRequest(m) \/ Requeue(m)
       PROVE  (\A x \in Machines : (Annotated(x) /\ Placed(x))') /\ SubjectPlaced'
  <2>1. SubjectPlaced'
    BY <1>12, RequestFrame DEF SubjectPlaced, AnnotatedInv
  <2> QED
    BY <1>12, <2>1, RequestFrame, AnnotatedSame
<1> QED
  BY <1>1, <1>2, <1>3, <1>4, <1>5, <1>6, <1>7, <1>8, <1>9, <1>10, <1>11, <1>12
  DEF Listing, Next, Pass, Environment, Cluster

\* When the finalizer works from the annotation, as it does with the Agents in
\* a namespace of their own, the VM of an Agent is gone before the Agent is,
\* whatever is lost, stale or interrupted in between.  The two assumptions name
\* the ways in which a VM is left behind: a user deletes an Agent before it has
\* its annotation, and a destruction that fails, which the code passes over.
THEOREM AnnotationsSuffice ==
  ASSUME ~SameNamespace, "deleteAgent" \notin Kinds, "destroy" \notin Kinds
  PROVE  Spec => []GoneTakesVMAlong
<1>1. AnnotatedInv => GoneTakesVMAlong
  BY DEF AnnotatedInv, Placed, GoneTakesVMAlong
<1>2. AnnotatedInv /\ [Next]_vars => AnnotatedInv'
  BY AnnotatedStep
<1> QED
  BY <1>1, <1>2, AnnotatedInit, PTL DEF Spec
=============================================================================
