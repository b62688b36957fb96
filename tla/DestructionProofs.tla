-------------------------- MODULE DestructionProofs --------------------------
(***************************************************************************)
(* AgentCleanup again: when the finalizer, which goes by the name,         *)
(* destroys no other VM than that of its Agent.                            *)
(***************************************************************************)
EXTENDS AgentCleanupProofs

\* No other machine has the name of m now.
Owns(m) == \A x \in alive : number[x] = number[m] => x = m

\* Names are unique and every VM has one.
Numbered == NamesUnique /\ \A m \in alive : number[m] # 0

LEMMA NumberedInit == Init => Numbered
BY DEF Init, Numbered, NamesUnique

LEMMA NumberedStep == TypeOK /\ Numbered /\ [Next]_vars => Numbered'
<1> SUFFICES ASSUME TypeOK, Numbered, [Next]_vars  PROVE Numbered'
  OBVIOUS
<1>1. NamesUnique'
  BY NamesStep DEF Numbered
<1>2. CASE CreateVM
  <2>1. CASE UNCHANGED <<alive, number>>
    BY <1>1, <2>1 DEF Numbered
  <2>2. ASSUME NEW m \in Machines, NEW n \in Numbers,
               alive' = alive \cup {m}, number' = [number EXCEPT ![m] = n]
        PROVE  \A x \in alive' : number'[x] # 0
    <3>1. n # 0
      BY DEF Numbers
    <3> QED
      BY <2>2, <3>1 DEF Numbered, TypeOK
  <2> QED
    BY <1>1, <1>2, <2>1, <2>2, Created DEF Numbered
<1>3. CASE ~CreateVM
  <2>1. alive' \subseteq alive /\ number' = number
    BY <1>3, OnlyCreateVMAdds
  <2> QED
    BY <1>1, <2>1 DEF Numbered
<1> QED
  BY <1>2, <1>3

\* Who has a name to itself keeps it while no VM is created ...
LEMMA OwnsKept ==
  ASSUME NEW m, Owns(m), alive' \subseteq alive, number' = number
  PROVE  Owns(m)'
BY DEF Owns

\* ... and, having a VM, also when one is.
LEMMA OwnsUnderCreation ==
  ASSUME TypeOK, Numbered, NEW x \in alive, CreateVM
  PROVE  Owns(x)'
<1>1. Numbered'
  <2> CreateVM => [Next]_vars
    BY DEF Next, Pass
  <2> QED
    BY NumberedStep
<1>2. x \in alive'
  BY Created
<1> QED
  BY <1>1, <1>2 DEF Numbered, NamesUnique, Owns

\* A VM that has a name owns it.
LEMMA OwnsOwn ==
  ASSUME NamesUnique, NEW m \in alive
  PROVE  Owns(m)
BY DEF NamesUnique, Owns

-----------------------------------------------------------------------------
\* A step while a finalizer is about to destroy destroys only what has the name.
LEMMA OnlyByName ==
  ASSUME [Next]_vars, At("destroy"), pc' # pc
  PROVE  alive \subseteq alive' \/ alive' = {x \in alive : number[x] # number[subject]}
<1>1. CASE Destroy
  BY <1>1 DEF Destroy
<1>2. CASE ~Destroy
  <2>1. ~Listing /\ ~CreateVM /\ \A m \in Machines : ~DropRequest(m) /\ ~Requeue(m)
    BY ListingFrame, RequestFrame DEF CreateVM, At
  <2>2. ~LoseVM
    BY DEF LoseVM
  <2> QED
    BY <1>2, <2>1, <2>2
    DEF Next, vars, machines, Pass, Listing, BeginTemplate, ListAgents, Adopt, Retire,
        Prepare, BeginFinalizer, WriteBack, WriteStatus, Release, DropEntry, Unfinalize,
        Crash, Environment, Cluster, SyncCache, Register, Bind, Unbind, AgentChanges,
        DeleteAgent, Scale, DeleteTemplate
<1> QED
  BY <1>1, <1>2

\* A finalizer that is about to destroy goes on from there or is over.
LEMMA DestroyOrOver ==
  ASSUME [Next]_vars, At("destroy")
  PROVE  UNCHANGED <<mem, subject, pc>> \/ ~At("destroy")'
<1> USE DEF At, Goto, copies, reading
<1>1. CASE Destroy \/ Crash
  BY <1>1 DEF Destroy, Crash, EndPass
<1>2. ASSUME NEW m \in Machines, DropRequest(m) \/ Requeue(m)
      PROVE  UNCHANGED <<mem, subject, pc>>
  BY <1>2, RequestFrame
<1>3. CASE SyncCache \/ Scale \/ DeleteTemplate \/ LoseVM \/ UNCHANGED vars
  BY <1>3 DEF SyncCache, Scale, DeleteTemplate, LoseVM, vars
<1>4. ASSUME NEW m \in Machines, Register(m) \/ Bind(m) \/ Unbind(m) \/ DeleteAgent(m)
      PROVE  UNCHANGED <<mem, subject, pc>>
  BY <1>4 DEF Register, Bind, Unbind, DeleteAgent, AgentChanges, unread
<1>5. ~Listing
  BY ListingFrame
<1> QED
  BY <1>1, <1>2, <1>3, <1>4, <1>5
  DEF Next, Pass, Listing, BeginTemplate, CreateVM, ListAgents, Adopt, Retire, Prepare,
      Handling, BeginFinalizer, Requested, WriteBack, WriteStatus, Release, DropEntry,
      Unfinalize, Environment, Cluster

\* Only the start of a finalizer leads there.
LEMMA DestroyBegun ==
  ASSUME [Next]_vars, ~At("destroy"), At("destroy")'
  PROVE  \E m \in Machines : BeginFinalizer(m)
<1> USE DEF At, Goto, copies, reading
<1>1. ~Listing
  BY ListingFrame
<1>2. \A m \in Machines : ~DropRequest(m) /\ ~Requeue(m)
  BY RequestFrame
<1>3. ~WriteBack /\ ~WriteStatus /\ ~Release /\ ~Unfinalize /\ ~Crash
  BY DEF WriteBack, WriteStatus, Release, Unfinalize, Crash, EndPass
<1>4. \A m \in Machines : ~Adopt(m) /\ ~Retire(m) /\ ~Prepare(m)
  BY DEF Adopt, Retire, Prepare, NextAgent
<1>5. \A m \in Machines : ~Register(m) /\ ~Bind(m) /\ ~Unbind(m) /\ ~DeleteAgent(m)
  BY DEF Register, Bind, Unbind, DeleteAgent, AgentChanges, unread
<1> QED
  BY <1>1, <1>2, <1>3, <1>4, <1>5
  DEF Next, vars, Pass, Listing, BeginTemplate, CreateVM, ListAgents, Destroy, DropEntry,
      Environment, Cluster, SyncCache, Scale, DeleteTemplate, LoseVM

\* The machines of a list have names, each its own.
Distinct(list) ==
  \A x, y \in list : number[x] # 0 /\ (number[x] = number[y] => x = y)

\* So it is in every copy of the status, and the finalizer that goes by a copy is
\* about a machine that this copy lists.
ListsInv ==
  /\ TypeOK /\ Numbered
  /\ Distinct(stored.listed) /\ Distinct(cached.listed) /\ Distinct(mem.listed)
  /\ At("destroy") => mem.listed = {} \/ subject \in mem.listed

\* A step leaves the names alone that there are.
LEMMA DistinctKept ==
  ASSUME TypeOK, [Next]_vars, NEW list \in SUBSET Machines, Distinct(list)
  PROVE  Distinct(list)'
<1>1. CASE CreateVM
  <2>1. CASE UNCHANGED number
    BY <2>1 DEF Distinct
  <2>2. ASSUME NEW m \in Machines, NEW n \in Numbers,
               number[m] = 0, number' = [number EXCEPT ![m] = n]
        PROVE  Distinct(list)'
    <3>1. \A x \in list : number'[x] = number[x]
      BY <2>2 DEF Distinct, TypeOK
    <3> QED
      BY <3>1 DEF Distinct
  <2> QED
    BY <1>1, <2>1, <2>2, Created
<1>2. CASE ~CreateVM
  BY <1>2, OnlyCreateVMAdds DEF Distinct
<1> QED
  BY <1>1, <1>2

\* A list that a step writes is part of one there was, or of the VMs there are.
LEMMA ListsWritten ==
  ASSUME TypeOK, [Next]_vars,
         NEW list \in {stored'.listed, cached'.listed, mem'.listed}
  PROVE  \E from \in {stored.listed, cached.listed, mem.listed, alive} : list \subseteq from
<1> USE DEF TypeOK, Template, NoTemplate, machines, store, copies, reading, loop
<1>1. CASE BeginTemplate
  BY <1>1 DEF BeginTemplate
<1>2. CASE Listing
  BY <1>2, ListingFrame
<1>3. CASE CreateVM
  BY <1>3 DEF CreateVM
<1>4. CASE ListAgents
  BY <1>4 DEF ListAgents
<1>5. ASSUME NEW m \in Machines, Adopt(m) \/ Retire(m) \/ Prepare(m)
      PROVE  \E from \in {stored.listed, cached.listed, mem.listed, alive} : list \subseteq from
  BY <1>5 DEF Adopt, Retire, Prepare
<1>6. CASE WriteBack \/ WriteStatus
  <2>1. StoreStatus => stored'.listed = mem.listed
    BY DEF StoreStatus
  <2>2. cached' = cached /\ (mem' = mem \/ mem' = NoTemplate)
    BY <1>6 DEF WriteBack, WriteStatus, EndPass
  <2>3. stored' = stored \/ StoreStatus
    BY <1>6 DEF WriteBack, WriteStatus
  <2>4. \/ list \in {stored.listed, cached.listed, mem.listed}
        \/ list = {}
    BY <2>1, <2>2, <2>3
  <2> QED
    BY <2>4
<1>7. CASE Release
  BY <1>7 DEF Release, EndPass
<1>8. ASSUME NEW m \in Machines, DropRequest(m) \/ Requeue(m)
      PROVE  \E from \in {stored.listed, cached.listed, mem.listed, alive} : list \subseteq from
  BY <1>8, RequestFrame
<1>9. ASSUME NEW m \in Machines, BeginFinalizer(m)
      PROVE  \E from \in {stored.listed, cached.listed, mem.listed, alive} : list \subseteq from
  BY <1>9 DEF BeginFinalizer
<1>10. CASE Destroy
  BY <1>10 DEF Destroy
<1>11. CASE DropEntry
  <2>1. cached' = cached /\ mem' = mem
    BY <1>11 DEF DropEntry
  <2>2. stored' = stored \/ stored'.listed = mem.listed \ (mem.named \cap {subject})
    BY <1>11 DEF DropEntry
  <2>3. \/ list \in {stored.listed, cached.listed, mem.listed}
        \/ list \subseteq mem.listed
    BY <2>1, <2>2
  <2> QED
    BY <2>3
<1>12. CASE Unfinalize \/ Crash
  BY <1>12 DEF Unfinalize, Crash, EndPass
<1>13. ASSUME NEW m \in Machines, Register(m) \/ Bind(m) \/ Unbind(m) \/ DeleteAgent(m)
       PROVE  \E from \in {stored.listed, cached.listed, mem.listed, alive} : list \subseteq from
  BY <1>13 DEF Register, Bind, Unbind, DeleteAgent, AgentChanges, unread
<1>14. CASE SyncCache \/ Scale \/ LoseVM \/ UNCHANGED vars
  BY <1>14 DEF SyncCache, Scale, LoseVM, vars
<1>15. CASE DeleteTemplate
  BY <1>15 DEF DeleteTemplate
<1> QED
  BY <1>1, <1>2, <1>3, <1>4, <1>5, <1>6, <1>7, <1>8, <1>9, <1>10, <1>11, <1>12, <1>13,
     <1>14, <1>15
  DEF Listing, Next, Pass, Environment, Cluster

LEMMA ListsInit == Init => ListsInv
<1> SUFFICES ASSUME Init  PROVE ListsInv
  OBVIOUS
<1>1. stored.listed = {} /\ cached = stored /\ mem.listed = {} /\ ~At("destroy")
  BY DEF Init, NoTemplate, At
<1> QED
  BY <1>1, TypeInit, NumberedInit DEF ListsInv, Distinct

LEMMA ListsStep == ListsInv /\ [Next]_vars => ListsInv'
<1> SUFFICES ASSUME ListsInv, [Next]_vars  PROVE ListsInv'
  OBVIOUS
<1> TypeOK /\ Numbered
  BY DEF ListsInv
<1>1. TypeOK' /\ Numbered'
  BY TypeStep, NumberedStep
<1>2. ASSUME NEW list \in {stored'.listed, cached'.listed, mem'.listed}
      PROVE  \A x, y \in list : number'[x] # 0 /\ (number'[x] = number'[y] => x = y)
  <2>1. PICK from \in {stored.listed, cached.listed, mem.listed, alive} : list \subseteq from
    BY <1>2, ListsWritten
  <2>2. Distinct(alive)
    BY DEF Numbered, NamesUnique, Distinct
  <2>3. Distinct(from) /\ from \in SUBSET Machines
    BY <2>2 DEF ListsInv, TypeOK, Template
  <2>4. Distinct(from)'
    BY <2>3, DistinctKept
  <2> QED
    BY <2>1, <2>4 DEF Distinct
<1>3. (At("destroy") => mem.listed = {} \/ subject \in mem.listed)'
  <2>1. CASE At("destroy")
    <3>1. CASE UNCHANGED <<mem, subject, pc>>
      BY <3>1 DEF ListsInv, At
    <3>2. CASE ~UNCHANGED <<mem, subject, pc>>
      BY <2>1, <3>2, DestroyOrOver DEF At
    <3> QED
      BY <3>1, <3>2
  <2>2. CASE ~At("destroy")
    <3>1. ASSUME NEW m \in Machines, BeginFinalizer(m), At("destroy")'
          PROVE  mem'.listed = {} \/ subject' \in mem'.listed
      <4>1. CASE TemplateFound
        <5>1. m \in cached.named
          BY <3>1, <4>1 DEF BeginFinalizer, AfterLookup, VMKnown, Goto, At
        <5> QED
          BY <3>1, <4>1, <5>1 DEF BeginFinalizer, TypeOK
      <4>2. CASE ~TemplateFound
        BY <3>1, <4>2 DEF BeginFinalizer, NoTemplate
      <4> QED
        BY <4>1, <4>2
    <3>2. At("destroy")' => \E m \in Machines : BeginFinalizer(m)
      BY <2>2, DestroyBegun
    <3> QED
      BY <3>1, <3>2
  <2> QED
    BY <2>1, <2>2
<1> QED
  BY <1>1, <1>2, <1>3 DEF ListsInv, Distinct

\* Whatever fails, is lost, stale or repeated, and whoever deletes what: a VM that
\* the status lists is destroyed only for its own Agent.
THEOREM ListedVMsSafe == Spec => ListedVMsKept
<1>1. ListsInv /\ [Next]_vars
        => (At("destroy") /\ pc' # pc => (alive \ alive') \cap mem.listed \subseteq {subject})
  <2> SUFFICES ASSUME ListsInv, [Next]_vars, At("destroy"), pc' # pc,
                      NEW x \in alive \ alive', x \in mem.listed
               PROVE  x = subject
    OBVIOUS
  <2>1. number[x] = number[subject]
    BY OnlyByName
  <2> QED
    BY <2>1 DEF ListsInv, Distinct
<1> QED
  BY <1>1, ListsInit, ListsStep, PTL DEF Spec, ListedVMsKept

-----------------------------------------------------------------------------
\* When it destroys no other VM at all.  First: the finalizer finds the template, and no status is lost.

\* The steps of a pass over the template.
TemplateSteps == {"vms", "create", "writeBack", "agentList", "agents", "adopted", "status", "release"}

\* VMs may yet be created: the template is live, or a pass began when it was.
MayCreate == stored.phase = "live" \/ (pc \in {"vms", "create"} /\ mem.phase = "live")

\* The status lists nobody whose name has gone to another machine and, as long
\* as names can be handed out, no machine that is gone: but the one the
\* finalizer has just destroyed.
Entries ==
  /\ \A m \in stored.listed : Owns(m)
  /\ MayCreate => \A m \in stored.listed : m \in alive \/ (At("drop") /\ m = subject)

\* What a pass over the template has in memory.
ListInv ==
  /\ pc \in TemplateSteps => stored.phase # "gone"
  /\ pc \in {"vms", "create"} =>
       IF mem.phase = "live" THEN mem.listed \subseteq alive ELSE At("vms") /\ todo = 0
  /\ pc \in {"vms", "create", "writeBack"} /\ memFresh => mem = stored
  /\ pc \in {"agentList", "agents", "adopted"} => mem.phase = "live"
  /\ pc \in {"agentList", "agents", "adopted", "status"} => mem.listed \subseteq alive
  /\ pc \in {"status", "release"} /\ mem.phase = "deleting" => mem.listed = alive
  /\ At("release") => mem.phase = "deleting" /\ mem.listed = {}

\* What a finalizer has in memory, and that the name it goes by is still that
\* of its machine.
FinalizerInv ==
  /\ pc \in {"destroy", "drop"} =>
       /\ Owns(subject)
       /\ stored.phase = "live" => memFresh /\ mem.phase # "gone"
       /\ mem.phase # "gone" => subject \in mem.named /\ (memFresh => mem = stored)
  /\ At("drop") => mem.phase # "gone"

\* The cache is either known to lag or right, and a template goes last.
StoreInv ==
  /\ cacheFresh => cached = stored
  /\ stored.phase = "gone" => alive = {}

OwnInv == TypeOK /\ Numbered /\ Entries /\ ListInv /\ FinalizerInv /\ StoreInv

LEMMA OwnInit == Init => OwnInv
<1> SUFFICES ASSUME Init  PROVE OwnInv
  OBVIOUS
<1>1. stored.listed = {} /\ stored.phase = "live" /\ pc = "idle" /\ cached = stored
  BY DEF Init
<1>2. Entries /\ ListInv /\ FinalizerInv /\ StoreInv
  BY <1>1 DEF Entries, ListInv, FinalizerInv, StoreInv, TemplateSteps, At
<1> QED
  BY <1>2, TypeInit, NumberedInit DEF OwnInv

\* A step that leaves machines, template and pass alone.
LEMMA OwnSame ==
  ASSUME OwnInv, UNCHANGED <<alive, number, stored, pc, mem, memFresh, subject, todo>>,
         (cacheFresh => cached = stored)'
  PROVE  Entries' /\ ListInv' /\ FinalizerInv' /\ StoreInv'
<1>1. UNCHANGED MayCreate /\ \A m : Owns(m)' <=> Owns(m)
  BY DEF MayCreate, Owns, At
<1> QED
  BY <1>1 DEF OwnInv, Entries, ListInv, FinalizerInv, StoreInv, At

\* The end of a pass.
LEMMA OwnIdle ==
  ASSUME OwnInv, pc # "drop", pc' = "idle", UNCHANGED <<alive, number, stored>>,
         (cacheFresh => cached = stored)'
  PROVE  Entries' /\ ListInv' /\ FinalizerInv' /\ StoreInv'
<1>1. MayCreate' => MayCreate
  BY DEF MayCreate, At
<1>2. \A m : Owns(m)' <=> Owns(m)
  BY DEF Owns
<1> QED
  BY <1>1, <1>2 DEF OwnInv, Entries, ListInv, FinalizerInv, StoreInv, At, TemplateSteps

\* The list a listing hands on is that of the folder, or the one that was read.
LEMMA ListingKeepsLists ==
  ASSUME OwnInv, Listing
  PROVE  ListInv'
<1> USE DEF At, Goto
<1> TypeOK /\ ListInv
  BY DEF OwnInv
<1>1. UNCHANGED <<alive, stored, memFresh>> /\ pc \in {"vms", "create"}
  BY ListingFrame
<1>2. CASE RebuildList
  <2>1. /\ mem'.phase = mem.phase /\ mem'.listed = alive
        /\ pc' = IF mem.phase = "live" THEN "agentList" ELSE "status"
    BY <1>2 DEF RebuildList, TypeOK, Template
  <2> QED
    BY <1>1, <2>1 DEF ListInv, TemplateSteps
<1>3. ASSUME pc' = "writeBack", UNCHANGED mem
      PROVE  ListInv'
  BY <1>1, <1>3 DEF ListInv, TemplateSteps
<1>4. ASSUME TooFew, UNCHANGED mem, pc' \in {"create", "agentList"}, pc = "vms"
      PROVE  ListInv'
  <2>1. todo # 0
    BY <1>4, AliveFinite DEF TooFew
  <2> QED
    BY <1>1, <1>4, <2>1 DEF ListInv, TemplateSteps
<1> QED
  BY <1>2, <1>3, <1>4 DEF Listing, ListVMs, StopAtQuota, ScaleUp, Refresh, GiveUp

LEMMA OwnStep ==
  ASSUME SameNamespace, {"lag", "loseVM", "statusWrite", "crash"} \cap Kinds = {}
  PROVE  OwnInv /\ [Next]_vars => OwnInv'
<1> SUFFICES ASSUME OwnInv, [Next]_vars
             PROVE  Entries' /\ ListInv' /\ FinalizerInv' /\ StoreInv'
  BY TypeStep, NumberedStep DEF OwnInv
<1> USE DEF At, Goto, machines, store, copies, reading, loop
<1> TypeOK /\ Numbered /\ Entries /\ ListInv /\ FinalizerInv /\ StoreInv
  BY DEF OwnInv
<1>1. CASE BeginTemplate
  <2>1. cacheFresh /\ cached = stored
    BY <1>1 DEF BeginTemplate, ReadTemplate, Disturb, StoreInv
  <2>2. \A m : Owns(m)' <=> Owns(m)
    BY <1>1 DEF BeginTemplate, Owns
  <2>3. Entries'
    BY <1>1, <2>1, <2>2 DEF BeginTemplate, Entries, MayCreate
  <2>4. ListInv'
    BY <1>1, <2>1 DEF BeginTemplate, Entries, MayCreate, ListInv
  <2> QED
    BY <1>1, <2>3, <2>4 DEF BeginTemplate, FinalizerInv, StoreInv
<1>2. CASE CreateVM
  <2>1. /\ pc = "create" /\ alive \subseteq alive'
        /\ UNCHANGED <<stored, cached, cacheFresh, pc, mem, memFresh, subject>>
    BY <1>2, Created DEF CreateVM
  <2>2. \A m \in stored.listed : m \in alive
    BY <2>1 DEF Entries, MayCreate, ListInv
  <2>3. \A m \in stored.listed : Owns(m)' /\ m \in alive'
    BY <1>2, <2>1, <2>2, OwnsUnderCreation
  <2>4. Entries'
    BY <2>1, <2>3 DEF Entries
  <2>5. ListInv'
    BY <2>1 DEF ListInv, TemplateSteps
  <2> QED
    BY <2>1, <2>4, <2>5 DEF FinalizerInv, StoreInv, ListInv, TemplateSteps
<1>3. CASE Listing
  <2>1. \A m : Owns(m)' <=> Owns(m)
    BY <1>3, ListingFrame DEF Owns
  <2>2. MayCreate' => MayCreate
    <3>1. mem'.phase = mem.phase
      BY <1>3, ListingFrame DEF TypeOK, Template
    <3> QED
      BY <1>3, <3>1, ListingFrame DEF MayCreate
  <2>3. Entries'
    BY <1>3, <2>1, <2>2, ListingFrame DEF Entries
  <2>4. ListInv'
    BY <1>3, ListingKeepsLists
  <2> QED
    BY <1>3, <2>3, <2>4, ListingFrame DEF FinalizerInv, StoreInv
<1>4. ASSUME ListAgents \/ \E m \in Machines : Adopt(m) \/ Retire(m) \/ Prepare(m)
      PROVE  Entries' /\ ListInv' /\ FinalizerInv' /\ StoreInv'
  <2>1. /\ UNCHANGED <<alive, number, stored, cached, cacheFresh>>
        /\ pc \in {"agentList", "agents", "adopted"}
        /\ pc' \in {"agents", "adopted", "status"}
    BY <1>4 DEF ListAgents, Adopt, Retire, Prepare, NextAgent, Handling
  <2>2. mem'.phase = mem.phase /\ mem'.listed = mem.listed
    BY <1>4 DEF ListAgents, Adopt, Retire, Prepare, TypeOK, Template
  <2>3. \A m : Owns(m)' <=> Owns(m)
    BY <2>1 DEF Owns
  <2>4. Entries'
    BY <2>1, <2>3 DEF Entries, MayCreate
  <2>5. ListInv'
    BY <2>1, <2>2 DEF ListInv, TemplateSteps
  <2> QED
    BY <2>1, <2>4, <2>5 DEF FinalizerInv, StoreInv
<1>5. CASE WriteStatus
  <2> USE DEF StoreStatus
  <2>1. CASE EndPass /\ UNCHANGED <<stored, cacheFresh>>
    BY <1>5, <2>1, OwnIdle DEF WriteStatus, EndPass, StoreInv
  <2>2. CASE /\ stored' = [stored EXCEPT !.listed = mem.listed, !.named = mem.named]
             /\ cacheFresh' = FALSE
             /\ IF mem.phase = "deleting" /\ mem.listed = {}
                THEN Goto("release") /\ UNCHANGED copies ELSE EndPass
    <3>1. /\ stored'.phase = stored.phase /\ stored'.listed = mem.listed
          /\ cacheFresh' = FALSE /\ UNCHANGED <<alive, number>>
      BY <1>5, <2>2 DEF WriteStatus, TypeOK, Template
    <3>2. \A m \in mem.listed : m \in alive /\ Owns(m)'
      BY <1>5, <3>1, OwnsOwn, OwnsKept DEF WriteStatus, ListInv, Numbered
    <3>3. Entries'
      BY <3>1, <3>2 DEF Entries
    <3>4. CASE pc' = "release" /\ UNCHANGED copies /\ mem.phase = "deleting" /\ mem.listed = {}
      BY <1>5, <3>1, <3>3, <3>4
      DEF WriteStatus, ListInv, TemplateSteps, FinalizerInv, StoreInv
    <3>5. CASE EndPass
      BY <3>1, <3>3, <3>5 DEF EndPass, ListInv, TemplateSteps, FinalizerInv, StoreInv
    <3> QED
      BY <1>5, <2>2, <3>4, <3>5 DEF WriteStatus
  <2> QED
    BY <1>5, <2>1, <2>2 DEF WriteStatus
<1>6. CASE Release
  <2>1. CASE UNCHANGED stored
    BY <1>6, <2>1, OwnIdle DEF Release, EndPass, StoreInv
  <2>2. CASE ~UNCHANGED stored
    <3>1. /\ stored'.phase = "gone" /\ stored'.listed = stored.listed
          /\ cacheFresh' = FALSE /\ pc' = "idle" /\ UNCHANGED <<alive, number>>
      BY <1>6, <2>2 DEF Release, EndPass, TypeOK, Template
    <3>2. alive = {}
      BY <1>6 DEF Release, ListInv
    <3> QED
      BY <3>1, <3>2 DEF Entries, MayCreate, Owns, ListInv, TemplateSteps, FinalizerInv, StoreInv
  <2> QED
    BY <2>1, <2>2
<1>7. ASSUME NEW m \in Machines, BeginFinalizer(m)
      PROVE  Entries' /\ ListInv' /\ FinalizerInv' /\ StoreInv'
  <2>1. cacheFresh /\ cached = stored
    BY <1>7 DEF BeginFinalizer, ReadTemplate, Disturb, StoreInv
  <2>2. \A x : Owns(x)' <=> Owns(x)
    BY <1>7 DEF BeginFinalizer, Owns
  <2>3. Entries'
    BY <1>7, <2>2 DEF BeginFinalizer, Requested, AfterLookup, Entries, MayCreate
  <2>4. CASE stored.phase = "gone"
    <3>1. Owns(m)
      BY <2>4 DEF StoreInv, Owns
    <3>2. mem'.phase = "gone" /\ pc' # "drop"
      BY <1>7, <2>1, <2>4 DEF BeginFinalizer, TemplateFound, NoTemplate, AfterLookup
    <3> QED
      BY <1>7, <2>2, <2>3, <2>4, <3>1, <3>2
      DEF BeginFinalizer, AfterLookup, ListInv, TemplateSteps, FinalizerInv, StoreInv
  <2>5. CASE stored.phase # "gone"
    <3>1. TemplateFound /\ mem' = stored /\ memFresh' = TRUE /\ subject' = m
      BY <1>7, <2>1, <2>5 DEF BeginFinalizer, TemplateFound
    <3>2. pc' = "destroy" => m \in stored.named /\ Owns(m)
      BY <1>7, <2>1, <3>1 DEF BeginFinalizer, AfterLookup, VMKnown, Entries, TypeOK
    <3>3. FinalizerInv'
      BY <1>7, <2>2, <2>5, <3>1, <3>2 DEF BeginFinalizer, AfterLookup, FinalizerInv
    <3> QED
      BY <1>7, <2>3, <2>5, <3>3 DEF BeginFinalizer, AfterLookup, ListInv, TemplateSteps, StoreInv
  <2> QED
    BY <2>4, <2>5
<1>8. CASE Destroy
  <2>1. /\ alive' \subseteq alive
        /\ \A x \in alive : number[x] # number[subject] => x \in alive'
        /\ UNCHANGED <<number, stored, cached, cacheFresh, mem, memFresh, subject>>
        /\ pc' = IF mem.phase = "gone" THEN "unfinalize" ELSE "drop"
    BY <1>8 DEF Destroy
  <2>2. \A x : Owns(x) => Owns(x)'
    BY <2>1, OwnsKept
  <2>3. \A x \in alive : x \in alive' \/ x = subject
    BY <1>8, <2>1 DEF Destroy, FinalizerInv, Owns
  <2>4. Entries'
    BY <1>8, <2>1, <2>2, <2>3 DEF Destroy, Entries, MayCreate, FinalizerInv
  <2>5. FinalizerInv'
    BY <1>8, <2>1, <2>2 DEF Destroy, FinalizerInv
  <2> QED
    BY <2>1, <2>4, <2>5 DEF ListInv, TemplateSteps, StoreInv
<1>9. CASE DropEntry
  <2>1. UNCHANGED <<alive, number>> /\ pc' = "unfinalize"
    BY <1>9 DEF DropEntry
  <2>2. \A x : Owns(x)' <=> Owns(x)
    BY <2>1 DEF Owns
  <2>3. CASE memFresh
    <3>1. mem = stored /\ subject \in mem.named
      BY <1>9, <2>3 DEF DropEntry, FinalizerInv
    <3>2. /\ cacheFresh' = FALSE
          /\ stored' = [stored EXCEPT !.listed = stored.listed \ (stored.named \cap {subject}),
                                      !.named = stored.named \ {subject}]
      BY <1>9, <2>3, <3>1 DEF DropEntry, TemplateWritable, Disturb
    <3>3. stored'.phase = stored.phase /\ stored'.listed = stored.listed \ {subject}
      BY <3>1, <3>2 DEF TypeOK, Template
    <3>4. Entries'
      BY <1>9, <2>1, <2>2, <3>3 DEF DropEntry, Entries, MayCreate
    <3> QED
      BY <2>1, <3>2, <3>3, <3>4 DEF ListInv, TemplateSteps, FinalizerInv, StoreInv
  <2>4. CASE ~memFresh
    <3>1. UNCHANGED <<stored, cached, cacheFresh>> /\ stored.phase # "live"
      BY <1>9, <2>4 DEF DropEntry, TemplateWritable, FinalizerInv
    <3> QED
      BY <2>1, <2>2, <3>1 DEF Entries, MayCreate, ListInv, TemplateSteps, FinalizerInv, StoreInv
  <2> QED
    BY <2>3, <2>4
<1>10. CASE WriteBack
  <2>1. CASE UNCHANGED <<stored, cacheFresh>>
    BY <1>10, <2>1, OwnIdle DEF WriteBack, EndPass, StoreInv
  <2>2. CASE memFresh /\ StoreStatus
    <3>1. mem = stored
      BY <1>10, <2>2 DEF WriteBack, ListInv
    <3>2. stored' = stored /\ cacheFresh' = FALSE
      BY <2>2, <3>1 DEF StoreStatus, TypeOK, Template
    <3> QED
      BY <1>10, <3>2, OwnIdle DEF WriteBack, EndPass, StoreInv
  <2> QED
    BY <1>10, <2>1, <2>2 DEF WriteBack, TemplateWritable
<1>11. CASE Unfinalize
  BY <1>11, OwnIdle DEF Unfinalize, EndPass, StoreInv
<1>12. CASE SyncCache
  BY <1>12, OwnSame DEF SyncCache
<1>13. ASSUME NEW m \in Machines, Register(m) \/ Bind(m) \/ Unbind(m) \/ DeleteAgent(m)
       PROVE  Entries' /\ ListInv' /\ FinalizerInv' /\ StoreInv'
  BY <1>13, OwnSame DEF Register, Bind, Unbind, DeleteAgent, AgentChanges, unread, StoreInv
<1>14. CASE Scale \/ UNCHANGED vars
  BY <1>14, OwnSame DEF Scale, vars, StoreInv
<1>15. CASE DeleteTemplate
  <2>1. /\ stored'.phase = "deleting" /\ stored'.listed = stored.listed
        /\ stored.phase = "live" /\ cacheFresh' = FALSE /\ memFresh' = FALSE
        /\ UNCHANGED <<alive, number, pc, mem, subject, todo>>
    BY <1>15 DEF DeleteTemplate, TypeOK, Template
  <2>2. \A x : Owns(x)' <=> Owns(x)
    BY <2>1 DEF Owns
  <2> QED
    BY <2>1, <2>2 DEF Entries, MayCreate, ListInv, FinalizerInv, StoreInv
<1>16. ASSUME NEW m \in Machines, DropRequest(m) \/ Requeue(m)
       PROVE  Entries' /\ ListInv' /\ FinalizerInv' /\ StoreInv'
  BY <1>16, RequestFrame, OwnSame DEF StoreInv
<1>17. ~Crash /\ ~LoseVM
  BY DEF Crash, LoseVM, Disturb
<1> QED
  BY <1>1, <1>2, <1>3, <1>4, <1>5, <1>6, <1>7, <1>8, <1>9, <1>10, <1>11, <1>12, <1>13,
     <1>14, <1>15, <1>16, <1>17
  DEF Listing, Next, Pass, Environment, Cluster

\* The finalizer goes by the name in the status, which is handed out again, and
\* may have to be run again after it has destroyed the VM: when its own Update
\* fails, as often as it does.  All the same it destroys no VM but that of its
\* Agent, as long as no pass begins with a template that lags behind, no status
\* update fails and the process lives: then the entry has left the status before
\* the name can be handed out.
THEOREM DestroysOwnByStatus ==
  ASSUME SameNamespace, {"lag", "loseVM", "statusWrite", "crash"} \cap Kinds = {}
  PROVE  Spec => DestroysOnlyItsOwn
<1>1. OwnInv /\ [Next]_vars => OwnInv'
  BY OwnStep
<1>2. OwnInv /\ [Next]_vars => (At("destroy") /\ pc' # pc => alive \ alive' \subseteq {subject})
  BY OnlyByName DEF OwnInv, FinalizerInv, Owns, At
<1> QED
  BY <1>1, <1>2, OwnInit, PTL DEF Spec, DestroysOnlyItsOwn

-----------------------------------------------------------------------------
\* Second: the finalizer never has to be run again.

\* A finalizer holds the Agent as it is.
HoldsAgent ==
  pc \in {"destroy", "drop", "unfinalize"} =>
    subject \in agentFresh /\ subject \in Machines /\ agents[subject].phase = "deleting"

\* The Agent of a VM that is gone is gone, or about to be.
GoneTogether ==
  \A m \in Machines :
    agents[m].phase \in {"live", "deleting"} =>
      m \in alive \/ (subject = m /\ pc \in {"drop", "unfinalize"})

OnceInv == TypeOK /\ Numbered /\ SeenFresh /\ HoldsAgent /\ GoneTogether

LEMMA OnceInit == Init => OnceInv
<1> SUFFICES ASSUME Init  PROVE OnceInv
  OBVIOUS
<1>1. HoldsAgent /\ GoneTogether /\ SeenFresh
  BY DEF Init, HoldsAgent, GoneTogether, SeenFresh, NoAgent
<1> QED
  BY <1>1, TypeInit, NumberedInit DEF OnceInv

\* No VM goes, nobody who has a VM loses it.
LEMMA OnceKept ==
  ASSUME OnceInv, pc \notin {"drop", "unfinalize"} \/ UNCHANGED <<pc, subject>>,
         alive \subseteq alive',
         \A x \in Machines :
           agents'[x].phase \in {"live", "deleting"} =>
             x \in alive' \/ agents[x].phase \in {"live", "deleting"}
  PROVE  GoneTogether'
BY DEF OnceInv, GoneTogether

LEMMA OnceStep ==
  ASSUME {"loseVM", "agentWrite", "crash"} \cap Kinds = {}
  PROVE  OnceInv /\ [Next]_vars => OnceInv'
<1> SUFFICES ASSUME OnceInv, [Next]_vars  PROVE HoldsAgent' /\ GoneTogether'
  BY TypeStep, NumberedStep, FreshStep DEF OnceInv
<1> USE DEF At, Goto, machines, store, copies, reading, loop
<1> TypeOK /\ SeenFresh /\ HoldsAgent /\ GoneTogether
  BY DEF OnceInv
<1>1. CASE BeginTemplate \/ Listing \/ ListAgents \/ WriteBack \/ WriteStatus \/ Release
  <2>1. /\ UNCHANGED <<alive, agents>>
        /\ pc \notin {"drop", "unfinalize"}
        /\ pc' \notin {"destroy", "drop", "unfinalize"}
    BY <1>1, ListingFrame
    DEF BeginTemplate, ListAgents, WriteBack, WriteStatus, Release, EndPass
  <2> QED
    BY <2>1, OnceKept DEF HoldsAgent
<1>2. CASE CreateVM
  BY <1>2, Created, OnceKept DEF CreateVM, HoldsAgent
<1>3. ASSUME NEW m \in Machines, Adopt(m) \/ Prepare(m)
      PROVE  HoldsAgent' /\ GoneTogether'
  <2>1. /\ UNCHANGED alive
        /\ pc \notin {"drop", "unfinalize"}
        /\ pc' \notin {"destroy", "drop", "unfinalize"}
    BY <1>3 DEF Adopt, Prepare, Handling, NextAgent
  <2>2. ASSUME ~UNCHANGED agents
        PROVE  \A x \in Machines : agents'[x].phase = agents[x].phase
    <3>1. agents[m] = seen[m] /\ agents[m] \in Agent
      BY <1>3, <2>2 DEF Adopt, Prepare, AgentWritable, SeenFresh, TypeOK
    <3>2. PICK changed \in {[agents[m] EXCEPT !.adopted = TRUE], Prepared(agents[m])} :
            agents' = [agents EXCEPT ![m] = changed]
      BY <1>3, <2>2, <3>1 DEF Adopt, Prepare, UpdateAgent
    <3>3. changed.phase = agents[m].phase
      BY <3>1 DEF Prepared, Agent
    <3> QED
      BY <3>2, <3>3 DEF TypeOK
  <2>3. \A x \in Machines : agents'[x].phase = agents[x].phase
    BY <2>2
  <2> QED
    BY <2>1, <2>3, OnceKept DEF HoldsAgent
<1>4. ASSUME NEW m \in Machines, Retire(m)
      PROVE  HoldsAgent' /\ GoneTogether'
  <2>1. /\ UNCHANGED alive
        /\ pc \notin {"drop", "unfinalize"}
        /\ pc' \notin {"destroy", "drop", "unfinalize"}
    BY <1>4 DEF Retire, Handling, NextAgent
  <2>2. agents' = agents
          \/ (agents[m].phase = "live" /\ agents' = [agents EXCEPT ![m].phase = "deleting"])
    BY <1>4 DEF Retire
  <2>3. \A x \in Machines :
          agents'[x].phase = agents[x].phase \/ agents[x].phase = "live"
    BY <2>2 DEF TypeOK, Agent
  <2> QED
    BY <2>1, <2>3, OnceKept DEF HoldsAgent
<1>5. ASSUME NEW m \in Machines, BeginFinalizer(m)
      PROVE  HoldsAgent' /\ GoneTogether'
  <2>1. /\ UNCHANGED <<alive, agents>> /\ pc \notin {"drop", "unfinalize"}
        /\ subject' = m /\ agentFresh' = {m} /\ agents[m].phase = "deleting"
    BY <1>5 DEF BeginFinalizer, Requested
  <2>2. GoneTogether'
    BY <2>1, OnceKept
  <2> QED
    BY <2>1, <2>2 DEF HoldsAgent
<1>6. CASE Destroy
  <2>1. subject \in alive
    BY <1>6 DEF Destroy, HoldsAgent, GoneTogether
  <2>2. \A x \in alive : x \in alive' \/ x = subject
    BY <1>6, <2>1 DEF Destroy, OnceInv, Numbered, NamesUnique
  <2>3. UNCHANGED <<agents, subject, agentFresh>> /\ pc' \in {"drop", "unfinalize"}
    BY <1>6 DEF Destroy
  <2> QED
    BY <1>6, <2>2, <2>3 DEF Destroy, HoldsAgent, GoneTogether
<1>7. CASE DropEntry
  BY <1>7 DEF DropEntry, HoldsAgent, GoneTogether
<1>8. CASE Unfinalize
  <2>1. /\ agents' = [agents EXCEPT ![subject].phase = "gone"]
        /\ UNCHANGED alive /\ pc' = "idle"
    BY <1>8 DEF Unfinalize, EndPass, HoldsAgent, AgentWritable, Disturb
  <2>2. \A x \in Machines : x = subject \/ agents'[x] = agents[x]
    BY <2>1 DEF TypeOK
  <2>3. agents'[subject].phase = "gone"
    BY <1>8, <2>1 DEF Unfinalize, HoldsAgent, TypeOK, Agent
  <2> QED
    BY <2>1, <2>2, <2>3 DEF HoldsAgent, GoneTogether
<1>9. ASSUME NEW m \in Machines, Register(m) \/ Bind(m) \/ Unbind(m) \/ DeleteAgent(m)
      PROVE  HoldsAgent' /\ GoneTogether'
  <2>1. /\ UNCHANGED <<alive, pc, subject>> /\ agentFresh' = agentFresh \ {m}
        /\ \A x \in Machines : x # m => agents'[x] = agents[x]
    BY <1>9 DEF Register, Bind, Unbind, DeleteAgent, AgentChanges, unread, TypeOK
  <2>2. agents[m].phase = "live" \/ (agents[m].phase = "none" /\ m \in alive)
    BY <1>9 DEF Register, Bind, Unbind, Bound, DeleteAgent
  <2>3. HoldsAgent'
    BY <2>1, <2>2 DEF HoldsAgent
  <2> QED
    BY <2>1, <2>2, <2>3, OnceKept
<1>10. CASE SyncCache \/ Scale \/ DeleteTemplate \/ UNCHANGED vars
  <2>1. UNCHANGED <<alive, agents, pc, subject, agentFresh>>
    BY <1>10 DEF SyncCache, Scale, DeleteTemplate, vars
  <2> QED
    BY <2>1, OnceKept DEF HoldsAgent
<1>11. ASSUME NEW m \in Machines, DropRequest(m) \/ Requeue(m)
       PROVE  HoldsAgent' /\ GoneTogether'
  BY <1>11, RequestFrame, OnceKept DEF HoldsAgent
<1>12. ~Crash /\ ~LoseVM
  BY DEF Crash, LoseVM, Disturb
<1> QED
  BY <1>1, <1>2, <1>3, <1>4, <1>5, <1>6, <1>7, <1>8, <1>9, <1>10, <1>11, <1>12
  DEF Listing, Next, Pass, Environment, Cluster

\* Wherever the Agents live and whatever the finalizer learns the name from, it
\* destroys no VM but that of its Agent, as long as it gets through at the first
\* attempt (its Update is accepted, the process lives) and no VM is taken away
\* from an Agent by anybody else.
THEOREM DestroysOwnAtOnce ==
  ASSUME {"loseVM", "agentWrite", "crash"} \cap Kinds = {}
  PROVE  Spec => DestroysOnlyItsOwn
<1>1. OnceInv /\ [Next]_vars => OnceInv'
  BY OnceStep
<1>2. OnceInv /\ [Next]_vars => (At("destroy") /\ pc' # pc => alive \ alive' \subseteq {subject})
  <2> SUFFICES ASSUME OnceInv, [Next]_vars, At("destroy"), pc' # pc
               PROVE  alive \ alive' \subseteq {subject}
    OBVIOUS
  <2>1. subject \in alive
    BY DEF OnceInv, HoldsAgent, GoneTogether, At
  <2> QED
    BY <2>1, OnlyByName DEF OnceInv, Numbered, NamesUnique
<1> QED
  BY <1>1, <1>2, OnceInit, PTL DEF Spec, DestroysOnlyItsOwn
=============================================================================
