------------------------------- MODULE Fleet -------------------------------
(***************************************************************************)
(* What the controller promises about the VMs of one template, whatever    *)
(* its passes, its failures and its restarts are: VMs come and go one at a *)
(* time, each with a number of its own among the slots the template has,   *)
(* and as long as fewer exist than are wanted, VMs keep being added.       *)
(* VMScaling implements it from the side of the creations, AgentCleanup    *)
(* from the side of the removals.                                          *)
(***************************************************************************)
EXTENDS Integers, FiniteSets

CONSTANT
  Slots     \* the numbers of the VMs the template may have

VARIABLES
  vms,      \* the numbers of the VMs that exist
  wanted    \* how many VMs there should be

Init == vms = {}

\* A VM is created in a free slot.
Add == \E n \in Slots \ vms : vms' = vms \cup {n}

\* A VM goes, and its number is free again.
Remove == \E n \in vms : vms' = vms \ {n}

Spec == Init /\ [][Add \/ Remove]_vms

\* A VM is created because there are too few.
Grow == Cardinality(vms) < wanted /\ Add

FairSpec == Spec /\ WF_vms(Grow)
=============================================================================
