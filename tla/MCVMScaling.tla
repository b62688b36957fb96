---------------------------- MODULE MCVMScaling ----------------------------
(* VMScaling on small instances: which disturbances happen in which run.   *)
EXTENDS VMScaling, TLC

\* What users and administrators do.
UserKinds == {"scale", "poolDeletion", "ref", "test", "removeVM", "powerOff"}

\* Failing calls and restarts.
FaultKinds == {"connect", "poolRead", "labelWrite", "annotationWrite", "list", "iso",
               "create", "statusWrite", "crash"}

\* Everything but somebody else's VMs and VMs whose information cannot be read.
SeeingKinds == UserKinds \cup FaultKinds \cup {"squat"}

AllKinds == SeeingKinds \cup {"hide"}

\* With nobody taking the template's names.
SettleKinds == SeeingKinds \ {"squat"}

\* NodePools are interchangeable.
PoolSymmetry == Permutations(Pools)
=============================================================================
