------------------------------ MODULE Capacity ------------------------------
(***************************************************************************)
(* How many VMs fit: CalculateEstimatedVMCapacity of                       *)
(* pkg/vsphere/resources.go and the figures it is given.  Quantities are   *)
(* integers, and so are the code's divisions; its conversions to int32 are *)
(* left out, since only a datastore of 2^31 VMs could overflow them.       *)
(***************************************************************************)
EXTENDS Integers

\* What there is of a resource: all of it, what remains of it when some is
\* kept for failures, and what is used.
Amount == [total: Nat, effective: Nat, used: Nat]

\* Datastore and compute utilization: free GB, MHz and MB.
Figures == [disk: Nat, cpu: Amount, memory: Amount]

\* The sizes that a VM template asks for, 0 where it leaves them out.  (The API
\* would also take negative ones, of which no VM can be made.)
VMSize == [disk: Nat, cpus: Nat, memory: Nat]

OrDefault(size, default) == IF size = 0 THEN default ELSE size

DiskOf(vm)   == OrDefault(vm.disk, 120)
CpuOf(vm)    == OrDefault(vm.cpus, 2) * 2000
MemoryOf(vm) == OrDefault(vm.memory, 4096)

Capacity(amount, effectively) == IF effectively THEN amount.effective ELSE amount.total

\* Slip: more may be used than there effectively is.
Unclamped(amount, effectively) == Capacity(amount, effectively) - amount.used

Free(amount, effectively) ==
  LET left == Capacity(amount, effectively) - amount.used
  IN  IF left < 0 THEN 0 ELSE left

Fitting(free, size) == free \div size

Least(m, n) == IF n < m THEN n ELSE m

\* Slip: the memory is not looked at.
EstimateByCpu(figures, vm, effectively) ==
  Least(Fitting(figures.disk, DiskOf(vm)), Fitting(Free(figures.cpu, effectively), CpuOf(vm)))

Estimate(figures, vm, effectively) ==
  Least(Least(Fitting(figures.disk, DiskOf(vm)),
              Fitting(Free(figures.cpu, effectively), CpuOf(vm))),
        Fitting(Free(figures.memory, effectively), MemoryOf(vm)))

-----------------------------------------------------------------------------
\* What an estimate should be, without a division: k more VMs fit.
Fits(k, figures, vm, effectively) ==
  /\ k * DiskOf(vm) <= figures.disk
  /\ k = 0 \/ figures.cpu.used + k * CpuOf(vm) <= Capacity(figures.cpu, effectively)
  /\ k = 0 \/ figures.memory.used + k * MemoryOf(vm) <= Capacity(figures.memory, effectively)
=============================================================================
