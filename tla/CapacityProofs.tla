--------------------------- MODULE CapacityProofs ---------------------------
(* The estimate is right for all figures and sizes.                        *)
EXTENDS Capacity, TLAPS

\* An integer division gives the largest number of times the size goes into
\* what is free.
LEMMA Quotient ==
  ASSUME NEW free \in Nat, NEW size \in Nat \ {0}
  PROVE  /\ Fitting(free, size) \in Nat
         /\ Fitting(free, size) * size <= free
         /\ free < (Fitting(free, size) + 1) * size
BY SMTT(30) DEF Fitting

\* A smaller number of VMs takes no more than a larger one.
LEMMA Monotone ==
  ASSUME NEW k \in Nat, NEW n \in Nat, NEW size \in Nat, k <= n
  PROVE  k * size <= n * size
BY SMTT(30)

\* What a VM takes is never nothing: the code's tests for that never fail.
LEMMA SizesPositive ==
  ASSUME NEW vm \in VMSize
  PROVE  DiskOf(vm) \in Nat \ {0} /\ CpuOf(vm) \in Nat \ {0} /\ MemoryOf(vm) \in Nat \ {0}
BY DEF VMSize, DiskOf, CpuOf, MemoryOf, OrDefault

\* What is free is what VMs of a positive size may take without exceeding the
\* capacity.
LEMMA FreeExact ==
  ASSUME NEW amount \in Amount, NEW effectively \in BOOLEAN, NEW need \in Nat
  PROVE  /\ Free(amount, effectively) \in Nat
         /\ need > 0 => (need <= Free(amount, effectively)
                           <=> amount.used + need <= Capacity(amount, effectively))
BY DEF Free, Capacity, Amount

\* k VMs fit when k times each size is free.
LEMMA FitsByFree ==
  ASSUME NEW k \in Nat, NEW figures \in Figures, NEW vm \in VMSize,
         NEW effectively \in BOOLEAN
  PROVE  Fits(k, figures, vm, effectively) <=>
           /\ k * DiskOf(vm) <= figures.disk
           /\ k * CpuOf(vm) <= Free(figures.cpu, effectively)
           /\ k * MemoryOf(vm) <= Free(figures.memory, effectively)
<1>1. figures.cpu \in Amount /\ figures.memory \in Amount /\ figures.disk \in Nat
  BY DEF Figures
<1>2. /\ Free(figures.cpu, effectively) \in Nat
      /\ Free(figures.memory, effectively) \in Nat
  BY <1>1, FreeExact
<1>3. CASE k = 0
  <2>1. 0 * DiskOf(vm) = 0 /\ 0 * CpuOf(vm) = 0 /\ 0 * MemoryOf(vm) = 0
    BY SizesPositive
  <2> QED BY <1>1, <1>2, <1>3, <2>1 DEF Fits
<1>4. CASE k # 0
  <2>1. ASSUME NEW size \in Nat \ {0} PROVE k * size \in Nat /\ k * size > 0
    <3>1. 1 * size <= k * size
      BY <1>4, Monotone
    <3>2. k * size \in Nat
      OBVIOUS
    <3> QED BY <3>1, <3>2
  <2>2. /\ k * CpuOf(vm) \in Nat /\ k * CpuOf(vm) > 0
        /\ k * MemoryOf(vm) \in Nat /\ k * MemoryOf(vm) > 0
    BY <2>1, SizesPositive
  <2>3. k * CpuOf(vm) <= Free(figures.cpu, effectively)
          <=> figures.cpu.used + k * CpuOf(vm) <= Capacity(figures.cpu, effectively)
    BY <1>1, <2>2, FreeExact
  <2>4. k * MemoryOf(vm) <= Free(figures.memory, effectively)
          <=> figures.memory.used + k * MemoryOf(vm) <= Capacity(figures.memory, effectively)
    BY <1>1, <2>2, FreeExact
  <2> QED BY <1>4, <2>3, <2>4 DEF Fits
<1> QED BY <1>3, <1>4

\* "EstimatedVMCapacity: Number of VMs that can be created based on available
\* resources" (docs/resource-utilization.md:34): so many VMs fit, and not one
\* more, whatever the figures and the sizes are.
THEOREM EstimateExact ==
  ASSUME NEW figures \in Figures, NEW vm \in VMSize, NEW effectively \in BOOLEAN
  PROVE  /\ Estimate(figures, vm, effectively) \in Nat
         /\ Fits(Estimate(figures, vm, effectively), figures, vm, effectively)
         /\ ~Fits(Estimate(figures, vm, effectively) + 1, figures, vm, effectively)
<1> DEFINE byDisk   == Fitting(figures.disk, DiskOf(vm))
           byCpu    == Fitting(Free(figures.cpu, effectively), CpuOf(vm))
           byMemory == Fitting(Free(figures.memory, effectively), MemoryOf(vm))
           k        == Estimate(figures, vm, effectively)
<1>1. figures.cpu \in Amount /\ figures.memory \in Amount /\ figures.disk \in Nat
  BY DEF Figures
<1>2. /\ Free(figures.cpu, effectively) \in Nat
      /\ Free(figures.memory, effectively) \in Nat
  BY <1>1, FreeExact
<1>3. /\ DiskOf(vm) \in Nat \ {0} /\ CpuOf(vm) \in Nat \ {0}
      /\ MemoryOf(vm) \in Nat \ {0}
  BY SizesPositive
<1>4. /\ byDisk \in Nat /\ byDisk * DiskOf(vm) <= figures.disk
      /\ figures.disk < (byDisk + 1) * DiskOf(vm)
  BY <1>1, <1>3, Quotient
<1>5. /\ byCpu \in Nat /\ byCpu * CpuOf(vm) <= Free(figures.cpu, effectively)
      /\ Free(figures.cpu, effectively) < (byCpu + 1) * CpuOf(vm)
  BY <1>2, <1>3, Quotient
<1>6. /\ byMemory \in Nat /\ byMemory * MemoryOf(vm) <= Free(figures.memory, effectively)
      /\ Free(figures.memory, effectively) < (byMemory + 1) * MemoryOf(vm)
  BY <1>2, <1>3, Quotient
<1>7. /\ k \in Nat /\ k <= byDisk /\ k <= byCpu /\ k <= byMemory
      /\ k = byDisk \/ k = byCpu \/ k = byMemory
  <2> HIDE DEF byDisk, byCpu, byMemory
  <2>1. k = Least(Least(byDisk, byCpu), byMemory)
    BY DEF Estimate, byDisk, byCpu, byMemory
  <2> HIDE DEF k
  <2> QED BY <2>1, <1>4, <1>5, <1>6 DEF Least
<1> HIDE DEF byDisk, byCpu, byMemory, k
<1>8. Fits(k, figures, vm, effectively)
  <2>1. /\ k * DiskOf(vm) <= byDisk * DiskOf(vm)
        /\ k * CpuOf(vm) <= byCpu * CpuOf(vm)
        /\ k * MemoryOf(vm) <= byMemory * MemoryOf(vm)
    BY <1>3, <1>4, <1>5, <1>6, <1>7, Monotone
  <2>2. /\ k * DiskOf(vm) \in Nat /\ byDisk * DiskOf(vm) \in Nat
        /\ k * CpuOf(vm) \in Nat /\ byCpu * CpuOf(vm) \in Nat
        /\ k * MemoryOf(vm) \in Nat /\ byMemory * MemoryOf(vm) \in Nat
    BY <1>3, <1>4, <1>5, <1>6, <1>7
  <2>3. /\ k * DiskOf(vm) <= figures.disk
        /\ k * CpuOf(vm) <= Free(figures.cpu, effectively)
        /\ k * MemoryOf(vm) <= Free(figures.memory, effectively)
    BY <2>1, <2>2, <1>1, <1>2, <1>4, <1>5, <1>6
  <2> QED BY <2>3, <1>7, FitsByFree
<1>9. ~Fits(k + 1, figures, vm, effectively)
  <2>1. \/ ~(k + 1) * DiskOf(vm) <= figures.disk
        \/ ~(k + 1) * CpuOf(vm) <= Free(figures.cpu, effectively)
        \/ ~(k + 1) * MemoryOf(vm) <= Free(figures.memory, effectively)
    <3>1. CASE k = byDisk
      <4>1. (k + 1) * DiskOf(vm) \in Nat
        BY <1>3, <1>7
      <4> QED BY <3>1, <4>1, <1>1, <1>4
    <3>2. CASE k = byCpu
      <4>1. (k + 1) * CpuOf(vm) \in Nat
        BY <1>3, <1>7
      <4> QED BY <3>2, <4>1, <1>2, <1>5
    <3>3. CASE k = byMemory
      <4>1. (k + 1) * MemoryOf(vm) \in Nat
        BY <1>3, <1>7
      <4> QED BY <3>3, <4>1, <1>2, <1>6
    <3> QED BY <3>1, <3>2, <3>3, <1>7
  <2>2. k + 1 \in Nat
    BY <1>7
  <2> QED BY <2>1, <2>2, FitsByFree
<1> QED BY <1>7, <1>8, <1>9 DEF k
=============================================================================
