----------------------------- MODULE PmmProofs -----------------------------
(* Theorems about Pmm, for any number of frames and any memory map.        *)
EXTENDS Pmm, WellFoundedInduction, TLAPS, FiniteSetTheorems

----------------------------------------------------------------------------
(* Arithmetic of frames and regions.                                       *)

(* A non-empty set of naturals has a least element: a search of the kernel *)
(* that has a hit returns one.                                             *)
LEMMA LeastFacts ==
  ASSUME NEW S \in SUBSET Nat, S # {}
  PROVE  Least(S) \in S /\ \A y \in S : Least(S) <= y
  <1> DEFINE R == {ss \in Nat \X Nat : ss[1] < ss[2]}
  <1>1. IsWellFoundedOn(R, Nat)
    BY NatLessThanWellFounded DEF OpToRel
  <1>2. PICK x \in S : \A y \in S : ~ (<<y, x>> \in R)
    <2> HIDE DEF R
    <2> QED BY <1>1, WFMin, Zenon
  <1>3. ASSUME NEW y \in S PROVE x <= y
    <2>1. <<y, x>> \in Nat \X Nat
      OBVIOUS
    <2>2. y < x => <<y, x>> \in R
      BY <2>1
    <2> QED BY <2>2, <1>2
  <1> QED BY <1>3, Zenon DEF Least

LEMMA DivLess ==
  ASSUME NEW a \in Nat, NEW p \in Nat \ {0}, NEW f \in Nat
  PROVE  /\ f < a \div p <=> f * p + p <= a
         /\ a \div p <= f <=> a < f * p + p
  OBVIOUS

LEMMA DivMul ==
  ASSUME NEW q \in Nat, NEW p \in Nat \ {0}
  PROVE  (q * p) \div p = q
  OBVIOUS

(* Rounding up, where the sum does not wrap.                               *)
LEMMA AlignFacts ==
  ASSUME NEW a \in Nat, a + PAGE_SIZE <= AddressSpace
  PROVE  ADDR_TO_PFN(PAGE_ALIGN_UP(a)) = (a + PAGE_SIZE - 1) \div PAGE_SIZE
  <1> USE PmmAssumption
  <1>1. PICK x \in Nat : x = a + PAGE_SIZE - 1
    OBVIOUS
  <1>2. x % AddressSpace = x
    BY <1>1
  <1>3. PICK q \in Nat : q = x \div PAGE_SIZE
    BY <1>1
  <1>4. PAGE_ALIGN_UP(a) = q * PAGE_SIZE
    BY <1>1, <1>2, <1>3 DEF PAGE_ALIGN_UP
  <1> QED BY <1>1, <1>3, <1>4, DivMul DEF ADDR_TO_PFN

(* A free region is rounded inwards: its frames lie wholly inside it.      *)
LEMMA RegionFreeFacts ==
  ASSUME NEW base \in Nat, NEW length \in Nat, TypeOK,
         base + length + PAGE_SIZE <= AddressSpace
  PROVE  \A f \in Valid :
           f \in RegionFree(base, length) <=>
             base <= f * PAGE_SIZE /\ (f + 1) * PAGE_SIZE <= base + length
  <1> SUFFICES ASSUME NEW f \in Valid
               PROVE  f \in RegionFree(base, length) <=>
                        base <= f * PAGE_SIZE /\ (f + 1) * PAGE_SIZE <= base + length
    OBVIOUS
  <1>1. f \in Nat /\ total_frames \in Nat
    BY PmmAssumption DEF Valid, TypeOK
  <1>2. PICK e \in Nat : e = base + length
    OBVIOUS
  <1>3. e % AddressSpace = e
    BY <1>2, PmmAssumption
  <1>4. f < ADDR_TO_PFN(e) <=> (f + 1) * PAGE_SIZE <= e
    BY <1>1, PmmAssumption, DivLess DEF ADDR_TO_PFN
  <1>5. ADDR_TO_PFN(PAGE_ALIGN_UP(base)) <= f <=> base <= f * PAGE_SIZE
    <2>1. base + PAGE_SIZE <= AddressSpace
      BY <1>2, PmmAssumption
    <2>2. PICK x \in Nat : x = base + PAGE_SIZE - 1
      BY PmmAssumption
    <2>3. x \div PAGE_SIZE <= f <=> x < f * PAGE_SIZE + PAGE_SIZE
      BY <1>1, PmmAssumption, DivLess
    <2>4. f * PAGE_SIZE \in Nat
      BY <1>1, PmmAssumption
    <2>5. x < f * PAGE_SIZE + PAGE_SIZE <=> base <= f * PAGE_SIZE
      BY <2>2, <2>4, PmmAssumption
    <2>6. ADDR_TO_PFN(PAGE_ALIGN_UP(base)) = x \div PAGE_SIZE
      BY <2>1, <2>2, AlignFacts
    <2> QED BY <2>3, <2>5, <2>6
  <1> QED BY <1>2, <1>3, <1>4, <1>5 DEF RegionFree

(* A used region is rounded outwards: its frames are those it touches.     *)
LEMMA RegionUsedFacts ==
  ASSUME NEW base \in Nat, NEW length \in Nat, TypeOK,
         base + length <= MAX_FRAMES * PAGE_SIZE
  PROVE  \A f \in Valid :
           f \in RegionUsed(base, length) <=> Touches(f, base, length)
  <1> SUFFICES ASSUME NEW f \in Valid
               PROVE  f \in RegionUsed(base, length) <=> Touches(f, base, length)
    OBVIOUS
  <1>1. f \in Nat /\ total_frames \in Nat /\ f * PAGE_SIZE \in Nat
    BY PmmAssumption DEF Valid, TypeOK
  <1>2. PICK e \in Nat : e = base + length
    OBVIOUS
  <1>3. e + PAGE_SIZE <= AddressSpace
    BY <1>2, PmmAssumption
  <1>4. e % AddressSpace = e
    BY <1>3, PmmAssumption
  <1>5. ADDR_TO_PFN(base) <= f <=> base < (f + 1) * PAGE_SIZE
    BY <1>1, PmmAssumption, DivLess DEF ADDR_TO_PFN
  <1>6. f < ADDR_TO_PFN(PAGE_ALIGN_UP(e)) <=> f * PAGE_SIZE < e
    <2>1. PICK x \in Nat : x = e + PAGE_SIZE - 1
      BY PmmAssumption
    <2>2. f < x \div PAGE_SIZE <=> f * PAGE_SIZE + PAGE_SIZE <= x
      BY <1>1, PmmAssumption, DivLess
    <2> QED BY <1>1, <1>3, <2>1, <2>2, AlignFacts, PmmAssumption
  <1> QED BY <1>2, <1>4, <1>5, <1>6 DEF RegionUsed, Touches

----------------------------------------------------------------------------
(* Counting.                                                               *)

LEMMA ValidFinite ==
  ASSUME TypeOK
  PROVE  /\ IsFiniteSet(Valid) /\ Cardinality(Valid) = total_frames
         /\ Valid \subseteq AllFrames /\ Valid \subseteq Nat
  <1>1. total_frames \in Nat /\ total_frames <= MAX_FRAMES
    BY PmmAssumption DEF TypeOK
  <1> QED BY <1>1, FS_Interval, PmmAssumption DEF Valid, AllFrames

(* Adding the n elements of a disjoint set to a finite set.                *)
LEMMA CountAdd ==
  ASSUME NEW A, NEW B, IsFiniteSet(A), IsFiniteSet(B), A \cap B = {}
  PROVE  Cardinality(A \cup B) = Cardinality(A) + Cardinality(B)
  <1>1. Cardinality(A \cup B) = Cardinality(A) + Cardinality(B) - Cardinality(A \cap B)
    BY FS_Union
  <1>2. /\ Cardinality(A \cap B) = 0
        /\ Cardinality(A) \in Nat /\ Cardinality(B) \in Nat
    BY FS_EmptySet, FS_CardinalityType, Zenon
  <1> QED BY <1>1, <1>2

(* used_frames keeps count when bits of frames below total_frames are set  *)
(* or cleared.                                                             *)
LEMMA CountSet ==
  ASSUME TypeOK, CountExact, NEW S \in SUBSET Valid, bitmap' = bitmap \cup S,
         used_frames' = used_frames + Cardinality(S \ bitmap),
         total_frames' = total_frames
  PROVE  CountExact' /\ used_frames' \in 0 .. total_frames
  <1>1. IsFiniteSet(bitmap \cap Valid) /\ IsFiniteSet(S \ bitmap)
    BY ValidFinite, FS_Subset
  <1>2. bitmap' \cap Valid' = (bitmap \cap Valid) \cup (S \ bitmap)
    BY Zenon DEF Valid
  <1>3. CountExact'
    BY <1>1, <1>2, CountAdd DEF CountExact
  <1>4. bitmap' \cap Valid' \in SUBSET Valid
    BY DEF Valid
  <1> QED BY <1>3, <1>4, ValidFinite, FS_Subset, FS_CardinalityType DEF CountExact

LEMMA CountClear ==
  ASSUME TypeOK, CountExact, NEW S \in SUBSET Valid, bitmap' = bitmap \ S,
         used_frames' = used_frames - Cardinality(S \cap bitmap),
         total_frames' = total_frames
  PROVE  CountExact' /\ used_frames' \in 0 .. total_frames
  <1>1. /\ IsFiniteSet(bitmap' \cap Valid') /\ IsFiniteSet(S \cap bitmap)
        /\ bitmap' \cap Valid' \in SUBSET Valid
    <2>1. /\ bitmap' \cap Valid' \in SUBSET Valid
          /\ S \cap bitmap \in SUBSET Valid
      BY Zenon DEF Valid
    <2> QED BY <2>1, ValidFinite, FS_Subset
  <1>2. bitmap \cap Valid = (bitmap' \cap Valid') \cup (S \cap bitmap)
    BY Zenon DEF Valid
  <1>3. Cardinality(bitmap \cap Valid)
          = Cardinality(bitmap' \cap Valid') + Cardinality(S \cap bitmap)
    BY <1>1, <1>2, CountAdd
  <1>4. CountExact'
    BY <1>1, <1>3, FS_CardinalityType DEF CountExact
  <1> QED BY <1>1, <1>4, ValidFinite, FS_Subset, FS_CardinalityType DEF CountExact

----------------------------------------------------------------------------
(* Boot.                                                                   *)

LEMMA InitStep == Init => IndInv
  <1> SUFFICES ASSUME Init PROVE IndInv
    OBVIOUS
  <1>1. TypeOK
    BY PmmAssumption DEF Init, TypeOK, AllFrames, Valid, Allocation
  <1>2. CountExact
    <2>1. bitmap \cap Valid = Valid
      BY <1>1, ValidFinite DEF Init
    <2> QED BY <1>1, <2>1, ValidFinite DEF Init, CountExact
  <1>3. BootProgress
    <2>1. \A f \in Valid : f \in bitmap /\ ~Scanned(f)
      BY <1>1, ValidFinite, MemoryMapAssumption DEF Init, Scanned
    <2> QED BY <2>1 DEF Init, BootProgress
  <1>4. AllocationsSound
    BY DEF Init, AllocationsSound
  <1> QED BY <1>1, <1>2, <1>3, <1>4 DEF IndInv

(* While booting nothing is allocated.                                     *)
LEMMA BootAllocations ==
  ASSUME IndInv, phase # "up", allocations' = allocations
  PROVE  AllocationsSound' /\ Allocated = {} /\ Allocated' = {} /\ allocations' = {}
  BY DEF IndInv, BootProgress, AllocationsSound, Allocated

LEMMA ScanMapStep ==
  ASSUME IndInv, ScanMap
  PROVE  IndInv'
  <1>1. /\ phase = "map" /\ entry \in DOMAIN memory_map /\ entry \in Nat
        /\ phase' = phase /\ entry' = entry + 1 /\ memory_map' = memory_map
        /\ total_frames' = total_frames /\ Valid' = Valid
        /\ allocations' = allocations
        /\ DOMAIN memory_map \subseteq Nat
    <2>1. entry \in Nat /\ entry > 0
      BY DEF IndInv, TypeOK
    <2>2. memory_map \in Seq([base: Nat, length: Nat, available: BOOLEAN])
      BY MemoryMapAssumption DEF IndInv, TypeOK
    <2> QED BY <2>1, <2>2 DEF ScanMap, Valid
  <1>2. AllocationsSound' /\ Allocated = {} /\ Allocated' = {} /\ allocations' = {}
    BY <1>1, BootAllocations
  <1>3. PICK e : e = memory_map[entry]
    OBVIOUS
  <1>4. /\ e \in [base: Nat, length: Nat, available: BOOLEAN]
        /\ e.available => e.base + e.length + PAGE_SIZE <= AddressSpace
    <2>1. memory_map \in MemoryMaps
      BY DEF IndInv, TypeOK
    <2>2. PICK R : R = [base: Nat, length: Nat, available: BOOLEAN]
      BY Zenon
    <2>3. memory_map \in Seq(R)
      BY <2>1, <2>2, MemoryMapAssumption
    <2>4. e \in R
      BY <1>1, <1>3, <2>3
    <2>5. e.available => e.base + e.length + PAGE_SIZE <= AddressSpace
      BY <1>1, <1>3, <2>1, MemoryMapAssumption
    <2> QED BY <2>2, <2>4, <2>5
  <1>5. \A f \in Valid : Scanned(f)' <=> Scanned(f) \/ InRegion(f, entry)
    BY <1>1 DEF Scanned, InRegion
  <1>6. CASE e.available
    <2>1. PICK S : S = RegionFree(e.base, e.length)
      OBVIOUS
    <2>2. bitmap' = bitmap \ S /\ used_frames' = used_frames - Cardinality(S \cap bitmap)
      BY <1>3, <1>6, <2>1 DEF ScanMap, MarkFree
    <2>3. S \in SUBSET Valid
      BY <2>1 DEF RegionFree
    <2>4. \A f \in Valid : f \in S <=> InRegion(f, entry)
      BY <1>3, <1>4, <1>6, <2>1, RegionFreeFacts DEF InRegion, IndInv
    <2>5. CountExact' /\ used_frames' \in 0 .. total_frames
      BY <1>1, <2>2, <2>3, CountClear DEF IndInv
    <2>6. TypeOK'
      BY <1>1, <1>2, <2>2, <2>3, <2>5 DEF IndInv, TypeOK
    <2>7. BootProgress'
      BY <1>1, <1>2, <1>5, <2>2, <2>4 DEF IndInv, BootProgress, ReservedSoFar
    <2> QED BY <1>2, <2>5, <2>6, <2>7 DEF IndInv
  <1>7. CASE ~e.available
    <2>1. bitmap' = bitmap /\ used_frames' = used_frames
      BY <1>3, <1>7 DEF ScanMap
    <2>2. \A f \in Valid : ~InRegion(f, entry)
      BY <1>3, <1>7 DEF InRegion
    <2>3. TypeOK' /\ CountExact'
      BY <1>1, <1>2, <2>1 DEF IndInv, TypeOK, CountExact
    <2>4. BootProgress'
      BY <1>1, <1>2, <1>5, <2>1, <2>2 DEF IndInv, BootProgress, ReservedSoFar
    <2> QED BY <1>2, <2>3, <2>4 DEF IndInv
  <1> QED BY <1>6, <1>7

LEMMA MapScannedStep ==
  ASSUME IndInv, MapScanned
  PROVE  IndInv'
  <1>1. /\ phase = "map" /\ phase' = "low" /\ entry > Len(memory_map)
        /\ UNCHANGED <<bitmap, total_frames, used_frames, memory_map, entry, allocations>>
    BY DEF MapScanned
  <1>2. AllocationsSound' /\ Allocated = {} /\ Allocated' = {} /\ allocations' = {}
    BY <1>1, BootAllocations
  <1>3. TypeOK' /\ CountExact'
    BY <1>1, <1>2 DEF IndInv, TypeOK, CountExact, Valid
  <1>4. BootProgress'
    BY <1>1, <1>2
    DEF IndInv, BootProgress, Scanned, InRegion, ReservedSoFar, Valid
  <1> QED BY <1>2, <1>3, <1>4 DEF IndInv

(* Reserving a region adds exactly the frames that it touches.             *)
LEMMA ReserveStep ==
  ASSUME IndInv, NEW here, NEW base \in Nat, NEW length \in Nat, NEW next,
         here \in {"low", "kernel", "area", "heap"},
         next \in {"kernel", "area", "heap", "up"},
         base + length <= MAX_FRAMES * PAGE_SIZE,
         Reserve(here, base, length, next),
         \A f \in Valid : ReservedSoFar(f)' <=> ReservedSoFar(f) \/ Touches(f, base, length)
  PROVE  IndInv'
  <1>1. /\ phase = here /\ phase' = next /\ entry > Len(memory_map)
        /\ UNCHANGED <<total_frames, memory_map, entry, allocations>>
        /\ Valid' = Valid
    BY DEF Reserve, IndInv, BootProgress, Valid
  <1>2. AllocationsSound' /\ Allocated = {} /\ Allocated' = {} /\ allocations' = {}
    BY <1>1, BootAllocations
  <1>3. PICK S : S = RegionUsed(base, length)
    OBVIOUS
  <1>4. bitmap' = bitmap \cup S /\ used_frames' = used_frames + Cardinality(S \ bitmap)
    BY <1>3 DEF Reserve, MarkUsed
  <1>5. S \in SUBSET Valid
    BY <1>3 DEF RegionUsed
  <1>6. \A f \in Valid : f \in S <=> Touches(f, base, length)
    BY <1>3, RegionUsedFacts DEF IndInv
  <1>7. CountExact' /\ used_frames' \in 0 .. total_frames
    BY <1>1, <1>4, <1>5, CountSet, Zenon DEF IndInv
  <1>8. TypeOK'
    BY <1>1, <1>2, <1>4, <1>5, <1>7, ValidFinite DEF IndInv, TypeOK
  <1>9. \A f \in Valid : Scanned(f)' <=> Scanned(f)
    BY <1>1 DEF Scanned, InRegion
  <1>10. BootProgress'
    BY <1>1, <1>2, <1>4, <1>6, <1>9 DEF IndInv, BootProgress
  <1> QED BY <1>2, <1>7, <1>8, <1>10 DEF IndInv

LEMMA BootStep ==
  ASSUME IndInv, Boot
  PROVE  IndInv'
  <1>1. /\ 0 \in Nat /\ LowMemory \in Nat /\ KernelStart \in Nat /\ KernelEnd \in Nat
        /\ InitialArea \in Nat /\ HeapStart \in Nat
        /\ KernelEnd - KernelStart \in Nat /\ HeapMax - HeapStart \in Nat
        /\ 0 + LowMemory <= MAX_FRAMES * PAGE_SIZE
        /\ KernelStart + (KernelEnd - KernelStart) <= MAX_FRAMES * PAGE_SIZE
        /\ KernelEnd + InitialArea <= MAX_FRAMES * PAGE_SIZE
        /\ HeapStart + (HeapMax - HeapStart) <= MAX_FRAMES * PAGE_SIZE
    BY PmmAssumption
  <1>2. CASE ReserveLow
    <2>1. \A f \in Valid : ReservedSoFar(f)' <=> ReservedSoFar(f) \/ Touches(f, 0, LowMemory)
      BY <1>2 DEF ReserveLow, Reserve, ReservedSoFar, Touches
    <2> QED BY <1>1, <1>2, <2>1, ReserveStep DEF ReserveLow
  <1>3. CASE ReserveKernel
    <2>1. \A f \in Valid : ReservedSoFar(f)' <=>
            ReservedSoFar(f) \/ Touches(f, KernelStart, KernelEnd - KernelStart)
      BY <1>3 DEF ReserveKernel, Reserve, ReservedSoFar, Touches
    <2> QED BY <1>1, <1>3, <2>1, ReserveStep DEF ReserveKernel
  <1>4. CASE ReserveArea
    <2>1. \A f \in Valid : ReservedSoFar(f)' <=>
            ReservedSoFar(f) \/ Touches(f, KernelEnd, InitialArea)
      BY <1>4 DEF ReserveArea, Reserve, ReservedSoFar, Touches
    <2> QED BY <1>1, <1>4, <2>1, ReserveStep DEF ReserveArea
  <1>5. CASE ReserveHeap
    <2>1. \A f \in Valid : ReservedSoFar(f)' <=>
            ReservedSoFar(f) \/ Touches(f, HeapStart, HeapMax - HeapStart)
      BY <1>5 DEF ReserveHeap, Reserve, ReservedSoFar, Touches
    <2> QED BY <1>1, <1>5, <2>1, ReserveStep DEF ReserveHeap
  <1> QED BY <1>2, <1>3, <1>4, <1>5, ScanMapStep, MapScannedStep DEF Boot

----------------------------------------------------------------------------
(* Allocation.                                                             *)

(* Once booted, the free frames are the usable ones that nobody holds.     *)
LEMMA UpFacts ==
  ASSUME IndInv, phase = "up"
  PROVE  /\ \A f \in Valid : f \notin bitmap <=> f \in Usable /\ f \notin Allocated
         /\ \A a \in allocations : /\ Frames(a) \subseteq bitmap \cap Valid
                                   /\ Frames(a) \subseteq Allocated
                                   /\ Frames(a) \subseteq Usable
         /\ Usable \subseteq Valid /\ Valid \subseteq AllFrames
  <1>1. memory_map \in Seq([base: Nat, length: Nat, available: BOOLEAN])
    BY MemoryMapAssumption DEF IndInv, TypeOK
  <1>2. \A i \in DOMAIN memory_map : i < entry
    BY <1>1 DEF IndInv, BootProgress, TypeOK
  <1>3. \A f \in Valid : Scanned(f) /\ ~ReservedSoFar(f) <=> f \in Usable
    BY <1>2 DEF Scanned, Available, ReservedSoFar, Reserved, Usable
  <1>4. \A f \in Valid : f \notin bitmap <=> f \in Usable /\ f \notin Allocated
    BY <1>3 DEF IndInv, BootProgress
  <1>5. Usable \subseteq Valid /\ Valid \subseteq AllFrames
    BY ValidFinite DEF Usable, IndInv
  <1>6. ASSUME NEW a \in allocations
        PROVE  Frames(a) \subseteq Usable /\ Frames(a) \subseteq Allocated
    BY <1>5 DEF IndInv, AllocationsSound, Allocated
  <1>7. Valid \cap Allocated \subseteq bitmap
    BY <1>4
  <1> QED BY <1>4, <1>5, <1>6, <1>7

(* What a step that changes no boot state leaves alone.                    *)
LEMMA UpStep ==
  ASSUME UNCHANGED <<total_frames, memory_map, entry, phase>>
  PROVE  /\ Valid' = Valid /\ Usable' = Usable
         /\ \A f : /\ Scanned(f)' <=> Scanned(f)
                   /\ ReservedSoFar(f)' <=> ReservedSoFar(f)
  <1>1. Valid' = Valid
    BY DEF Valid
  <1>2. \A f : /\ Scanned(f)' <=> Scanned(f)
               /\ Available(f)' <=> Available(f)
               /\ ReservedSoFar(f)' <=> ReservedSoFar(f)
               /\ Reserved(f)' <=> Reserved(f)
    BY DEF Scanned, Available, InRegion, ReservedSoFar, Reserved, Touches
  <1> QED BY <1>1, <1>2 DEF Usable

(* Handing out a run of free frames.                                       *)
LEMMA TakeStep ==
  ASSUME IndInv, phase = "up", NEW a \in Allocation, a.count > 0,
         Frames(a) \subseteq Valid, Frames(a) \cap bitmap = {}, Take(a)
  PROVE  IndInv'
  <1>1. /\ bitmap' = bitmap \cup Frames(a)
        /\ used_frames' = used_frames + a.count
        /\ allocations' = allocations \cup {a}
        /\ UNCHANGED <<total_frames, memory_map, entry, phase>>
    BY DEF Take
  <1>2. Cardinality(Frames(a) \ bitmap) = a.count
    <2>1. a.start \in Nat /\ a.count \in Nat
      BY DEF Allocation
    <2>2. Cardinality(Frames(a)) = a.count
      <3>1. PICK x \in Int, y \in Int : x = a.start /\ y = a.start + a.count - 1
        BY <2>1
      <3>2. Cardinality(x .. y) = IF x > y THEN 0 ELSE y - x + 1
        BY FS_Interval
      <3> QED BY <2>1, <3>1, <3>2 DEF Frames
    <2>3. Frames(a) \ bitmap = Frames(a)
      OBVIOUS
    <2> QED BY <2>2, <2>3
  <1>3. CountExact' /\ used_frames' \in 0 .. total_frames
    BY <1>1, <1>2, CountSet DEF IndInv
  <1>4. /\ Valid' = Valid /\ Usable' = Usable
        /\ \A f : /\ Scanned(f)' <=> Scanned(f)
                  /\ ReservedSoFar(f)' <=> ReservedSoFar(f)
    BY <1>1, UpStep
  <1>5. TypeOK'
    BY <1>1, <1>3, <1>4, ValidFinite DEF IndInv, TypeOK
  <1>6. Frames(a) \subseteq Usable
    BY UpFacts
  <1>7. AllocationsSound'
    <2>1. \A b \in allocations : Frames(b) \cap Frames(a) = {}
      BY UpFacts
    <2> QED BY <1>1, <1>4, <1>6, <2>1 DEF IndInv, AllocationsSound
  <1>8. Allocated' = Allocated \cup Frames(a)
    BY <1>1, UpFacts DEF Allocated
  <1>9. BootProgress'
    BY <1>1, <1>4, <1>8 DEF IndInv, BootProgress
  <1> QED BY <1>3, <1>5, <1>7, <1>9 DEF IndInv

LEMMA AllocFrameStep ==
  ASSUME IndInv, AllocFrame
  PROVE  IndInv'
  <1>1. PICK s : s = Least(FindFree)
    OBVIOUS
  <1>2. s \in Valid /\ s \notin bitmap /\ s \in Nat
    <2>1. total_frames \in Nat
      BY PmmAssumption DEF IndInv, TypeOK
    <2>2. (total_frames \div BITS) * BITS <= total_frames /\ total_frames \div BITS \in Nat
      BY <2>1, PmmAssumption
    <2>3. (total_frames \div BITS) * BITS \in Nat
      BY <2>2, PmmAssumption
    <2>4. SearchedFrames \subseteq Valid /\ SearchedFrames \subseteq Nat
      BY <2>1, <2>2, <2>3 DEF SearchedFrames, Valid
    <2>5. FindFree \in SUBSET Nat /\ FindFree # {}
      BY <2>4, Zenon DEF FindFree, AllocFrame
    <2>6. s \in FindFree
      BY <1>1, <2>5, LeastFacts
    <2> QED BY <2>4, <2>6 DEF FindFree
  <1>3. PICK a : a = [start |-> s, count |-> 1]
    BY Zenon
  <1>4. a \in Allocation /\ a.count > 0 /\ Frames(a) = {s}
    BY <1>2, <1>3 DEF Allocation, Frames
  <1>5. phase = "up" /\ Take(a)
    BY <1>1, <1>3 DEF AllocFrame
  <1> QED BY <1>2, <1>4, <1>5, TakeStep

LEMMA AllocFramesStep ==
  ASSUME IndInv, NEW n \in Counts, AllocFrames(n)
  PROVE  IndInv'
  <1>1. PICK s : s = Least(FindFreeRegion(n))
    OBVIOUS
  <1>2. /\ s \in Valid /\ s \in Nat /\ n \in Nat \ {0} /\ total_frames \in Nat
        /\ s + n <= total_frames /\ \A f \in s .. s + n - 1 : f \notin bitmap
    <2>1. FindFreeRegion(n) \in SUBSET Nat /\ FindFreeRegion(n) # {}
      BY ValidFinite DEF FindFreeRegion, AllocFrames, IndInv
    <2>2. s \in FindFreeRegion(n)
      BY <1>1, <2>1, LeastFacts
    <2> QED BY <2>1, <2>2, PmmAssumption DEF FindFreeRegion, IndInv, TypeOK
  <1>3. PICK a : a = [start |-> s, count |-> n]
    BY Zenon
  <1>4. a \in Allocation /\ a.count > 0 /\ Frames(a) = s .. s + n - 1
    BY <1>2, <1>3 DEF Allocation, Frames
  <1>5. Frames(a) \subseteq Valid /\ Frames(a) \cap bitmap = {}
    BY <1>2, <1>4 DEF Valid
  <1>6. phase = "up" /\ Take(a)
    BY <1>1, <1>3 DEF AllocFrames
  <1> QED BY <1>4, <1>5, <1>6, TakeStep, Zenon

LEMMA FreeFramesStep ==
  ASSUME IndInv, NEW a \in allocations, FreeFrames(a)
  PROVE  IndInv'
  <1>1. /\ phase = "up"
        /\ bitmap' = bitmap \ (Frames(a) \cap Valid)
        /\ used_frames' = used_frames - Cardinality((Frames(a) \cap Valid) \cap bitmap)
        /\ allocations' = allocations \ {a}
        /\ UNCHANGED <<total_frames, memory_map, entry, phase>>
    BY DEF FreeFrames, MarkFree
  <1>2. Frames(a) \subseteq Usable /\ Frames(a) \subseteq Valid
    BY <1>1, UpFacts
  <1>3. CountExact' /\ used_frames' \in 0 .. total_frames
    BY <1>1, CountClear DEF IndInv
  <1>4. /\ Valid' = Valid /\ Usable' = Usable
        /\ \A f : /\ Scanned(f)' <=> Scanned(f)
                  /\ ReservedSoFar(f)' <=> ReservedSoFar(f)
    BY <1>1, UpStep
  <1>5. TypeOK'
    BY <1>1, <1>3, <1>4 DEF IndInv, TypeOK
  <1>6. AllocationsSound'
    BY <1>1, <1>4 DEF IndInv, AllocationsSound
  <1>7. \A f \in Valid : f \in Allocated' <=> f \in Allocated /\ f \notin Frames(a)
    BY <1>1, UpFacts DEF Allocated, IndInv, AllocationsSound
  <1>8. \A f \in Valid : f \in Frames(a) => Scanned(f) /\ ~ReservedSoFar(f)
    <2>1. \A f \in Valid : f \in Usable => Scanned(f) /\ ~ReservedSoFar(f)
      <3>1. memory_map \in Seq([base: Nat, length: Nat, available: BOOLEAN])
        BY MemoryMapAssumption DEF IndInv, TypeOK
      <3>2. \A i \in DOMAIN memory_map : i < entry
        BY <1>1, <3>1 DEF IndInv, BootProgress, TypeOK
      <3> QED BY <1>1, <3>2 DEF Scanned, Available, ReservedSoFar, Reserved, Usable
    <2> QED BY <1>2, <2>1
  <1>9. BootProgress'
    BY <1>1, <1>4, <1>7, <1>8 DEF IndInv, BootProgress
  <1> QED BY <1>3, <1>5, <1>6, <1>9 DEF IndInv

LEMMA NextStep == IndInv /\ [Next]_vars => IndInv'
  <1> SUFFICES ASSUME IndInv, [Next]_vars PROVE IndInv'
    OBVIOUS
  <1>1. CASE UNCHANGED vars
    BY <1>1 DEF vars, IndInv, TypeOK, CountExact, BootProgress, AllocationsSound,
                Valid, Usable, Available, Reserved, Allocated, Scanned,
                ReservedSoFar, InRegion, Touches
  <1> QED BY <1>1, BootStep, AllocFrameStep, AllocFramesStep, FreeFramesStep DEF Next

(* The inductive invariant holds in every state of the memory manager.     *)
THEOREM PmmInvariance == Spec => []IndInv
  BY InitStep, NextStep, PTL DEF Spec

(* The count of used frames is exact, for every memory map and through     *)
(* every sequence of allocations and frees.                                *)
THEOREM PmmCount == Spec => [](TypeOK /\ CountExact)
  <1>1. IndInv => TypeOK /\ CountExact
    BY DEF IndInv
  <1> QED BY <1>1, PmmInvariance, PTL

(* Allocations never overlap each other, the kernel, the heap or a hole,   *)
(* and every other usable frame is free.                                   *)
THEOREM PmmSound == Spec => [](AllocationsSound /\ FreeExactly)
  <1>1. IndInv => AllocationsSound /\ FreeExactly
    BY UpFacts DEF IndInv, FreeExactly
  <1> QED BY <1>1, PmmInvariance, PTL
=============================================================================
