-------------------------------- MODULE Pmm --------------------------------
(***************************************************************************)
(* The physical memory manager of kernel/src/pmm.c: one bit per page       *)
(* frame, built at boot from the boot loader's memory map, then allocated  *)
(* from and freed to by paging, vmalloc, the process manager and the       *)
(* shell.  Clients free what they hold; a free of a frame that is not in   *)
(* use, or not below total_frames, changes nothing.                        *)
(*                                                                         *)
(* Everything runs in the kernel context with no interrupt handler         *)
(* involved, so each call is one action.                                   *)
(***************************************************************************)
EXTENDS Integers, Sequences, FiniteSets, SetMin

CONSTANTS
  PAGE_SIZE,
  AddressSpace,   \* 2^32: addresses are computed modulo this
  MAX_FRAMES,
  BITS,           \* frames per byte of the bitmap
  LowMemory,      \* bytes of the BIOS and VGA area
  KernelStart,
  KernelEnd,
  InitialArea,    \* bytes kept after the kernel
  HeapStart,      \* the range that kmalloc_init reserves
  HeapMax,
  Totals,         \* values of total_frames that pmm_init may compute
  MemoryMaps,     \* memory maps the boot loader may pass
  Counts          \* arguments of pmm_alloc_frames

ASSUME PmmAssumption ==
  /\ PAGE_SIZE \in Nat \ {0}
  /\ BITS \in Nat \ {0}
  /\ MAX_FRAMES \in Nat
  /\ AddressSpace \in Nat
  /\ (MAX_FRAMES + 1) * PAGE_SIZE <= AddressSpace
  /\ LowMemory \in 0 .. MAX_FRAMES * PAGE_SIZE
  /\ KernelStart \in 0 .. MAX_FRAMES * PAGE_SIZE
  /\ KernelEnd \in KernelStart .. MAX_FRAMES * PAGE_SIZE
  /\ InitialArea \in 0 .. MAX_FRAMES * PAGE_SIZE - KernelEnd
  /\ HeapStart \in 0 .. MAX_FRAMES * PAGE_SIZE
  /\ HeapMax \in HeapStart .. MAX_FRAMES * PAGE_SIZE
  /\ Totals \subseteq 0 .. MAX_FRAMES
  /\ Counts \subseteq Nat \ {0}

(* Available regions end below 4 GB, where the code's sum would wrap.      *)
ASSUME MemoryMapAssumption ==
  \A map \in MemoryMaps :
    /\ map \in Seq([base: Nat, length: Nat, available: BOOLEAN])
    /\ \A i \in DOMAIN map :
         map[i].available =>
           map[i].base + map[i].length + PAGE_SIZE <= AddressSpace

VARIABLES
  bitmap,         \* the frames whose bit is set in frame_bitmap
  total_frames,
  used_frames,
  memory_map,     \* what the boot loader passed
  entry,          \* the entry of it that pmm_init looks at next
  phase,          \* "map", "low", "kernel", "area", "heap" while booting, "up"
  allocations     \* what clients hold: the results of allocations, not freed

vars == <<bitmap, total_frames, used_frames, memory_map, entry, phase, allocations>>

AllFrames == 0 .. MAX_FRAMES - 1
Valid     == 0 .. total_frames - 1

PAGE_ALIGN_UP(a) == (((a + PAGE_SIZE - 1) % AddressSpace) \div PAGE_SIZE) * PAGE_SIZE
ADDR_TO_PFN(a)   == a \div PAGE_SIZE

(* The frames that pmm_mark_region_used and pmm_mark_region_free visit: a  *)
(* used region is rounded outwards, a free one inwards.                    *)
RegionUsed_Inward(base, length) ==   \* mutant: drops the partial last frame
  {f \in Valid : /\ ADDR_TO_PFN(base) <= f
                 /\ f < ADDR_TO_PFN((base + length) % AddressSpace)}

RegionUsed(base, length) ==
  {f \in Valid : /\ ADDR_TO_PFN(base) <= f
                 /\ f < ADDR_TO_PFN(PAGE_ALIGN_UP((base + length) % AddressSpace))}

RegionFree(base, length) ==
  {f \in Valid : /\ ADDR_TO_PFN(PAGE_ALIGN_UP(base)) <= f
                 /\ f < ADDR_TO_PFN((base + length) % AddressSpace)}

(* Setting and clearing bits counts the bits that change.                  *)
MarkUsed(S) ==
  /\ bitmap' = bitmap \cup S
  /\ used_frames' = used_frames + Cardinality(S \ bitmap)

MarkFree(S) ==
  /\ bitmap' = bitmap \ S
  /\ used_frames' = used_frames - Cardinality(S \cap bitmap)

----------------------------------------------------------------------------
(* Boot: pmm_init, then the reservation of the heap by kmalloc_init.       *)

Init ==
  /\ bitmap = AllFrames
  /\ total_frames \in Totals
  /\ used_frames = total_frames
  /\ memory_map \in MemoryMaps
  /\ entry = 1
  /\ phase = "map"
  /\ allocations = {}

ScanMap ==
  /\ phase = "map"
  /\ entry <= Len(memory_map)
  /\ entry' = entry + 1
  /\ LET e == memory_map[entry]
     IN  IF e.available THEN MarkFree(RegionFree(e.base, e.length))
         ELSE UNCHANGED <<bitmap, used_frames>>
  /\ UNCHANGED <<total_frames, memory_map, phase, allocations>>

MapScanned ==
  /\ phase = "map"
  /\ entry > Len(memory_map)
  /\ phase' = "low"
  /\ UNCHANGED <<bitmap, total_frames, used_frames, memory_map, entry, allocations>>

Reserve(here, base, length, next) ==
  /\ phase = here
  /\ MarkUsed(RegionUsed(base, length))
  /\ phase' = next
  /\ UNCHANGED <<total_frames, memory_map, entry, allocations>>

ReserveLow    == Reserve("low", 0, LowMemory, "kernel")
ReserveKernel == Reserve("kernel", KernelStart, KernelEnd - KernelStart, "area")
ReserveArea   == Reserve("area", KernelEnd, InitialArea, "heap")
ReserveHeap   == Reserve("heap", HeapStart, HeapMax - HeapStart, "up")

Boot == ScanMap \/ MapScanned \/ ReserveLow \/ ReserveKernel \/ ReserveArea \/ ReserveHeap

----------------------------------------------------------------------------
(* Allocation.                                                             *)

Frames(a)  == a.start .. a.start + a.count - 1
Allocation == [start: Nat, count: Nat]
Allocated  == {f \in AllFrames : \E a \in allocations : f \in Frames(a)}

(* bitmap_find_free looks at total_frames / 8 bytes of the bitmap.         *)
SearchedFrames == 0 .. (total_frames \div BITS) * BITS - 1
FindFree       == SearchedFrames \ bitmap

(* bitmap_find_free_region: the starts of runs of n free frames.           *)
FindFreeRegion_LastUsed(n) ==   \* mutant: the last frame of the run is not tested
  {s \in Valid : /\ s + n <= total_frames
                 /\ \A f \in s .. s + n - 2 : f \notin bitmap}

FindFreeRegion(n) ==
  {s \in Valid : /\ s + n <= total_frames
                 /\ \A f \in s .. s + n - 1 : f \notin bitmap}

Take(a) ==
  /\ bitmap' = bitmap \cup Frames(a)
  /\ used_frames' = used_frames + a.count
  /\ allocations' = allocations \cup {a}
  /\ UNCHANGED <<total_frames, memory_map, entry, phase>>

(* pmm_alloc_frame and pmm_alloc_frames; when the search fails they return *)
(* 0 and change nothing.                                                   *)
AllocFrame ==
  /\ phase = "up"
  /\ FindFree # {}
  /\ Take([start |-> Least(FindFree), count |-> 1])

AllocFrames(n) ==
  /\ phase = "up"
  /\ FindFreeRegion(n) # {}
  /\ Take([start |-> Least(FindFreeRegion(n)), count |-> n])

(* pmm_free_frame and pmm_free_frames.                                     *)
FreeFrames(a) ==
  /\ phase = "up"
  /\ MarkFree(Frames(a) \cap Valid)
  /\ allocations' = allocations \ {a}
  /\ UNCHANGED <<total_frames, memory_map, entry, phase>>

Next ==
  \/ Boot
  \/ AllocFrame
  \/ \E n \in Counts : AllocFrames(n)
  \/ \E a \in allocations : FreeFrames(a)

Spec == Init /\ [][Next]_vars

----------------------------------------------------------------------------
(* Types; the bits above total_frames stay set.                            *)
TypeOK ==
  /\ bitmap \subseteq AllFrames
  /\ AllFrames \ Valid \subseteq bitmap
  /\ total_frames \in 0 .. MAX_FRAMES
  /\ used_frames \in 0 .. total_frames
  /\ memory_map \in MemoryMaps
  /\ entry \in Nat \ {0}
  /\ phase \in {"map", "low", "kernel", "area", "heap", "up"}
  /\ allocations \subseteq Allocation

(* used_frames, which only ever moves by one per changed bit, is the       *)
(* number of frames in use below total_frames, so that the free memory     *)
(* that pmm_get_stats computes from it is right.                           *)
CountExact == used_frames = Cardinality(bitmap \cap Valid)

(* Frame f lies wholly inside the i-th region, which is available; resp.   *)
(* it touches the length bytes that begin at base.                         *)
InRegion(f, i) ==
  LET e == memory_map[i]
  IN  /\ e.available
      /\ e.base <= f * PAGE_SIZE
      /\ (f + 1) * PAGE_SIZE <= e.base + e.length

Available(f) == \E i \in DOMAIN memory_map : InRegion(f, i)

Touches(f, base, length) ==
  base < (f + 1) * PAGE_SIZE /\ f * PAGE_SIZE < base + length

Reserved(f) ==
  \/ Touches(f, 0, LowMemory)
  \/ Touches(f, KernelStart, KernelEnd - KernelStart)
  \/ Touches(f, KernelEnd, InitialArea)
  \/ Touches(f, HeapStart, HeapMax - HeapStart)

Usable == {f \in Valid : Available(f) /\ ~Reserved(f)}

(* No leak and no theft: once booted, a frame is free exactly when it is   *)
(* usable memory that nobody holds.                                        *)
FreeExactly == phase = "up" => Valid \ bitmap = Usable \ Allocated

(* Two live allocations never share a frame, and none holds a frame of the *)
(* kernel, the heap, the BIOS area or a hole of the memory map.            *)
AllocationsSound ==
  /\ \A a \in allocations : a.count > 0 /\ Frames(a) \subseteq Usable
  /\ \A a, b \in allocations : a # b => Frames(a) \cap Frames(b) = {}

(* How far boot has come: the frames that are free after each step.        *)
Scanned(f) == \E i \in DOMAIN memory_map : i < entry /\ InRegion(f, i)

ReservedSoFar(f) ==
  \/ phase \in {"kernel", "area", "heap", "up"} /\ Touches(f, 0, LowMemory)
  \/ /\ phase \in {"area", "heap", "up"}
     /\ Touches(f, KernelStart, KernelEnd - KernelStart)
  \/ phase \in {"heap", "up"} /\ Touches(f, KernelEnd, InitialArea)
  \/ phase = "up" /\ Touches(f, HeapStart, HeapMax - HeapStart)

BootProgress ==
  /\ phase # "map" => entry > Len(memory_map)
  /\ phase # "up" => allocations = {}
  /\ \A f \in Valid :
       f \notin bitmap <=> Scanned(f) /\ ~ReservedSoFar(f) /\ f \notin Allocated

(* The inductive invariant.                                                *)
IndInv == TypeOK /\ CountExact /\ BootProgress /\ AllocationsSound

(* "Out of memory": pmm_alloc_frame fails only when no frame is free.      *)
OutOfMemoryHonest == phase = "up" /\ FindFree = {} => Valid \subseteq bitmap
=============================================================================
