--------------------------- MODULE MCAddressSpace ---------------------------
(***************************************************************************)
(* Two processes of two pages and six frames: enough for both, or for one  *)
(* beside the kernel's tables and a region, so frames run out at every     *)
(* point.  Pages of two bytes, tables of four entries: the first for the   *)
(* identity mapping, the second with the three pages of vmalloc's area,    *)
(* the third with the process region, the last with the page of the        *)
(* shell's tests.  vmalloc is asked for a page, for two, and for a size    *)
(* that rounding up takes past the end of the 32-byte address space; vbrk  *)
(* moves by whole pages and into one; the reservation passes the end of    *)
(* the address space too.                                                  *)
(***************************************************************************)
EXTENDS AddressSpace

MCIncrements == {2 * PAGE_SIZE, 2 * PAGE_SIZE - 1, -3 * PAGE_SIZE}

(* The state without the directories of unused slots.  CopyDirectory       *)
(* overwrites such a directory before anything reads it, so that states    *)
(* which differ in nothing else have the same future, and no property      *)
(* tells them apart.                                                       *)
View ==
  <<free_frames, [d \in Directories |-> IF d = Kernel \/ Used(d)
                                          THEN directories[d] ELSE EmptyDirectory],
    tables, current_directory, tlb, halted, vmallocVars, memory>>

(* A region without pages takes up nothing but its record, so that any     *)
(* number of them fits: one at a time is followed further.                 *)
OneEmptyRegion ==
  Cardinality({i \in DOMAIN region_list : region_list[i].pages = 0}) <= 1
=============================================================================
