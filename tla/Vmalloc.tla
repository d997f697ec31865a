------------------------------ MODULE Vmalloc ------------------------------
(***************************************************************************)
(* The virtual memory allocator of kernel/src/vmalloc.c: regions of        *)
(* virtual addresses, placed at a break that only ever moves up to make    *)
(* room and falls back to the end of the highest region when one is freed; *)
(* one frame for every page, and one more for every page table, made the   *)
(* first time it is needed and kept.                                       *)
(*                                                                         *)
(* Calls come from the kernel context alone, so each is one action.        *)
(*                                                                         *)
(* The shell's vmtest is the one caller: it asks for 8192 bytes.  vbrk has *)
(* none.  Sizes and increments are nevertheless arbitrary here, with one   *)
(* exception: an increment that takes the break below address 0, where the *)
(* code wraps it round, past VMALLOC_END and the check against the         *)
(* regions, so that vmalloc would go on to map the top of the address      *)
(* space and then the kernel's own memory.                                 *)
(***************************************************************************)
EXTENDS Paging, Sequences

CONSTANTS
  WORD,                 \* 2^32
  PAGE_SIZE,
  VMALLOC_START, VMALLOC_END,
  Sizes,                \* sizes callers ask vmalloc for
  Increments,           \* arguments of vbrk
  MaxRegions            \* region records that kmalloc has room for

ASSUME VmallocAssumption ==
  /\ PAGE_SIZE \in Nat \ {0}
  /\ WORD = PAGE_DIR_ENTRIES * PAGE_TABLE_ENTRIES * PAGE_SIZE
  /\ VMALLOC_START \in Nat /\ VMALLOC_END \in VMALLOC_START .. WORD - 1
  /\ VMALLOC_START % PAGE_SIZE = 0 /\ VMALLOC_END % PAGE_SIZE = 0
  /\ Sizes \subseteq 1 .. WORD - 1
  /\ Increments \subseteq -VMALLOC_START .. WORD - 1 - VMALLOC_END
  /\ MaxRegions \in Nat

VARIABLES
  region_list,       \* records of address, size and pages, newest first
  vmalloc_current

vmallocVars == <<region_list, vmalloc_current>>

Page(addr) == addr \div PAGE_SIZE

Range(region) == Page(region.addr) .. Page(region.addr) + region.pages - 1

highest_end(regions) ==
  LET ends == {regions[i].addr + regions[i].pages * PAGE_SIZE : i \in DOMAIN regions}
              \cup {VMALLOC_START}
  IN  CHOOSE e \in ends : \A f \in ends : f <= e

----------------------------------------------------------------------------

VmallocInit ==
  /\ region_list = <<>>
  /\ vmalloc_current = VMALLOC_START

num_pages(size) == ((size + PAGE_SIZE - 1) % WORD) \div PAGE_SIZE

FitsArea(size) ==
  (vmalloc_current + num_pages(size) * PAGE_SIZE) % WORD <= VMALLOC_END

(* The pages that a vmalloc which ran out of frames has mapped.            *)
Undone_OneShort(first, m) ==   \* mutant: leaves the last page
  first .. first + m.done - 2

Undone(first, m) == first .. first + m.done - 1

(* The steps of the loop in which vmalloc_memset, from a break inside a    *)
(* page, runs on into a page that nobody has mapped: a page fault.         *)
Overruns(first, n) ==
  {i \in 1 .. n : /\ vmalloc_current % PAGE_SIZE # 0
                  /\ first + i \in Pages
                  /\ EntryOf(Memory, current_directory, first + i) = Absent}

(* vmalloc: all pages mapped; or none, when frames run out; or a panic,    *)
(* when they run out for a table, or from a page fault.  Without room in   *)
(* the area or for the record of the region nothing happens.  n is 0 for a *)
(* size that rounding up takes past 2^32.                                  *)
Vmalloc(size) ==
  LET n      == num_pages(size)
      first  == Page(vmalloc_current)
      faults == Overruns(first, n)
      m      == AddPages(Memory, current_directory, first,
                         IF faults = {} THEN n ELSE Least(faults), FALSE)
  IN  /\ ~halted
      /\ FitsArea(size)
      /\ Len(region_list) < MaxRegions
      /\ \/ /\ m.outcome = "ok" /\ faults = {}
            /\ SetMemory(m)
            /\ region_list' = << [addr |-> vmalloc_current, size |-> size, pages |-> n] >>
                                \o region_list
            /\ vmalloc_current' = (vmalloc_current + n * PAGE_SIZE) % WORD
            /\ UNCHANGED halted
         \/ /\ m.outcome = "oom"
            /\ SetMemory(RemovePages(m, current_directory, Undone(first, m)))
            /\ UNCHANGED <<region_list, vmalloc_current, halted>>
         \/ /\ \/ m.outcome = "panic"
               \/ m.outcome = "ok" /\ faults # {}
            /\ SetMemory(m)
            /\ halted' = TRUE
            /\ UNCHANGED <<region_list, vmalloc_current>>
      /\ UNCHANGED current_directory

(* vmalloc_find_region: the places of a pointer in the list.               *)
FindRegion(ptr) == {i \in DOMAIN region_list : region_list[i].addr = ptr}

Break_AtFreed(i, regions) ==   \* mutant: falls back to the freed region
  region_list[i].addr

Break(i, regions) == highest_end(regions)

(* vfree: of a region; or a panic, of a pointer that is none (any more).   *)
Vfree(ptr) ==
  LET i       == Least(FindRegion(ptr))
      regions == SubSeq(region_list, 1, i - 1)
                   \o SubSeq(region_list, i + 1, Len(region_list))
  IN  /\ ~halted
      /\ \/ /\ FindRegion(ptr) # {}
            /\ SetMemory(RemovePages(Memory, current_directory, Range(region_list[i])))
            /\ region_list' = regions
            /\ vmalloc_current' = Break(i, regions)
            /\ UNCHANGED <<current_directory, halted>>
         \/ /\ FindRegion(ptr) = {}
            /\ halted' = TRUE
            /\ UNCHANGED <<free_frames, directories, tables, current_directory, tlb,
                           vmallocVars>>

(* vbrk: it moves the break inside the area, by whole pages or not, and    *)
(* never below a region.                                                   *)
Vbrk(increment) ==
  LET new_current == (vmalloc_current + increment) % WORD
      min_current == highest_end(region_list)
  IN  /\ ~halted
      /\ \/ /\ increment > 0 /\ new_current <= VMALLOC_END
            /\ vmalloc_current' = new_current
         \/ /\ increment < 0
            /\ vmalloc_current' =
                 IF new_current < min_current THEN min_current ELSE new_current
      /\ UNCHANGED <<pagingVars, region_list>>

VmallocNext ==
  \/ \E size \in Sizes : Vmalloc(size)
  \/ \E ptr \in {region_list[i].addr : i \in DOMAIN region_list} \cup {VMALLOC_START} :
       Vfree(ptr)
  \/ \E increment \in Increments : Vbrk(increment)

----------------------------------------------------------------------------
VmallocTypeOK ==
  /\ region_list \in Seq([addr: VMALLOC_START .. VMALLOC_END, size: Sizes, pages: Nat])
  /\ vmalloc_current \in VMALLOC_START .. VMALLOC_END

(* Regions never share a page and lie below the break, whatever was freed  *)
(* in between, in whatever order, and wherever vbrk has moved the break.   *)
(* They hold what was asked for, or nothing at all: a size so large that   *)
(* rounding it up to pages passes 2^32 gets a region without any.          *)
RegionsApart ==
  /\ \A i, j \in DOMAIN region_list :
       i # j => Range(region_list[i]) \cap Range(region_list[j]) = {}
  /\ \A i \in DOMAIN region_list :
       LET r == region_list[i]
       IN  /\ r.addr + r.pages * PAGE_SIZE <= vmalloc_current
           /\ IF r.size + PAGE_SIZE <= WORD
                THEN r.size <= r.pages * PAGE_SIZE ELSE r.pages = 0
=============================================================================
