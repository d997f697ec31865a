------------------------------- MODULE Paging -------------------------------
(***************************************************************************)
(* Page directories and page tables of kernel/src/paging.c, on the frames  *)
(* of the physical memory manager.  A directory has one entry per table, a *)
(* table one per page; an entry holds a frame and whether user mode may    *)
(* use it, or nothing.                                                     *)
(*                                                                         *)
(* The operators take and give the memory state as a record: the free      *)
(* frames, the directories, what every frame holds as a table, the TLB,    *)
(* the outcome so far, "ok", "oom" (no frame for a page) or "panic" (none  *)
(* for a table), and how many pages were added.  pmm_alloc_frame gives the *)
(* lowest free frame (module Pmm).                                         *)
(*                                                                         *)
(* The TLB may hold any translation of the current directory that was used *)
(* since the page was last flushed; tlb holds all of them, the most that   *)
(* it can.                                                                 *)
(*                                                                         *)
(* Tables are written through their physical address: frames stand for     *)
(* memory of the identity-mapped first 16MB.                               *)
(***************************************************************************)
EXTENDS Integers, SetMin

CONSTANTS
  PAGE_DIR_ENTRIES, PAGE_TABLE_ENTRIES,
  PROCESS_MAX_COUNT,    \* one directory each, that of slot 0 the kernel's
  Frames                \* frames that can be allocated, as positive numbers

ASSUME PagingAssumption ==
  /\ PAGE_DIR_ENTRIES \in Nat \ {0} /\ PAGE_TABLE_ENTRIES \in Nat \ {0}
  /\ PROCESS_MAX_COUNT \in Nat \ {0, 1}
  /\ Frames \subseteq Nat \ {0}

VARIABLES
  free_frames,   \* of the physical memory manager
  directories,   \* kernel_page_directory and process_page_directories
  tables,        \* the entries a frame holds when it is a page table
  current_directory,
  tlb,           \* the translation of a page that the processor may hold
  halted         \* the kernel has panicked

pagingVars ==
  <<free_frames, directories, tables, current_directory, tlb, halted>>

Kernel == 0
Directories == 0 .. PROCESS_MAX_COUNT - 1
Pages == 0 .. PAGE_DIR_ENTRIES * PAGE_TABLE_ENTRIES - 1

PAGE_DIR_INDEX(page)   == page \div PAGE_TABLE_ENTRIES
PAGE_TABLE_INDEX(page) == page % PAGE_TABLE_ENTRIES

Absent == [frame |-> 0, user |-> FALSE]
Entry  == [frame: Frames, user: BOOLEAN] \cup {Absent}

EmptyTable     == [i \in 0 .. PAGE_TABLE_ENTRIES - 1 |-> Absent]
EmptyDirectory == [i \in 0 .. PAGE_DIR_ENTRIES - 1 |-> Absent]

Memory == [free |-> free_frames, directories |-> directories, tables |-> tables,
           tlb |-> tlb, outcome |-> "ok", done |-> 0]

SetMemory(m) ==
  /\ free_frames' = m.free
  /\ directories' = m.directories
  /\ tables' = m.tables
  /\ tlb' = m.tlb

TableOf(m, d, page) == m.directories[d][PAGE_DIR_INDEX(page)].frame

(* The entry that the tables of a directory give for a page.               *)
EntryOf(m, d, page) ==
  IF TableOf(m, d, page) = 0 THEN Absent
  ELSE m.tables[TableOf(m, d, page)][PAGE_TABLE_INDEX(page)]

(* paging_get_or_create_table: user access, once asked for, stays.         *)
GetOrCreateTable(m, d, page, user) ==
  LET i == PAGE_DIR_INDEX(page)
      t == Least(m.free)
  IN  IF TableOf(m, d, page) # 0
        THEN [m EXCEPT !.directories[d][i].user = @ \/ user]
      ELSE IF m.free = {} THEN [m EXCEPT !.outcome = "panic"]
      ELSE [m EXCEPT !.free = @ \ {t},
                     !.tables[t] = EmptyTable,
                     !.directories[d][i] = [frame |-> t, user |-> user]]

(* paging_map_page_in_directory: in the current directory the page is      *)
(* flushed, and may be used at once.                                       *)
MapPage(m, d, page, frame, user) ==
  LET n == GetOrCreateTable(m, d, page, user)
      e == [frame |-> frame, user |-> user]
  IN  IF n.outcome # "ok" THEN n
      ELSE [n EXCEPT
              !.tables[TableOf(n, d, page)][PAGE_TABLE_INDEX(page)] = e,
              !.tlb[page] = IF d = current_directory THEN e ELSE @]

(* paging_get_physical_in_directory                                        *)
GetPhysical(m, d, page) == EntryOf(m, d, page).frame

(* paging_unmap_page_in_directory, of several pages.                       *)
ClearEntries(m, d, pages) ==
  [m EXCEPT !.tables =
     [f \in Frames |-> [i \in DOMAIN EmptyTable |->
        IF \E p \in pages : TableOf(m, d, p) = f /\ PAGE_TABLE_INDEX(p) = i
          THEN Absent ELSE @[f][i]]]]

UnmapPages_NoFlush(m, d, pages) ==   \* mutant: forgets the TLB
  ClearEntries(m, d, pages)

UnmapPages(m, d, pages) ==
  [ClearEntries(m, d, pages) EXCEPT !.tlb =
     [p \in Pages |->
        IF d = current_directory /\ p \in pages /\ TableOf(m, d, p) # 0
          THEN Absent ELSE @[p]]]

(* A frame for a page, mapped and zeroed; and so for n pages.              *)
AddPage(m, d, page, user) ==
  LET f == Least(m.free)
      n == MapPage([m EXCEPT !.free = @ \ {f}], d, page, f, user)
  IN  IF m.outcome # "ok" THEN m
      ELSE IF m.free = {} THEN [m EXCEPT !.outcome = "oom"]
      ELSE IF n.outcome = "panic" THEN n
      ELSE [n EXCEPT !.tables[f] = EmptyTable, !.done = @ + 1]

AddPages(m, d, first, n, user) ==
  LET after[i \in 0 .. n] ==
        IF i = 0 THEN m ELSE AddPage(after[i - 1], d, first + i - 1, user)
  IN  after[n]

(* Pages unmapped and the frames they were mapped to given back.           *)
RemovePages_StaysMapped(m, d, pages) ==   \* mutant: frees, and does not unmap
  [m EXCEPT !.free = @ \cup ({GetPhysical(m, d, p) : p \in pages} \ {0})]

RemovePages(m, d, pages) ==
  [UnmapPages(m, d, pages) EXCEPT
     !.free = @ \cup ({GetPhysical(m, d, p) : p \in pages} \ {0})]

(* paging_switch_directory: loading CR3 empties the TLB.                   *)
SwitchDirectory(d) ==
  /\ current_directory' = d
  /\ tlb' = [p \in Pages |-> EntryOf(Memory, d, p)]

(* paging_init: the identity-mapped tables of the first 16MB never change  *)
(* and are left out.                                                       *)
PagingInit ==
  /\ free_frames = Frames
  /\ directories = [d \in Directories |-> EmptyDirectory]
  /\ tables = [f \in Frames |-> EmptyTable]
  /\ current_directory = Kernel
  /\ tlb = [p \in Pages |-> Absent]
  /\ halted = FALSE

PagingTypeOK ==
  /\ free_frames \subseteq Frames
  /\ directories \in [Directories -> [0 .. PAGE_DIR_ENTRIES - 1 -> Entry]]
  /\ tables \in [Frames -> [0 .. PAGE_TABLE_ENTRIES - 1 -> Entry]]
  /\ current_directory \in Directories
  /\ tlb \in [Pages -> Entry]
  /\ halted \in BOOLEAN
=============================================================================
