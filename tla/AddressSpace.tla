---------------------------- MODULE AddressSpace ----------------------------
(***************************************************************************)
(* The memory of processes: a page directory for every slot of the process *)
(* table, copied from the kernel's when a process is made, and pages that  *)
(* only this process sees (kernel/src/process.c); beside them the kernel's *)
(* own mappings, made by vmalloc and by the shell's memory tests, all on   *)
(* the same frames.                                                        *)
(*                                                                         *)
(* Of a process only its memory is kept here (module Process has the       *)
(* rest): a slot without pages is unused.  A process may be made, forked   *)
(* and released from the kernel context or from another process; the shell *)
(* commands and vmalloc run in the kernel context.                         *)
(***************************************************************************)
EXTENDS Vmalloc, FiniteSets

CONSTANTS
  PROCESS_PAGE_REGION_BASE, PROCESS_VIRTUAL_STRIDE,   \* in pages
  ProcessPages,         \* of a process: data, bss, heap and stack, so 4
  test_page,            \* that the shell's pagetest and pageperm map
  Reservations          \* sizes asked of mmapproc

Slots == Directories \ {Kernel}

process_virtual_base_for_slot(s) ==
  PROCESS_PAGE_REGION_BASE + s * PROCESS_VIRTUAL_STRIDE

(* The pages of a process; the heap is the last but one.                   *)
PagesOf(s) ==
  process_virtual_base_for_slot(s) ..
    process_virtual_base_for_slot(s) + ProcessPages - 1

heap_start(s) == (process_virtual_base_for_slot(s) + ProcessPages - 2) * PAGE_SIZE
heap_end(s)   == heap_start(s) + PAGE_SIZE

ProcessIndex == PAGE_DIR_INDEX(process_virtual_base_for_slot(1))

ASSUME AddressSpaceAssumption ==
  /\ PROCESS_PAGE_REGION_BASE \in Nat /\ PROCESS_VIRTUAL_STRIDE \in Nat
  /\ ProcessPages \in 2 .. PROCESS_VIRTUAL_STRIDE
  /\ \A s \in Slots : \A p \in PagesOf(s) :
       p \in Pages /\ PAGE_DIR_INDEX(p) = ProcessIndex
  /\ test_page \in Pages
  /\ PAGE_DIR_INDEX(test_page) # ProcessIndex
  /\ test_page * PAGE_SIZE >= VMALLOC_END
  /\ Reservations \subseteq 1 .. WORD - 1

VARIABLES
  memory         \* process_memory_t of every slot

vars == <<pagingVars, vmallocVars, memory>>

(* process_reset_memory                                                    *)
NoMemory == [page |-> [p \in 0 .. ProcessPages - 1 |-> 0], process_page_table |-> 0,
             heap_break |-> 0]

Used(s) == memory[s] # NoMemory

Init ==
  /\ PagingInit
  /\ VmallocInit
  /\ memory = [s \in Slots |-> NoMemory]

----------------------------------------------------------------------------
(* paging_copy_directory                                                   *)
CopyDirectory_FromCurrent(m, s) ==   \* mutant: not of the kernel's
  [m EXCEPT !.directories[s] = m.directories[current_directory]]

CopyDirectory(m, s) ==
  [m EXCEPT !.directories[s] = m.directories[Kernel]]

(* process_release_memory, of a process with the given memory.             *)
ReleaseMemory_KeepsTable(m, s, mem) ==   \* mutant: forgets the table
  LET held == {k \in 0 .. ProcessPages - 1 : mem.page[k] # 0}
      n    == UnmapPages(m, s, {process_virtual_base_for_slot(s) + k : k \in held})
  IN  [n EXCEPT !.free = @ \cup {mem.page[k] : k \in held}]

ReleaseMemory(m, s, mem) ==
  LET held == {k \in 0 .. ProcessPages - 1 : mem.page[k] # 0}
      n    == UnmapPages(m, s, {process_virtual_base_for_slot(s) + k : k \in held})
      t    == mem.process_page_table
  IN  [n EXCEPT !.free = @ \cup {mem.page[k] : k \in held} \cup ({t} \ {0}),
                !.directories[s][ProcessIndex] = IF t # 0 THEN Absent ELSE @]

(* process_allocate_slot takes the first slot that is not used;            *)
(* process_memory_map then copies the kernel's directory and adds the      *)
(* pages.  When frames run out it releases the pages it has, but not the   *)
(* table made for them, which it would only record at its end; when none   *)
(* is left for the table itself the kernel panics.  A fork has used as     *)
(* much of its heap as its source.                                         *)
ProcessCreate(used) ==
  LET s    == Least({t \in Slots : ~Used(t)})
      base == process_virtual_base_for_slot(s)
      m    == AddPages(CopyDirectory(Memory, s), s, base, ProcessPages, TRUE)
      mem  == [page |-> [k \in 0 .. ProcessPages - 1 |-> IF k < m.done
                                          THEN GetPhysical(m, s, base + k) ELSE 0],
               process_page_table |-> 0,
               heap_break |-> heap_start(s)]
  IN  /\ ~halted
      /\ \E t \in Slots : ~Used(t)
      /\ \/ /\ m.outcome = "ok"
            /\ SetMemory(m)
            /\ memory' = [memory EXCEPT ![s] =
                            [mem EXCEPT !.process_page_table = TableOf(m, s, base),
                                        !.heap_break = (@ + used) % WORD]]
            /\ UNCHANGED halted
         \/ /\ m.outcome = "oom"
            /\ SetMemory(ReleaseMemory(m, s, mem))
            /\ UNCHANGED <<memory, halted>>
         \/ /\ m.outcome = "panic"
            /\ SetMemory(m)
            /\ halted' = TRUE
            /\ UNCHANGED memory
      /\ UNCHANGED <<vmallocVars, current_directory>>

Create == ProcessCreate(0)

(* fork_process                                                            *)
Fork(src) ==
  /\ Used(src)
  /\ ProcessCreate(memory[src].heap_break - heap_start(src))

(* process_release; a process is never released while it runs.             *)
ProcessRelease(s) ==
  /\ ~halted
  /\ Used(s) /\ s # current_directory
  /\ SetMemory(ReleaseMemory(Memory, s, memory[s]))
  /\ memory' = [memory EXCEPT ![s] = NoMemory]
  /\ UNCHANGED <<vmallocVars, current_directory, halted>>

(* process_mmap through process_memory_alloc, the sum taken in 32 bits: a  *)
(* size that takes it past 2^32 fits, and moves the break below the heap.  *)
FitsHeap(s, size) == (memory[s].heap_break + size) % WORD <= heap_end(s)

Mmap(s, size) ==
  /\ ~halted /\ current_directory = Kernel
  /\ Used(s) /\ FitsHeap(s, size)
  /\ memory' = [memory EXCEPT ![s].heap_break = (@ + size) % WORD]
  /\ UNCHANGED <<pagingVars, vmallocVars>>

(* schedule_next_process: into the directory of the process that runs and, *)
(* when it gives up the processor, back into the kernel's.                 *)
Schedule(s) ==
  /\ ~halted /\ current_directory = Kernel
  /\ Used(s)
  /\ SwitchDirectory(s)
  /\ UNCHANGED <<free_frames, directories, tables, halted, vmallocVars, memory>>

process_switch_to_kernel_space ==
  /\ ~halted /\ current_directory # Kernel
  /\ SwitchDirectory(Kernel)
  /\ UNCHANGED <<free_frames, directories, tables, halted, vmallocVars, memory>>

(* The shell's pagetest maps the test page for the kernel; pageperm maps   *)
(* it for the kernel and then for user mode.  Both unmap it and give the   *)
(* frame back; a table made for it stays.                                  *)
TestPage(perm) ==
  LET f == Least(free_frames)
      k == MapPage([Memory EXCEPT !.free = @ \ {f}], Kernel, test_page, f, FALSE)
      m == IF perm THEN MapPage(k, Kernel, test_page, f, TRUE) ELSE k
  IN  /\ ~halted /\ current_directory = Kernel
      /\ free_frames # {}
      /\ \/ /\ k.outcome = "ok"
            /\ SetMemory(RemovePages(m, Kernel, {test_page}))
            /\ UNCHANGED halted
         \/ /\ k.outcome = "panic"
            /\ SetMemory(k)
            /\ halted' = TRUE
      /\ UNCHANGED <<vmallocVars, current_directory, memory>>

(* The shell's pmmtest with fewer than three frames left: those it got are *)
(* not given back.  With three and more it leaves the frames as they were. *)
Pmmtest ==
  /\ ~halted /\ current_directory = Kernel
  /\ free_frames # {} /\ Cardinality(free_frames) < 3
  /\ free_frames' = {}
  /\ UNCHANGED <<directories, tables, current_directory, tlb, halted, vmallocVars,
                 memory>>

Next ==
  \/ Create
  \/ \E s \in Slots : Fork(s) \/ ProcessRelease(s) \/ Schedule(s)
  \/ \E s \in Slots, size \in Reservations : Mmap(s, size)
  \/ process_switch_to_kernel_space
  \/ \E perm \in BOOLEAN : TestPage(perm)
  \/ Pmmtest
  \/ current_directory = Kernel /\ VmallocNext /\ UNCHANGED memory

Spec == Init /\ [][Next]_vars

----------------------------------------------------------------------------
(* Types; the break of vmalloc and its regions stay in its area.           *)
TypeOK ==
  /\ PagingTypeOK
  /\ VmallocTypeOK
  /\ memory \in [Slots -> [page: [0 .. ProcessPages - 1 -> Frames \cup {0}],
                           process_page_table: Frames \cup {0},
                           heap_break: 0 .. WORD - 1]]

(* Types; and the regions of vmalloc never share a page and stay below its *)
(* break and in its area, in whatever order vfree takes them away and      *)
(* wherever vbrk moves the break, short of wrapping it (VmallocAssumption).*)
StateSound == TypeOK /\ RegionsApart

(* The kernel has no table of its own where processes have theirs: vmalloc *)
(* has not grown that far.  Once it has, a process shares the kernel's     *)
(* table, and process_release_memory frees it with the process.            *)
Apart == directories[Kernel][ProcessIndex] = Absent

Sound == ~halted /\ Apart

(* The kernel has the pages of the vmalloc regions mapped and no other: a  *)
(* vmalloc that fails half way leaves nothing behind, vfree of one region  *)
(* takes nothing from another, and neither processes nor the shell's tests *)
(* leave a page in the kernel's directory.                                 *)
MappedExactly ==
  Sound => \A p \in Pages :
    EntryOf(Memory, Kernel, p) # Absent
      <=> \E i \in DOMAIN region_list : p \in Range(region_list[i])

(* The uses that frames are put to, each with its frame: as a page and as  *)
(* a table of the kernel, and of a process.                                *)
Uses ==
  LET m == Memory
      kernel_pages == {<<GetPhysical(m, Kernel, p), "kernel page", p>> : p \in Pages}
      kernel_tables == {<<directories[Kernel][i].frame, "kernel table", i>> :
                          i \in DOMAIN EmptyDirectory}
      pages == UNION {{<<memory[s].page[k], "page", s, k>> : k \in 0 .. ProcessPages - 1} :
                        s \in Slots}
      page_tables == {<<memory[s].process_page_table, "table", s>> : s \in Slots}
  IN  {u \in kernel_pages \cup kernel_tables \cup pages \cup page_tables : u[1] # 0}

(* No frame has two uses, and a free one has none: what                    *)
(* process_release_memory, vfree and the rollbacks of vmalloc and          *)
(* process_memory_map give back is theirs, and given back once.            *)
FramesAccounted ==
  Sound => LET used == {u[1] : u \in Uses}
           IN  used \cap free_frames = {} /\ Cardinality(used) = Cardinality(Uses)

(* A process sees its own pages, on its own frames, and no page of another *)
(* process; what it sees beside them is the kernel's.                      *)
ProcessesApart ==
  Sound => \A s \in Slots : Used(s) => \A p \in Pages :
    LET e == EntryOf(Memory, s, p)
    IN  IF p \in PagesOf(s)
          THEN e = [frame |-> memory[s].page[p - process_virtual_base_for_slot(s)],
                    user |-> TRUE]
        ELSE e \in {Absent, EntryOf(Memory, Kernel, p)} /\ ~e.user

(* The processor can hold no translation that the tables of the current    *)
(* directory do not give: every page mapped or unmapped under it has been  *)
(* flushed.                                                                *)
TLBCoherent ==
  Sound => \A p \in Pages : tlb[p] = EntryOf(Memory, current_directory, p)

(* Frames that are not free and that nothing has in use.                   *)
Lost == Frames \ (free_frames \cup {u[1] : u \in Uses})

(* Frames are lost only when they ran out, which takes the table of the    *)
(* process that could not be made, or all that pmmtest could get.          *)
LostOnlyWhenShort ==
  [][Sound /\ Sound' /\ Lost' # Lost =>
       /\ Lost \subseteq Lost'
       /\ \/ Cardinality(free_frames) <= ProcessPages /\ Cardinality(Lost' \ Lost) = 1
          \/ Cardinality(free_frames) < 3 /\ free_frames' = {}]_vars
=============================================================================
