# kfs3: a verification development

TLA+ models of the kernel in `kernel/`, checked with TLC on small instances,
with the central invariants proved with TLAPS for every size. Paths below are
relative to the repository; `PROJECT.json` maps each definition to its lines.

## The system

A single-CPU i386 kernel. Two kinds of code interleave: the **kernel context**
(boot, then the shell loop, which also drives the scheduler) with the
**processes** it switches to cooperatively, and **interrupt handlers** (IRQ0
timer, IRQ1 keyboard), which run with interrupts off and only touch the tick
counter, the character ring and the kernel signal ring.

| Component (source) | State | Operations | Talks to | Hard part | Right when |
|---|---|---|---|---|---|
| Process manager (`process.c`) | 16 slots, global list, kinship, pids, cursor, current process, signal and socket rings | create, exec, fork, wait, exit, kill/signal, socket send/recv, yield, deliver, pick, schedule | paging, pmm (memory), shell, syscalls | slot reuse, exit against wait, stale cursor and parent pointers | list and table agree, no lost wakeup, the dead stay dead, nobody starves |
| Tick counter (`process.c`, `timer.c`) | `pending_scheduler_ticks` | IRQ0 increments, `scheduler_run_pending` decrements | both contexts | unprotected read-modify-write | ticks may be lost, never invented |
| Physical memory (`pmm.c`) | bitmap, counts | boot from the memory map, reserve, alloc, free | paging, vmalloc, process | rounding, overlapping regions, last byte | each usable frame is free or held once |
| Kernel heap (`kmalloc.c`) | block list, `heap_end` | kmalloc, kfree, kbrk | vmalloc, shell | split, merge, signed and unsigned | blocks tile the heap |
| Virtual memory (`vmalloc.c`, `paging.c`, memory of `process.c`) | regions, break, directories, page tables, TLB, process pages | vmalloc, vfree, vbrk, map, unmap, copy, switch, create, fork, release, mmap | pmm, kmalloc, scheduler | failure half way, copied directories, shared frames | mapped exactly the regions' pages, processes apart, no frame used twice |
| Keyboard and kernel signals (`keyboard.c`, `signals.c`) | two rings, shift, E0 prefix | IRQ1, try_read, schedule, dispatch | shell, boot loop | handler against reader | bounded FIFO queues, drained |
| Terminal (`main.c`) | scrollback, text memory, cursor, offset | putchar, clear, scroll | everyone who prints | fast paths against full redraw | the screen shows the buffer |
| Shell (`shell.c`) | input line | line editor, commands | all | arbitrary order of commands | through the others |
| System calls (`syscall.c`) | handler table | fork, wait, exit, getuid, signal, kill | process manager | exit returns to its caller | through the process manager |
| Interrupts, boot, panic (`idt.c`, `interrupts.asm`, `timer.c`, `main.c`, `panic.c`) | handler table, PIC, interrupt flag, frames, saved context | boot steps, dispatch, EOI, panic, the shell's exception tests | hardware, timer, keyboard, signals | order of registering, unmasking and enabling; restoring the flag | no handler nests or is missing, no key sticks, a panic is final |
| GDT, serial line | tables, ports | set-up, output | hardware | | not modelled, see below |

## Modules

| Module | Models |
|---|---|
| `Process` | `process.c`: one action per call into the manager. `pc` says whether the kernel context is in the shell, in the delivery pass, at the scheduling point, or a process runs. Rings are sequences with the ring's capacity less one; the sibling chain is a set. |
| `Lifecycle`, `ProcessLife` | the abstract life of a pid (unborn, live, dead, gone), and the mapping from `Process` |
| `TickCounter`, `Ticks` | an atomic counter that may lose ticks, and the code's loads and stores as the optimised build orders them |
| `Pmm`, `MCPmm` | `pmm.c`, boot included. A frame number is a natural; addresses are computed modulo the address space. |
| `KHeap` | `kmalloc.c`, with words of bounded width and a signed `kbrk` |
| `HeapClients` | the heap with its callers: vmalloc's region records, the shell's alloc, free and heaptest |
| `Paging` | `paging.c`: directories, tables, mapping and unmapping as functions on a record of the memory, and the TLB |
| `Vmalloc` | `vmalloc.c` on the kernel's directory |
| `AddressSpace`, `MCAddressSpace` | the memory of processes (`process_memory_map`, release, fork, mmap) and the shell's page tests, composed with `Vmalloc` and `Paging` on the same frames |
| `Interrupts` | boot order, PIC, gates, dispatch, panic; IRQ0 drives the counter of `Ticks`, which it extends |
| `Programs` | `Process` with the entry functions and the shell commands the kernel ships as its only callers |
| `BoundedQueue`, `Input` | an abstract queue, and the keyboard and signal rings with their handler and readers |
| `Terminal` | the terminal in `main.c` with the shell's line editor |
| `SetMin` | the least element of a set of numbers |
| `ProcessProofs`, `LifecycleProofs`, `ProgramsProofs` | theorems about `Process`, about `ProcessLife` on top of them, and about `Programs` |
| `InterruptsProofs` | theorems about `Ticks` and `Interrupts` |
| `PmmProofs`, `KHeapProofs`, `InputProofs`, `TerminalProofs` | theorems about the module of that name; `KHeapProofs` also about `HeapClients` |
| `MCProcess` | the instance of `Process` for TLC |

Definitions whose names end in a variant (`Kbrk_NoBound`) are mutants: what a
plausible mistake would make of the definition after them. Each property has
one that breaks it.

## Runs

| Run | Question | Distinct states |
|---|---|---|
| `process` | the inductive invariant (list, cursor, pids, wakeups, children, complete delivery passes) and final deaths under arbitrary calls; no starvation; fatal signals kill; `Process` implements `Lifecycle` (fair); 3 slots, 3 pids | 195,264 |
| `programs` | the same invariant, and what the entry functions rely on, with the shipped callers (inductive); no word is sent twice, a pair completes, programs end (fair); 4 slots, 4 pids | 190,204 |
| `interrupts` | the inductive invariant `IRQInv`: no nesting, no missing handler, contained exception tests, a final panic with a true context; the racy tick counter implements the atomic one; ticks are served and keys read (fair) | 221,080 |
| `pmm` | the inductive invariant (counts, boot progress, disjoint allocations); free exactly the usable frames nobody holds | 929 |
| `kheap` | tiling, bounds and room kept; merging; every client frees its own block, once | 388,156 |
| `address_space` | regions, mappings, one use per frame, isolation, TLB, and what is lost when frames run out | 147,774 |
| `input` | both rings are queues; the first key is there; input is drained (fair) | 139,302 |
| `terminal` | the live and the scrolled view match the buffer, nothing is left after the cursor | 19,539 |

What the composed runs show of the code:

- `address_space`: when `process_memory_map` runs out of frames it gives back its
  pages but not the page table made for them, which it would record last. This,
  and `pmmtest` with fewer than three frames left, are the only ways to lose
  frames (`LostOnlyWhenShort`). A directory copied from the kernel's lacks
  tables made later, but never shows an old one. `process_memory_alloc` adds in
  32 bits, and `mmapproc` hands it any size: a reservation that wraps passes the
  check and moves the break below the heap. `Mmap` does the same, and no property
  says where the break of a process is; nothing is mapped by it.
- `vmalloc` and `vbrk` in the same run: regions never share a page and stay in the
  area, also when `vbrk` leaves the break inside a page. `vmalloc` then maps the
  page and, zeroing from the break, runs into the next one: a page fault, so the
  kernel stops. A size that rounding up takes past 2^32 gets a region without a
  page, at the address that the next region gets too. Left out is a decrement of
  `vbrk` larger than the break itself (`VmallocAssumption`): it wraps the break past
  the end of the area, where nothing checks it. `vbrk` has no caller, and
  the only `vmalloc` asks for 8192 bytes (`vmtest`).
- `interrupts`: IRQ1 is unmasked long before its handler exists; only the
  interrupt flag, off until the end of boot, keeps this harmless, and only
  because `init_keyboard` empties the controller is the first key not also the last.
- `programs`: `socket_send` reports failure for a word it has queued when the
  signal ring is full, and the sender sends again. In the shipped programs the
  ring is never full at a send, because each pass takes a signal from every ring,
  a zombie's too, before its one process runs. Nothing wakes a receiver whose sender was killed, nor ends a
  sender whose receiver is gone: the two liveness properties exclude exactly
  these. A forked program starts its entry function again.

Four runs exhibit a disagreement between the code and what the repository says
of it:

- `process_kinship`: collecting a parent leaves its children with a pointer to
  a cleared slot. When that slot is reused by such a child's own child, the two
  could even wait for each other; no run states that.
- `pmm_oom`: `pmm_alloc_frame` never looks at the frames after the last whole
  bitmap byte.
- `kheap_large`: a request of 2^31 bytes or more becomes a negative `kbrk`.
- `input_scroll`: the shift state is read when the key is taken, so a shifted
  arrow can be returned to the caller.

A weakness that is part of a property: `'\b'` over a line end with the cursor
on the last line of the screen moves the view back without redrawing it
(`kernel/src/main.c`, `terminal_putchar`). `LiveViewMatches` holds except from
there to the next redraw, which the history variable `slipped` of `Terminal`
records. What else a property leaves out is an assumption on constants
(`VmallocAssumption`, `MemoryMapAssumption`) or a condition in its statement
(`Sound` in `AddressSpace`: before a panic, and while processes have their
directory entry to themselves).

**Bounds.** Every bound is a constant with a comment (`MaxPid`, `MaxTicks`,
`MaxTotal`, `MaxInput`, `MaxRegions`) or a small size. Three slots and
three pids suffice for the kernel, a parent and a child, an orphan whose parent's
slot is free, a full table and a slot used again. The slot of a dead parent given
to a fourth process while the child still names it takes a fourth pid, and 1.6
million states, too many for the liveness properties: it is left to the proofs,
which cover everything but those. The rings of `process` have two
cells and so hold one entry, and are empty or full; signals
behind others in a longer ring are left to the proof of `IndInv`. The rings of
`input` are also partly full. A 2x2 screen over four lines of buffer meets every margin.
`kheap` leaves out requests of half the word or more, which is what
`kheap_large` is about. `address_space` has two processes of two pages, six
frames and tables of four entries, so that frames run out at every step of every
operation, for a page and for a table. The vmalloc area has three pages, for a
region in the middle of two; regions have one page, two, or none (at most one
such at a time, `OneEmptyRegion`), and sizes whose sum with the break wraps, for
which frames run out first, are not asked for. A view (`View`) identifies states
that differ only in the directory of an unused slot, which is overwritten before
it is read. The area ends below the process region. In the kernel the
area reaches over it (16 MB of regions would do): processes would then share the
kernel's table, and releasing one would free it, so the properties are stated
while that directory entry is the processes' alone (`Apart`). `interrupts`
counts modulo 3, with three ticks and two bytes, of which any number may be there
from before boot. `programs` has a pair, a third process and a full table;
counters count to one, which is one yield and one end. `process` has one owner
and `programs` one beside the kernel's: two that differ are covered by the proof
of `IndInv`.

**Fairness.** `Process`: weak fairness of the timer, of the scheduler and of
leaving the CPU. The timer is periodic; the boot and shell loops call
`scheduler_run_pending` in every turn; each shipped entry function yields in
every iteration. A command that runs long delays the loop but returns.
`Programs`: the same, and a command that makes two processes goes on to the
second. `Interrupts`: weak fairness of code that is running; strong fairness of
the processor taking a request, because handlers and critical sections turn
interrupts off again and again but are followed by instructions with them on;
and of the kernel loop, because commands interrupt it again and again but
return to it. `Input`: the kernel context keeps running its loop. Nothing is assumed of
users: no key, command or signal has to come. Input is finite in `Input`; an
endless serial stream would keep the keyboard waiting.

## Proofs

All for arbitrary sizes, from the named assumptions on the constants
(`ProcessAssumption`, `ProgramsAssumption`, `TicksAssumption`,
`InterruptsAssumption`, `PmmAssumption`, `MemoryMapAssumption`,
`KHeapAssumption`, `HeapClientsAssumption`, `PagingAssumption`,
`VmallocAssumption`, `AddressSpaceAssumption`, `InputAssumption`,
`TerminalAssumption`).

- `ProcessProofs`, the manager: `IndInv` is inductive (`Invariance`); from it
  types, list and cursor, distinct pids, pending wakeups, one running process,
  complete delivery and sound children lists; `ZombiesFinal` (in
  `LifecycleProofs`) is an action property from the same invariant. The safety invariants are not inductive
  alone: reuse of a slot needs it cleared (`UnusedBlank`), wakeups need that
  nobody is their own parent (`NotOwnParent`), delivery needs how far the pass
  has come (`DeliveryPass`).
- `LifecycleProofs`, the life cycle: `LifecycleImplemented`. The mapping reads the
  life of a pid off the slot that holds it. With `IndInv` and the bounds of pids
  (`PidsBounded`), each step either leaves every pid's life alone (`LifeStutter`)
  or moves one pid (`LifeCreated`, `LifeAborted`, `LifeDies`, `LifeCollected`);
  at most one process dies in a step (`EndsOne`).
- `ProgramsProofs`: `ProgramsInv` is inductive. It adds to `IndInv`
  the local state of each program, what a command has still to start, and
  `RingsOpen`: a pass of signal delivery leaves no ring full. From it follow
  `ProgramsSafe` and `NoWordTwice`. A failed sockdemo releases a process that is
  no zombie; it is the kernel's child, and the kernel never waits, so
  `NoLostWakeup` survives. The signal ring is assumed to have more than one cell
  (it has 16): with one, every send would fail and be repeated.
- `InterruptsProofs`, the counter: `TicksRefine`. The mapping `ticksSeen` shows
  the loaded copy while a store is due, so a tick in that window is a `Lose`
  step. `InterruptsRefine` says the same of the counter in the whole kernel.
- `InterruptsProofs`, the interrupts: `IRQInv` is inductive. No nesting needs
  that the flag is off in every frame and while boot, a critical section or a
  panic is under way (`InterruptsOff`); a handler in place needs the order of
  boot (`HandlersRegistered`); a true panic context needs what each frame may be
  doing (`FrameSound`) and what was saved (`ContextSaved`). `PanicsFinal` is an
  action property from it.
- `PmmProofs`: `BootProgress` says after each boot step which frames are free;
  with it the count, the disjointness of allocations and "free exactly the
  usable frames nobody holds" are inductive. Available regions are assumed to
  end below 4 GB (`MemoryMapAssumption`): what `pmm_init` makes of the low words of
  others is set aside.
- `KHeapProofs`: the blocks tile the heap, pointers keep their room, free blocks
  have no free neighbour (`HeapKept`, for any client that frees what it holds
  once), and the kernel's own clients are such (`PointersFreeable`). Taking,
  splitting and merging are all one operation, some neighbours replaced by
  others that fill the same range (`Spliced`, `Refilled`); that blocks do not
  overlap follows from the tiling by a least counterexample (`Apart`). For the
  clients one needs besides `Freeable` that heaptest's own pointers differ. The
  theorems have one hypothesis, `RequestsFit`: no sum in `kmalloc` leaves its
  word. With a heap below 16 MB that is every request up to 2 GB less a few
  bytes; `kheap_large` shows that without it `HeapSound` is false. The
  constants of the run `kheap` satisfy it.
- `InputProofs`: types with the waiting of boot for the first key, and both rings
  refine `BoundedQueue`; the content of a ring is the queue from tail to head,
  and the ring lemmas say what a put and a take do to it at every wrap.
- `TerminalProofs`: the four invariants are inductive together; the fast paths of
  `terminal_putchar` and the redraws leave the same screen.

Only model-checked: the liveness properties (the prover has no fairness
reasoning here: `NoStarvation`, `FatalSignalKills`, `PairCompletes`,
`ProgramsEnd`, `TicksServed`, the reading of keys and the draining of input),
and `LostOnlyWhenShort`, which counts frames over the loops of process creation.
Model-checked too: the five invariants of `AddressSpace` (`StateSound`,
`MappedExactly`, `FramesAccounted`, `ProcessesApart`, `TLBCoherent`). That a release frees only its own frames needs an owner for
every frame, kept through the page loops of `vmalloc`, `vfree`,
`process_memory_map` and their undo; such a proof is open.

## Not modelled

- Port I/O and tables that are loaded once: the PIT's divisor, the serial port,
  the GDT, the encoding of gates, the slave PIC (its lines stay masked).
- Registers, stacks and the words programs write into their pages; the identity
  mapping, page flags other than user, and the dumps.
- Shell parsing and printing, and the commands that only show state; what
  kernel signal handlers do; rendering of a panic; statistics.
- Functions without a caller: `kmalloc_aligned`, `keyboard_get_line`,
  `pmm_mark_frame_used`, `pmm_is_frame_allocated`, `process_signal`,
  `syscall_register`.
- Memory above 4 GB: `Pmm` takes the number of frames as given, so a total that
  wrapped is one of its values, and excludes memory map entries that wrap.
- Memory above 16 MB as page tables: they are written through their physical
  address, which is mapped only below; frames of `Paging` stand for that memory.
  No caller holds the thousand frames it would take to get there.
- The build and test scripts, which run on the host.

## Plan

Order: scheduler first (it carries the system), then memory, then input and
output.

1. Done: the modules and theorems above.
2. Proofs: the invariants of `AddressSpace`, by an owner function on frames;
   then which frames are lost (`LostOnlyWhenShort`).
3. A pointer-level model of the sibling and global lists that refines the set
   and the sequence of `Process`.
