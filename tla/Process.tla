------------------------------ MODULE Process ------------------------------
(***************************************************************************)
(* The process manager and scheduler of kernel/src/process.c.              *)
(*                                                                         *)
(* One CPU runs one of two contexts: the kernel context (boot loop, shell, *)
(* scheduler) or the context of the process in current_process.  Processes *)
(* are cooperative: a process keeps the CPU until it yields or its entry   *)
(* function returns.  The only thing that interleaves with either context  *)
(* is the timer interrupt, and it touches nothing but the tick counter.    *)
(* So every call into the process manager is one action, and the variable  *)
(* pc says where the kernel context stands inside scheduler_run_pending.   *)
(*                                                                         *)
(* Callers are arbitrary: the kernel context may issue any shell command,  *)
(* a process any sequence of system calls, socket calls and yields.        *)
(*                                                                         *)
(* Memory is abstracted to one bit: process_memory_map succeeds or fails.  *)
(* Left out because nothing here reads it: rights, counters, last_signal,  *)
(* runtime_* arguments, register contexts.  signal_handler is always the   *)
(* default one, as no code installs another.  scheduler_enabled is 1 from  *)
(* process_init on.                                                        *)
(***************************************************************************)
EXTENDS Integers, Sequences, FiniteSets, SetMin

CONSTANTS
  PROCESS_MAX_COUNT,              \* slots of process_table
  PROCESS_SIGNAL_QUEUE_CAPACITY,  \* cells of the signal ring; one stays empty
  PROCESS_SOCKET_CAPACITY,        \* cells of the socket ring; one stays empty
  Owners,      \* owner ids the kernel context passes to process_create_owned
  Signals,     \* signal numbers that callers send
  Values,      \* words sent through sockets
  ExitCodes,   \* codes a process passes to _exit or leaves in runtime_value
  MaxPid,      \* bound: no process is created once next_pid exceeds it
  MaxTicks     \* bound: timer interrupts stop while this many ticks pend

ASSUME ProcessAssumption ==
  /\ PROCESS_MAX_COUNT \in Nat \ {0}
  /\ PROCESS_SIGNAL_QUEUE_CAPACITY \in Nat \ {0}
  /\ PROCESS_SOCKET_CAPACITY \in Nat \ {0}
  /\ Owners \subseteq Nat
  /\ Signals \subseteq Nat
  /\ ExitCodes \subseteq Nat
  /\ MaxPid \in Nat \ {0}
  /\ MaxTicks \in Nat

PROCESS_SIGNAL_KILL   == 9
PROCESS_SIGNAL_TERM   == 15
PROCESS_SIGNAL_SOCKET == 17

Slots  == 0 .. PROCESS_MAX_COUNT - 1
Kernel == 0      \* kernel_process is &process_table[0]
NULL   == -1     \* the null process pointer

Statuses == {"READY", "RUN", "WAITING", "ZOMBIE", "THREAD"}

VARIABLES
  table,     \* process_table
  list,      \* the chain process_head -> next -> ... as a sequence of slots
  cursor,    \* scheduler_cursor
  current,   \* current_process
  next_pid,
  pending,   \* pending_scheduler_ticks
  pc,        \* control point: "shell", "deliver", "schedule" (kernel) or "run"
  position   \* next index of list that the signal delivery pass visits

vars == <<table, list, cursor, current, next_pid, pending, pc, position>>

(* One slot.  The rings of signals and socket words are the sequences of   *)
(* their unread entries, the sibling chain is the set of its members.      *)
ProcessType ==
  [used: BOOLEAN, pid: Nat, status: Statuses, owner: Nat,
   parent: Slots \cup {NULL}, children: SUBSET Slots,
   wait_target_pid: Nat, exit_code: Nat,
   signals: Seq(Nat), socket: Seq(Values)]

(* A slot after process_memset(process, 0, ...).                           *)
Blank ==
  [used |-> FALSE, pid |-> 0, status |-> "READY", owner |-> 0,
   parent |-> NULL, children |-> {},
   wait_target_pid |-> 0, exit_code |-> 0,
   signals |-> <<>>, socket |-> <<>>]

Linked     == {list[i] : i \in DOMAIN list}
FreeSlots  == {s \in Slots \ {Kernel} : ~table[s].used}

(* The position of process p in the global list.                           *)
IndexOf(p) == CHOOSE i \in DOMAIN list : list[i] = p

(* process_unlink_global: the list without its i-th element.               *)
DropAt(s, i) == [j \in 1 .. Len(s) - 1 |-> IF j < i THEN s[j] ELSE s[j + 1]]

----------------------------------------------------------------------------
(* Operations on the table that several callers share, as functions from   *)
(* the table before to the table after.                                    *)

(* Mutants of process_exit: the parent is not woken; a zombie exits again. *)
ProcessExit_NoWakeup(tbl, p, code) ==
  IF p = Kernel \/ tbl[p].status = "ZOMBIE" THEN tbl
  ELSE [tbl EXCEPT ![p].exit_code = code, ![p].status = "ZOMBIE"]

ProcessExit_Twice(tbl, p, code) ==
  IF p = Kernel THEN tbl
  ELSE [tbl EXCEPT ![p].exit_code = code, ![p].status = "ZOMBIE"]

(* process_exit: a no-op for the kernel and for a zombie; wakes a parent   *)
(* that waits for this process.                                            *)
ProcessExit(tbl, p, code) ==
  IF p = Kernel \/ tbl[p].status = "ZOMBIE" THEN tbl
  ELSE [s \in Slots |->
          IF s = p
            THEN [tbl[s] EXCEPT !.exit_code = code, !.status = "ZOMBIE"]
          ELSE IF /\ s = tbl[p].parent
                  /\ tbl[s].status = "WAITING"
                  /\ tbl[s].wait_target_pid \in {0, tbl[p].pid}
            THEN [tbl[s] EXCEPT !.status = "READY"]
          ELSE tbl[s]]

(* deliver_process_signal with the default handler: signals are popped     *)
(* until the queue is empty or the process is a zombie, so at most one of  *)
(* them, the first fatal one, ends the process.                            *)
Fatal == {PROCESS_SIGNAL_KILL, PROCESS_SIGNAL_TERM}

DeliveredCount(tbl, p) ==
  LET q     == tbl[p].signals
      fatal == {i \in 1 .. Len(q) : q[i] \in Fatal}
  IN  IF q = <<>> THEN 0
      ELSE IF tbl[p].status = "ZOMBIE" THEN 1
      ELSE IF p # Kernel /\ fatal # {} THEN Least(fatal)
      ELSE Len(q)

DeliverSignals_SkipBlocked(tbl, p) ==   \* mutant: not to a blocked process
  LET q == tbl[p].signals
  IN  IF tbl[p].status = "WAITING" \/ q = <<>> THEN tbl
      ELSE IF Head(q) \in Fatal THEN ProcessExit(tbl, p, 128 + Head(q))
      ELSE [tbl EXCEPT ![p].signals = Tail(q)]

DeliverSignals(tbl, p) ==
  LET q      == tbl[p].signals
      n      == DeliveredCount(tbl, p)
      popped == [tbl EXCEPT ![p].signals = SubSeq(q, n + 1, Len(q))]
  IN  IF n > 0 /\ q[n] \in Fatal THEN ProcessExit(popped, p, 128 + q[n])
      ELSE popped

(* queue_process_signal; a full ring refuses the signal.                   *)
SignalQueueFull(p) ==
  Len(table[p].signals) >= PROCESS_SIGNAL_QUEUE_CAPACITY - 1

(* process_release of slot c: unlinked from its parent's children and from *)
(* the global list, then cleared.  Its own children keep their parent      *)
(* pointer.  The scheduler cursor never stays on the released slot.        *)
ReleasedTable(tbl, c) ==
  [s \in Slots |->
     IF s = c THEN Blank
     ELSE IF s = tbl[c].parent
       THEN [tbl[s] EXCEPT !.children = @ \ {c}]
     ELSE tbl[s]]

CursorAfterRelease_Stays(c) == cursor   \* mutant: on the released slot
CursorAfterRelease(c) == IF cursor = c THEN Head(list) ELSE cursor

----------------------------------------------------------------------------
(* Calls into the process manager.  The caller is the context on the CPU:  *)
(* the kernel context between two scheduler iterations, or a process.      *)

Calling == pc \in {"shell", "run"}

(* process_create_internal: the first free slot; a pid is consumed even    *)
(* when mapping the memory fails and the slot is released again.           *)
NewProcess(id, own, par) ==
  [Blank EXCEPT !.used = TRUE, !.pid = id, !.owner = own, !.parent = par]

CreatedTable(par, own) ==
  LET s == Least(FreeSlots)
  IN  [t \in Slots |->
         IF t = s THEN NewProcess(next_pid, own, par)
         ELSE IF t = par THEN [table[t] EXCEPT !.children = @ \cup {s}]
         ELSE table[t]]

CreateSucceeds(par, own) ==
  /\ Calling
  /\ next_pid <= MaxPid
  /\ FreeSlots # {}
  /\ table' = CreatedTable(par, own)
  /\ list' = Append(list, Least(FreeSlots))
  /\ next_pid' = next_pid + 1
  /\ UNCHANGED <<cursor, current, pending, pc, position>>

(* process_memory_map finds no frame for one of the four pages: the frames *)
(* taken so far and the slot are released, and only the pid is lost.  Also *)
(* what remains of process_spawn_demo_socket_pair when its second creation *)
(* fails and the first process is released again.                          *)
CreateFails ==
  /\ Calling
  /\ next_pid <= MaxPid
  /\ FreeSlots # {}
  /\ next_pid' = next_pid + 1
  /\ UNCHANGED <<table, list, cursor, current, pending, pc, position>>

(* process_create_owned and exec_fn: a child of the caller, with a given   *)
(* owner or with the caller's.                                             *)
CreateOwned(own) == CreateSucceeds(current, own)
ExecFn           == CreateSucceeds(current, table[current].owner)

(* fork_process, through forkdemo or sys_fork: any linked process but the  *)
(* kernel may be forked, a zombie too; the child belongs to the source.    *)
Fork(src) ==
  /\ src # Kernel
  /\ CreateSucceeds(src, table[src].owner)

(* process_wait on a live process: the caller blocks (but keeps the CPU).  *)
MayWaitFor(c) == current = Kernel \/ table[c].parent = current

WaitBlocks(c) ==
  /\ Calling
  /\ MayWaitFor(c)
  /\ table[c].status # "ZOMBIE"
  /\ table' = [table EXCEPT ![current].wait_target_pid = table[c].pid,
                            ![current].status =
                              IF current = Kernel THEN @ ELSE "WAITING"]
  /\ UNCHANGED <<list, cursor, current, next_pid, pending, pc, position>>

WaitCollects_AnyChild(c) ==   \* mutant: releases a child that still lives
  /\ Calling
  /\ MayWaitFor(c)
  /\ c \notin {Kernel, current}
  /\ table' = ReleasedTable(table, c)
  /\ cursor' = CursorAfterRelease(c)
  /\ list' = DropAt(list, IndexOf(c))
  /\ UNCHANGED <<current, next_pid, pending, pc, position>>

(* process_wait on a zombie: the zombie is released.                       *)
WaitCollects(c) ==
  /\ Calling
  /\ MayWaitFor(c)
  /\ table[c].status = "ZOMBIE"
  /\ table' = ReleasedTable(
                [table EXCEPT ![current].status =
                   IF @ = "WAITING" THEN "THREAD" ELSE @], c)
  /\ cursor' = CursorAfterRelease(c)
  /\ list' = DropAt(list, IndexOf(c))
  /\ UNCHANGED <<current, next_pid, pending, pc, position>>

(* send_signal_to_process and kill_process: root, the process itself and   *)
(* processes of the same owner may signal it.                              *)
MaySignal(p) ==
  \/ table[current].owner = 0
  \/ current = p
  \/ table[current].owner = table[p].owner

SendSignal(p, sig) ==
  /\ Calling
  /\ MaySignal(p)
  /\ ~SignalQueueFull(p)
  /\ table' = [table EXCEPT ![p].signals = Append(@, sig)]
  /\ UNCHANGED <<list, cursor, current, next_pid, pending, pc, position>>

SocketFull_OffByOne(p) ==   \* mutant: fills the last cell too
  Len(table[p].socket) >= PROCESS_SOCKET_CAPACITY

SocketFull(p) == Len(table[p].socket) >= PROCESS_SOCKET_CAPACITY - 1

(* socket_send: the word is queued first, then the socket signal, which a  *)
(* full signal ring drops.                                                 *)
SocketSend(p, v) ==
  /\ pc = "run"
  /\ ~SocketFull(p)
  /\ table' = [table EXCEPT
                 ![p].socket  = Append(@, v),
                 ![p].signals = IF SignalQueueFull(p) THEN @
                                ELSE Append(@, PROCESS_SIGNAL_SOCKET)]
  /\ UNCHANGED <<list, cursor, current, next_pid, pending, pc, position>>

SocketRecv ==
  /\ pc = "run"
  /\ table[current].socket # <<>>
  /\ table' = [table EXCEPT ![current].socket = Tail(@)]
  /\ UNCHANGED <<list, cursor, current, next_pid, pending, pc, position>>

(* sys_exit does not yield: the zombie runs on until it does.              *)
SysExit(code) ==
  /\ pc = "run"
  /\ table' = ProcessExit(table, current, code)
  /\ UNCHANGED <<list, cursor, current, next_pid, pending, pc, position>>

(* process_yield, and the rest of schedule_next_process after the context  *)
(* switch back to the scheduler.                                           *)
YieldTable(tbl) ==
  [tbl EXCEPT ![current].status = IF @ = "RUN" THEN "READY" ELSE @]

Yield ==
  /\ pc = "run"
  /\ table' = YieldTable(table)
  /\ current' = Kernel
  /\ pc' = "shell"
  /\ UNCHANGED <<list, cursor, next_pid, pending, position>>

(* process_bootstrap after the entry function returns: exit, then yield.   *)
EntryReturns(code) ==
  /\ pc = "run"
  /\ table' = YieldTable(ProcessExit(table, current, code))
  /\ current' = Kernel
  /\ pc' = "shell"
  /\ UNCHANGED <<list, cursor, next_pid, pending, position>>

----------------------------------------------------------------------------
(* The scheduler.                                                          *)

(* timer_interrupt -> scheduler_tick, at any point of either context.      *)
Tick ==
  /\ pending < MaxTicks
  /\ pending' = pending + 1
  /\ UNCHANGED <<table, list, cursor, current, next_pid, pc, position>>

(* One iteration of scheduler_run_pending takes a tick ...                 *)
RunPending ==
  /\ pc = "shell"
  /\ pending > 0
  /\ pending' = pending - 1
  /\ pc' = "deliver"
  /\ position' = 1
  /\ UNCHANGED <<table, list, cursor, current, next_pid>>

(* ... delivers the signals of every process in list order ...             *)
DeliverPending ==
  /\ pc = "deliver"
  /\ table' = DeliverSignals(table, list[position])
  /\ IF position < Len(list)
       THEN position' = position + 1 /\ pc' = pc
       ELSE position' = 1 /\ pc' = "schedule"
  /\ UNCHANGED <<list, cursor, current, next_pid, pending>>

(* ... and lets the next runnable process after the cursor run.            *)
Runnable(p) ==
  /\ table[p].used
  /\ p # Kernel       \* the kernel process has no entry function
  /\ table[p].status \in {"READY", "THREAD", "RUN"}

Candidate_FromHead(d) == list[d]   \* mutant: ignores the cursor

Candidate(d) ==
  LET i == IndexOf(cursor) + d
  IN  IF i <= Len(list) THEN list[i] ELSE list[i - Len(list)]

PickNextProcess ==
  LET hits == {d \in 1 .. Len(list) : Runnable(Candidate(d))}
  IN  IF hits = {} THEN NULL ELSE Candidate(Least(hits))

ScheduleNext ==
  LET p         == PickNextProcess
      delivered == DeliverSignals(table, p)
  IN  /\ pc = "schedule"
      /\ p # NULL
      /\ cursor' = p
      /\ IF delivered[p].status \in {"ZOMBIE", "WAITING"}
           THEN table' = delivered /\ current' = Kernel /\ pc' = "shell"
           ELSE /\ table' = [delivered EXCEPT ![p].status = "RUN"]
                /\ current' = p
                /\ pc' = "run"
      /\ UNCHANGED <<list, next_pid, pending, position>>

NothingToRun ==
  /\ pc = "schedule"
  /\ PickNextProcess = NULL
  /\ pc' = "shell"
  /\ UNCHANGED <<table, list, cursor, current, next_pid, pending, position>>

----------------------------------------------------------------------------
(* process_init followed by scheduler_init.                                *)
KernelProcess == [NewProcess(1, 0, NULL) EXCEPT !.status = "THREAD"]

Init ==
  /\ table = [s \in Slots |-> IF s = Kernel THEN KernelProcess ELSE Blank]
  /\ list = <<Kernel>>
  /\ cursor = Kernel
  /\ current = Kernel
  /\ next_pid = 2
  /\ pending = 0
  /\ pc = "shell"
  /\ position = 1

(* What the shell calls directly, and a process directly or through the    *)
(* syscall table.                                                          *)
Call ==
  \/ \E own \in Owners : CreateOwned(own)
  \/ ExecFn
  \/ CreateFails
  \/ \E p \in Linked : Fork(p)
  \/ \E p \in Linked : WaitBlocks(p)
  \/ \E p \in Linked : WaitCollects(p)
  \/ \E p \in Linked, sig \in Signals : SendSignal(p, sig)
  \/ \E p \in Linked, v \in Values : SocketSend(p, v)
  \/ SocketRecv
  \/ \E code \in ExitCodes : SysExit(code)

(* A process leaves the CPU through process_context_switch, into the       *)
(* scheduler's context.                                                    *)
LeaveCPU == Yield \/ \E code \in ExitCodes : EntryReturns(code)

Scheduler == RunPending \/ DeliverPending \/ ScheduleNext \/ NothingToRun

Next == Call \/ LeaveCPU \/ Tick \/ Scheduler

Spec == Init /\ [][Next]_vars

(* The timer keeps firing, the kernel context keeps calling                *)
(* scheduler_run_pending from its input loop, and processes give the CPU   *)
(* back, as every shipped entry function does in each of its iterations.   *)
Fairness == WF_vars(Tick) /\ WF_vars(Scheduler) /\ WF_vars(LeaveCPU)

FairSpec == Spec /\ Fairness

----------------------------------------------------------------------------
(* Correctness.                                                            *)

(* Types of the variables; a queue leaves one cell of its ring empty.      *)
TypeOK ==
  /\ table \in [Slots -> ProcessType]
  /\ \A s \in Slots :
       /\ Len(table[s].signals) < PROCESS_SIGNAL_QUEUE_CAPACITY
       /\ Len(table[s].socket) < PROCESS_SOCKET_CAPACITY
  /\ list \in Seq(Slots)
  /\ cursor \in Slots
  /\ current \in Slots
  /\ next_pid \in Nat
  /\ pending \in Nat
  /\ pc \in {"shell", "deliver", "schedule", "run"}
  /\ position \in Nat

(* The global list visits every used slot exactly once, starting with the  *)
(* kernel, through any sequence of process_link_global and                 *)
(* process_unlink_global.                                                  *)
ListMatchesTable ==
  /\ \A i, j \in DOMAIN list : list[i] = list[j] => i = j
  /\ Linked = {s \in Slots : table[s].used}
  /\ list # <<>> /\ list[1] = Kernel

(* scheduler_cursor and current_process point into the global list, so the *)
(* do-while of pick_next_process comes back to its start and ends.         *)
CursorLinked == cursor \in Linked /\ current \in Linked

(* process_get_by_pid is unambiguous: live pids are distinct and below     *)
(* next_pid, although slots are reused.                                    *)
PidsUnique ==
  \A s, t \in Linked :
    /\ table[s].pid \in 1 .. next_pid - 1
    /\ table[s].pid = table[t].pid => s = t

(* No lost wakeup: whoever is WAITING waits for a child of its own that    *)
(* has not exited yet, so the exit that wakes it is still to come.         *)
NoLostWakeup ==
  \A s \in Slots :
    table[s].status = "WAITING" =>
      \E c \in Slots : /\ table[c].used
                       /\ table[c].parent = s
                       /\ table[c].pid = table[s].wait_target_pid
                       /\ table[c].status # "ZOMBIE"

(* RUN is the status of nobody but the process on the CPU, and the kernel  *)
(* process is always schedulable as a thread: no signal, wait or exit      *)
(* changes its status.                                                     *)
OnlyCurrentRuns ==
  /\ \A s \in Slots : table[s].status = "RUN" => pc = "run" /\ current = s
  /\ table[Kernel].status = "THREAD"
  /\ current = Kernel <=> pc # "run"

(* "delivered on the next tick": when the scheduler picks a process, every *)
(* signal queued before the tick has reached its process, unless that is a *)
(* zombie.                                                                 *)
Settled(s) == table[s].status = "ZOMBIE" \/ table[s].signals = <<>>

SignalsDelivered ==
  pc = "schedule" => \A s \in Slots : table[s].used => Settled(s)

(* A children list only holds processes that are in use and name its owner *)
(* as their parent: no unlink leaves a freed slot behind.                  *)
ChildrenSound ==
  \A p \in Slots : \A c \in table[p].children :
    table[c].used /\ table[c].parent = p

(* The converse, which a parent/children record promises: the parent of a  *)
(* process is in use and has it among its children.                        *)
ParentKnowsChild ==
  \A c \in Linked \ {Kernel} :
    LET p == table[c].parent
    IN  p # NULL /\ table[p].used /\ c \in table[p].children

(* The inductive invariant.  To the safety invariants it adds that         *)
(* released slots are cleared, that no process is its own parent, and how  *)
(* far a pass of process_deliver_all_pending_signals has come.             *)
UnusedBlank  == \A s \in Slots : ~table[s].used => table[s] = Blank
NotOwnParent == \A s \in Slots : table[s].parent # s
DeliveryPass ==
  pc = "deliver" =>
    position \in DOMAIN list /\ \A i \in 1 .. position - 1 : Settled(list[i])

IndInv ==
  /\ TypeOK
  /\ ListMatchesTable
  /\ CursorLinked
  /\ PidsUnique
  /\ NoLostWakeup
  /\ OnlyCurrentRuns
  /\ SignalsDelivered
  /\ ChildrenSound
  /\ UnusedBlank
  /\ NotOwnParent
  /\ DeliveryPass

(* A process is dead once it is a zombie off the CPU.  A slot is only      *)
(* released when its process is dead, and the dead stay dead with the pid  *)
(* and the exit code they have, whatever signals are delivered to them.    *)
(* (On the CPU a zombie is not final: sys_exit returns to its caller, and  *)
(* sys_wait then turns ZOMBIE into WAITING.)                               *)
Dead(s) == table[s].used /\ table[s].status = "ZOMBIE" /\ s # current

ZombieStep ==
  \A s \in Slots :
    table[s].used =>
      \/ table'[s] = Blank /\ Dead(s)
      \/ /\ table'[s].used /\ table'[s].pid = table[s].pid
         /\ Dead(s) => /\ Dead(s)'
                       /\ table'[s].exit_code = table[s].exit_code

ZombieFinal == [][ZombieStep]_vars

(* Round robin: a runnable process gets the CPU or stops being runnable.   *)
NoStarvation ==
  \A s \in Slots : Runnable(s) ~> (current = s \/ ~Runnable(s))

(* A fatal signal ends its process: once queued, the process is a zombie   *)
(* or collected before long.                                               *)
FatalSignalKills ==
  \A s \in Slots \ {Kernel} :
    (\E i \in DOMAIN table[s].signals : table[s].signals[i] \in Fatal)
      ~> (~table[s].used \/ table[s].status = "ZOMBIE")

=============================================================================
