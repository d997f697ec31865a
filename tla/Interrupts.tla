----------------------------- MODULE Interrupts -----------------------------
(***************************************************************************)
(* The processor, the interrupt controller and the code that they run in   *)
(* turn: kernel_main up to the shell, the interrupt handlers of            *)
(* kernel/src/idt.c, and a panic.  Timer ticks of module Ticks arrive here *)
(* through IRQ0.                                                           *)
(*                                                                         *)
(* The controllers are modelled from how the code uses them: a request is  *)
(* latched at an edge, waits while it is masked, while one of at least its *)
(* priority is in service or while the processor has interrupts off, and   *)
(* stays in service until its EOI.  The keyboard controller gives an edge  *)
(* when its output becomes full, and none while it stays so.               *)
(***************************************************************************)
EXTENDS Ticks, Integers, Sequences, SetMin

CONSTANTS
  MaxKeys   \* bound: bytes from the keyboard of one behaviour

ASSUME InterruptsAssumption == MaxKeys \in Nat

IRQ_BASE_VECTOR == 32
IRQ0_VECTOR     == 32   \* the timer
IRQ1_VECTOR     == 33   \* the keyboard
SYSCALL_VECTOR  == 128
Breakpoint      == 3
Trials          == {0, 6}   \* exceptions that the shell's div0 and invop raise
Vectors == {IRQ0_VECTOR, IRQ1_VECTOR, SYSCALL_VECTOR, Breakpoint} \cup Trials

NoContext == 0 - 1   \* before the first panic_save_context
Current   == 0 - 2   \* the int_no that panic_capture_current_registers gives

VARIABLES
  stage,        \* where the kernel context is
  iflag,        \* the processor takes interrupts
  flags,        \* what interrupts_save of the kernel context returned
  stack,        \* interrupt frames, the innermost last
  handlers,     \* vectors with an entry in interrupt_handlers
  irr, imr, isr,   \* requested, masked and in service at the controller
  full,         \* bytes in the keyboard controller
  keys,         \* bytes so far
  trial, caught,   \* of the shell's exception test
  last_panic_context   \* the vector of the registers that it holds

cpu  == <<iflag, flags, stack>>
pic  == <<irr, imr, isr>>
kbd  == <<full, keys>>
test == <<trial, caught, last_panic_context>>

allVars == <<vars, stage, cpu, handlers, pic, kbd, test>>

Booting  == {"idt", "syscall", "timer", "drain", "keyboard", "enable"}
Stopping == {"save", "signal", "restore", "render", "halted"}
Stages   == Booting \cup Stopping
              \cup {"up", "critical", "armed", "disarm", "panic", "exit"}

IRQInit ==
  /\ Init
  /\ stage = "idt" /\ iflag = FALSE /\ flags = FALSE /\ stack = <<>>
  /\ handlers = {}
  /\ irr \in SUBSET {0, 1} /\ imr \in SUBSET {0, 1} /\ isr = {}
  /\ full \in 0 .. MaxKeys /\ keys = full
  /\ trial = 0 /\ caught = FALSE
  /\ last_panic_context = NoContext

----------------------------------------------------------------------------
(* The devices.                                                            *)

(* A timer interrupt that the handler has yet to count.                    *)
Owed == IF 0 \in irr \/ \E i \in DOMAIN stack :
                          stack[i].vector = IRQ0_VECTOR /\ stack[i].at = "handler"
        THEN 1 ELSE 0

TimerEdge ==
  /\ total + Owed < MaxTotal
  /\ irr' = irr \cup {0}
  /\ UNCHANGED <<vars, stage, cpu, handlers, imr, isr, kbd, test>>

KeyArrives ==
  /\ keys < MaxKeys
  /\ keys' = keys + 1
  /\ full' = full + 1
  /\ irr' = IF full = 0 THEN irr \cup {1} ELSE irr
  /\ UNCHANGED <<vars, stage, cpu, handlers, imr, isr, test>>

(* inb(KEYBOARD_DATA_PORT): the next byte, if any, gives another edge.     *)
ReadData(requests) ==
  /\ full' = IF full > 0 THEN full - 1 ELSE 0
  /\ irr' = IF full > 1 THEN requests \cup {1} ELSE requests

----------------------------------------------------------------------------
(* kernel_main, one step for each initialisation that interrupts see.  The *)
(* kernel context goes on when no handler runs, or in the panic of one.    *)
Top == stack[Len(stack)]

Running == stack # <<>> => Top.at = "panic"

Goto(from, to) == stage = from /\ stage' = to /\ Running

(* A wrong multiboot magic.                                                *)
BadMagic ==
  /\ Goto("idt", "panic")
  /\ UNCHANGED <<vars, cpu, handlers, pic, kbd, test>>

(* pic_remap resets the controller, which drops its requests.              *)
PicRemap == irr' = {} /\ isr' = {}

(* pic_clear_mask                                                          *)
Unmask(irq) == imr' = imr \ {irq}

(* idt_register_handler                                                    *)
Register(vector) == handlers' = handlers \cup {vector}

(* idt_init: all but the keyboard are masked.                              *)
IdtInit ==
  /\ Goto("idt", "syscall")
  /\ handlers' = {}
  /\ PicRemap
  /\ imr' = {0}
  /\ UNCHANGED <<vars, cpu, kbd, test>>

SyscallInit ==
  /\ Goto("syscall", "timer")
  /\ Register(SYSCALL_VECTOR)
  /\ UNCHANGED <<vars, cpu, pic, kbd, test>>

AfterTimer_Enables == "enable"   \* mutant: interrupts on before init_keyboard
AfterTimer == "drain"

TimerInit ==
  /\ Goto("timer", AfterTimer)
  /\ Register(IRQ0_VECTOR)
  /\ Unmask(0)
  /\ UNCHANGED <<vars, cpu, irr, isr, kbd, test>>

(* init_keyboard reads what the controller holds; a request latched for it *)
(* may stay.                                                               *)
Drained_Never == TRUE   \* mutant: init_keyboard reads nothing
Drained == full = 0

DrainByte ==
  /\ stage = "drain" /\ ~Drained
  /\ \E requests \in {irr, irr \ {1}} : ReadData(requests)
  /\ UNCHANGED <<vars, stage, cpu, handlers, imr, isr, keys, test>>

DrainEnds ==
  /\ Goto("drain", "keyboard") /\ Drained
  /\ UNCHANGED <<vars, cpu, handlers, pic, kbd, test>>

KeyboardInit ==
  /\ Goto("keyboard", "enable")
  /\ Register(IRQ1_VECTOR)
  /\ Unmask(1)
  /\ UNCHANGED <<vars, cpu, irr, isr, kbd, test>>

EnableInterrupts ==
  /\ Goto("enable", "up")
  /\ iflag' = TRUE
  /\ UNCHANGED <<vars, flags, stack, handlers, pic, kbd, test>>

Boot == \/ BadMagic \/ IdtInit \/ SyscallInit \/ TimerInit \/ DrainByte \/ DrainEnds
        \/ KeyboardInit \/ EnableInterrupts

----------------------------------------------------------------------------
(* The running kernel: the loop of module Ticks, and what the shell and    *)
(* the processes do beside it.                                             *)
Up == stage = "up" /\ Running

KernelLoop == Up /\ Loop /\ UNCHANGED <<stage, cpu, handlers, pic, kbd, test>>

ForceTicks ==
  /\ Up /\ total + Owed < MaxTotal
  /\ ForceTick
  /\ UNCHANGED <<stage, cpu, handlers, pic, kbd, test>>

(* Between steps of the loop; or where a process may run.                  *)
Calling == pc \in {"out", "pass"}

(* interrupts_save and interrupts_restore around the queues.               *)
Restored_Enables(saved) == TRUE   \* mutant: enables instead
Restored(saved) == saved

EnterCritical ==
  /\ Goto("up", "critical") /\ Calling
  /\ flags' = iflag /\ iflag' = FALSE
  /\ UNCHANGED <<vars, stack, handlers, pic, kbd, test>>

LeaveCritical ==
  /\ Goto("critical", "up")
  /\ iflag' = Restored(flags)
  /\ UNCHANGED <<vars, flags, stack, handlers, pic, kbd, test>>

(* The processor pushes a frame and goes through an interrupt gate.        *)
Frame(vector) == [vector |-> vector, iflag |-> iflag, at |-> "handler", flags |-> FALSE]

Enter(vector) == stack' = Append(stack, Frame(vector)) /\ iflag' = FALSE

(* int $0x80, and the shell's int3.                                        *)
SoftwareInterrupt ==
  /\ Up /\ Calling
  /\ \E vector \in {SYSCALL_VECTOR, Breakpoint} : Enter(vector)
  /\ UNCHANGED <<vars, stage, flags, handlers, pic, kbd, test>>

(* The shell's div0 and invop: a handler for one exception, the exception, *)
(* and the handler gone again.                                             *)
Arm ==
  /\ Goto("up", "armed") /\ pc = "out"
  /\ \E vector \in Trials : trial' = vector /\ Register(vector)
  /\ caught' = FALSE
  /\ UNCHANGED <<vars, cpu, pic, kbd, last_panic_context>>

Trigger ==
  /\ stage = "armed" /\ Running
  /\ Enter(trial)
  /\ UNCHANGED <<vars, stage, flags, handlers, pic, kbd, test>>

Disarmed_Kept == handlers   \* mutant: the test handler stays
Disarmed == handlers \ {trial}

Disarm ==
  /\ Goto("disarm", "up")
  /\ handlers' = Disarmed
  /\ UNCHANGED <<vars, cpu, pic, kbd, test>>

(* panic_save_context: the registers of the frame it was called in, or     *)
(* those of the moment.                                                    *)
Context_Current == Current   \* mutant: never those of the frame
Context == IF stack = <<>> THEN Current ELSE Top.vector

(* The shell's panic command, or a panic of the memory managers; and exit, *)
(* which saves a context as well.                                          *)
Panic ==
  /\ Up /\ Calling
  /\ stage' = "panic"
  /\ UNCHANGED <<vars, cpu, handlers, pic, kbd, test>>

Exit ==
  /\ Goto("up", "exit") /\ pc = "out"
  /\ last_panic_context' = Context
  /\ UNCHANGED <<vars, cpu, handlers, pic, kbd, trial, caught>>

(* panic_with_context: interrupts off, the context saved, a signal         *)
(* scheduled, the screen drawn, and panic_clean_registers_and_halt, which  *)
(* also ends kernel_main.                                                  *)
PanicStarts ==
  /\ Goto("panic", "save")
  /\ iflag' = FALSE
  /\ UNCHANGED <<vars, flags, stack, handlers, pic, kbd, test>>

PanicSaves ==
  /\ Goto("save", "signal")
  /\ last_panic_context' = Context
  /\ UNCHANGED <<vars, cpu, handlers, pic, kbd, trial, caught>>

PanicSignals ==
  \/ /\ Goto("signal", "restore")
     /\ flags' = iflag /\ iflag' = FALSE
     /\ UNCHANGED <<vars, stack, handlers, pic, kbd, test>>
  \/ /\ Goto("restore", "render")
     /\ iflag' = Restored(flags)
     /\ UNCHANGED <<vars, flags, stack, handlers, pic, kbd, test>>

Halt ==
  /\ \/ Goto("render", "halted")
     \/ Goto("exit", "halted")
  /\ iflag' = FALSE
  /\ UNCHANGED <<vars, flags, stack, handlers, pic, kbd, test>>

Progress == \/ Boot \/ LeaveCritical \/ Trigger \/ Disarm
            \/ PanicStarts \/ PanicSaves \/ PanicSignals \/ Halt

Choices == ForceTicks \/ EnterCritical \/ SoftwareInterrupt \/ Arm \/ Panic \/ Exit

----------------------------------------------------------------------------
(* The processor takes the request of the highest priority.                *)
Deliverable == {i \in irr \ imr : \A j \in isr : i < j}

TakeInterrupt ==
  LET irq == Least(Deliverable)
  IN  /\ iflag /\ Deliverable # {}
      /\ Enter(IRQ_BASE_VECTOR + irq)
      /\ irr' = irr \ {irq} /\ isr' = isr \cup {irq}
      /\ UNCHANGED <<vars, stage, flags, handlers, imr, kbd, test>>

(* idt_handle_interrupt, in the innermost frame.                           *)
Handling(at) == stack # <<>> /\ Top.at = at

Move(at) == stack' = [stack EXCEPT ![Len(stack)].at = at]

(* After a handler, a request of the controller is acknowledged.           *)
Done == IF Top.vector \in {IRQ0_VECTOR, IRQ1_VECTOR} THEN "eoi" ELSE "iret"

(* timer_interrupt                                                         *)
HandleTimer ==
  /\ Handling("handler") /\ Top.vector = IRQ0_VECTOR /\ Top.vector \in handlers
  /\ SchedulerTick
  /\ Move(Done)
  /\ UNCHANGED <<stage, iflag, flags, handlers, pic, kbd, test>>

(* keyboard_interrupt: it reads the byte, and schedules a signal for some. *)
HandleKeyboard ==
  /\ Handling("handler") /\ Top.vector = IRQ1_VECTOR /\ Top.vector \in handlers
  /\ ReadData(irr)
  /\ \/ Move(Done) /\ UNCHANGED iflag
     \/ /\ stack' = [stack EXCEPT ![Len(stack)].at = "signal",
                                  ![Len(stack)].flags = iflag]
        /\ iflag' = FALSE
  /\ UNCHANGED <<vars, stage, flags, handlers, imr, isr, keys, test>>

KeyboardSignals ==
  /\ Handling("signal")
  /\ iflag' = Restored(Top.flags)
  /\ Move(Done)
  /\ UNCHANGED <<vars, stage, flags, handlers, pic, kbd, test>>

(* syscall_handler; the calls themselves are those of module Process.      *)
HandleSyscall ==
  /\ Handling("handler") /\ Top.vector = SYSCALL_VECTOR /\ Top.vector \in handlers
  /\ Move(Done)
  /\ UNCHANGED <<vars, stage, iflag, flags, handlers, pic, kbd, test>>

(* div0_test_handler and invop_test_handler: the instruction is skipped.   *)
HandleTrial ==
  /\ Handling("handler") /\ Top.vector \in Trials /\ Top.vector \in handlers
  /\ caught' = TRUE
  /\ stage' = "disarm"
  /\ Move(Done)
  /\ UNCHANGED <<vars, iflag, flags, handlers, pic, kbd, trial, last_panic_context>>

(* No handler: an exception panics.                                        *)
HandleNone ==
  /\ Handling("handler") /\ Top.vector \notin handlers
  /\ stage' = IF Top.vector < IRQ_BASE_VECTOR THEN "save" ELSE stage
  /\ Move(IF Top.vector < IRQ_BASE_VECTOR THEN "panic" ELSE Done)
  /\ UNCHANGED <<vars, iflag, flags, handlers, pic, kbd, test>>

(* pic_send_eoi, for what is in service at the highest priority.           *)
Acknowledged_None == isr   \* mutant: no EOI
Acknowledged == IF isr = {} THEN {} ELSE isr \ {Least(isr)}

SendEOI ==
  /\ Handling("eoi")
  /\ isr' = Acknowledged
  /\ Move("iret")
  /\ UNCHANGED <<vars, stage, iflag, flags, handlers, irr, imr, kbd, test>>

(* iretd                                                                   *)
Return ==
  /\ Handling("iret")
  /\ iflag' = Top.iflag
  /\ stack' = SubSeq(stack, 1, Len(stack) - 1)
  /\ UNCHANGED <<vars, stage, flags, handlers, pic, kbd, test>>

HandlerStep == \/ HandleTimer \/ HandleKeyboard \/ KeyboardSignals \/ HandleSyscall
               \/ HandleTrial \/ HandleNone \/ SendEOI \/ Return

----------------------------------------------------------------------------

IRQNext == \/ TimerEdge \/ KeyArrives
           \/ Progress \/ KernelLoop \/ Choices
           \/ TakeInterrupt \/ HandlerStep

IRQSpec == IRQInit /\ [][IRQNext]_allVars

(* Code that runs goes on; the processor takes a request at the first      *)
(* instruction that has interrupts on; and the shell, whatever commands it *)
(* gets, comes back to the loop.                                           *)
FairSpec ==
  /\ IRQSpec
  /\ WF_allVars(Progress) /\ WF_allVars(HandlerStep)
  /\ SF_allVars(TakeInterrupt) /\ SF_allVars(KernelLoop)

----------------------------------------------------------------------------
(* Types; and the controller has in service exactly the requests whose     *)
(* handlers have yet to acknowledge them.                                  *)
IRQTypeOK ==
  /\ TypeOK
  /\ stage \in Stages /\ iflag \in BOOLEAN /\ flags \in BOOLEAN
  /\ stack \in Seq([vector: Vectors, iflag: BOOLEAN, flags: BOOLEAN,
                    at: {"handler", "signal", "eoi", "iret", "panic"}])
  /\ handlers \subseteq Vectors
  /\ irr \subseteq {0, 1} /\ imr \subseteq {0, 1}
  /\ full \in 0 .. keys /\ keys \in 0 .. MaxKeys
  /\ trial \in Trials /\ caught \in BOOLEAN
  /\ last_panic_context \in Vectors \cup {NoContext, Current}
  /\ isr = {i \in {0, 1} : \E k \in DOMAIN stack :
              stack[k].vector = IRQ_BASE_VECTOR + i /\ stack[k].at # "iret"}

(* No handler is ever interrupted: the gates turn interrupts off, and the  *)
(* interrupts_restore of schedule_signal, which the keyboard handler       *)
(* calls, does not turn them on again.                                     *)
HandlersNeverNest == Len(stack) <= 1

(* No request is taken before its handler is registered, although idt_init *)
(* leaves the keyboard unmasked and kernel_main registers its handler last.*)
HandlerReady ==
  \A k \in DOMAIN stack :
    stack[k].at = "handler" => stack[k].vector \in handlers \cup {Breakpoint}

(* The handlers of div0 and invop are in place exactly during the test,    *)
(* which always catches its exception: whatever interrupts it, an          *)
(* exception outside of it panics.                                         *)
TrialContained ==
  /\ handlers \cap Trials = IF stage \in {"armed", "disarm"} THEN {trial} ELSE {}
  /\ stage = "disarm" => caught

(* Once a panic has turned interrupts off nothing else runs: no handler,   *)
(* no tick, no pass of the scheduler, although the panic schedules a       *)
(* signal through interrupts_save and interrupts_restore.                  *)
PanicFinal ==
  [][(stage \in Stopping)
       => stage' \in Stopping /\ UNCHANGED <<vars, stack, handlers>>]_allVars

(* A kernel that has stopped shows why: the context it saved is that of    *)
(* the exception it stopped in, if it was one, and no later one replaces   *)
(* it.                                                                     *)
PanicContextTrue ==
  stage \in {"render", "halted"} =>
    last_panic_context = IF stack = <<>> THEN Current ELSE Breakpoint

(* The inductive invariant.  To the above it adds when interrupts are off, *)
(* which handlers are in place before they come on, and what a frame says  *)
(* about the stage that the kernel context is in.                          *)
InterruptsOff ==
  /\ stack # <<>> \/ stage \in Booting \cup Stopping \cup {"critical"} => ~iflag
  /\ stage \in Booting \cup {"critical"} => stack = <<>>
  /\ stage = "restore" => ~flags

HandlersRegistered ==
  /\ stage = "timer" => SYSCALL_VECTOR \in handlers
  /\ stage \in {"drain", "keyboard"} => {SYSCALL_VECTOR, IRQ0_VECTOR} \subseteq handlers
  /\ iflag \/ stack # <<>> \/ stage \in {"enable", "up", "critical", "armed", "disarm"}
       => {SYSCALL_VECTOR, IRQ0_VECTOR, IRQ1_VECTOR} \subseteq handlers

FrameSound(f) ==
  /\ f.at = "signal" => f.vector = IRQ1_VECTOR /\ ~f.flags
  /\ f.at = "eoi" => f.vector \in {IRQ0_VECTOR, IRQ1_VECTOR}
  /\ f.vector = Breakpoint => \/ f.at = "handler" /\ stage = "up"
                              \/ f.at = "panic" /\ stage \in Stopping
  /\ f.vector \in Trials => \/ f.at = "handler" /\ stage = "armed" /\ f.vector = trial
                            \/ f.at = "iret" /\ stage = "disarm"
  /\ f.at = "panic" <=> stage \in Stopping
  /\ f.at = "panic" => f.vector = Breakpoint

ContextSaved ==
  /\ stage \in {"signal", "restore"} =>
       last_panic_context = IF stack = <<>> THEN Current ELSE Breakpoint
  /\ stage = "exit" => last_panic_context = Current

(* An interrupt finds the kernel ready for it and leaves it as it was,     *)
(* whatever boot, the shell and a panic were at.                           *)
IRQInv ==
  /\ IRQTypeOK /\ HandlersNeverNest /\ HandlerReady /\ TrialContained
  /\ PanicContextTrue
  /\ InterruptsOff /\ HandlersRegistered /\ ContextSaved
  /\ \A k \in DOMAIN stack : FrameSound(stack[k])

Stopped == stage = "halted"

(* A lost tick never stalls the scheduler: while ticks are pending a       *)
(* further pass is due, unless the kernel halts.                           *)
TicksServed ==
  \A n \in 0 .. MaxTotal :
    (pending > 0 /\ served = n) ~> (served > n \/ pending = 0 \/ Stopped)

(* What the keyboard sends is read, unless the kernel halts.  While its    *)
(* controller holds a byte it does not ask again: bytes from before        *)
(* pic_remap, whose requests that dropped, are why init_keyboard empties   *)
(* the controller.                                                         *)
KeysRead == full > 0 ~> (full = 0 \/ Stopped)
=============================================================================
