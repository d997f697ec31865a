-------------------------- MODULE InterruptsProofs --------------------------
(* Theorems about Ticks, for counters of any width, and about Interrupts,  *)
(* for any number of ticks and keys.                                       *)
EXTENDS Interrupts, TLAPS

----------------------------------------------------------------------------
(* The tick counter by itself.                                             *)

LEMMA TypeStep == TypeOK /\ [Next]_vars => TypeOK'
  <1> SUFFICES ASSUME TypeOK, [Next]_vars PROVE TypeOK'
    OBVIOUS
  <1> USE TicksAssumption DEF TypeOK
  <1>1. CASE SchedulerTick
    BY <1>1 DEF SchedulerTick
  <1>2. CASE ForceTick
    BY <1>2 DEF ForceTick
  <1>3. ASSUME NEW m \in MaxTicks, RunPending(m) PROVE TypeOK'
    BY <1>3 DEF RunPending
  <1>4. CASE TestPending
    BY <1>4 DEF TestPending, MoreToRun
  <1>5. CASE StorePending
    BY <1>5 DEF StorePending, Decremented
  <1>6. CASE PassEnds
    BY <1>6 DEF PassEnds
  <1>7. CASE UNCHANGED vars
    BY <1>7 DEF vars
  <1> QED BY <1>1, <1>2, <1>3, <1>4, <1>5, <1>6, <1>7 DEF Next, Loop

(* Types hold; in particular the decrement never wraps below zero.         *)
THEOREM TicksTyped == Spec => []TypeOK
  <1>1. Init => TypeOK
    BY TicksAssumption DEF Init, TypeOK
  <1> QED BY <1>1, TypeStep, PTL DEF Spec

LEMMA CounterStep ==
  TypeOK /\ [Next]_vars => [Counter!CounterNext]_(Counter!counterVars)
  <1> SUFFICES ASSUME TypeOK, [Next]_vars
               PROVE  \/ Counter!CounterNext
                      \/ UNCHANGED <<total, ticksSeen, served>>
    BY DEF Counter!counterVars
  <1> USE TicksAssumption
      DEF TypeOK, ticksSeen, Counter!CounterNext, Counter!Count, Counter!Lose,
          Counter!Spend, Counter!Force
  <1>1. CASE SchedulerTick
    BY <1>1 DEF SchedulerTick
  <1>2. CASE ForceTick
    BY <1>2 DEF ForceTick
  <1>3. ASSUME NEW m \in MaxTicks, RunPending(m)
        PROVE  UNCHANGED <<total, ticksSeen, served>>
    BY <1>3 DEF RunPending
  <1>4. CASE TestPending
    BY <1>4 DEF TestPending, MoreToRun
  <1>5. CASE StorePending
    BY <1>5 DEF StorePending, Decremented
  <1>6. CASE PassEnds
    BY <1>6 DEF PassEnds
  <1>7. CASE UNCHANGED vars
    BY <1>7 DEF vars
  <1> QED BY <1>1, <1>2, <1>3, <1>4, <1>5, <1>6, <1>7 DEF Next, Loop

(* The unsynchronised counter implements the atomic one: an interrupt      *)
(* between the load and the store of scheduler_run_pending can lose ticks, *)
(* and can do nothing else.                                                *)
THEOREM TicksRefine == Spec => ImplementsTickCounter
  <1>1. Init => Counter!CounterInit
    BY DEF Init, Counter!CounterInit, ticksSeen
  <1> QED BY <1>1, TicksTyped, CounterStep, PTL
          DEF Spec, ImplementsTickCounter, Counter!CounterSpec

----------------------------------------------------------------------------
(* The stack of frames, which never holds more than one.                   *)

FrameType ==
  [vector: Vectors, iflag: BOOLEAN, flags: BOOLEAN,
   at: {"handler", "signal", "eoi", "iret", "panic"}]

(* The one frame of a stack, changed.                                      *)
LEMMA FrameChanged ==
  ASSUME NEW S, NEW s, s \in Seq(S), Len(s) = 1, NEW f, f \in S,
         NEW t, t = [s EXCEPT ![1] = f]
  PROVE  t # <<>> /\ Len(t) = 1 /\ t \in Seq(S) /\ t[1] = f
  <1>1. t \in Seq(S)
    OBVIOUS
  <1>2. Len(t) = 1 /\ t[1] = f
    OBVIOUS
  <1> QED BY <1>1, <1>2

LEMMA StackFacts ==
  ASSUME IRQInv
  PROVE  /\ stack = <<>> => DOMAIN stack = {}
         /\ stack # <<>> => /\ Len(stack) = 1 /\ DOMAIN stack = {1}
                            /\ stack[1] \in FrameType /\ Top = stack[1]
                            /\ FrameSound(stack[1]) /\ ~iflag
                            /\ isr = {i \in {0, 1} : stack[1].vector = IRQ_BASE_VECTOR + i
                                                       /\ stack[1].at # "iret"}
         /\ stack = <<>> => isr = {}
  <1>1. stack \in Seq(FrameType) /\ Len(stack) <= 1
    BY DEF IRQInv, IRQTypeOK, HandlersNeverNest, FrameType
  <1>2. stack = <<>> => DOMAIN stack = {}
    OBVIOUS
  <1>3. stack # <<>> => Len(stack) = 1 /\ DOMAIN stack = {1} /\ stack[1] \in FrameType
    BY <1>1
  <1>4. stack # <<>> => Top = stack[1] /\ FrameSound(stack[1]) /\ ~iflag
    BY <1>3, Zenon DEF IRQInv, Top, InterruptsOff
  <1> DEFINE InService == {i \in {0, 1} : \E k \in DOMAIN stack :
               stack[k].vector = IRQ_BASE_VECTOR + i /\ stack[k].at # "iret"}
  <1>5. isr = InService
    BY DEF IRQInv, IRQTypeOK
  <1> QED BY <1>2, <1>3, <1>4, <1>5

LEMMA FrameFacts ==
  ASSUME NEW f \in FrameType
  PROVE  /\ f.vector \in Vectors /\ f.iflag \in BOOLEAN /\ f.flags \in BOOLEAN
         /\ f.at \in {"handler", "signal", "eoi", "iret", "panic"}
  BY DEF FrameType

(* The kernel context goes on with no frame, or in the panic of one.       *)
LEMMA RunningFacts ==
  ASSUME IRQInv, Running, stage \notin Stopping
  PROVE  stack = <<>>
  BY StackFacts DEF Running, FrameSound

LEMMA EnterFacts ==
  ASSUME stack = <<>>, iflag \in BOOLEAN, NEW v \in Vectors, Enter(v)
  PROVE  /\ stack' # <<>> /\ Len(stack') = 1 /\ DOMAIN stack' = {1}
         /\ stack' \in Seq(FrameType)
         /\ stack'[1].vector = v /\ stack'[1].at = "handler"
         /\ stack'[1].flags = FALSE /\ stack'[1].iflag = iflag
         /\ iflag' = FALSE
  <1> DEFINE f == [vector |-> v, iflag |-> iflag, at |-> "handler", flags |-> FALSE]
  <1>1. f \in FrameType
    BY DEF FrameType
  <1>2. stack' = Append(<<>>, f) /\ iflag' = FALSE
    BY DEF Enter, Frame
  <1> HIDE DEF f
  <1>3. stack' = <<f>>
    BY <1>2
  <1> QED BY <1>1, <1>2, <1>3 DEF f

LEMMA MoveFacts ==
  ASSUME IRQInv, stack # <<>>,
         NEW a \in {"handler", "signal", "eoi", "iret", "panic"}, Move(a)
  PROVE  /\ stack' # <<>> /\ Len(stack') = 1 /\ DOMAIN stack' = {1}
         /\ stack' \in Seq(FrameType)
         /\ stack'[1].vector = stack[1].vector /\ stack'[1].at = a
         /\ stack'[1].flags = stack[1].flags /\ stack'[1].iflag = stack[1].iflag
  <1> DEFINE f == [stack[1] EXCEPT !.at = a]
  <1>1. stack[1] \in FrameType /\ DOMAIN stack = {1} /\ Len(stack) = 1
        /\ stack \in Seq(FrameType)
    BY StackFacts DEF IRQInv, IRQTypeOK, FrameType
  <1>2. f \in FrameType /\ f.vector = stack[1].vector /\ f.at = a
        /\ f.flags = stack[1].flags /\ f.iflag = stack[1].iflag
    BY <1>1 DEF FrameType
  <1>3. stack' = [stack EXCEPT ![1] = f]
    BY <1>1 DEF Move
  <1> HIDE DEF f
  <1> QED BY <1>1, <1>2, <1>3

----------------------------------------------------------------------------
(* What IRQInv asks of the variables other than those of Ticks, apart from *)
(* the stack; and of the stack, when it is empty and when it holds a frame.*)
TypesSound ==
  /\ stage \in Stages /\ iflag \in BOOLEAN /\ flags \in BOOLEAN
  /\ handlers \subseteq Vectors
  /\ irr \subseteq {0, 1} /\ imr \subseteq {0, 1}
  /\ full \in 0 .. keys /\ keys \in 0 .. MaxKeys
  /\ trial \in Trials /\ caught \in BOOLEAN
  /\ last_panic_context \in Vectors \cup {NoContext, Current}

StagesSound ==
  TrialContained /\ PanicContextTrue /\ InterruptsOff /\ HandlersRegistered /\ ContextSaved

NoFrame == stack = <<>> /\ isr = {}

OneFrame ==
  /\ stack \in Seq(FrameType) /\ Len(stack) = 1
  /\ isr = {i \in {0, 1} : stack[1].vector = IRQ_BASE_VECTOR + i /\ stack[1].at # "iret"}
  /\ stack[1].at = "handler" => stack[1].vector \in handlers \cup {Breakpoint}
  /\ FrameSound(stack[1])

LEMMA InvParts == IRQInv <=> TypeOK /\ TypesSound /\ StagesSound /\ (NoFrame \/ OneFrame)
  <1>1. IRQInv => TypeOK /\ TypesSound /\ StagesSound
    BY DEF IRQInv, IRQTypeOK, TypesSound, StagesSound
  <1>2. IRQInv => NoFrame \/ OneFrame
    <2> SUFFICES ASSUME IRQInv PROVE NoFrame \/ OneFrame
      OBVIOUS
    <2>1. CASE stack = <<>>
      BY <2>1, StackFacts DEF NoFrame
    <2>2. CASE stack # <<>>
      <3>1. stack \in Seq(FrameType)
        BY DEF IRQInv, IRQTypeOK, FrameType
      <3>2. stack[1].at = "handler" => stack[1].vector \in handlers \cup {Breakpoint}
        BY <2>2, StackFacts DEF IRQInv, HandlerReady
      <3> QED BY <2>2, <3>1, <3>2, StackFacts DEF OneFrame
    <2> QED BY <2>1, <2>2
  <1>3. ASSUME TypeOK, TypesSound, StagesSound, NoFrame \/ OneFrame
        PROVE  IRQInv
    <2>1. CASE NoFrame
      BY <1>3, <2>1 DEF NoFrame, IRQInv, IRQTypeOK, TypesSound, StagesSound,
         HandlersNeverNest, HandlerReady
    <2>2. CASE OneFrame
      <3>1. DOMAIN stack = {1} /\ stack # <<>>
        BY <2>2 DEF OneFrame
      <3>2. isr = {i \in {0, 1} : \E k \in DOMAIN stack :
                    stack[k].vector = IRQ_BASE_VECTOR + i /\ stack[k].at # "iret"}
        BY <2>2, <3>1 DEF OneFrame
      <3>3. IRQTypeOK
        BY <1>3, <2>2, <3>2 DEF OneFrame, FrameType, TypesSound, IRQTypeOK
      <3>4. HandlersNeverNest /\ HandlerReady
        BY <2>2, <3>1 DEF OneFrame, HandlersNeverNest, HandlerReady
      <3> QED BY <1>3, <2>2, <3>1, <3>3, <3>4 DEF OneFrame, IRQInv, StagesSound
    <2> QED BY <1>3, <2>1, <2>2
  <1> QED BY <1>1, <1>2, <1>3

LEMMA InvPartsNext ==
  TypeOK' /\ TypesSound' /\ StagesSound' /\ (NoFrame \/ OneFrame)' => IRQInv'
  BY InvParts, PTL

----------------------------------------------------------------------------
(* The variables of Ticks move as Ticks says, whatever interrupts what.    *)
LEMMA TicksMove == [IRQNext]_allVars => [Next]_vars
  <1> SUFFICES ASSUME [IRQNext]_allVars PROVE [Next]_vars
    OBVIOUS
  <1>1. CASE TimerEdge \/ KeyArrives
    BY <1>1 DEF TimerEdge, KeyArrives
  <1>2. CASE Boot
    BY <1>2 DEF Boot, BadMagic, IdtInit, SyscallInit, TimerInit, DrainByte, DrainEnds,
       KeyboardInit, EnableInterrupts
  <1>3. CASE LeaveCritical \/ Trigger \/ Disarm
    BY <1>3 DEF LeaveCritical, Trigger, Disarm
  <1>4. CASE PanicStarts \/ PanicSaves \/ PanicSignals \/ Halt
    BY <1>4 DEF PanicStarts, PanicSaves, PanicSignals, Halt
  <1>5. CASE KernelLoop
    BY <1>5 DEF KernelLoop, Next
  <1>6. CASE Choices
    <2>1. CASE ForceTicks
      BY <2>1 DEF ForceTicks, Next
    <2>2. CASE EnterCritical \/ SoftwareInterrupt \/ Arm \/ Panic \/ Exit
      BY <2>2 DEF EnterCritical, SoftwareInterrupt, Arm, Panic, Exit
    <2> QED BY <1>6, <2>1, <2>2 DEF Choices
  <1>7. CASE TakeInterrupt
    BY <1>7 DEF TakeInterrupt
  <1>8. CASE HandlerStep
    <2>1. CASE HandleTimer
      BY <2>1 DEF HandleTimer, Next
    <2>2. CASE HandleKeyboard
      BY <2>2, Zenon DEF HandleKeyboard, vars
    <2>3. CASE KeyboardSignals \/ HandleSyscall \/ HandleTrial \/ HandleNone \/ SendEOI \/ Return
      BY <2>3 DEF KeyboardSignals, HandleSyscall, HandleTrial, HandleNone, SendEOI, Return
    <2> QED BY <1>8, <2>1, <2>2, <2>3 DEF HandlerStep
  <1>9. CASE UNCHANGED allVars
    BY <1>9 DEF allVars
  <1> QED BY <1>1, <1>2, <1>3, <1>4, <1>5, <1>6, <1>7, <1>8, <1>9 DEF IRQNext, Progress

LEMMA InitStep == IRQInit => IRQInv
  <1> SUFFICES ASSUME IRQInit PROVE IRQInv
    OBVIOUS
  <1>1. TypeOK
    BY TicksAssumption DEF IRQInit, Init, TypeOK
  <1>2. TypesSound
    <2>1. stage \in Stages /\ trial \in Trials /\ handlers \subseteq Vectors
      BY DEF IRQInit, Stages, Booting, Trials
    <2>2. full \in 0 .. keys /\ keys \in 0 .. MaxKeys
      BY InterruptsAssumption DEF IRQInit
    <2> QED BY <2>1, <2>2, Zenon DEF IRQInit, TypesSound
  <1>3. StagesSound
    BY DEF IRQInit, StagesSound, TrialContained, PanicContextTrue, InterruptsOff,
       HandlersRegistered, ContextSaved
  <1> QED BY <1>1, <1>2, <1>3, InvParts DEF IRQInit, NoFrame

LEMMA BootStep ==
  ASSUME IRQInv, Boot, TypeOK'
  PROVE  IRQInv'
  <1> USE DEF Stages, Booting, Stopping, Vectors, Trials, IRQ0_VECTOR, IRQ1_VECTOR,
          SYSCALL_VECTOR, Breakpoint, Goto, NoFrame, TypesSound, StagesSound,
          TrialContained, PanicContextTrue, InterruptsOff, HandlersRegistered, ContextSaved,
          cpu, pic, kbd, test
  <1>1. TypesSound /\ StagesSound
    BY InvParts
  <1>2. stack = <<>> /\ isr = {}
    <2>1. stage \in Booting
      BY DEF Boot, BadMagic, IdtInit, SyscallInit, TimerInit, DrainByte, DrainEnds,
       KeyboardInit, EnableInterrupts, AfterTimer
    <2> QED BY <2>1, <1>1, StackFacts
  <1> SUFFICES TypesSound' /\ StagesSound' /\ NoFrame'
    BY InvPartsNext
  <1>3. CASE BadMagic
    BY <1>1, <1>2, <1>3 DEF BadMagic
  <1>4. CASE IdtInit
    BY <1>1, <1>2, <1>4 DEF IdtInit, PicRemap
  <1>5. CASE SyscallInit
    BY <1>1, <1>2, <1>5 DEF SyscallInit, Register
  <1>6. CASE TimerInit
    BY <1>1, <1>2, <1>6 DEF TimerInit, AfterTimer, Register, Unmask
  <1>7. CASE DrainByte
    BY <1>1, <1>2, <1>7, InterruptsAssumption DEF DrainByte, ReadData, Drained
  <1>8. CASE DrainEnds
    BY <1>1, <1>2, <1>8 DEF DrainEnds
  <1>9. CASE KeyboardInit
    BY <1>1, <1>2, <1>9 DEF KeyboardInit, Register, Unmask
  <1>10. CASE EnableInterrupts
    BY <1>1, <1>2, <1>10 DEF EnableInterrupts
  <1> QED BY <1>3, <1>4, <1>5, <1>6, <1>7, <1>8, <1>9, <1>10, Zenon DEF Boot

(* The devices, which any code may be interrupted by.                      *)
LEMMA DeviceStep ==
  ASSUME IRQInv, TimerEdge \/ KeyArrives, TypeOK'
  PROVE  IRQInv'
  <1> USE DEF cpu, kbd, test
  <1>1. TypesSound /\ StagesSound /\ (NoFrame \/ OneFrame)
    BY InvParts
  <1>2. /\ UNCHANGED <<stage, iflag, flags, stack, handlers, imr, isr>>
        /\ UNCHANGED <<trial, caught, last_panic_context>>
    BY DEF TimerEdge, KeyArrives
  <1>3. irr' \subseteq {0, 1} /\ (full \in 0 .. keys)' /\ (keys \in 0 .. MaxKeys)'
    <2>1. CASE TimerEdge
      BY <1>1, <2>1 DEF TimerEdge, TypesSound
    <2>2. CASE KeyArrives
      BY <1>1, <2>2, InterruptsAssumption DEF KeyArrives, TypesSound
    <2> QED BY <2>1, <2>2
  <1>4. TypesSound'
    BY <1>1, <1>2, <1>3 DEF TypesSound
  <1>5. StagesSound'
    BY <1>1, <1>2 DEF StagesSound, TrialContained, PanicContextTrue, InterruptsOff,
       HandlersRegistered, ContextSaved
  <1>6. (NoFrame \/ OneFrame)'
    BY <1>1, <1>2, SMTT(30) DEF NoFrame, OneFrame, FrameSound
  <1> QED BY <1>4, <1>5, <1>6, InvPartsNext

(* The kernel context between boot and a panic, without the interrupts     *)
(* that it raises itself.                                                  *)
LEMMA KernelStep ==
  ASSUME IRQInv, TypeOK',
         KernelLoop \/ ForceTicks \/ EnterCritical \/ LeaveCritical \/ Arm \/ Disarm
           \/ Panic \/ Exit
  PROVE  IRQInv'
  <1> USE DEF Stages, Booting, Stopping, Vectors, Trials, IRQ0_VECTOR, IRQ1_VECTOR,
          SYSCALL_VECTOR, Breakpoint, Goto, Up, NoFrame, TypesSound, StagesSound,
          TrialContained, PanicContextTrue, InterruptsOff, HandlersRegistered, ContextSaved,
          cpu, pic, kbd, test
  <1>1. TypesSound /\ StagesSound
    BY InvParts
  <1>2. stack = <<>> /\ isr = {}
    <2>1. Running /\ stage \notin Stopping
      BY DEF KernelLoop, ForceTicks, EnterCritical, LeaveCritical, Arm, Disarm, Panic, Exit
    <2> QED BY <2>1, RunningFacts, StackFacts
  <1> SUFFICES TypesSound' /\ StagesSound' /\ NoFrame'
    BY InvPartsNext
  <1>3. CASE KernelLoop
    BY <1>1, <1>2, <1>3 DEF KernelLoop
  <1>4. CASE ForceTicks
    BY <1>1, <1>2, <1>4 DEF ForceTicks
  <1>5. CASE EnterCritical
    <2>1. stage = "up" /\ stage' = "critical" /\ ~iflag'
          /\ UNCHANGED <<stack, handlers, irr, imr, isr, full, keys>>
          /\ UNCHANGED <<trial, caught, last_panic_context>>
      BY <1>5 DEF EnterCritical
    <2>2. flags' \in BOOLEAN /\ iflag' \in BOOLEAN
      BY <1>1, <1>5, Zenon DEF EnterCritical
    <2> QED BY <1>1, <1>2, <2>1, <2>2
  <1>6. CASE LeaveCritical
    BY <1>1, <1>2, <1>6 DEF LeaveCritical, Restored
  <1>7. CASE Arm
    <2>1. PICK vector \in Trials : trial' = vector /\ handlers' = handlers \cup {vector}
      BY <1>7 DEF Arm, Register
    <2>2. handlers \cap Trials = {}
      BY <1>1, <1>7 DEF Arm
    <2>3. (handlers \cap Trials = {trial})'
      BY <2>1, <2>2
    <2>4. handlers' \subseteq Vectors /\ handlers \subseteq handlers' /\ trial' \in Trials
      BY <1>1, <2>1
    <2> HIDE DEF Trials, Vectors
    <2> QED BY <1>1, <1>2, <1>7, <2>3, <2>4, Zenon DEF Arm
  <1>8. CASE Disarm
    BY <1>1, <1>2, <1>8 DEF Disarm, Disarmed
  <1>9. CASE Panic
    BY <1>1, <1>2, <1>9 DEF Panic
  <1>10. CASE Exit
    BY <1>1, <1>2, <1>10 DEF Exit, Context
  <1> QED BY <1>3, <1>4, <1>5, <1>6, <1>7, <1>8, <1>9, <1>10

(* A panic, in the kernel context or in the frame of an exception.         *)
LEMMA PanicStep ==
  ASSUME IRQInv, TypeOK', PanicStarts \/ PanicSaves \/ PanicSignals \/ Halt
  PROVE  IRQInv'
  <1> USE DEF Stages, Booting, Stopping, Goto, TypesSound, StagesSound,
          TrialContained, PanicContextTrue, InterruptsOff, HandlersRegistered, ContextSaved,
          cpu, pic, kbd, test
  <1>1. TypesSound /\ StagesSound /\ (NoFrame \/ OneFrame)
    BY InvParts
  <1>2. stack # <<>> => stage \in Stopping /\ Top.vector = Breakpoint
    <2>1. Running
      BY DEF PanicStarts, PanicSaves, PanicSignals, Halt
    <2> QED BY <2>1, StackFacts DEF Running, FrameSound
  <1>3. stage' \in Stopping /\ UNCHANGED <<stack, isr, handlers, trial>>
    BY DEF PanicStarts, PanicSaves, PanicSignals, Halt
  <1>4. (NoFrame \/ OneFrame)'
    <2>1. CASE stack = <<>>
      BY <2>1, <1>3, StackFacts DEF NoFrame
    <2>2. CASE stack # <<>>
      BY <2>2, <1>1, <1>2, <1>3 DEF NoFrame, OneFrame, FrameSound
    <2> QED BY <2>1, <2>2
  <1> SUFFICES TypesSound' /\ StagesSound'
    BY <1>4, InvPartsNext
  <1>5. CASE PanicStarts
    BY <1>1, <1>2, <1>5, Zenon DEF PanicStarts
  <1>6. CASE PanicSaves
    BY <1>1, <1>2, <1>6 DEF PanicSaves, Context, Vectors
  <1>7. CASE PanicSignals
    <2>1. stage \in Stopping /\ stage' \in {"restore", "render"}
          /\ UNCHANGED <<stack, handlers, irr, imr, isr, full, keys>>
          /\ UNCHANGED <<trial, caught, last_panic_context>>
      BY <1>7 DEF PanicSignals
    <2>2. /\ iflag' = FALSE
          /\ \/ flags' = FALSE
             \/ stage' = "render" /\ flags' = flags
      <3>1. iflag = FALSE
        BY <1>1, <2>1
      <3>2. stage = "restore" => flags = FALSE
        BY <1>1
      <3>3. \/ flags' = iflag /\ iflag' = FALSE
            \/ stage = "restore" /\ stage' = "render" /\ iflag' = flags /\ flags' = flags
        BY <1>7, Zenon DEF PanicSignals, Restored
      <3> QED BY <3>1, <3>2, <3>3
    <2>3. stage \in {"signal", "restore"}
      BY <1>7 DEF PanicSignals
    <2> QED BY <1>1, <1>2, <2>1, <2>2, <2>3, Zenon
  <1>8. CASE Halt
    BY <1>1, <1>2, <1>8, Zenon DEF Halt
  <1> QED BY <1>5, <1>6, <1>7, <1>8

----------------------------------------------------------------------------
(* An interrupt is taken.                                                  *)
LEMMA EnterStep ==
  ASSUME IRQInv, TypeOK', stack = <<>>, NEW v \in Vectors, Enter(v),
         stage \notin Booting \cup Stopping \cup {"critical"},
         {SYSCALL_VECTOR, IRQ0_VECTOR, IRQ1_VECTOR} \subseteq handlers,
         v \in handlers \cup {Breakpoint},
         v = Breakpoint => stage = "up",
         v \in Trials => stage = "armed" /\ v = trial,
         irr' \subseteq {0, 1},
         isr' = {i \in {0, 1} : v = IRQ_BASE_VECTOR + i},
         UNCHANGED <<stage, flags, handlers, imr, full, keys>>,
         UNCHANGED <<trial, caught, last_panic_context>>
  PROVE  IRQInv'
  <1>1. TypesSound /\ StagesSound
    BY InvParts
  <1>2. /\ stack' # <<>> /\ Len(stack') = 1 /\ stack' \in Seq(FrameType)
        /\ stack'[1].vector = v /\ stack'[1].at = "handler" /\ iflag' = FALSE
    BY <1>1, EnterFacts, Zenon DEF TypesSound
  <1>3. TypesSound'
    BY <1>1, <1>2, Zenon DEF TypesSound
  <1>4. StagesSound'
    BY <1>1, <1>2 DEF StagesSound, TrialContained, PanicContextTrue, InterruptsOff,
       HandlersRegistered, ContextSaved, Booting, Stopping
  <1>5. FrameSound(stack[1])'
    BY <1>2, SMTT(30) DEF FrameSound
  <1>6. OneFrame'
    BY <1>2, <1>5 DEF OneFrame
  <1> QED BY <1>3, <1>4, <1>6, InvPartsNext

LEMMA RaiseStep ==
  ASSUME IRQInv, TypeOK', SoftwareInterrupt \/ Trigger
  PROVE  IRQInv'
  <1> USE DEF IRQ0_VECTOR, IRQ1_VECTOR, SYSCALL_VECTOR, Breakpoint, Trials, IRQ_BASE_VECTOR,
          cpu, pic, kbd, test
  <1>1. TypesSound /\ StagesSound
    BY InvParts
  <1>2. Running /\ stage \in {"up", "armed"}
    BY DEF SoftwareInterrupt, Trigger, Up
  <1>3. stack = <<>> /\ isr = {}
    BY <1>2, RunningFacts, StackFacts DEF Stopping
  <1>4. {SYSCALL_VECTOR, IRQ0_VECTOR, IRQ1_VECTOR} \subseteq handlers
    BY <1>1, <1>2 DEF StagesSound, HandlersRegistered
  <1>5. CASE SoftwareInterrupt
    <2>1. PICK v \in {SYSCALL_VECTOR, Breakpoint} : Enter(v)
      BY <1>5 DEF SoftwareInterrupt
    <2>2. v \in Vectors /\ v \in handlers \cup {Breakpoint} /\ v \notin Trials
          /\ \A i \in {0, 1} : v # IRQ_BASE_VECTOR + i
      BY <1>4 DEF Vectors
    <2>3. stage = "up" /\ UNCHANGED <<stage, flags, handlers, irr, imr, isr, full, keys>>
          /\ UNCHANGED <<trial, caught, last_panic_context>>
      BY <1>5 DEF SoftwareInterrupt, Up
    <2> QED BY <1>1, <1>3, <1>4, <2>1, <2>2, <2>3, EnterStep DEF TypesSound, Booting, Stopping
  <1>6. CASE Trigger
    <2>1. trial \in Trials /\ trial \in handlers /\ trial \in Vectors
      BY <1>1, <1>6 DEF Trigger, TypesSound, StagesSound, TrialContained, Vectors
    <2>2. trial # Breakpoint /\ \A i \in {0, 1} : trial # IRQ_BASE_VECTOR + i
      BY <2>1
    <2>3. stage = "armed" /\ UNCHANGED <<stage, flags, handlers, irr, imr, isr, full, keys>>
          /\ UNCHANGED <<trial, caught, last_panic_context>> /\ Enter(trial)
      BY <1>6 DEF Trigger
    <2> QED BY <1>1, <1>3, <1>4, <2>1, <2>2, <2>3, EnterStep DEF TypesSound, Booting, Stopping
  <1> QED BY <1>5, <1>6

(* The PIC answers for one of the lines it was asked about.                *)
LEMMA LeastLine ==
  ASSUME NEW S \in SUBSET {0, 1}, S # {}
  PROVE  Least(S) \in S
  <1>1. \E x \in S : \A y \in S : x <= y
    <2>1. CASE 0 \in S
      BY <2>1
    <2>2. CASE 0 \notin S
      <3>1. S = {1}
        BY <2>2, Zenon
      <3> QED BY <3>1
    <2> QED BY <2>1, <2>2
  <1> QED BY <1>1, Zenon DEF Least

LEMMA TakeStep ==
  ASSUME IRQInv, TypeOK', TakeInterrupt
  PROVE  IRQInv'
  <1> USE DEF IRQ0_VECTOR, IRQ1_VECTOR, SYSCALL_VECTOR, Breakpoint, Trials, IRQ_BASE_VECTOR,
          kbd, test
  <1>1. TypesSound /\ StagesSound
    BY InvParts
  <1>2. stack = <<>> /\ isr = {} /\ stage \notin Booting \cup Stopping \cup {"critical"}
    BY <1>1, StackFacts DEF TakeInterrupt, StagesSound, InterruptsOff
  <1>3. {SYSCALL_VECTOR, IRQ0_VECTOR, IRQ1_VECTOR} \subseteq handlers
    BY <1>1 DEF TakeInterrupt, StagesSound, HandlersRegistered
  <1> DEFINE irq == Least(Deliverable)
  <1>4. irq \in {0, 1}
    <2>1. Deliverable \subseteq {0, 1} /\ Deliverable # {}
      BY <1>1, Zenon DEF TakeInterrupt, Deliverable, TypesSound
    <2>2. Least(Deliverable) \in Deliverable
      BY <2>1, LeastLine
    <2> QED BY <2>1, <2>2, Zenon
  <1>5. /\ Enter(IRQ_BASE_VECTOR + irq) /\ irr' = irr \ {irq} /\ isr' = isr \cup {irq}
        /\ UNCHANGED <<stage, flags, handlers, imr, full, keys>>
        /\ UNCHANGED <<trial, caught, last_panic_context>>
    BY DEF TakeInterrupt
  <1> HIDE DEF irq
  <1> DEFINE v == IRQ_BASE_VECTOR + irq
  <1>6. v \in Vectors /\ v \in handlers /\ v \notin Trials /\ v # Breakpoint
    BY <1>3, <1>4 DEF Vectors
  <1>7. isr' = {i \in {0, 1} : v = IRQ_BASE_VECTOR + i} /\ irr' \subseteq {0, 1}
    BY <1>1, <1>2, <1>4, <1>5 DEF TypesSound
  <1> QED BY <1>2, <1>3, <1>5, <1>6, <1>7, EnterStep

----------------------------------------------------------------------------
(* The handlers.                                                           *)

(* A frame whose handler runs: interrupts are off, and the kernel context  *)
(* is where interrupts may come.                                           *)
LEMMA HandlingFacts ==
  ASSUME IRQInv, stack # <<>>, Top.at # "panic"
  PROVE  /\ Top = stack[1] /\ iflag = FALSE
         /\ stack[1] \in FrameType /\ FrameSound(stack[1])
         /\ isr \subseteq {0, 1}
         /\ \A i \in {0, 1} : i \in isr <=> stack[1].vector = IRQ_BASE_VECTOR + i /\ stack[1].at # "iret"
         /\ stage \notin Booting \cup Stopping \cup {"critical"}
         /\ {SYSCALL_VECTOR, IRQ0_VECTOR, IRQ1_VECTOR} \subseteq handlers
         /\ TypesSound /\ StagesSound
  <1>1. TypesSound /\ StagesSound
    BY InvParts
  <1>2. /\ Top = stack[1] /\ ~iflag
        /\ stack[1] \in FrameType /\ FrameSound(stack[1])
        /\ isr \subseteq {0, 1}
        /\ \A i \in {0, 1} : i \in isr <=> stack[1].vector = IRQ_BASE_VECTOR + i /\ stack[1].at # "iret"
    BY StackFacts
  <1>3. stage \notin Stopping
    BY <1>2 DEF FrameSound
  <1>4. stage \notin Booting \cup {"critical"}
    BY <1>1, <1>2 DEF StagesSound, InterruptsOff
  <1>5. {SYSCALL_VECTOR, IRQ0_VECTOR, IRQ1_VECTOR} \subseteq handlers
    BY <1>1, <1>2 DEF StagesSound, HandlersRegistered
  <1>6. iflag = FALSE
    BY <1>1, <1>2 DEF TypesSound
  <1> QED BY <1>1, <1>2, <1>3, <1>4, <1>5, <1>6

(* A step of a handler that goes on, or ends without a panic: what it does *)
(* to the frame, to the kernel context, and to the devices.                *)
FrameMoved ==
  /\ stack' \in Seq(FrameType) /\ Len(stack') = 1 /\ stack' # <<>>
  /\ stack'[1].vector = stack[1].vector
  /\ stack'[1].at \in {"signal", "eoi", "iret"}
  /\ stack'[1].at = "signal" => stack[1].vector = IRQ1_VECTOR /\ stack'[1].flags = FALSE
  /\ stack'[1].at = "eoi" => stack[1].vector \in {IRQ0_VECTOR, IRQ1_VECTOR}
  /\ stack[1].vector # Breakpoint

ContextMoved ==
  /\ stack[1].vector \in Trials => stack'[1].at = "iret" /\ stage' = "disarm"
  /\ \/ stage' = stage /\ caught' = caught
     \/ stage = "armed" /\ stage' = "disarm" /\ caught' = TRUE
  /\ iflag' = FALSE
  /\ UNCHANGED <<flags, handlers, keys, trial, last_panic_context>>

DevicesMoved ==
  /\ irr' \subseteq {0, 1} /\ full' \in 0 .. keys /\ UNCHANGED imr
  /\ isr' \subseteq {0, 1}
  /\ \A i \in {0, 1} :
       i \in isr' <=> stack[1].vector = IRQ_BASE_VECTOR + i /\ stack'[1].at # "iret"

LEMMA MovedStep ==
  ASSUME IRQInv, TypeOK', stack # <<>>, Top.at # "panic",
         FrameMoved, ContextMoved, DevicesMoved
  PROVE  IRQInv'
  <1>1. /\ stage \notin Booting \cup Stopping \cup {"critical"}
        /\ {SYSCALL_VECTOR, IRQ0_VECTOR, IRQ1_VECTOR} \subseteq handlers
        /\ TypesSound /\ StagesSound
    BY HandlingFacts
  <1>2. stage' \notin Booting \cup Stopping \cup {"critical"} /\ stage' \in Stages
    BY <1>1 DEF Booting, Stopping, Stages, TypesSound, ContextMoved
  <1>3. TypesSound'
    BY <1>1, <1>2, Zenon DEF TypesSound, ContextMoved, DevicesMoved
  <1>4. StagesSound'
    BY <1>1, <1>2 DEF StagesSound, TrialContained, PanicContextTrue, InterruptsOff,
       HandlersRegistered, ContextSaved, Booting, Stopping, ContextMoved
  <1>5. FrameSound(stack[1])'
    BY <1>2 DEF FrameSound, Stopping, FrameMoved, ContextMoved
  <1>6. isr' = {i \in {0, 1} : stack'[1].vector = IRQ_BASE_VECTOR + i /\ stack'[1].at # "iret"}
    BY Zenon DEF FrameMoved, DevicesMoved
  <1>7. OneFrame'
    BY <1>5, <1>6 DEF OneFrame, FrameMoved
  <1> QED BY <1>3, <1>4, <1>7, InvPartsNext

LEMMA HandleTimerStep ==
  ASSUME IRQInv, TypeOK', HandleTimer
  PROVE  IRQInv'
  <1> USE DEF IRQ0_VECTOR, IRQ1_VECTOR, Breakpoint, Trials, IRQ_BASE_VECTOR
  <1>1. stack # <<>> /\ Top.at # "panic" /\ Top.at = "handler" /\ Top.vector = IRQ0_VECTOR
    BY DEF HandleTimer, Handling
  <1>2. /\ stack[1].vector = IRQ0_VECTOR /\ iflag = FALSE
        /\ isr \subseteq {0, 1} /\ TypesSound
        /\ \A i \in {0, 1} : i \in isr <=> stack[1].vector = IRQ_BASE_VECTOR + i
    BY <1>1, HandlingFacts
  <1>3. Move("eoi")
    BY <1>1 DEF HandleTimer, Done
  <1>4. /\ stack' # <<>> /\ Len(stack') = 1 /\ stack' \in Seq(FrameType)
        /\ stack'[1].vector = stack[1].vector /\ stack'[1].at = "eoi"
    BY <1>1, <1>3, MoveFacts
  <1>5. FrameMoved
    BY <1>2, <1>4 DEF FrameMoved
  <1>6. ContextMoved
    <2>1. iflag' = FALSE
      BY <1>2 DEF HandleTimer
    <2> QED BY <1>2, <2>1 DEF HandleTimer, ContextMoved, kbd, test
  <1>7. DevicesMoved
    BY <1>2, <1>4 DEF HandleTimer, DevicesMoved, TypesSound, pic, kbd
  <1> QED BY <1>1, <1>5, <1>6, <1>7, MovedStep

LEMMA HandleKeyboardStep ==
  ASSUME IRQInv, TypeOK', HandleKeyboard
  PROVE  IRQInv'
  <1> USE DEF IRQ0_VECTOR, IRQ1_VECTOR, Breakpoint, Trials, IRQ_BASE_VECTOR
  <1>1. stack # <<>> /\ Top.at # "panic" /\ Top.at = "handler" /\ Top.vector = IRQ1_VECTOR
    BY DEF HandleKeyboard, Handling
  <1>2. /\ stack[1].vector = IRQ1_VECTOR /\ iflag = FALSE
        /\ isr \subseteq {0, 1} /\ TypesSound
        /\ \A i \in {0, 1} : i \in isr <=> stack[1].vector = IRQ_BASE_VECTOR + i
        /\ stack[1] \in FrameType
    BY <1>1, HandlingFacts
  <1>3. /\ ReadData(irr)
        /\ UNCHANGED <<stage, flags, handlers, imr, isr, keys, trial, caught, last_panic_context>>
    BY Zenon DEF HandleKeyboard, test
  <1>4. irr' \subseteq {0, 1} /\ full' \in 0 .. keys
    BY <1>2, <1>3, InterruptsAssumption DEF ReadData, TypesSound
  <1>5. /\ stack' # <<>> /\ Len(stack') = 1 /\ stack' \in Seq(FrameType)
        /\ stack'[1].vector = stack[1].vector /\ iflag' = FALSE
        /\ \/ stack'[1].at = "eoi"
           \/ stack'[1].at = "signal" /\ stack'[1].flags = FALSE
    <2>1. CASE Move(Done) /\ UNCHANGED iflag
      <3>1. Move("eoi")
        BY <1>1, <2>1 DEF Done
      <3>2. iflag' = FALSE
        BY <1>2, <2>1
      <3> QED BY <1>1, <3>1, <3>2, MoveFacts
    <2>2. CASE /\ stack' = [stack EXCEPT ![Len(stack)] = [@ EXCEPT !.at = "signal", !.flags = iflag]]
               /\ iflag' = FALSE
      <3> DEFINE f == [stack[1] EXCEPT !.at = "signal", !.flags = FALSE]
      <3>1. stack \in Seq(FrameType) /\ Len(stack) = 1
        BY <1>1, StackFacts DEF IRQInv, IRQTypeOK, FrameType
      <3>2. f \in FrameType /\ f.vector = stack[1].vector /\ f.at = "signal" /\ f.flags = FALSE
        BY <1>2, Zenon DEF FrameType
      <3>3. stack' = [stack EXCEPT ![1] = f]
        BY <1>2, <2>2, <3>1, Zenon
      <3> HIDE DEF f
      <3>4. /\ stack' # <<>> /\ Len(stack') = 1 /\ stack' \in Seq(FrameType)
            /\ stack'[1] = f
        BY <3>1, <3>2, <3>3, FrameChanged
      <3> QED BY <2>2, <3>2, <3>4, Zenon
    <2>3. \/ Move(Done) /\ UNCHANGED iflag
          \/ /\ stack' = [stack EXCEPT ![Len(stack)] = [@ EXCEPT !.at = "signal", !.flags = iflag]]
             /\ iflag' = FALSE
      BY Zenon DEF HandleKeyboard
    <2> QED BY <2>1, <2>2, <2>3, Zenon
  <1>6. FrameMoved
    BY <1>2, <1>5 DEF FrameMoved
  <1>7. ContextMoved
    BY <1>2, <1>3, <1>5 DEF ContextMoved
  <1>8. DevicesMoved
    BY <1>2, <1>3, <1>4, <1>5 DEF DevicesMoved
  <1> QED BY <1>1, <1>6, <1>7, <1>8, MovedStep

LEMMA KeyboardSignalsStep ==
  ASSUME IRQInv, TypeOK', KeyboardSignals
  PROVE  IRQInv'
  <1> USE DEF IRQ0_VECTOR, IRQ1_VECTOR, Breakpoint, Trials, IRQ_BASE_VECTOR
  <1>1. stack # <<>> /\ Top.at # "panic" /\ Top.at = "signal"
    BY DEF KeyboardSignals, Handling
  <1>2. /\ Top = stack[1] /\ stack[1].vector = IRQ1_VECTOR /\ TypesSound
        /\ isr \subseteq {0, 1}
        /\ \A i \in {0, 1} : i \in isr <=> stack[1].vector = IRQ_BASE_VECTOR + i
        /\ stack[1].flags \in BOOLEAN /\ ~stack[1].flags
    BY <1>1, HandlingFacts, FrameFacts DEF FrameSound
  <1>3. iflag' = FALSE
    BY <1>2 DEF KeyboardSignals, Restored
  <1>4. Move("eoi")
    BY <1>2 DEF KeyboardSignals, Done
  <1>5. /\ stack' # <<>> /\ Len(stack') = 1 /\ stack' \in Seq(FrameType)
        /\ stack'[1].vector = stack[1].vector /\ stack'[1].at = "eoi"
    BY <1>1, <1>4, MoveFacts
  <1>6. UNCHANGED <<stage, flags, handlers, pic, kbd, test>>
    BY DEF KeyboardSignals
  <1>7. FrameMoved
    BY <1>2, <1>5 DEF FrameMoved
  <1>8. ContextMoved
    BY <1>2, <1>3, <1>6 DEF ContextMoved, kbd, test
  <1>9. DevicesMoved
    BY <1>2, <1>5, <1>6 DEF DevicesMoved, TypesSound, pic, kbd
  <1> QED BY <1>1, <1>7, <1>8, <1>9, MovedStep

LEMMA HandleSyscallStep ==
  ASSUME IRQInv, TypeOK', HandleSyscall
  PROVE  IRQInv'
  <1> USE DEF IRQ0_VECTOR, IRQ1_VECTOR, SYSCALL_VECTOR, Breakpoint, Trials, IRQ_BASE_VECTOR
  <1>1. stack # <<>> /\ Top.at # "panic" /\ Top.at = "handler" /\ Top.vector = SYSCALL_VECTOR
    BY DEF HandleSyscall, Handling
  <1>2. /\ stack[1].vector = SYSCALL_VECTOR /\ iflag = FALSE
        /\ isr \subseteq {0, 1} /\ TypesSound
        /\ \A i \in {0, 1} : i \in isr <=> stack[1].vector = IRQ_BASE_VECTOR + i
    BY <1>1, HandlingFacts
  <1>3. Move("iret")
    BY <1>1 DEF HandleSyscall, Done
  <1>4. /\ stack' # <<>> /\ Len(stack') = 1 /\ stack' \in Seq(FrameType)
        /\ stack'[1].vector = stack[1].vector /\ stack'[1].at = "iret"
    BY <1>1, <1>3, MoveFacts
  <1>5. FrameMoved
    BY <1>2, <1>4 DEF FrameMoved
  <1>6. ContextMoved
    <2>1. iflag' = FALSE
      BY <1>2 DEF HandleSyscall
    <2> QED BY <1>2, <2>1 DEF HandleSyscall, ContextMoved, kbd, test
  <1>7. DevicesMoved
    BY <1>2, <1>4 DEF HandleSyscall, DevicesMoved, TypesSound, pic, kbd
  <1> QED BY <1>1, <1>5, <1>6, <1>7, MovedStep

LEMMA HandleTrialStep ==
  ASSUME IRQInv, TypeOK', HandleTrial
  PROVE  IRQInv'
  <1> USE DEF IRQ0_VECTOR, IRQ1_VECTOR, SYSCALL_VECTOR, Breakpoint, Trials, IRQ_BASE_VECTOR
  <1>1. stack # <<>> /\ Top.at # "panic" /\ Top.at = "handler" /\ Top.vector \in Trials
    BY DEF HandleTrial, Handling
  <1>2. /\ stack[1].vector \in Trials /\ iflag = FALSE
        /\ isr \subseteq {0, 1} /\ TypesSound
        /\ \A i \in {0, 1} : i \in isr <=> stack[1].vector = IRQ_BASE_VECTOR + i
        /\ stage = "armed"
    BY <1>1, HandlingFacts DEF FrameSound
  <1>3. Move("iret")
    BY <1>1 DEF HandleTrial, Done
  <1>4. /\ stack' # <<>> /\ Len(stack') = 1 /\ stack' \in Seq(FrameType)
        /\ stack'[1].vector = stack[1].vector /\ stack'[1].at = "iret"
    BY <1>1, <1>3, MoveFacts
  <1>5. FrameMoved
    BY <1>2, <1>4 DEF FrameMoved
  <1>6. ContextMoved
    <2>1. iflag' = FALSE
      BY <1>2 DEF HandleTrial
    <2> QED BY <1>2, <1>4, <2>1 DEF HandleTrial, ContextMoved, kbd
  <1>7. DevicesMoved
    BY <1>2, <1>4 DEF HandleTrial, DevicesMoved, TypesSound, pic, kbd
  <1> QED BY <1>1, <1>5, <1>6, <1>7, MovedStep

LEMMA SendEOIStep ==
  ASSUME IRQInv, TypeOK', SendEOI
  PROVE  IRQInv'
  <1> USE DEF IRQ0_VECTOR, IRQ1_VECTOR, SYSCALL_VECTOR, Breakpoint, Trials, IRQ_BASE_VECTOR
  <1>1. stack # <<>> /\ Top.at # "panic" /\ Top.at = "eoi"
    BY DEF SendEOI, Handling
  <1>2. /\ stack[1].vector \in {IRQ0_VECTOR, IRQ1_VECTOR} /\ iflag = FALSE
        /\ isr \subseteq {0, 1} /\ TypesSound
        /\ \A i \in {0, 1} : i \in isr <=> stack[1].vector = IRQ_BASE_VECTOR + i
    BY <1>1, HandlingFacts DEF FrameSound
  <1>3. Move("iret")
    BY <1>1 DEF SendEOI
  <1>4. /\ stack' # <<>> /\ Len(stack') = 1 /\ stack' \in Seq(FrameType)
        /\ stack'[1].vector = stack[1].vector /\ stack'[1].at = "iret"
    BY <1>1, <1>3, MoveFacts
  <1>5. isr' = {}
    <2>1. PICK i \in {0, 1} : isr = {i}
      <3>1. CASE stack[1].vector = IRQ0_VECTOR
        <4>1. 0 \in isr /\ 1 \notin isr
          BY <1>2, <3>1
        <4> QED BY <1>2, <4>1
      <3>2. CASE stack[1].vector = IRQ1_VECTOR
        <4>1. 1 \in isr /\ 0 \notin isr
          BY <1>2, <3>2
        <4> QED BY <1>2, <4>1
      <3> QED BY <1>2, <3>1, <3>2
    <2>2. Least(isr) \in isr
      BY <2>1, LeastLine
    <2> QED BY <2>1, <2>2 DEF SendEOI, Acknowledged
  <1>6. FrameMoved
    BY <1>2, <1>4 DEF FrameMoved
  <1>7. ContextMoved
    <2>1. iflag' = FALSE
      BY <1>2 DEF SendEOI
    <2> QED BY <1>2, <2>1 DEF SendEOI, ContextMoved, kbd, test
  <1>8. DevicesMoved
    BY <1>2, <1>4, <1>5 DEF SendEOI, DevicesMoved, TypesSound, kbd
  <1> QED BY <1>1, <1>6, <1>7, <1>8, MovedStep

(* The one exception without a handler is the breakpoint, which panics.    *)
LEMMA HandleNoneStep ==
  ASSUME IRQInv, TypeOK', HandleNone
  PROVE  IRQInv'
  <1> USE DEF IRQ0_VECTOR, IRQ1_VECTOR, SYSCALL_VECTOR, Breakpoint, Trials, IRQ_BASE_VECTOR
  <1>1. stack # <<>> /\ Top.at # "panic" /\ Top.at = "handler" /\ Top.vector \notin handlers
    BY DEF HandleNone, Handling
  <1>2. /\ stack[1] = Top /\ iflag = FALSE /\ TypesSound /\ StagesSound
        /\ isr \subseteq {0, 1}
        /\ \A i \in {0, 1} : i \in isr <=> stack[1].vector = IRQ_BASE_VECTOR + i
        /\ {SYSCALL_VECTOR, IRQ0_VECTOR, IRQ1_VECTOR} \subseteq handlers
    BY <1>1, HandlingFacts
  <1>3. stack[1].vector = Breakpoint
    <2>1. 1 \in DOMAIN stack
      BY <1>1, StackFacts
    <2> QED BY <1>1, <1>2, <2>1 DEF IRQInv, HandlerReady
  <1>4. stage = "up"
    BY <1>1, <1>2, <1>3, HandlingFacts DEF FrameSound
  <1>5. Move("panic") /\ stage' = "save"
    BY <1>2, <1>3 DEF HandleNone
  <1>6. /\ stack' # <<>> /\ Len(stack') = 1 /\ stack' \in Seq(FrameType)
        /\ stack'[1].vector = Breakpoint /\ stack'[1].at = "panic"
    BY <1>1, <1>3, <1>5, MoveFacts
  <1>7. iflag' = FALSE
    BY <1>2 DEF HandleNone
  <1>8. UNCHANGED <<flags, handlers, pic, kbd, test>>
    BY DEF HandleNone
  <1>9. TypesSound'
    BY <1>2, <1>5, <1>7, <1>8, Zenon DEF TypesSound, Stages, Stopping, pic, kbd,
       test
  <1>10. StagesSound'
    BY <1>2, <1>4, <1>5, <1>6, <1>7, <1>8 DEF StagesSound, TrialContained, PanicContextTrue,
       InterruptsOff, HandlersRegistered, ContextSaved, Booting, Stopping, test
  <1>11. FrameSound(stack[1])'
    BY <1>5, <1>6 DEF FrameSound, Stopping
  <1>12. isr' = {i \in {0, 1} : stack'[1].vector = IRQ_BASE_VECTOR + i /\ stack'[1].at # "iret"}
    BY <1>2, <1>3, <1>6, <1>8 DEF pic
  <1>13. OneFrame'
    BY <1>6, <1>11, <1>12 DEF OneFrame
  <1> QED BY <1>9, <1>10, <1>13, InvPartsNext

LEMMA ReturnStep ==
  ASSUME IRQInv, TypeOK', Return
  PROVE  IRQInv'
  <1>1. stack # <<>> /\ Top.at # "panic" /\ Top.at = "iret"
    BY DEF Return, Handling
  <1>2. /\ Top = stack[1] /\ stack[1] \in FrameType
        /\ isr \subseteq {0, 1} /\ \A i \in {0, 1} : i \notin isr
        /\ stage \notin Booting \cup Stopping \cup {"critical"}
        /\ {SYSCALL_VECTOR, IRQ0_VECTOR, IRQ1_VECTOR} \subseteq handlers
        /\ TypesSound /\ StagesSound
    BY <1>1, HandlingFacts
  <1>3. stack' = <<>>
    <2>1. stack \in Seq(FrameType) /\ Len(stack) = 1
      BY <1>1, StackFacts DEF IRQInv, IRQTypeOK, FrameType
    <2> QED BY <2>1 DEF Return
  <1>4. iflag' \in BOOLEAN
    BY <1>2, FrameFacts DEF Return
  <1>5. UNCHANGED <<stage, flags, handlers, pic, kbd, test>>
    BY DEF Return
  <1>6. NoFrame'
    BY <1>2, <1>3, <1>5 DEF NoFrame, pic
  <1>7. TypesSound'
    BY <1>2, <1>4, <1>5 DEF TypesSound, pic, kbd, test
  <1>8. StagesSound'
    BY <1>2, <1>3, <1>5 DEF StagesSound, TrialContained, PanicContextTrue,
       InterruptsOff, HandlersRegistered, ContextSaved, Booting, Stopping, test
  <1> QED BY <1>6, <1>7, <1>8, InvPartsNext

(* IRQInv is inductive.                                                    *)
LEMMA IRQStep ==
  ASSUME IRQInv, [IRQNext]_allVars
  PROVE  IRQInv'
  <1>1. TypeOK'
    <2>1. TypeOK
      BY InvParts
    <2> QED BY <2>1, TicksMove, TypeStep
  <1>2. CASE UNCHANGED allVars
    <2>1. UNCHANGED <<stage, iflag, flags, stack, handlers, irr, imr, isr, full, keys, trial,
                      caught, last_panic_context>>
      BY <1>2 DEF allVars, cpu, pic, kbd, test
    <2>2. TypesSound /\ StagesSound /\ (NoFrame \/ OneFrame)
      BY InvParts
    <2>3. TypesSound' /\ StagesSound'
      BY <2>1, <2>2, SMTT(30) DEF TypesSound, StagesSound, TrialContained,
         PanicContextTrue, InterruptsOff, HandlersRegistered, ContextSaved
    <2>4. (NoFrame \/ OneFrame)'
      BY <2>1, <2>2 DEF NoFrame, OneFrame, FrameSound
    <2> QED BY <1>1, <2>3, <2>4, InvPartsNext
  <1>3. CASE TimerEdge \/ KeyArrives
    BY <1>1, <1>3, DeviceStep
  <1>4. CASE Progress
    BY <1>1, <1>4, BootStep, KernelStep, RaiseStep, PanicStep DEF Progress
  <1>5. CASE KernelLoop
    BY <1>1, <1>5, KernelStep
  <1>6. CASE Choices
    BY <1>1, <1>6, KernelStep, RaiseStep DEF Choices
  <1>7. CASE TakeInterrupt
    BY <1>1, <1>7, TakeStep
  <1>8. CASE HandlerStep
    BY <1>1, <1>8, HandleTimerStep, HandleKeyboardStep, KeyboardSignalsStep,
       HandleSyscallStep, HandleTrialStep, HandleNoneStep, SendEOIStep, ReturnStep
       DEF HandlerStep
  <1> QED BY <1>2, <1>3, <1>4, <1>5, <1>6, <1>7, <1>8 DEF IRQNext

LEMMA PanicFinalStep ==
  ASSUME IRQInv, [IRQNext]_allVars, stage \in Stopping
  PROVE  stage' \in Stopping /\ UNCHANGED <<vars, stack, handlers>>
  <1> USE DEF cpu, Stopping
  <1>1. iflag = FALSE
    BY DEF IRQInv, InterruptsOff, IRQTypeOK
  <1>2. ~TakeInterrupt
    BY <1>1 DEF TakeInterrupt
  <1>3. ~HandlerStep
    <2>1. stack # <<>> => Top.at = "panic"
      BY StackFacts DEF FrameSound
    <2> QED BY <2>1 DEF HandlerStep, Handling, HandleTimer, HandleKeyboard, KeyboardSignals,
         HandleSyscall, HandleTrial, HandleNone, SendEOI, Return
  <1>4. ~KernelLoop /\ ~Choices
    BY DEF KernelLoop, Choices, ForceTicks, EnterCritical, SoftwareInterrupt, Arm, Panic,
       Exit, Up, Goto
  <1>5. CASE TimerEdge \/ KeyArrives
    BY <1>5 DEF TimerEdge, KeyArrives
  <1>6. CASE Progress
    <2>1. ~Boot /\ ~LeaveCritical /\ ~Trigger /\ ~Disarm
      BY DEF Boot, BadMagic, IdtInit, SyscallInit, TimerInit, DrainByte, DrainEnds,
         KeyboardInit, EnableInterrupts, LeaveCritical, Trigger, Disarm, Goto
    <2>2. PanicStarts \/ PanicSaves \/ PanicSignals \/ Halt
      BY <1>6, <2>1 DEF Progress
    <2> QED BY <2>2 DEF PanicStarts, PanicSaves, PanicSignals, Halt, Goto
  <1>7. CASE UNCHANGED allVars
    BY <1>7 DEF allVars
  <1> QED BY <1>2, <1>3, <1>4, <1>5, <1>6, <1>7 DEF IRQNext

----------------------------------------------------------------------------
(* Whatever kernel_main, the shell and the devices do, an interrupt finds  *)
(* the state that idt.c's handlers rely on: the inductive invariant of     *)
(* boot, interrupt handling and panics.                                    *)
THEOREM IRQInvariance == IRQSpec => []IRQInv
  BY InitStep, IRQStep, PTL DEF IRQSpec

(* No handler of idt.c is ever interrupted by another, schedule_signal's   *)
(* interrupts_restore in the keyboard handler included.                    *)
THEOREM NoNesting == IRQSpec => []HandlersNeverNest
  <1>1. IRQInv => HandlersNeverNest
    BY DEF IRQInv
  <1> QED BY <1>1, IRQInvariance, PTL

(* kernel_main's order of idt_init, the registrations and the sti is safe: *)
(* no request reaches idt_handle_interrupt before its handler is there.    *)
THEOREM HandlersInPlace == IRQSpec => []HandlerReady
  <1>1. IRQInv => HandlerReady
    BY DEF IRQInv
  <1> QED BY <1>1, IRQInvariance, PTL

(* The handlers that the shell's div0 and invop register are there for the *)
(* length of the test and catch its exception, whatever interrupts it.     *)
THEOREM TrialsContained == IRQSpec => []TrialContained
  <1>1. IRQInv => TrialContained
    BY DEF IRQInv
  <1> QED BY <1>1, IRQInvariance, PTL

(* The context that panic_save_context left when the panic screen is drawn *)
(* is that of the exception the kernel stopped in.                         *)
THEOREM PanicTruthful == IRQSpec => []PanicContextTrue
  <1>1. IRQInv => PanicContextTrue
    BY DEF IRQInv
  <1> QED BY <1>1, IRQInvariance, PTL

(* After panic_with_context has turned interrupts off, no handler, no tick *)
(* and no pass of the scheduler runs.                                      *)
THEOREM PanicsFinal == IRQSpec => PanicFinal
  <1>1. IRQInv /\ [IRQNext]_allVars =>
          [(stage \in Stopping)
             => stage' \in Stopping /\ UNCHANGED <<vars, stack, handlers>>]_allVars
    BY PanicFinalStep
  <1> QED BY <1>1, IRQInvariance, PTL DEF IRQSpec, PanicFinal

(* Ticks that arrive through the controller and idt.c, instead of at will, *)
(* still do to the counter only what TickCounter allows.                   *)
THEOREM InterruptsRefine == IRQSpec => ImplementsTickCounter
  <1>1. IRQInit => Counter!CounterInit
    BY DEF IRQInit, Init, Counter!CounterInit, ticksSeen
  <1>2. IRQInv => TypeOK
    BY InvParts
  <1> QED BY <1>1, <1>2, IRQInvariance, TicksMove, CounterStep, PTL
          DEF IRQSpec, ImplementsTickCounter, Counter!CounterSpec
=============================================================================
