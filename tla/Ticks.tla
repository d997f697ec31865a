------------------------------- MODULE Ticks -------------------------------
(***************************************************************************)
(* The counter that the timer interrupt and scheduler_run_pending share.   *)
(* pending_scheduler_ticks is a plain variable: the handler of IRQ0 adds 1 *)
(* to it in one instruction, while scheduler_run_pending, built with -O2,  *)
(* loads it, tests the copy and later stores the copy minus 1.  An IRQ0    *)
(* between the load and the store is counted and then overwritten.         *)
(***************************************************************************)
EXTENDS Naturals

CONSTANTS
  Modulus,    \* 2^width of uint32_t
  MaxTicks,   \* values of max_ticks that callers pass to scheduler_run_pending
  MaxTotal    \* bound: ticks of one behaviour

ASSUME TicksAssumption ==
  /\ Modulus \in Nat \ {0}
  /\ MaxTicks \subseteq Nat
  /\ MaxTotal \in Nat

VARIABLES
  pending,    \* pending_scheduler_ticks
  total,      \* ticks so far, counted without the wrap of total_scheduler_ticks
  copy,       \* the register holding the loaded pending_scheduler_ticks
  executed,   \* iterations of the current scheduler_run_pending
  max,        \* its max_ticks
  served,     \* passes over the processes so far
  pc          \* "out" of scheduler_run_pending, "test" or "store" in its loop

vars == <<pending, total, copy, executed, max, served, pc>>

Init ==
  /\ pending = 0 /\ total = 0 /\ copy = 0
  /\ executed = 0 /\ max = 0 /\ served = 0
  /\ pc = "out"

(* timer_interrupt -> scheduler_tick, between any two instructions.        *)
SchedulerTick ==
  /\ total < MaxTotal
  /\ total' = total + 1
  /\ pending' = (pending + 1) % Modulus
  /\ UNCHANGED <<copy, executed, max, served, pc>>

(* The input loops and the shell call scheduler_run_pending: the counter   *)
(* is loaded ...                                                           *)
RunPending(m) ==
  /\ pc = "out"
  /\ max' = m
  /\ executed' = 0
  /\ copy' = pending
  /\ pc' = "test"
  /\ UNCHANGED <<pending, total, served>>

(* ... tested ...                                                          *)
MoreToRun_LeavesOne == copy > 1 /\ executed < max   \* mutant: off by one
MoreToRun           == copy > 0 /\ executed < max

TestPending ==
  /\ pc = "test"
  /\ pc' = IF MoreToRun THEN "store" ELSE "out"
  /\ UNCHANGED <<pending, total, copy, executed, max, served>>

(* ... stored back less one.  The pass over the processes follows, and the *)
(* counter is loaded again after it.                                       *)
Decremented_Kept == copy   \* mutant: the decrement is lost
Decremented == copy - 1

StorePending ==
  /\ pc = "store"
  /\ pending' = Decremented
  /\ served' = served + 1
  /\ pc' = "pass"
  /\ UNCHANGED <<total, copy, executed, max>>

PassEnds ==
  /\ pc = "pass"
  /\ executed' = executed + 1
  /\ copy' = pending
  /\ pc' = "test"
  /\ UNCHANGED <<pending, total, max, served>>

(* One round of scheduler_force_ticks: the compiler cancels the increment  *)
(* against the decrement, unless the increment wraps to 0, when            *)
(* scheduler_run_pending(1) finds nothing to do.                           *)
ForceTick ==
  /\ pc = "out"
  /\ total < MaxTotal
  /\ total' = total + 1
  /\ IF pending = Modulus - 1
       THEN pending' = 0 /\ served' = served
       ELSE pending' = pending /\ served' = served + 1
  /\ UNCHANGED <<copy, executed, max, pc>>

Loop == (\E m \in MaxTicks : RunPending(m)) \/ TestPending \/ StorePending \/ PassEnds

Next == SchedulerTick \/ ForceTick \/ Loop

Spec == Init /\ [][Next]_vars

----------------------------------------------------------------------------
(* Types; the value that the store decrements is never 0.                  *)
TypeOK ==
  /\ pending \in 0 .. Modulus - 1
  /\ copy \in 0 .. Modulus - 1
  /\ total \in Nat /\ executed \in Nat /\ served \in Nat
  /\ max \in MaxTicks \cup {0}
  /\ pc \in {"out", "test", "store", "pass"}
  /\ pc = "store" => copy > 0

(* Seen from outside, the ticks that the store will overwrite were never   *)
(* counted.                                                                *)
ticksSeen ==
  IF pc = "store" \/ (pc = "test" /\ copy > 0 /\ executed < max) THEN copy
  ELSE pending

Counter == INSTANCE TickCounter
             WITH arrived <- total, ticks <- ticksSeen, passes <- served

(* The race only loses ticks: whatever the interleaving, the scheduler     *)
(* behaves as if every tick that is not lost were counted and spent        *)
(* atomically, and no pass runs without a tick that pays for it.           *)
ImplementsTickCounter == Counter!CounterSpec
=============================================================================
