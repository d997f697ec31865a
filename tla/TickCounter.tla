---------------------------- MODULE TickCounter ----------------------------
(***************************************************************************)
(* What the rest of the kernel may assume of the scheduler ticks: a tick   *)
(* that arrives is counted or lost, and a counted tick pays for one pass   *)
(* of the scheduler, each in one step.  A forced tick is spent at once.    *)
(* This is how module Process treats them.                                 *)
(***************************************************************************)
EXTENDS Naturals

CONSTANT Modulus   \* 2^width of the counter

VARIABLES
  arrived,  \* ticks so far
  ticks,    \* counted and not yet spent
  passes    \* passes of the scheduler so far

counterVars == <<arrived, ticks, passes>>

CounterInit == arrived = 0 /\ ticks = 0 /\ passes = 0

Count ==
  /\ arrived' = arrived + 1
  /\ ticks' = (ticks + 1) % Modulus
  /\ UNCHANGED passes

Lose == arrived' = arrived + 1 /\ UNCHANGED <<ticks, passes>>

Spend ==
  /\ ticks > 0
  /\ ticks' = ticks - 1
  /\ passes' = passes + 1
  /\ UNCHANGED arrived

Force == arrived' = arrived + 1 /\ passes' = passes + 1 /\ UNCHANGED ticks

CounterNext == Count \/ Lose \/ Spend \/ Force

CounterSpec == CounterInit /\ [][CounterNext]_counterVars
=============================================================================
