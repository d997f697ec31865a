----------------------------- MODULE Lifecycle -----------------------------
(***************************************************************************)
(* What the process manager promises about a process identifier, whatever  *)
(* slots, lists and queues it keeps: pids are handed out in increasing     *)
(* order and never again; a process dies at most once, with one exit code  *)
(* that stays the same until it is collected; it is collected at most once *)
(* and only after its death; the kernel process never dies.                *)
(***************************************************************************)
EXTENDS Naturals

CONSTANT MaxPid

VARIABLES
  life,   \* per pid: "unborn", "live", "dead" or "gone"
  code    \* per pid: the exit code of the dead, 0 for all others

lifeVars == <<life, code>>

Pids == 1 .. MaxPid
KernelPid == 1

LifeInit ==
  /\ life = [i \in Pids |-> IF i = KernelPid THEN "live" ELSE "unborn"]
  /\ code = [i \in Pids |-> 0]

(* The next pid in order, given to a new process or lost with a creation   *)
(* that failed.                                                            *)
NextUnborn(i) ==
  /\ life[i] = "unborn"
  /\ \A j \in Pids : j < i => life[j] # "unborn"

Create(i) ==
  /\ NextUnborn(i)
  /\ life' = [life EXCEPT ![i] = "live"]
  /\ UNCHANGED code

Abort(i) ==
  /\ NextUnborn(i)
  /\ life' = [life EXCEPT ![i] = "gone"]
  /\ UNCHANGED code

Die(i) ==
  /\ i # KernelPid
  /\ life[i] = "live"
  /\ life' = [life EXCEPT ![i] = "dead"]
  /\ code'[i] \in Nat
  /\ code' = [code EXCEPT ![i] = code'[i]]

Collect(i) ==
  /\ life[i] = "dead"
  /\ life' = [life EXCEPT ![i] = "gone"]
  /\ code' = [code EXCEPT ![i] = 0]

LifeNext == \E i \in Pids : Create(i) \/ Abort(i) \/ Die(i) \/ Collect(i)

LifeSpec == LifeInit /\ [][LifeNext]_lifeVars
=============================================================================
