---------------------------- MODULE ProcessLife ----------------------------
(* Process implements Lifecycle: what happens to a pid, read off the table.*)
EXTENDS Process

(* The slots that hold the process with this pid: none or one.             *)
Holders(i) == {s \in Slots : table[s].used /\ table[s].pid = i}

LifeOf(i) ==
  IF i >= next_pid THEN "unborn"
  ELSE IF Holders(i) = {} THEN "gone"
  ELSE IF \E s \in Holders(i) : Dead(s) THEN "dead"
  ELSE "live"

CodeOf(i) ==
  IF LifeOf(i) = "dead" THEN table[CHOOSE s \in Holders(i) : TRUE].exit_code
  ELSE 0

lifeOf == [i \in 1 .. MaxPid |-> LifeOf(i)]
codeOf == [i \in 1 .. MaxPid |-> CodeOf(i)]

Life == INSTANCE Lifecycle WITH life <- lifeOf, code <- codeOf

(* The process manager implements the life cycle of pids: no interleaving  *)
(* of creations, forks, signals, waits and exits revives, recollects or    *)
(* renames a process, changes the exit code its parent will read, or       *)
(* collects a process that still runs.                                     *)
ImplementsLifecycle == Life!LifeSpec
=============================================================================
