-------------------------- MODULE LifecycleProofs --------------------------
(* Theorems about the life of processes, for every value of the constants  *)
(* of Process: the dead stay dead, and Process implements Lifecycle.       *)
EXTENDS ProcessLife, ProcessProofs

----------------------------------------------------------------------------
(* The dead stay dead.                                                     *)

(* A step that releases no slot and leaves the dead alone.                 *)
LEMMA NoRelease ==
  ASSUME IndInv,
         \/ current' \in {current, Kernel}
         \/ current' \in Slots /\ table[current'].status # "ZOMBIE",
         \A s \in Slots : table[s].used =>
           /\ table'[s].used /\ table'[s].pid = table[s].pid
           /\ Dead(s) => /\ table'[s].status = "ZOMBIE"
                         /\ table'[s].exit_code = table[s].exit_code
  PROVE  ZombieStep
  <1>1. table[Kernel].status # "ZOMBIE"
    BY DEF IndInv, OnlyCurrentRuns
  <1> QED BY <1>1 DEF ZombieStep, Dead

(* A step that may end process p, or wake its parent, leaves the dead      *)
(* alone.                                                                  *)
LEMMA ExitKeeps ==
  ASSUME IndInv, NEW p \in Slots, NEW r, ExitEffect(table, r, p),
         NEW s \in Slots
  PROVE  /\ table[s].used => r[s].used
         /\ r[s].pid = table[s].pid
         /\ table[s].status = "ZOMBIE" => /\ r[s].status = "ZOMBIE"
                                          /\ r[s].exit_code = table[s].exit_code
  <1>1. CASE s = p
    BY <1>1 DEF ExitEffect, SameKin
  <1>2. CASE s # p
    BY <1>2 DEF ExitEffect, SameKin
  <1> QED BY <1>1, <1>2

LEMMA ZombieQueues ==
  ASSUME IndInv, NEW p \in Linked,
         \/ \E sig \in Signals : SendSignal(p, sig)
         \/ \E v \in Values : SocketSend(p, v)
         \/ SocketRecv
  PROVE  ZombieStep
  <1>1. table \in [Slots -> ProcessType] /\ p \in Slots /\ current \in Slots
    BY LinkedFacts DEF IndInv, TypeOK
  <1>2. current' = current
    BY Zenon DEF SendSignal, SocketSend, SocketRecv
  <1> DEFINE Same == \A s \in Slots : /\ table'[s].used = table[s].used
                                     /\ table'[s].pid = table[s].pid
                                     /\ table'[s].status = table[s].status
                                     /\ table'[s].exit_code = table[s].exit_code
  <1>3. Same
    <2>1. ASSUME NEW sig \in Signals, SendSignal(p, sig) PROVE Same
      BY <1>1, <2>1, SMTT(30) DEF SendSignal, ProcessType
    <2>2. ASSUME NEW v \in Values, SocketSend(p, v) PROVE Same
      <3>1. PICK sigs, sock : table' = [table EXCEPT ![p].socket = sock,
                                                     ![p].signals = sigs]
        BY <2>2, Zenon DEF SocketSend
      <3> QED BY <1>1, <3>1 DEF ProcessType
    <2>3. CASE SocketRecv
      BY <1>1, <2>3 DEF SocketRecv, ProcessType
    <2> QED BY <2>1, <2>2, <2>3, Zenon
  <1> QED BY <1>2, <1>3, NoRelease, Zenon DEF Dead

LEMMA ZombieWaitBlocks ==
  ASSUME IndInv, NEW c \in Linked, WaitBlocks(c)
  PROVE  ZombieStep
  <1>1. table \in [Slots -> ProcessType] /\ current \in Slots
    BY LinkedFacts DEF IndInv, TypeOK
  <1>2. current' = current
    BY DEF WaitBlocks
  <1>3. \A s \in Slots : /\ table'[s].used = table[s].used
                         /\ table'[s].pid = table[s].pid
                         /\ s # current => table'[s] = table[s]
    BY <1>1, SMTT(30) DEF WaitBlocks, ProcessType
  <1> QED BY <1>2, <1>3, NoRelease DEF Dead

LEMMA ZombieExits ==
  ASSUME IndInv, NEW code \in ExitCodes, SysExit(code) \/ EntryReturns(code)
  PROVE  ZombieStep
  <1>1. /\ table \in [Slots -> ProcessType] /\ current \in Slots
        /\ code \in Nat /\ current' \in {current, Kernel}
    BY LinkedFacts, ProcessAssumption DEF IndInv, TypeOK, SysExit, EntryReturns
  <1>2. PICK r : r = ProcessExit(table, current, code)
    OBVIOUS
  <1>3. ExitEffect(table, r, current)
    BY <1>1, <1>2, ProcessExitEffect
  <1>4. r \in [Slots -> ProcessType]
    BY <1>3 DEF ExitEffect
  <1>5. \A s \in Slots :
          /\ table'[s].used = r[s].used
          /\ table'[s].pid = r[s].pid
          /\ s # current => table'[s] = r[s]
    <2>1. CASE table' = r
      BY <2>1
    <2>2. CASE table' = YieldTable(r)
      BY <1>1, <1>4, <2>2 DEF YieldTable, ProcessType
    <2> QED BY <1>2, <2>1, <2>2 DEF SysExit, EntryReturns
  <1>6. ASSUME NEW s \in Slots, table[s].used
        PROVE  /\ table'[s].used /\ table'[s].pid = table[s].pid
               /\ Dead(s) => /\ table'[s].status = "ZOMBIE"
                             /\ table'[s].exit_code = table[s].exit_code
    <2>1. /\ r[s].used /\ r[s].pid = table[s].pid
          /\ table[s].status = "ZOMBIE" => /\ r[s].status = "ZOMBIE"
                                           /\ r[s].exit_code = table[s].exit_code
      BY <1>1, <1>3, <1>6, ExitKeeps
    <2>2. Dead(s) => table[s].status = "ZOMBIE" /\ table'[s] = r[s]
      BY <1>5 DEF Dead
    <2> QED BY <1>5, <2>1, <2>2
  <1> QED BY <1>1, <1>6, NoRelease

LEMMA ZombieYield ==
  ASSUME IndInv, Yield
  PROVE  ZombieStep
  <1>1. table \in [Slots -> ProcessType] /\ current \in Slots
    BY LinkedFacts DEF IndInv, TypeOK
  <1>2. current' = Kernel
    BY DEF Yield
  <1>3. \A s \in Slots : /\ table'[s].used = table[s].used
                         /\ table'[s].pid = table[s].pid
                         /\ s # current => table'[s] = table[s]
    BY <1>1 DEF Yield, YieldTable, ProcessType
  <1> QED BY <1>2, <1>3, NoRelease DEF Dead

LEMMA ZombieDelivery ==
  ASSUME IndInv, DeliverPending
  PROVE  ZombieStep
  <1>1. PICK p : p = list[position]
    OBVIOUS
  <1>2. table \in [Slots -> ProcessType] /\ p \in Slots
    BY <1>1 DEF IndInv, TypeOK, DeliveryPass, DeliverPending
  <1>3. /\ ExitEffect(table, table', p)
        /\ current' = current
    BY <1>1, <1>2, DeliverEffect, Zenon DEF DeliverPending
  <1> QED BY <1>2, <1>3, ExitKeeps, NoRelease DEF Dead

LEMMA ZombieSchedule ==
  ASSUME IndInv, ScheduleNext
  PROVE  ZombieStep
  <1>1. PICK p : p = PickNextProcess
    OBVIOUS
  <1>2. PICK r : r = DeliverSignals(table, p)
    OBVIOUS
  <1>3. /\ p # NULL
        /\ \/ table' = r /\ current' = Kernel
           \/ table' = [r EXCEPT ![p].status = "RUN"] /\ current' = p
    BY <1>1, <1>2 DEF ScheduleNext
  <1>4. /\ p \in Slots /\ table[p].status # "ZOMBIE"
        /\ table \in [Slots -> ProcessType]
    BY <1>1, <1>3, PickFacts DEF Runnable, IndInv, TypeOK
  <1>5. ExitEffect(table, r, p)
    BY <1>2, <1>4, DeliverEffect, Zenon
  <1>6. r \in [Slots -> ProcessType]
    BY <1>5 DEF ExitEffect
  <1>7. \A s \in Slots : /\ table'[s].used = r[s].used
                         /\ table'[s].pid = r[s].pid
                         /\ s # p => table'[s] = r[s]
    BY <1>3, <1>4, <1>6 DEF ProcessType
  <1> QED BY <1>3, <1>4, <1>5, <1>7, ExitKeeps, NoRelease DEF Dead

LEMMA ZombieCreate ==
  ASSUME IndInv, NEW par, NEW own, CreateSucceeds(par, own)
  PROVE  ZombieStep
  <1>1. table \in [Slots -> ProcessType]
    BY DEF IndInv, TypeOK
  <1>2. PICK s : s = Least(FreeSlots)
    OBVIOUS
  <1>3. ~table[s].used
    <2>1. FreeSlots \in SUBSET Nat /\ FreeSlots # {}
      BY SlotFacts, Zenon DEF FreeSlots, CreateSucceeds
    <2> QED BY <1>2, <2>1, LeastFacts DEF FreeSlots
  <1>4. current' = current
    BY DEF CreateSucceeds
  <1>5. PICK n, cs :
          table' = [t \in Slots |-> IF t = s THEN n
                                    ELSE IF t = par THEN WithChildren(table[t], cs)
                                    ELSE table[t]]
    <2>1. table' = [t \in Slots |->
                      IF t = s THEN NewProcess(next_pid, own, par)
                      ELSE IF t = par
                        THEN WithChildren(table[t], table[par].children \cup {s})
                      ELSE table[t]]
      BY <1>2, Zenon DEF CreateSucceeds, CreatedTable, WithChildren
    <2> QED BY <2>1, Zenon
  <1>6. \A t \in Slots \ {s} : /\ table'[t].used = table[t].used
                               /\ table'[t].pid = table[t].pid
                               /\ table'[t].status = table[t].status
                               /\ table'[t].exit_code = table[t].exit_code
    BY <1>1, <1>5 DEF WithChildren, ProcessType
  <1> QED BY <1>3, <1>4, <1>6, NoRelease DEF Dead

LEMMA ZombieCollect ==
  ASSUME IndInv, NEW c \in Linked, WaitCollects(c)
  PROVE  ZombieStep
  <1>1. /\ table \in [Slots -> ProcessType] /\ c \in Slots /\ table[c].used
        /\ current \in Slots /\ current' = current
        /\ table[c].status = "ZOMBIE"
    BY LinkedFacts DEF IndInv, TypeOK, WaitCollects
  <1>2. Dead(c)
    BY <1>1 DEF WaitCollects, IndInv, OnlyCurrentRuns, NotOwnParent, MayWaitFor, Dead
  <1>3. PICK st : table' = ReleasedTable([table EXCEPT ![current].status = st], c)
    BY <1>1, Zenon DEF WaitCollects
  <1>4. table'[c] = Blank
    BY <1>1, <1>3 DEF ReleasedTable
  <1>5. \A s \in Slots \ {c} :
          /\ table'[s].used = table[s].used
          /\ table'[s].pid = table[s].pid
          /\ s # current => /\ table'[s].status = table[s].status
                            /\ table'[s].exit_code = table[s].exit_code
    BY <1>1, <1>3 DEF ReleasedTable, ProcessType
  <1> QED BY <1>1, <1>2, <1>4, <1>5 DEF ZombieStep, Dead

LEMMA ZombieNext ==
  ASSUME IndInv, [Next]_vars
  PROVE  [ZombieStep]_vars
  <1>1. ASSUME UNCHANGED <<table, current>> PROVE ZombieStep
    BY <1>1, NoRelease DEF Dead
  <1>2. CASE CreateFails \/ Tick \/ RunPending \/ NothingToRun
    BY <1>1, <1>2 DEF CreateFails, Tick, RunPending, NothingToRun
  <1>3. CASE Call
    <2>1. current \in Linked
      BY DEF IndInv, CursorLinked
    <2> QED BY <1>2, <1>3, <2>1, ZombieCreate, ZombieWaitBlocks, ZombieCollect,
               ZombieQueues, ZombieExits
            DEF Call, CreateOwned, ExecFn, Fork
  <1>4. CASE LeaveCPU
    BY <1>4, ZombieYield, ZombieExits DEF LeaveCPU
  <1>5. CASE Scheduler
    BY <1>2, <1>5, ZombieDelivery, ZombieSchedule DEF Scheduler
  <1> QED BY <1>2, <1>3, <1>4, <1>5 DEF Next

(* A slot is only released when its process is dead, and the dead keep     *)
(* their pid and exit code until process_wait collects them.               *)
THEOREM ZombiesFinal == Spec => ZombieFinal
  BY Invariance, ZombieNext, PTL DEF Spec, ZombieFinal

----------------------------------------------------------------------------
(* The life of a pid.                                                      *)

(* Two more facts that every step keeps: the kernel has the first pid, and *)
(* no pid beyond the bound is handed out.                                  *)
PidsBounded == table[Kernel].pid = 1 /\ next_pid \in 2 .. MaxPid + 1

LifeInv == IndInv /\ PidsBounded

(* What the life of a pid is, by the slot that holds it.                   *)
LEMMA LifeHeld ==
  IndInv => \A s \in Slots : table[s].used =>
    /\ table[s].pid \in 1 .. next_pid - 1
    /\ LifeOf(table[s].pid) = IF Dead(s) THEN "dead" ELSE "live"
    /\ CodeOf(table[s].pid) = IF Dead(s) THEN table[s].exit_code ELSE 0
  <1> SUFFICES ASSUME IndInv, NEW s \in Slots, table[s].used
               PROVE  /\ table[s].pid \in 1 .. next_pid - 1
                      /\ LifeOf(table[s].pid) = IF Dead(s) THEN "dead" ELSE "live"
                      /\ CodeOf(table[s].pid) =
                           IF Dead(s) THEN table[s].exit_code ELSE 0
    OBVIOUS
  <1>1. s \in Linked /\ next_pid \in Nat
    BY DEF IndInv, ListMatchesTable, TypeOK
  <1>2. PICK i : i = table[s].pid
    OBVIOUS
  <1>3. i \in 1 .. next_pid - 1
    BY <1>1, <1>2 DEF IndInv, PidsUnique
  <1>4. Holders(i) = {s}
    <2>1. ASSUME NEW t \in Holders(i) PROVE t = s
      <3>1. t \in Linked /\ table[t].pid = table[s].pid
        BY <1>2, <2>1 DEF Holders, IndInv, ListMatchesTable
      <3> QED BY <1>1, <3>1 DEF IndInv, PidsUnique
    <2>2. s \in Holders(i)
      BY <1>2 DEF Holders
    <2> QED BY <2>1, <2>2
  <1>5. LifeOf(i) = IF Dead(s) THEN "dead" ELSE "live"
    BY <1>1, <1>3, <1>4 DEF LifeOf
  <1>6. CodeOf(i) = IF Dead(s) THEN table[s].exit_code ELSE 0
    BY <1>4, <1>5 DEF CodeOf
  <1> QED BY <1>2, <1>3, <1>5, <1>6

LEMMA LifeFree ==
  IndInv => \A i \in Nat :
    /\ i >= next_pid => LifeOf(i) = "unborn" /\ CodeOf(i) = 0
    /\ i < next_pid /\ (\A s \in Slots : table[s].used => table[s].pid # i)
         => LifeOf(i) = "gone" /\ CodeOf(i) = 0
  <1> SUFFICES ASSUME IndInv, NEW i \in Nat
               PROVE  /\ i >= next_pid => LifeOf(i) = "unborn" /\ CodeOf(i) = 0
                      /\ i < next_pid
                           /\ (\A s \in Slots : table[s].used => table[s].pid # i)
                         => LifeOf(i) = "gone" /\ CodeOf(i) = 0
    OBVIOUS
  <1>1. next_pid \in Nat
    BY DEF IndInv, TypeOK
  <1>2. (\A s \in Slots : table[s].used => table[s].pid # i) => Holders(i) = {}
    BY DEF Holders
  <1> QED BY <1>1, <1>2 DEF LifeOf, CodeOf

(* The same facts of the state after a step.                               *)
LEMMA LifeNextFacts ==
  IndInv' => 
    /\ \A s \in Slots : table'[s].used =>
         /\ table'[s].pid \in 1 .. next_pid' - 1
         /\ LifeOf(table[s].pid)' = IF Dead(s)' THEN "dead" ELSE "live"
         /\ CodeOf(table[s].pid)' = IF Dead(s)' THEN table'[s].exit_code ELSE 0
    /\ \A i \in Nat :
         /\ i >= next_pid' => LifeOf(i)' = "unborn" /\ CodeOf(i)' = 0
         /\ i < next_pid' /\ (\A s \in Slots : table'[s].used => table'[s].pid # i)
              => LifeOf(i)' = "gone" /\ CodeOf(i)' = 0
  <1>1. (IndInv => 
    /\ \A s \in Slots : table[s].used =>
         /\ table[s].pid \in 1 .. next_pid - 1
         /\ LifeOf(table[s].pid) = IF Dead(s) THEN "dead" ELSE "live"
         /\ CodeOf(table[s].pid) = IF Dead(s) THEN table[s].exit_code ELSE 0
    /\ \A i \in Nat :
         /\ i >= next_pid => LifeOf(i) = "unborn" /\ CodeOf(i) = 0
         /\ i < next_pid /\ (\A s \in Slots : table[s].used => table[s].pid # i)
              => LifeOf(i) = "gone" /\ CodeOf(i) = 0)'
    BY LifeHeld, LifeFree, PTL
  <1> QED BY <1>1

(* What a step may do to slot s without changing the life of its pid.      *)
Keeps(s) ==
  /\ table'[s].used <=> table[s].used
  /\ table[s].used => table'[s].pid = table[s].pid
  /\ Dead(s)' <=> Dead(s)
  /\ Dead(s) => table'[s].exit_code = table[s].exit_code

(* A pid that neither slot p nor next_pid is about keeps its life.         *)
LEMMA Unmoved ==
  ASSUME IndInv, IndInv', next_pid' >= next_pid,
         NEW p, \A s \in Slots \ {p} : Keeps(s),
         NEW i \in Nat, i < next_pid \/ i >= next_pid',
         p \in Slots /\ table[p].used => table[p].pid # i,
         p \in Slots /\ table'[p].used => table'[p].pid # i
  PROVE  LifeOf(i)' = LifeOf(i) /\ CodeOf(i)' = CodeOf(i)
  <1>1. next_pid \in Nat /\ next_pid' \in Nat
    BY DEF IndInv, TypeOK
  <1>2. CASE i >= next_pid'
    <2>1. i >= next_pid
      BY <1>1, <1>2
    <2>2. LifeOf(i) = "unborn" /\ CodeOf(i) = 0
      BY <2>1, LifeFree, Zenon
    <2>3. LifeOf(i)' = "unborn" /\ CodeOf(i)' = 0
      BY <1>2, LifeNextFacts, Zenon
    <2> QED BY <2>2, <2>3
  <1>3. CASE i < next_pid /\ \E s \in Slots : table[s].used /\ table[s].pid = i
    <2>1. PICK s \in Slots : table[s].used /\ table[s].pid = i
      BY <1>3
    <2>2. Keeps(s)
      BY <2>1
    <2>3. table'[s].used /\ table'[s].pid = i
      BY <2>1, <2>2 DEF Keeps
    <2>4. /\ LifeOf(i) = IF Dead(s) THEN "dead" ELSE "live"
          /\ CodeOf(i) = IF Dead(s) THEN table[s].exit_code ELSE 0
      BY <2>1, LifeHeld
    <2>5. /\ LifeOf(i)' = IF Dead(s)' THEN "dead" ELSE "live"
          /\ CodeOf(i)' = IF Dead(s)' THEN table'[s].exit_code ELSE 0
      BY <2>3, LifeNextFacts
    <2> QED BY <2>2, <2>4, <2>5 DEF Keeps
  <1>4. CASE i < next_pid /\ \A s \in Slots : table[s].used => table[s].pid # i
    <2>1. \A s \in Slots : table'[s].used => table'[s].pid # i
      BY <1>4 DEF Keeps
    <2>2. i < next_pid'
      BY <1>1, <1>4
    <2> QED BY <1>4, <2>1, <2>2, LifeFree, LifeNextFacts, Zenon
  <1> QED BY <1>1, <1>2, <1>3, <1>4

----------------------------------------------------------------------------
(* Every step of the process manager is a step of the life cycle.          *)

LEMMA LifeStutter ==
  ASSUME LifeInv, IndInv', next_pid' = next_pid, \A s \in Slots : Keeps(s)
  PROVE  UNCHANGED <<lifeOf, codeOf>>
  <1>1. next_pid \in Nat /\ MaxPid \in Nat /\ NULL \notin Slots
    BY SlotFacts, ProcessAssumption DEF LifeInv, IndInv, TypeOK
  <1>2. ASSUME NEW i \in 1 .. MaxPid
        PROVE  LifeOf(i)' = LifeOf(i) /\ CodeOf(i)' = CodeOf(i)
    <2>1. i \in Nat /\ next_pid' >= next_pid /\ (i < next_pid \/ i >= next_pid')
      BY <1>1
    <2> QED BY <1>1, <2>1, Unmoved DEF LifeInv
  <1> QED BY <1>2 DEF lifeOf, codeOf

LEMMA LifeDies ==
  ASSUME LifeInv, IndInv', next_pid' = next_pid,
         NEW p \in Slots, \A s \in Slots \ {p} : Keeps(s),
         table[p].used, ~Dead(p),
         table'[p].used, table'[p].pid = table[p].pid, Dead(p)'
  PROVE  Life!LifeNext
  <1>1. /\ next_pid \in Nat /\ MaxPid \in Nat /\ Kernel \in Slots
        /\ table'[p].exit_code \in Nat
    BY SlotFacts, ProcessAssumption, FieldTypes DEF LifeInv, IndInv, TypeOK
  <1>2. PICK i : i = table[p].pid
    OBVIOUS
  <1>3. i \in 1 .. next_pid - 1 /\ LifeOf(i) = "live" /\ CodeOf(i) = 0
    BY <1>2, LifeHeld, Zenon DEF LifeInv
  <1>4. LifeOf(i)' = "dead" /\ CodeOf(i)' = table'[p].exit_code
    BY <1>2, LifeNextFacts, Zenon
  <1>5. i \in 1 .. MaxPid
    BY <1>1, <1>3 DEF LifeInv, PidsBounded
  <1>6. i # 1
    <2>1. p # Kernel
      BY DEF IndInv, OnlyCurrentRuns, Dead
    <2>2. Kernel \in Linked /\ p \in Linked
      <3>1. 1 \in DOMAIN list /\ list[1] = Kernel
        BY DEF LifeInv, IndInv, TypeOK, ListMatchesTable
      <3>2. Kernel \in Linked
        BY <3>1 DEF Linked
      <3>3. p \in Linked
        BY Zenon DEF LifeInv, IndInv, ListMatchesTable
      <3> QED BY <3>2, <3>3
    <2> QED BY <1>2, <2>1, <2>2 DEF LifeInv, PidsBounded, IndInv, PidsUnique
  <1>7. ASSUME NEW j \in 1 .. MaxPid, j # i
        PROVE  LifeOf(j)' = LifeOf(j) /\ CodeOf(j)' = CodeOf(j)
    <2>1. j \in Nat /\ next_pid' >= next_pid /\ (j < next_pid \/ j >= next_pid')
      BY <1>1
    <2> QED BY <1>2, <1>7, <2>1, Unmoved, Zenon DEF LifeInv
  <1>8. /\ lifeOf' = [lifeOf EXCEPT ![i] = "dead"]
        /\ codeOf' = [codeOf EXCEPT ![i] = codeOf'[i]]
        /\ lifeOf[i] = "live" /\ codeOf'[i] \in Nat
    BY <1>1, <1>3, <1>4, <1>5, <1>7, Zenon DEF lifeOf, codeOf
  <1> QED BY <1>5, <1>6, <1>8, Zenon DEF Life!LifeNext, Life!Die, Life!Pids,
             Life!KernelPid

LEMMA LifeCollected ==
  ASSUME LifeInv, IndInv', next_pid' = next_pid,
         NEW p \in Slots, \A s \in Slots \ {p} : Keeps(s),
         Dead(p), ~table'[p].used
  PROVE  Life!LifeNext
  <1>1. next_pid \in Nat /\ MaxPid \in Nat
    BY ProcessAssumption DEF LifeInv, IndInv, TypeOK
  <1>2. PICK i : i = table[p].pid
    OBVIOUS
  <1>3. i \in 1 .. next_pid - 1 /\ LifeOf(i) = "dead"
    BY <1>2, LifeHeld DEF LifeInv, Dead
  <1>4. LifeOf(i)' = "gone" /\ CodeOf(i)' = 0
    <2>1. ASSUME NEW s \in Slots, table'[s].used PROVE table'[s].pid # i
      <3>1. s # p /\ table[s].used /\ table'[s].pid = table[s].pid
        BY <2>1 DEF Keeps
      <3>2. s \in Linked /\ p \in Linked
        BY <3>1, Zenon DEF LifeInv, IndInv, ListMatchesTable, Dead
      <3> QED BY <1>2, <3>1, <3>2 DEF LifeInv, IndInv, PidsUnique
    <2>2. i \in Nat /\ i < next_pid'
      BY <1>1, <1>3
    <2> QED BY <2>1, <2>2, LifeNextFacts
  <1>5. i \in 1 .. MaxPid
    BY <1>1, <1>3 DEF LifeInv, PidsBounded
  <1>6. ASSUME NEW j \in 1 .. MaxPid, j # i
        PROVE  LifeOf(j)' = LifeOf(j) /\ CodeOf(j)' = CodeOf(j)
    <2>1. j \in Nat /\ next_pid' >= next_pid /\ (j < next_pid \/ j >= next_pid')
      BY <1>1
    <2> QED BY <1>2, <1>6, <2>1, Unmoved, Zenon DEF LifeInv
  <1>7. /\ lifeOf' = [lifeOf EXCEPT ![i] = "gone"]
        /\ codeOf' = [codeOf EXCEPT ![i] = 0]
        /\ lifeOf[i] = "dead"
    BY <1>1, <1>3, <1>4, <1>5, <1>6, Zenon DEF lifeOf, codeOf
  <1> QED BY <1>5, <1>7, Zenon DEF Life!LifeNext, Life!Collect, Life!Pids

(* The pid that a creation takes is the next one in order.                 *)
LEMMA NextInOrder ==
  ASSUME LifeInv, next_pid <= MaxPid
  PROVE  next_pid \in 1 .. MaxPid /\ Life!NextUnborn(next_pid)
  <1>1. next_pid \in Nat /\ MaxPid \in Nat /\ next_pid \in 1 .. MaxPid
    BY ProcessAssumption DEF LifeInv, PidsBounded
  <1>2. lifeOf[next_pid] = "unborn"
    BY <1>1, LifeFree DEF LifeInv, lifeOf
  <1>3. ASSUME NEW j \in 1 .. MaxPid, j < next_pid PROVE lifeOf[j] # "unborn"
    BY <1>1, <1>3 DEF lifeOf, LifeOf
  <1> QED BY <1>1, <1>2, <1>3 DEF Life!NextUnborn, Life!Pids

LEMMA LifeCreated ==
  ASSUME LifeInv, IndInv', next_pid <= MaxPid, next_pid' = next_pid + 1,
         NEW p \in Slots, \A s \in Slots \ {p} : Keeps(s),
         ~table[p].used, table'[p].used, table'[p].pid = next_pid, ~Dead(p)'
  PROVE  Life!LifeNext
  <1>1. next_pid \in Nat /\ MaxPid \in Nat
    BY ProcessAssumption DEF LifeInv, IndInv, TypeOK
  <1>2. PICK i : i = next_pid
    OBVIOUS
  <1>3. i \in 1 .. MaxPid /\ Life!NextUnborn(i)
    BY <1>2, NextInOrder
  <1>4. CodeOf(i) = 0 /\ LifeOf(i)' = "live" /\ CodeOf(i)' = 0
    BY <1>1, <1>2, LifeFree, LifeNextFacts DEF LifeInv
  <1>5. ASSUME NEW j \in 1 .. MaxPid, j # i
        PROVE  LifeOf(j)' = LifeOf(j) /\ CodeOf(j)' = CodeOf(j)
    <2>1. j \in Nat /\ next_pid' >= next_pid /\ (j < next_pid \/ j >= next_pid')
      BY <1>1, <1>2, <1>5
    <2> QED BY <1>2, <1>5, <2>1, Unmoved DEF LifeInv
  <1>6. lifeOf' = [lifeOf EXCEPT ![i] = "live"] /\ UNCHANGED codeOf
    BY <1>3, <1>4, <1>5, Zenon DEF lifeOf, codeOf
  <1> QED BY <1>3, <1>6, Zenon DEF Life!LifeNext, Life!Create, Life!Pids

LEMMA LifeAborted ==
  ASSUME LifeInv, IndInv', next_pid <= MaxPid, next_pid' = next_pid + 1,
         \A s \in Slots : Keeps(s)
  PROVE  Life!LifeNext
  <1>1. next_pid \in Nat /\ MaxPid \in Nat /\ NULL \notin Slots
    BY SlotFacts, ProcessAssumption DEF LifeInv, IndInv, TypeOK
  <1>2. PICK i : i = next_pid
    OBVIOUS
  <1>3. i \in 1 .. MaxPid /\ Life!NextUnborn(i)
    BY <1>2, NextInOrder
  <1>4. CodeOf(i) = 0 /\ LifeOf(i)' = "gone" /\ CodeOf(i)' = 0
    <2>1. ASSUME NEW s \in Slots, table'[s].used PROVE table'[s].pid # i
      <3>1. table[s].used /\ table'[s].pid = table[s].pid
        BY <2>1 DEF Keeps
      <3>2. table[s].pid \in 1 .. next_pid - 1
        BY <3>1, LifeHeld DEF LifeInv
      <3> QED BY <1>1, <1>2, <3>1, <3>2
    <2>2. i \in Nat /\ i < next_pid' /\ i >= next_pid
      BY <1>1, <1>2
    <2> QED BY <2>1, <2>2, LifeFree, LifeNextFacts DEF LifeInv
  <1>5. ASSUME NEW j \in 1 .. MaxPid, j # i
        PROVE  LifeOf(j)' = LifeOf(j) /\ CodeOf(j)' = CodeOf(j)
    <2>1. j \in Nat /\ next_pid' >= next_pid /\ (j < next_pid \/ j >= next_pid')
      BY <1>1, <1>2, <1>5
    <2> QED BY <1>1, <2>1, Unmoved DEF LifeInv
  <1>6. lifeOf' = [lifeOf EXCEPT ![i] = "gone"] /\ UNCHANGED codeOf
    BY <1>3, <1>4, <1>5, Zenon DEF lifeOf, codeOf
  <1> QED BY <1>3, <1>6, Zenon DEF Life!LifeNext, Life!Abort, Life!Pids

(* Most steps end at most one process, and start and collect none.         *)
EndsOne(p) ==
  /\ next_pid' = next_pid
  /\ \A s \in Slots : /\ table'[s].used <=> table[s].used
                      /\ Dead(s)' => s = p \/ Dead(s)

LEMMA EndsOneStep ==
  ASSUME LifeInv, IndInv', ZombieStep, NEW p \in Slots, EndsOne(p)
  PROVE  [Life!LifeNext]_(<<lifeOf, codeOf>>)
  <1>1. ASSUME NEW s \in Slots, Dead(s)' => Dead(s) PROVE Keeps(s)
    <2>1. table'[s].used <=> table[s].used
      BY DEF EndsOne
    <2>2. Dead(s) => table[s].used
      BY DEF Dead
    <2>3. table[s].used =>
            /\ table'[s].pid = table[s].pid
            /\ Dead(s) => Dead(s)' /\ table'[s].exit_code = table[s].exit_code
      BY <2>1, BlankFacts DEF ZombieStep
    <2> QED BY <1>1, <2>1, <2>2, <2>3 DEF Keeps
  <1>2. \A s \in Slots \ {p} : Keeps(s)
    BY <1>1 DEF EndsOne
  <1>3. next_pid' = next_pid
    BY DEF EndsOne
  <1>4. CASE Dead(p)' => Dead(p)
    BY <1>1, <1>2, <1>3, <1>4, LifeStutter
  <1>5. CASE Dead(p)' /\ ~Dead(p)
    <2>1. table'[p].used
      BY <1>5 DEF Dead
    <2>2. table[p].used
      BY <2>1 DEF EndsOne
    <2>3. table'[p].pid = table[p].pid
      BY <1>5, <2>2 DEF ZombieStep
    <2> QED BY <1>2, <1>3, <1>5, <2>1, <2>2, <2>3, LifeDies
  <1> QED BY <1>4, <1>5

(* process_exit and the delivery of signals end nobody but their process.  *)
LEMMA ExitEndsOne ==
  ASSUME IndInv, NEW p \in Slots, NEW r, ExitEffect(table, r, p),
         next_pid' = next_pid,
         \A s \in Slots : table'[s].used = r[s].used,
         \A s \in Slots \ {p} : table'[s] = r[s],
         \/ current' = current
         \/ current = p /\ current' = Kernel
         \/ current = Kernel
  PROVE  EndsOne(p)
  <1>1. ASSUME NEW s \in Slots, s # p, Dead(s)' PROVE Dead(s)
    <2>1. table'[s].used /\ table'[s].status = "ZOMBIE" /\ s # current'
      BY <1>1 DEF Dead
    <2>2. r[s].used /\ r[s].status = "ZOMBIE"
      BY <1>1, <2>1
    <2>3. table[s].used /\ table[s].status = "ZOMBIE"
      BY <1>1, <2>2 DEF ExitEffect, SameKin
    <2>4. s # current
      BY <1>1, <2>1, <2>3, Zenon DEF IndInv, OnlyCurrentRuns
    <2> QED BY <2>3, <2>4 DEF Dead
  <1>2. ASSUME NEW s \in Slots PROVE table'[s].used <=> table[s].used
    <2>1. r[s].used = table[s].used
      BY Zenon DEF ExitEffect, SameKin
    <2> QED BY <2>1
  <1> QED BY <1>1, <1>2, Zenon DEF EndsOne

LEMMA LifeQueues ==
  ASSUME IndInv, NEW p \in Linked,
         \/ \E sig \in Signals : SendSignal(p, sig)
         \/ \E v \in Values : SocketSend(p, v)
         \/ SocketRecv
  PROVE  EndsOne(current)
  <1>1. table \in [Slots -> ProcessType] /\ p \in Slots /\ current \in Slots
    BY LinkedFacts DEF IndInv, TypeOK
  <1>2. current' = current /\ next_pid' = next_pid
    BY Zenon DEF SendSignal, SocketSend, SocketRecv
  <1> DEFINE Same == \A s \in Slots : /\ table'[s].used = table[s].used
                                     /\ table'[s].status = table[s].status
  <1>3. Same
    <2>1. ASSUME NEW sig \in Signals, SendSignal(p, sig) PROVE Same
      BY <1>1, <2>1 DEF SendSignal, ProcessType
    <2>2. ASSUME NEW v \in Values, SocketSend(p, v) PROVE Same
      <3>1. PICK sigs, sock : table' = [table EXCEPT ![p].socket = sock,
                                                     ![p].signals = sigs]
        BY <2>2, Zenon DEF SocketSend
      <3> QED BY <1>1, <3>1 DEF ProcessType
    <2>3. CASE SocketRecv
      BY <1>1, <2>3 DEF SocketRecv, ProcessType
    <2> QED BY <2>1, <2>2, <2>3, Zenon
  <1> QED BY <1>2, <1>3, Zenon DEF EndsOne, Dead

LEMMA LifeWaitBlocks ==
  ASSUME IndInv, NEW c \in Linked, WaitBlocks(c)
  PROVE  EndsOne(current)
  <1>1. table \in [Slots -> ProcessType] /\ current \in Slots
    BY LinkedFacts DEF IndInv, TypeOK
  <1>2. current' = current /\ next_pid' = next_pid
    BY DEF WaitBlocks
  <1>3. \A s \in Slots : /\ table'[s].used = table[s].used
                         /\ s # current => table'[s] = table[s]
    BY <1>1, SMTT(30) DEF WaitBlocks, ProcessType
  <1> QED BY <1>2, <1>3 DEF EndsOne, Dead

LEMMA LifeExits ==
  ASSUME IndInv, NEW code \in ExitCodes, SysExit(code) \/ EntryReturns(code)
  PROVE  EndsOne(current)
  <1>1. /\ table \in [Slots -> ProcessType] /\ current \in Slots
        /\ code \in Nat /\ next_pid' = next_pid
        /\ current' = current \/ current' = Kernel
    BY LinkedFacts, ProcessAssumption DEF IndInv, TypeOK, SysExit, EntryReturns
  <1>2. PICK r : r = ProcessExit(table, current, code)
    OBVIOUS
  <1>3. ExitEffect(table, r, current)
    BY <1>1, <1>2, ProcessExitEffect
  <1>4. r \in [Slots -> ProcessType]
    BY <1>3 DEF ExitEffect
  <1>5. /\ \A s \in Slots : table'[s].used = r[s].used
        /\ \A s \in Slots \ {current} : table'[s] = r[s]
    <2>1. CASE table' = r
      BY <2>1
    <2>2. CASE table' = YieldTable(r)
      BY <1>1, <1>4, <2>2 DEF YieldTable, ProcessType
    <2> QED BY <1>2, <2>1, <2>2 DEF SysExit, EntryReturns
  <1> QED BY <1>1, <1>3, <1>5, ExitEndsOne

LEMMA LifeYield ==
  ASSUME IndInv, Yield
  PROVE  EndsOne(current)
  <1>1. table \in [Slots -> ProcessType] /\ current \in Slots
    BY LinkedFacts DEF IndInv, TypeOK
  <1>2. current' = Kernel /\ next_pid' = next_pid
    BY DEF Yield
  <1>3. \A s \in Slots : /\ table'[s].used = table[s].used
                         /\ s # current => table'[s] = table[s]
    BY <1>1 DEF Yield, YieldTable, ProcessType
  <1> QED BY <1>2, <1>3 DEF EndsOne, Dead

LEMMA LifeDelivery ==
  ASSUME IndInv, DeliverPending
  PROVE  \E p \in Slots : EndsOne(p)
  <1>1. PICK p : p = list[position]
    OBVIOUS
  <1>2. table \in [Slots -> ProcessType] /\ p \in Slots
    BY <1>1 DEF IndInv, TypeOK, DeliveryPass, DeliverPending
  <1>3. ExitEffect(table, table', p)
    BY <1>1, <1>2, DeliverEffect, Zenon DEF DeliverPending
  <1>4. current' = current /\ next_pid' = next_pid
    BY DEF DeliverPending
  <1> QED BY <1>2, <1>3, <1>4, ExitEndsOne

LEMMA LifeSchedule ==
  ASSUME IndInv, ScheduleNext
  PROVE  \E p \in Slots : EndsOne(p)
  <1>1. PICK p : p = PickNextProcess
    OBVIOUS
  <1>2. PICK r : r = DeliverSignals(table, p)
    OBVIOUS
  <1>3. /\ p # NULL
        /\ table' = r \/ table' = [r EXCEPT ![p].status = "RUN"]
        /\ next_pid' = next_pid
    BY <1>1, <1>2 DEF ScheduleNext
  <1>4. p \in Slots /\ table \in [Slots -> ProcessType]
    BY <1>1, <1>3, PickFacts, SMTT(30) DEF IndInv, TypeOK
  <1>5. ExitEffect(table, r, p)
    BY <1>2, <1>4, DeliverEffect
  <1>6. r \in [Slots -> ProcessType]
    BY <1>5 DEF ExitEffect
  <1>7. /\ \A s \in Slots : table'[s].used = r[s].used
        /\ \A s \in Slots \ {p} : table'[s] = r[s]
    <2>1. CASE table' = r
      BY <2>1
    <2>2. CASE table' = [r EXCEPT ![p].status = "RUN"]
      BY <1>4, <1>6, <2>2 DEF ProcessType
    <2> QED BY <1>3, <2>1, <2>2
  <1>8. current = Kernel
    BY DEF ScheduleNext, IndInv, OnlyCurrentRuns
  <1> QED BY <1>3, <1>4, <1>5, <1>7, <1>8, ExitEndsOne

LEMMA LifeCreate ==
  ASSUME LifeInv, IndInv', NEW par, NEW own, CreateSucceeds(par, own)
  PROVE  Life!LifeNext
  <1>1. table \in [Slots -> ProcessType] /\ next_pid \in Nat
    BY DEF LifeInv, IndInv, TypeOK
  <1>2. PICK s : s = Least(FreeSlots)
    OBVIOUS
  <1>3. s \in Slots /\ ~table[s].used
    <2>1. FreeSlots \in SUBSET Nat /\ FreeSlots # {}
      BY SlotFacts, Zenon DEF FreeSlots, CreateSucceeds
    <2> QED BY <1>2, <2>1, LeastFacts DEF FreeSlots
  <1>4. current' = current /\ next_pid <= MaxPid /\ next_pid' = next_pid + 1
    BY DEF CreateSucceeds
  <1>5. PICK n, cs :
          /\ n = NewProcess(next_pid, own, par)
          /\ table' = [t \in Slots |-> IF t = s THEN n
                                       ELSE IF t = par THEN WithChildren(table[t], cs)
                                       ELSE table[t]]
    <2>1. table' = [t \in Slots |->
                      IF t = s THEN NewProcess(next_pid, own, par)
                      ELSE IF t = par
                        THEN WithChildren(table[t], table[par].children \cup {s})
                      ELSE table[t]]
      BY <1>2, Zenon DEF CreateSucceeds, CreatedTable, WithChildren
    <2> QED BY <2>1, Zenon
  <1>6. \A t \in Slots \ {s} : /\ table'[t].used = table[t].used
                               /\ table'[t].pid = table[t].pid
                               /\ table'[t].status = table[t].status
                               /\ table'[t].exit_code = table[t].exit_code
    BY <1>1, <1>5 DEF WithChildren, ProcessType
  <1>7. \A t \in Slots \ {s} : Keeps(t)
    BY <1>4, <1>6 DEF Keeps, Dead
  <1>8. n.used /\ n.pid = next_pid /\ n.status = "READY"
    BY <1>5 DEF NewProcess, Blank
  <1>9. table'[s].used /\ table'[s].pid = next_pid /\ ~Dead(s)'
    BY <1>3, <1>5, <1>8 DEF Dead
  <1> QED BY <1>3, <1>4, <1>7, <1>9, LifeCreated

LEMMA LifeCollect ==
  ASSUME LifeInv, IndInv', NEW c \in Linked, WaitCollects(c)
  PROVE  Life!LifeNext
  <1>1. /\ table \in [Slots -> ProcessType] /\ c \in Slots /\ table[c].used
        /\ current \in Slots /\ current' = current /\ next_pid' = next_pid
        /\ table[c].status = "ZOMBIE"
    BY LinkedFacts DEF LifeInv, IndInv, TypeOK, WaitCollects
  <1>2. Dead(c)
    BY <1>1 DEF WaitCollects, LifeInv, IndInv, OnlyCurrentRuns, NotOwnParent,
                MayWaitFor, Dead
  <1>3. PICK st : table' = ReleasedTable([table EXCEPT ![current].status = st], c)
    BY <1>1, Zenon DEF WaitCollects
  <1>4. ~table'[c].used
    BY <1>1, <1>3, BlankFacts DEF ReleasedTable
  <1>5. \A s \in Slots \ {c} :
          /\ table'[s].used = table[s].used
          /\ table'[s].pid = table[s].pid
          /\ s # current => /\ table'[s].status = table[s].status
                            /\ table'[s].exit_code = table[s].exit_code
    BY <1>1, <1>3 DEF ReleasedTable, ProcessType
  <1>6. \A s \in Slots \ {c} : Keeps(s)
    BY <1>1, <1>5 DEF Keeps, Dead
  <1> QED BY <1>1, <1>2, <1>4, <1>6, LifeCollected, SMTT(30)

LEMMA LifeStep ==
  ASSUME LifeInv, IndInv', [Next]_vars
  PROVE  [Life!LifeNext]_(<<lifeOf, codeOf>>)
  <1>1. current \in Slots /\ current \in Linked /\ [ZombieStep]_vars
    BY ZombieNext DEF LifeInv, IndInv, TypeOK, CursorLinked
  <1>2. CASE UNCHANGED vars
    <2>1. \A s \in Slots : Keeps(s)
      BY <1>2 DEF vars, Keeps, Dead
    <2> QED BY <1>2, <2>1, LifeStutter DEF vars
  <1>3. ASSUME NEW p \in Slots, EndsOne(p)
        PROVE  [Life!LifeNext]_(<<lifeOf, codeOf>>)
    BY <1>1, <1>2, <1>3, EndsOneStep
  <1>4. CASE Tick \/ RunPending \/ NothingToRun
    <2>1. \A s \in Slots : Keeps(s)
      BY <1>4 DEF Tick, RunPending, NothingToRun, Keeps, Dead
    <2> QED BY <1>4, <2>1, LifeStutter DEF Tick, RunPending, NothingToRun
  <1>5. CASE CreateFails
    <2>1. \A s \in Slots : Keeps(s)
      BY <1>5 DEF CreateFails, Keeps, Dead
    <2> QED BY <1>5, <2>1, LifeAborted DEF CreateFails
  <1>6. CASE Call
    BY <1>1, <1>3, <1>5, <1>6, LifeCreate, LifeWaitBlocks, LifeCollect,
       LifeQueues, LifeExits, SMTT(30) DEF Call, CreateOwned, ExecFn, Fork,
       LifeInv
  <1>7. CASE LeaveCPU
    BY <1>1, <1>3, <1>7, LifeYield, LifeExits DEF LeaveCPU, LifeInv
  <1>8. CASE Scheduler
    BY <1>3, <1>4, <1>8, LifeDelivery, LifeSchedule DEF Scheduler, LifeInv
  <1> QED BY <1>2, <1>4, <1>6, <1>7, <1>8 DEF Next

LEMMA BoundKept ==
  ASSUME LifeInv, [Next]_vars
  PROVE  PidsBounded'
  <1>1. table[Kernel].used /\ ~Dead(Kernel) /\ Kernel \in Slots
    <2>1. 1 \in DOMAIN list /\ list[1] = Kernel
      BY DEF LifeInv, IndInv, TypeOK, ListMatchesTable
    <2>2. Kernel \in Linked
      BY <2>1 DEF Linked
    <2> QED BY <2>2, SlotFacts, LinkedFacts, SMTT(30) DEF LifeInv, IndInv,
               ListMatchesTable, OnlyCurrentRuns, Dead
  <1>2. table'[Kernel].pid = 1
    <2>1. [ZombieStep]_vars
      BY ZombieNext DEF LifeInv
    <2> QED BY <1>1, <2>1, Zenon DEF ZombieStep, LifeInv, PidsBounded, vars
  <1>3. next_pid' = next_pid \/ (next_pid <= MaxPid /\ next_pid' = next_pid + 1)
    BY Zenon DEF Next, Call, LeaveCPU, Scheduler, CreateOwned, ExecFn, Fork,
       CreateSucceeds, CreateFails, WaitBlocks, WaitCollects, SendSignal,
       SocketSend, SocketRecv, SysExit, Yield, EntryReturns, Tick,
       RunPending, DeliverPending, ScheduleNext, NothingToRun, vars
  <1> QED BY <1>2, <1>3, ProcessAssumption DEF LifeInv, PidsBounded

LEMMA LifeStart == Init => PidsBounded /\ Life!LifeInit
  <1> SUFFICES ASSUME Init PROVE PidsBounded /\ Life!LifeInit
    OBVIOUS
  <1>1. Kernel \in Slots /\ IndInv
    BY SlotFacts, InitStep
  <1>2. /\ table[Kernel].used /\ table[Kernel].pid = 1 /\ current = Kernel
        /\ \A s \in Slots : table[s].used => s = Kernel
        /\ next_pid = 2
    <2>1. KernelProcess.used /\ KernelProcess.pid = 1
      BY DEF KernelProcess, NewProcess, Blank
    <2>2. table[Kernel] = KernelProcess /\ \A s \in Slots \ {Kernel} : table[s] = Blank
      BY <1>1 DEF Init
    <2> QED BY <2>1, <2>2, BlankFacts DEF Init
  <1>3. LifeOf(1) = "live" /\ CodeOf(1) = 0
    BY <1>1, <1>2, LifeHeld DEF Dead
  <1>4. ASSUME NEW i \in 1 .. MaxPid, i # 1
        PROVE  LifeOf(i) = "unborn" /\ CodeOf(i) = 0
    BY <1>1, <1>2, <1>4, ProcessAssumption, LifeFree
  <1> QED BY <1>2, <1>3, <1>4, ProcessAssumption
          DEF PidsBounded, Life!LifeInit, Life!Pids, Life!KernelPid, lifeOf, codeOf

(* Whatever is created, forked, signalled, waited for and ended, in any    *)
(* order, process.c implements the life cycle of pids: a pid is handed out *)
(* once and in order, its process dies at most once and never the kernel's,*)
(* the exit code is the one it died with when process_wait collects it,    *)
(* and nothing is collected alive or twice.                                *)
THEOREM LifecycleImplemented == Spec => ImplementsLifecycle
  <1>1. Init => LifeInv
    BY InitStep, LifeStart DEF LifeInv
  <1>2. LifeInv /\ [Next]_vars => LifeInv'
    BY NextStep, BoundKept DEF LifeInv
  <1>3. LifeInv /\ LifeInv' /\ [Next]_vars => [Life!LifeNext]_(<<lifeOf, codeOf>>)
    BY LifeStep DEF LifeInv
  <1>4. Init => Life!LifeInit
    BY LifeStart
  <1> QED BY <1>1, <1>2, <1>3, <1>4, PTL
          DEF Spec, ImplementsLifecycle, Life!LifeSpec, Life!lifeVars

=============================================================================
