--------------------------- MODULE ProcessProofs ---------------------------
(* Theorems about Process, for every value of its constants: the inductive *)
(* invariant and what follows from it.                                     *)
EXTENDS Process, WellFoundedInduction, TLAPS

----------------------------------------------------------------------------
(* Helpers.                                                                *)

(* A non-empty set of naturals has a least element: a search of the kernel *)
(* that has a hit returns one.                                             *)
LEMMA LeastFacts ==
  ASSUME NEW S \in SUBSET Nat, S # {}
  PROVE  Least(S) \in S /\ \A y \in S : Least(S) <= y
  <1> DEFINE R == {ss \in Nat \X Nat : ss[1] < ss[2]}
  <1>1. IsWellFoundedOn(R, Nat)
    BY NatLessThanWellFounded DEF OpToRel
  <1>2. PICK x \in S : \A y \in S : ~ (<<y, x>> \in R)
    <2> HIDE DEF R
    <2> QED BY <1>1, WFMin, Zenon
  <1>3. ASSUME NEW y \in S PROVE x <= y
    <2>1. <<y, x>> \in Nat \X Nat
      OBVIOUS
    <2>2. y < x => <<y, x>> \in R
      BY <2>1
    <2> QED BY <2>2, <1>2
  <1> QED BY <1>3, Zenon DEF Least

LEMMA SlotFacts ==
  /\ Kernel \in Slots
  /\ Slots \subseteq Nat
  /\ NULL \notin Slots
  BY ProcessAssumption DEF Slots, Kernel, NULL

LEMMA BlankFacts ==
  /\ Blank \in ProcessType
  /\ Blank.used = FALSE
  /\ Blank.status = "READY"
  /\ Blank.parent = NULL
  /\ Blank.children = {}
  /\ Blank.signals = <<>>
  /\ Blank.socket = <<>>
  BY ProcessAssumption DEF Blank, ProcessType, Statuses, Slots, NULL

(* The fields of a slot that tie it to the rest of the table.              *)
SameKin(r, q) ==
  r.used = q.used /\ r.pid = q.pid /\ r.parent = q.parent
    /\ r.children = q.children

(* What an assignment to some fields of a slot leaves alone.               *)
LEMMA SetStatus ==
  ASSUME NEW r \in ProcessType, NEW st \in Statuses, NEW q,
         q = [r EXCEPT !.status = st]
  PROVE  /\ q \in ProcessType /\ SameKin(q, r) /\ q.status = st
         /\ q.exit_code = r.exit_code
         /\ q.wait_target_pid = r.wait_target_pid
         /\ q.signals = r.signals /\ q.socket = r.socket
  BY Zenon DEF ProcessType, SameKin

Exited(r, c) == [r EXCEPT !.exit_code = c, !.status = "ZOMBIE"]

LEMMA SetExit ==
  ASSUME NEW r \in ProcessType, NEW code \in Nat, NEW q,
         q = Exited(r, code)
  PROVE  /\ q \in ProcessType /\ SameKin(q, r) /\ q.status = "ZOMBIE"
         /\ q.wait_target_pid = r.wait_target_pid
         /\ q.signals = r.signals /\ q.socket = r.socket
  BY Zenon DEF ProcessType, SameKin, Statuses, Exited

LEMMA SetSignals ==
  ASSUME NEW r \in ProcessType, NEW sigs \in Seq(Nat), NEW q,
         q = [r EXCEPT !.signals = sigs]
  PROVE  /\ q \in ProcessType /\ SameKin(q, r) /\ q.status = r.status
         /\ q.exit_code = r.exit_code
         /\ q.wait_target_pid = r.wait_target_pid
         /\ q.signals = sigs /\ q.socket = r.socket
  BY Zenon DEF ProcessType, SameKin

LEMMA SetSocket ==
  ASSUME NEW r \in ProcessType, NEW sock \in Seq(Values), NEW q,
         q = [r EXCEPT !.socket = sock]
  PROVE  /\ q \in ProcessType /\ SameKin(q, r) /\ q.status = r.status
         /\ q.exit_code = r.exit_code
         /\ q.wait_target_pid = r.wait_target_pid
         /\ q.signals = r.signals /\ q.socket = sock
  BY SMTT(30) DEF ProcessType, SameKin

Blocked(r, i, st) == [r EXCEPT !.wait_target_pid = i, !.status = st]

LEMMA SetWait ==
  ASSUME NEW r \in ProcessType, NEW st \in Statuses, NEW i \in Nat, NEW q,
         q = Blocked(r, i, st)
  PROVE  /\ q \in ProcessType /\ SameKin(q, r) /\ q.status = st
         /\ q.exit_code = r.exit_code
         /\ q.wait_target_pid = i
         /\ q.signals = r.signals /\ q.socket = r.socket
  BY Zenon DEF ProcessType, SameKin, Blocked

WithChildren(r, cs) == [r EXCEPT !.children = cs]

LEMMA SetChildren ==
  ASSUME NEW r \in ProcessType, NEW cs, cs \subseteq Slots, NEW q,
         q = WithChildren(r, cs)
  PROVE  /\ q \in ProcessType /\ q.used = r.used /\ q.pid = r.pid
         /\ q.parent = r.parent /\ q.children = cs /\ q.status = r.status
         /\ q.exit_code = r.exit_code
         /\ q.wait_target_pid = r.wait_target_pid
         /\ q.signals = r.signals /\ q.socket = r.socket
         /\ cs = r.children => q = r
  BY Zenon DEF ProcessType, WithChildren

LEMMA NewRecord ==
  ASSUME NEW i \in Nat, NEW own \in Nat, NEW par \in Slots \cup {NULL}, NEW q,
         q = NewProcess(i, own, par)
  PROVE  /\ q \in ProcessType /\ q.used /\ q.pid = i /\ q.status = "READY"
         /\ q.parent = par /\ q.children = {}
         /\ q.signals = <<>> /\ q.socket = <<>>
  <1>1. q = [used |-> TRUE, pid |-> i, status |-> "READY", owner |-> own,
             parent |-> par, children |-> {},
             wait_target_pid |-> 0, exit_code |-> 0,
             signals |-> <<>>, socket |-> <<>>]
    BY Zenon DEF Blank, NewProcess
  <1>2. q \in ProcessType
    BY <1>1 DEF ProcessType, Statuses
  <1> QED BY <1>1, <1>2

LEMMA FieldTypes ==
  ASSUME NEW r \in ProcessType
  PROVE  /\ r.used \in BOOLEAN /\ r.pid \in Nat /\ r.status \in Statuses
         /\ r.owner \in Nat /\ r.parent \in Slots \cup {NULL}
         /\ r.children \in SUBSET Slots /\ r.wait_target_pid \in Nat
         /\ r.exit_code \in Nat
         /\ r.signals \in Seq(Nat) /\ r.socket \in Seq(Values)
  BY DEF ProcessType

----------------------------------------------------------------------------
(* process_exit and deliver_process_signal.                                *)

(* What ending process p, or not, may do to the table t: r is the result.  *)
ExitEffect(t, r, p) ==
  /\ r \in [Slots -> ProcessType]
  /\ \A s \in Slots :
       /\ SameKin(r[s], t[s])
       /\ r[s].wait_target_pid = t[s].wait_target_pid
       /\ r[s].socket = t[s].socket
  /\ \A s \in Slots \ {p} :
       /\ r[s].signals = t[s].signals
       /\ r[s].exit_code = t[s].exit_code
       /\ r[s] # t[s] => t[s].status = "WAITING" /\ r[s].status = "READY"
  /\ t[p].status = "ZOMBIE" \/ r[p].status # "ZOMBIE" =>
       /\ r[p].status = t[p].status
       /\ r[p].exit_code = t[p].exit_code
  /\ p = Kernel => r[p].status = t[p].status
  /\ r[p].status = "ZOMBIE" /\ t[p].status # "ZOMBIE" =>
       \A s \in Slots \ {p} :
         s = t[p].parent /\ r[s].status = "WAITING"
           => r[s].wait_target_pid # t[p].pid

LEMMA ProcessExitEffect ==
  ASSUME NEW t \in [Slots -> ProcessType], NEW p \in Slots, NEW code \in Nat
  PROVE  /\ ExitEffect(t, ProcessExit(t, p, code), p)
         /\ ProcessExit(t, p, code)[p].signals = t[p].signals
         /\ p # Kernel => ProcessExit(t, p, code)[p].status = "ZOMBIE"
  <1> DEFINE r == ProcessExit(t, p, code)
  <1>1. CASE p = Kernel \/ t[p].status = "ZOMBIE"
    <2>1. r = t
      BY <1>1, Zenon DEF ProcessExit
    <2> QED BY <2>1, <1>1 DEF ExitEffect, SameKin
  <1>2. CASE p # Kernel /\ t[p].status # "ZOMBIE"
    <2> DEFINE q(s) == IF s = p
                         THEN [t[s] EXCEPT !.exit_code = code, !.status = "ZOMBIE"]
                       ELSE IF /\ s = t[p].parent
                               /\ t[s].status = "WAITING"
                               /\ t[s].wait_target_pid \in {0, t[p].pid}
                         THEN [t[s] EXCEPT !.status = "READY"]
                       ELSE t[s]
    <2>1. r = [s \in Slots |-> q(s)]
      BY <1>2, Zenon DEF ProcessExit
    <2>2. /\ q(p) \in ProcessType /\ SameKin(q(p), t[p]) /\ q(p).status = "ZOMBIE"
          /\ q(p).wait_target_pid = t[p].wait_target_pid
          /\ q(p).signals = t[p].signals /\ q(p).socket = t[p].socket
      <3>1. q(p) = Exited(t[p], code)
        BY DEF Exited
      <3> HIDE DEF q
      <3> QED BY <3>1, SetExit
    <2>3. ASSUME NEW s \in Slots \ {p}
          PROVE  /\ q(s) \in ProcessType /\ SameKin(q(s), t[s])
                 /\ q(s).exit_code = t[s].exit_code
                 /\ q(s).wait_target_pid = t[s].wait_target_pid
                 /\ q(s).signals = t[s].signals /\ q(s).socket = t[s].socket
                 /\ q(s) # t[s] => t[s].status = "WAITING" /\ q(s).status = "READY"
                 /\ s = t[p].parent /\ q(s).status = "WAITING"
                      => q(s).wait_target_pid # t[p].pid
      <3>1. CASE /\ s = t[p].parent
                 /\ t[s].status = "WAITING"
                 /\ t[s].wait_target_pid \in {0, t[p].pid}
        <4>1. q(s) = [t[s] EXCEPT !.status = "READY"]
          BY <3>1
        <4>2. "READY" \in Statuses
          BY DEF Statuses
        <4> HIDE DEF q
        <4> QED BY <3>1, <4>1, <4>2, SetStatus
      <3>2. CASE ~ (/\ s = t[p].parent
                    /\ t[s].status = "WAITING"
                    /\ t[s].wait_target_pid \in {0, t[p].pid})
        <4>1. q(s) = t[s]
          BY <3>2
        <4> HIDE DEF q
        <4> QED BY <3>2, <4>1 DEF SameKin
      <3> QED BY <3>1, <3>2
    <2> HIDE DEF q
    <2>4. /\ r \in [Slots -> ProcessType]
          /\ \A s \in Slots : r[s] = q(s)
      BY <2>1, <2>2, <2>3
    <2> QED BY <2>2, <2>3, <2>4, <1>2 DEF ExitEffect
  <1> QED BY <1>1, <1>2

LEMMA DeliveredCountFacts ==
  ASSUME NEW t \in [Slots -> ProcessType], NEW p \in Slots
  PROVE  LET q == t[p].signals
             n == DeliveredCount(t, p)
         IN  /\ n \in 0 .. Len(q)
             /\ n = Len(q) \/ t[p].status = "ZOMBIE" \/ (p # Kernel /\ n > 0 /\ q[n] \in Fatal)
  <1> DEFINE q == t[p].signals
             fatal == {i \in 1 .. Len(q) : q[i] \in Fatal}
  <1>1. q \in Seq(Nat) /\ Len(q) \in Nat
    BY FieldTypes
  <1>2. CASE q = <<>>
    BY <1>1, <1>2 DEF DeliveredCount
  <1>3. CASE q # <<>> /\ t[p].status = "ZOMBIE"
    BY <1>1, <1>3 DEF DeliveredCount
  <1>4. CASE q # <<>> /\ t[p].status # "ZOMBIE" /\ p # Kernel /\ fatal # {}
    <2>1. DeliveredCount(t, p) = Least(fatal)
      BY <1>4 DEF DeliveredCount
    <2>2. Least(fatal) \in fatal
      <3>1. fatal \in SUBSET Nat
        BY <1>1
      <3> QED BY <3>1, <1>4, LeastFacts, Zenon
    <2> QED BY <1>1, <1>4, <2>1, <2>2
  <1>5. CASE q # <<>> /\ t[p].status # "ZOMBIE" /\ ~(p # Kernel /\ fatal # {})
    <2>1. DeliveredCount(t, p) = Len(q)
      BY <1>5 DEF DeliveredCount
    <2> QED BY <1>1, <2>1
  <1> QED BY <1>2, <1>3, <1>4, <1>5

(* Signals are delivered until the queue is empty or the process a zombie. *)
LEMMA DeliverEffect ==
  ASSUME NEW t \in [Slots -> ProcessType], NEW p \in Slots
  PROVE  LET r == DeliverSignals(t, p)
         IN  /\ ExitEffect(t, r, p)
             /\ Len(r[p].signals) <= Len(t[p].signals)
             /\ r[p].status = "ZOMBIE" \/ r[p].signals = <<>>
  <1> DEFINE q      == t[p].signals
             n      == DeliveredCount(t, p)
             rest   == SubSeq(q, n + 1, Len(q))
             popped == [t EXCEPT ![p].signals = rest]
             r      == DeliverSignals(t, p)
  <1>1. q \in Seq(Nat) /\ Len(q) \in Nat
    BY FieldTypes
  <1>2. /\ n \in 0 .. Len(q)
        /\ n = Len(q) \/ t[p].status = "ZOMBIE" \/ (p # Kernel /\ n > 0 /\ q[n] \in Fatal)
    BY DeliveredCountFacts
  <1>3. rest \in Seq(Nat) /\ Len(rest) <= Len(q) /\ (n = Len(q) => rest = <<>>)
    BY <1>1, <1>2
  <1>4. /\ popped \in [Slots -> ProcessType]
        /\ \A s \in Slots \ {p} : popped[s] = t[s]
        /\ SameKin(popped[p], t[p]) /\ popped[p].status = t[p].status
        /\ popped[p].exit_code = t[p].exit_code
        /\ popped[p].wait_target_pid = t[p].wait_target_pid
        /\ popped[p].signals = rest /\ popped[p].socket = t[p].socket
    <2> HIDE DEF rest
    <2>1. popped = [t EXCEPT ![p] = [t[p] EXCEPT !.signals = rest]]
      OBVIOUS
    <2>2. popped[p] = [t[p] EXCEPT !.signals = rest]
      BY <2>1
    <2>3. /\ popped[p] \in ProcessType
          /\ SameKin(popped[p], t[p]) /\ popped[p].status = t[p].status
          /\ popped[p].exit_code = t[p].exit_code
          /\ popped[p].wait_target_pid = t[p].wait_target_pid
          /\ popped[p].signals = rest /\ popped[p].socket = t[p].socket
      <3> HIDE DEF popped
      <3> QED BY <2>2, <1>3, SetSignals
    <2>4. popped \in [Slots -> ProcessType] /\ \A s \in Slots \ {p} : popped[s] = t[s]
      <3>1. [t[p] EXCEPT !.signals = rest] \in ProcessType
        BY <2>2, <2>3
      <3> QED BY <2>1, <3>1
    <2> QED BY <2>3, <2>4
  <1>5. CASE n > 0 /\ q[n] \in Fatal
    <2>1. r = ProcessExit(popped, p, 128 + q[n])
      BY <1>5 DEF DeliverSignals
    <2>2. 128 + q[n] \in Nat
      BY <1>5 DEF Fatal, PROCESS_SIGNAL_KILL, PROCESS_SIGNAL_TERM
    <2> HIDE DEF popped, rest, n
    <2>3. /\ ExitEffect(popped, r, p)
          /\ r[p].signals = rest
          /\ p # Kernel => r[p].status = "ZOMBIE"
      BY <1>4, <2>1, <2>2, ProcessExitEffect
    <2>4. ExitEffect(t, r, p)
      BY <1>4, <2>3 DEF ExitEffect, SameKin
    <2>5. t[p].status = "ZOMBIE" => r[p].status = "ZOMBIE"
      BY <2>4 DEF ExitEffect
    <2> QED BY <1>1, <1>2, <1>3, <2>3, <2>4, <2>5
  <1>6. CASE ~(n > 0 /\ q[n] \in Fatal)
    <2>1. r = popped
      BY <1>6 DEF DeliverSignals
    <2> HIDE DEF popped, rest, n
    <2>2. ExitEffect(t, r, p)
      BY <1>4, <2>1 DEF ExitEffect, SameKin
    <2> QED BY <1>2, <1>3, <1>4, <1>6, <2>1, <2>2
  <1> QED BY <1>5, <1>6

----------------------------------------------------------------------------
(* Steps that keep the list and the family relations.                      *)

KinInv ==
  /\ ListMatchesTable
  /\ PidsUnique
  /\ ChildrenSound
  /\ NotOwnParent
  /\ UnusedBlank

LEMMA KinStep ==
  ASSUME IndInv, list' = list, next_pid' = next_pid,
         table' \in [Slots -> ProcessType],
         \A s \in Slots : SameKin(table'[s], table[s]),
         \A s \in Slots : ~table[s].used => table'[s] = table[s]
  PROVE  KinInv' /\ Linked' = Linked
  <1>1. Linked' = Linked /\ Linked \subseteq Slots
    BY DEF IndInv, TypeOK, Linked
  <1>2. ListMatchesTable'
    BY <1>1 DEF IndInv, ListMatchesTable, SameKin
  <1>3. PidsUnique'
    BY <1>1 DEF IndInv, PidsUnique, SameKin
  <1>4. ChildrenSound'
    <2> SUFFICES ASSUME NEW p \in Slots, NEW c \in table'[p].children
                 PROVE  table'[c].used /\ table'[c].parent = p
      BY DEF ChildrenSound
    <2>1. c \in table[p].children
      BY DEF SameKin
    <2>2. c \in Slots
      BY <2>1, FieldTypes DEF IndInv, TypeOK
    <2> QED BY <2>1, <2>2 DEF IndInv, ChildrenSound, SameKin
  <1>5. NotOwnParent'
    BY DEF IndInv, NotOwnParent, SameKin
  <1>6. UnusedBlank'
    BY DEF IndInv, UnusedBlank, SameKin
  <1> QED BY <1>1, <1>2, <1>3, <1>4, <1>5, <1>6 DEF KinInv

(* Nobody starts to wait, and whoever dies wakes the parent that waits for *)
(* it.                                                                     *)
LEMMA WakeStep ==
  ASSUME IndInv,
         table' \in [Slots -> ProcessType],
         \A s \in Slots : SameKin(table'[s], table[s]),
         \A s \in Slots : table'[s].status = "WAITING" =>
                            /\ table[s].status = "WAITING"
                            /\ table'[s].wait_target_pid = table[s].wait_target_pid,
         \A c \in Slots : table'[c].status = "ZOMBIE" /\ table[c].status # "ZOMBIE" =>
           \A s \in Slots : s = table[c].parent /\ table'[s].status = "WAITING"
                               => table'[s].wait_target_pid # table[c].pid
  PROVE  NoLostWakeup'
  <1> SUFFICES ASSUME NEW s \in Slots, table'[s].status = "WAITING"
               PROVE  \E c \in Slots : /\ table'[c].used
                                        /\ table'[c].parent = s
                                        /\ table'[c].pid = table'[s].wait_target_pid
                                        /\ table'[c].status # "ZOMBIE"
    BY DEF NoLostWakeup
  <1>1. PICK c \in Slots : /\ table[c].used
                            /\ table[c].parent = s
                            /\ table[c].pid = table[s].wait_target_pid
                            /\ table[c].status # "ZOMBIE"
    BY DEF IndInv, NoLostWakeup
  <1> QED BY <1>1 DEF SameKin

(* The invariants that only look at the current process and the scheduler, *)
(* in steps of a caller of the process manager.                            *)
LEMMA CallStep ==
  ASSUME IndInv, Calling, UNCHANGED <<cursor, current, pending, pc, position>>,
         Linked \subseteq Linked',
         next_pid' \in Nat, list' \in Seq(Slots),
         table' \in [Slots -> ProcessType],
         \A s \in Slots : Len(table'[s].signals) < PROCESS_SIGNAL_QUEUE_CAPACITY,
         \A s \in Slots : Len(table'[s].socket) < PROCESS_SOCKET_CAPACITY,
         \A s \in Slots : table'[s].status = "RUN" => table[s].status = "RUN",
         table'[Kernel].status = "THREAD"
  PROVE  /\ TypeOK' /\ CursorLinked' /\ OnlyCurrentRuns'
         /\ SignalsDelivered' /\ DeliveryPass'
  <1>1. TypeOK'
    BY DEF IndInv, TypeOK
  <1>2. CursorLinked'
    BY DEF IndInv, CursorLinked
  <1>3. OnlyCurrentRuns'
    BY DEF IndInv, OnlyCurrentRuns
  <1>4. SignalsDelivered' /\ DeliveryPass'
    BY DEF Calling, SignalsDelivered, DeliveryPass
  <1> QED BY <1>1, <1>2, <1>3, <1>4

----------------------------------------------------------------------------
(* One lemma per action: it preserves the inductive invariant.             *)

LEMMA KernelRecord ==
  /\ KernelProcess \in ProcessType /\ KernelProcess.used
  /\ KernelProcess.pid = 1 /\ KernelProcess.status = "THREAD"
  /\ KernelProcess.parent = NULL /\ KernelProcess.children = {}
  /\ KernelProcess.signals = <<>> /\ KernelProcess.socket = <<>>
  <1>1. PICK id \in Nat, own \in Nat, par \in Slots \cup {NULL} :
          id = 1 /\ own = 0 /\ par = NULL
    OBVIOUS
  <1>2. PICK r : r = NewProcess(id, own, par)
    OBVIOUS
  <1>3. /\ r \in ProcessType /\ r.used /\ r.pid = id /\ r.status = "READY"
        /\ r.parent = par /\ r.children = {}
        /\ r.signals = <<>> /\ r.socket = <<>>
    BY <1>2, NewRecord
  <1>4. KernelProcess = [r EXCEPT !.status = "THREAD"] /\ "THREAD" \in Statuses
    BY <1>1, <1>2 DEF KernelProcess, Statuses
  <1> QED BY <1>1, <1>3, <1>4, SetStatus DEF SameKin

LEMMA InitStep == Init => IndInv
  <1> SUFFICES ASSUME Init PROVE IndInv
    OBVIOUS
  <1> DEFINE k == KernelProcess
  <1>1. k \in ProcessType /\ k.used /\ k.pid = 1 /\ k.status = "THREAD"
        /\ k.parent = NULL /\ k.children = {}
        /\ k.signals = <<>> /\ k.socket = <<>>
    BY KernelRecord
  <1>2. /\ table = [s \in Slots |-> IF s = Kernel THEN k ELSE Blank]
        /\ list = <<Kernel>>
    BY DEF Init
  <1>3. table \in [Slots -> ProcessType] /\ table[Kernel] = k
        /\ \A s \in Slots \ {Kernel} : table[s] = Blank
    BY <1>1, <1>2, BlankFacts, SlotFacts
  <1>4. DOMAIN list = {1} /\ list[1] = Kernel /\ Linked = {Kernel} /\ list \in Seq(Slots)
    BY <1>2, SlotFacts DEF Linked
  <1>5. TypeOK
    BY <1>1, <1>3, <1>4, BlankFacts, SlotFacts, ProcessAssumption DEF Init, TypeOK
  <1>6. ListMatchesTable
    <2>1. {s \in Slots : table[s].used} = {Kernel}
      BY <1>1, <1>3, BlankFacts, SlotFacts, Zenon
    <2> QED BY <1>2, <1>4, <2>1 DEF ListMatchesTable
  <1>7. CursorLinked /\ PidsUnique
    BY <1>1, <1>3, <1>4 DEF CursorLinked, PidsUnique, Init
  <1>8. NoLostWakeup /\ OnlyCurrentRuns /\ SignalsDelivered
    BY <1>1, <1>3, BlankFacts DEF NoLostWakeup, OnlyCurrentRuns, SignalsDelivered, Init
  <1>9. ChildrenSound /\ UnusedBlank /\ NotOwnParent /\ DeliveryPass
    BY <1>1, <1>3, BlankFacts, SlotFacts
    DEF ChildrenSound, UnusedBlank, NotOwnParent, DeliveryPass, Init
  <1> QED BY <1>5, <1>6, <1>7, <1>8, <1>9 DEF IndInv

LEMMA IdleStep ==
  ASSUME IndInv, CreateFails \/ Tick \/ RunPending \/ NothingToRun
  PROVE  IndInv'
  <1>0. /\ UNCHANGED <<table, list, cursor, current>>
        /\ next_pid' \in {next_pid, next_pid + 1}
        /\ pending' \in Nat /\ position' \in Nat
        /\ pc' \in {"shell", "deliver", "schedule", "run"}
        /\ pc = "run" <=> pc' = "run"
    BY DEF CreateFails, Tick, RunPending, NothingToRun, IndInv, TypeOK
  <1>1. TypeOK' /\ ListMatchesTable' /\ CursorLinked' /\ NoLostWakeup'
    BY <1>0 DEF IndInv, TypeOK, ListMatchesTable, Linked, CursorLinked, NoLostWakeup
  <1>2. PidsUnique'
    <2>1. Linked' = Linked /\ Linked \subseteq Slots /\ next_pid \in Nat
      BY <1>0 DEF IndInv, TypeOK, Linked
    <2>2. ASSUME NEW s \in Linked, NEW t \in Linked
          PROVE  /\ table[s].pid \in 1 .. next_pid' - 1
                 /\ table[s].pid = table[t].pid => s = t
      BY <1>0, <2>1 DEF IndInv, PidsUnique
    <2> QED BY <1>0, <2>1, <2>2 DEF PidsUnique
  <1>3. OnlyCurrentRuns' /\ ChildrenSound' /\ UnusedBlank' /\ NotOwnParent'
    BY <1>0 DEF IndInv, OnlyCurrentRuns, ChildrenSound, UnusedBlank, NotOwnParent
  <1>4. SignalsDelivered' /\ DeliveryPass'
    <2>1. Calling /\ UNCHANGED pc => SignalsDelivered' /\ DeliveryPass'
      BY DEF Calling, SignalsDelivered, DeliveryPass
    <2>2. CASE CreateFails
      BY <2>1, <2>2 DEF CreateFails
    <2>3. CASE Tick
      BY <2>3 DEF Tick, IndInv, SignalsDelivered, DeliveryPass, Settled
    <2>4. CASE RunPending
      BY <2>4 DEF RunPending, IndInv, SignalsDelivered, DeliveryPass,
                  ListMatchesTable, TypeOK
    <2>5. CASE NothingToRun
      BY <2>5 DEF NothingToRun, SignalsDelivered, DeliveryPass
    <2> QED BY <2>2, <2>3, <2>4, <2>5
  <1> QED BY <1>1, <1>2, <1>3, <1>4 DEF IndInv

(* A call that assigns fields of one slot and keeps its relations.         *)
LEMMA SlotStep ==
  ASSUME IndInv, NEW p \in Slots, table[p].used,
         NEW q \in ProcessType, SameKin(q, table[p]),
         table' = [table EXCEPT ![p] = q], list' = list, next_pid' = next_pid
  PROVE  /\ table' \in [Slots -> ProcessType]
         /\ \A s \in Slots : SameKin(table'[s], table[s])
         /\ table'[p] = q /\ \A s \in Slots \ {p} : table'[s] = table[s]
         /\ KinInv' /\ Linked' = Linked
  <1>1. /\ table' \in [Slots -> ProcessType]
        /\ table'[p] = q /\ \A s \in Slots \ {p} : table'[s] = table[s]
    BY DEF IndInv, TypeOK
  <1>2. \A s \in Slots : SameKin(table'[s], table[s])
    BY <1>1, Zenon DEF SameKin
  <1>3. \A s \in Slots : ~table[s].used => table'[s] = table[s]
    BY <1>1
  <1> QED BY <1>1, <1>2, <1>3, KinStep

LEMMA LinkedFacts ==
  ASSUME IndInv
  PROVE  /\ Linked = {s \in Slots : table[s].used}
         /\ current \in Slots /\ table[current].used
  BY DEF IndInv, ListMatchesTable, CursorLinked

(* A call that only changes the queues of one process.                     *)
LEMMA QueueStep ==
  ASSUME IndInv, Calling, NEW p \in Linked,
         NEW q \in ProcessType, SameKin(q, table[p]),
         q.status = table[p].status,
         q.wait_target_pid = table[p].wait_target_pid,
         Len(q.signals) < PROCESS_SIGNAL_QUEUE_CAPACITY,
         Len(q.socket) < PROCESS_SOCKET_CAPACITY,
         table' = [table EXCEPT ![p] = q],
         UNCHANGED <<list, cursor, current, next_pid, pending, pc, position>>
  PROVE  IndInv'
  <1>1. p \in Slots /\ table[p].used
    BY LinkedFacts
  <1>2. /\ table' \in [Slots -> ProcessType]
        /\ \A s \in Slots : SameKin(table'[s], table[s])
        /\ table'[p] = q /\ \A s \in Slots \ {p} : table'[s] = table[s]
        /\ KinInv' /\ Linked' = Linked
    BY <1>1, SlotStep, Zenon
  <1>3. \A s \in Slots :
          /\ table'[s].status = table[s].status
          /\ table'[s].wait_target_pid = table[s].wait_target_pid
          /\ Len(table'[s].signals) < PROCESS_SIGNAL_QUEUE_CAPACITY
          /\ Len(table'[s].socket) < PROCESS_SOCKET_CAPACITY
    BY <1>2 DEF IndInv, TypeOK
  <1>4. NoLostWakeup'
    BY <1>2, <1>3, WakeStep
  <1>5. /\ TypeOK' /\ CursorLinked' /\ OnlyCurrentRuns'
        /\ SignalsDelivered' /\ DeliveryPass'
    BY <1>2, <1>3, CallStep, SlotFacts DEF IndInv, TypeOK, OnlyCurrentRuns
  <1> QED BY <1>2, <1>4, <1>5 DEF IndInv, KinInv

LEMMA SendSignalStep ==
  ASSUME IndInv, NEW p \in Linked, NEW sig \in Signals, SendSignal(p, sig)
  PROVE  IndInv'
  <1>1. table \in [Slots -> ProcessType] /\ p \in Slots /\ table[p] \in ProcessType
    BY LinkedFacts DEF IndInv, TypeOK
  <1>2. table[p].signals \in Seq(Nat) /\ sig \in Nat
    BY <1>1, FieldTypes, ProcessAssumption
  <1>3. PICK sigs \in Seq(Nat) :
          /\ sigs = Append(table[p].signals, sig)
          /\ Len(sigs) < PROCESS_SIGNAL_QUEUE_CAPACITY
    <2>1. /\ Append(table[p].signals, sig) \in Seq(Nat)
          /\ Len(Append(table[p].signals, sig)) < PROCESS_SIGNAL_QUEUE_CAPACITY
      BY <1>2, ProcessAssumption DEF SendSignal, SignalQueueFull
    <2> QED BY <2>1, Zenon
  <1>4. PICK q : q = [table[p] EXCEPT !.signals = sigs]
    BY Zenon
  <1>5. table' = [table EXCEPT ![p] = q]
    BY <1>1, <1>3, <1>4 DEF SendSignal
  <1>6. /\ q \in ProcessType /\ SameKin(q, table[p])
        /\ q.status = table[p].status
        /\ q.wait_target_pid = table[p].wait_target_pid
        /\ q.signals = sigs /\ q.socket = table[p].socket
    BY <1>1, <1>4, SetSignals
  <1>7. Len(table[p].socket) < PROCESS_SOCKET_CAPACITY
    BY <1>1 DEF IndInv, TypeOK
  <1>8. /\ Calling
        /\ UNCHANGED <<list, cursor, current, next_pid, pending, pc, position>>
    BY DEF SendSignal
  <1> QED BY <1>3, <1>5, <1>6, <1>7, <1>8, QueueStep, Zenon

LEMMA SocketRecvStep ==
  ASSUME IndInv, SocketRecv
  PROVE  IndInv'
  <1>1. /\ table \in [Slots -> ProcessType] /\ current \in Slots
        /\ table[current] \in ProcessType /\ current \in Linked
    BY LinkedFacts DEF IndInv, TypeOK
  <1>2. table[current].socket \in Seq(Values) /\ table[current].socket # <<>>
        /\ Len(table[current].socket) < PROCESS_SOCKET_CAPACITY
    BY <1>1, FieldTypes DEF SocketRecv, IndInv, TypeOK
  <1>3. PICK sock \in Seq(Values) :
          /\ sock = Tail(table[current].socket)
          /\ Len(sock) < PROCESS_SOCKET_CAPACITY
    <2>1. /\ Tail(table[current].socket) \in Seq(Values)
          /\ Len(Tail(table[current].socket)) < PROCESS_SOCKET_CAPACITY
      BY <1>2, ProcessAssumption
    <2> QED BY <2>1, Zenon
  <1>4. PICK q : q = [table[current] EXCEPT !.socket = sock]
    BY Zenon
  <1>5. table' = [table EXCEPT ![current] = q]
    BY <1>1, <1>3, <1>4 DEF SocketRecv
  <1>6. /\ q \in ProcessType /\ SameKin(q, table[current])
        /\ q.status = table[current].status
        /\ q.wait_target_pid = table[current].wait_target_pid
        /\ q.signals = table[current].signals /\ q.socket = sock
    BY <1>1, <1>4, SetSocket
  <1>7. Len(table[current].signals) < PROCESS_SIGNAL_QUEUE_CAPACITY
    BY <1>1 DEF IndInv, TypeOK
  <1>8. /\ Calling
        /\ UNCHANGED <<list, cursor, current, next_pid, pending, pc, position>>
    BY DEF SocketRecv, Calling
  <1> QED BY <1>1, <1>3, <1>5, <1>6, <1>7, <1>8, QueueStep, Zenon

LEMMA SocketSendStep ==
  ASSUME IndInv, NEW p \in Linked, NEW v \in Values, SocketSend(p, v)
  PROVE  IndInv'
  <1>1. table \in [Slots -> ProcessType] /\ p \in Slots /\ table[p] \in ProcessType
    BY LinkedFacts DEF IndInv, TypeOK
  <1>2. /\ table[p].signals \in Seq(Nat) /\ PROCESS_SIGNAL_SOCKET \in Nat
        /\ table[p].socket \in Seq(Values)
        /\ Len(table[p].signals) < PROCESS_SIGNAL_QUEUE_CAPACITY
    BY <1>1, FieldTypes DEF PROCESS_SIGNAL_SOCKET, IndInv, TypeOK
  <1>3. PICK sigs \in Seq(Nat) :
          /\ sigs = IF SignalQueueFull(p) THEN table[p].signals
                    ELSE Append(table[p].signals, PROCESS_SIGNAL_SOCKET)
          /\ Len(sigs) < PROCESS_SIGNAL_QUEUE_CAPACITY
    <2>1. CASE SignalQueueFull(p)
      BY <1>2, <2>1, Zenon
    <2>2. CASE ~SignalQueueFull(p)
      <3>1. /\ Append(table[p].signals, PROCESS_SIGNAL_SOCKET) \in Seq(Nat)
            /\ Len(Append(table[p].signals, PROCESS_SIGNAL_SOCKET))
                 < PROCESS_SIGNAL_QUEUE_CAPACITY
        BY <1>2, <2>2, ProcessAssumption DEF SignalQueueFull
      <3> QED BY <2>2, <3>1, Zenon
    <2> QED BY <2>1, <2>2
  <1>4. PICK sock \in Seq(Values) :
          /\ sock = Append(table[p].socket, v)
          /\ Len(sock) < PROCESS_SOCKET_CAPACITY
    <2>1. /\ Append(table[p].socket, v) \in Seq(Values)
          /\ Len(Append(table[p].socket, v)) < PROCESS_SOCKET_CAPACITY
      <3>1. ~SocketFull(p)
        BY DEF SocketSend
      <3> QED BY <1>2, <3>1, ProcessAssumption DEF SocketFull
    <2> QED BY <2>1, Zenon
  <1>5. PICK r : r = [table[p] EXCEPT !.socket = sock]
    BY Zenon
  <1>6. PICK q : q = [r EXCEPT !.signals = sigs]
    BY Zenon
  <1>7. table' = [table EXCEPT ![p] = q]
    <2>1. table' = [table EXCEPT ![p].socket = sock, ![p].signals = sigs]
      BY <1>1, <1>3, <1>4 DEF SocketSend
    <2> QED BY <1>1, <1>5, <1>6, <2>1, Zenon
  <1>8. /\ r \in ProcessType /\ SameKin(r, table[p])
        /\ r.status = table[p].status
        /\ r.wait_target_pid = table[p].wait_target_pid /\ r.socket = sock
    BY <1>1, <1>5, SetSocket
  <1>9. /\ q \in ProcessType /\ SameKin(q, r) /\ q.status = r.status
        /\ q.wait_target_pid = r.wait_target_pid
        /\ q.signals = sigs /\ q.socket = r.socket
    BY <1>6, <1>8, SetSignals
  <1>10. SameKin(q, table[p])
    BY <1>8, <1>9 DEF SameKin
  <1>11. /\ Calling
         /\ UNCHANGED <<list, cursor, current, next_pid, pending, pc, position>>
    BY DEF SocketSend, Calling
  <1> QED BY <1>3, <1>4, <1>7, <1>8, <1>9, <1>10, <1>11, QueueStep, Zenon

LEMMA WaitBlocksStep ==
  ASSUME IndInv, NEW c \in Linked, WaitBlocks(c)
  PROVE  IndInv'
  <1> DEFINE st == IF current = Kernel THEN table[current].status ELSE "WAITING"
  <1>1. /\ table \in [Slots -> ProcessType] /\ c \in Slots /\ current \in Slots
        /\ table[c].used /\ table[current].used
        /\ table[c] \in ProcessType /\ table[current] \in ProcessType
    BY LinkedFacts DEF IndInv, TypeOK
  <1>2. table[c].pid \in Nat /\ st \in Statuses
    BY <1>1, FieldTypes DEF Statuses
  <1>3. PICK q : q = Blocked(table[current], table[c].pid, st)
    OBVIOUS
  <1>4. table' = [table EXCEPT ![current] = q]
    BY <1>1, <1>3, Zenon DEF WaitBlocks, Blocked
  <1>5. /\ q \in ProcessType /\ SameKin(q, table[current])
        /\ q.status = st /\ q.wait_target_pid = table[c].pid
        /\ q.signals = table[current].signals /\ q.socket = table[current].socket
    <2> HIDE DEF st
    <2> QED BY <1>1, <1>2, <1>3, SetWait
  <1>6. /\ Calling /\ MayWaitFor(c) /\ table[c].status # "ZOMBIE"
        /\ UNCHANGED <<list, cursor, current, next_pid, pending, pc, position>>
    BY DEF WaitBlocks
  <1>7. /\ table' \in [Slots -> ProcessType]
        /\ \A s \in Slots : SameKin(table'[s], table[s])
        /\ table'[current] = q
        /\ \A s \in Slots \ {current} : table'[s] = table[s]
        /\ KinInv' /\ Linked' = Linked
    BY <1>1, <1>4, <1>5, <1>6, SlotStep, Zenon
  <1>8. \A s \in Slots :
          /\ table'[s].status = "RUN" => table[s].status = "RUN"
          /\ table'[s].status = "ZOMBIE" => table[s].status = "ZOMBIE"
          /\ Len(table'[s].signals) < PROCESS_SIGNAL_QUEUE_CAPACITY
          /\ Len(table'[s].socket) < PROCESS_SOCKET_CAPACITY
    BY <1>5, <1>7 DEF IndInv, TypeOK
  <1>9. table'[Kernel].status = "THREAD"
    BY <1>5, <1>7, SlotFacts DEF IndInv, OnlyCurrentRuns
  <1>10. NoLostWakeup'
    <2> SUFFICES ASSUME NEW s \in Slots, table'[s].status = "WAITING"
                 PROVE  \E d \in Slots : /\ table'[d].used
                                          /\ table'[d].parent = s
                                          /\ table'[d].pid = table'[s].wait_target_pid
                                          /\ table'[d].status # "ZOMBIE"
      BY DEF NoLostWakeup
    <2>1. CASE s = current /\ current # Kernel
      <3>1. table[c].parent = current
        BY <1>6, <2>1 DEF MayWaitFor
      <3> QED BY <1>1, <1>5, <1>6, <1>7, <1>8, <2>1, <3>1 DEF SameKin
    <2>2. CASE s # current
      <3>1. PICK d \in Slots : /\ table[d].used
                                /\ table[d].parent = s
                                /\ table[d].pid = table[s].wait_target_pid
                                /\ table[d].status # "ZOMBIE"
        BY <1>7, <2>2 DEF IndInv, NoLostWakeup
      <3> QED BY <1>7, <1>8, <2>2, <3>1 DEF SameKin
    <2>3. CASE s = Kernel
      BY <1>9, <2>3
    <2> QED BY <2>1, <2>2, <2>3
  <1>11. /\ TypeOK' /\ CursorLinked' /\ OnlyCurrentRuns'
         /\ SignalsDelivered' /\ DeliveryPass'
    BY <1>6, <1>7, <1>8, <1>9, CallStep DEF IndInv, TypeOK
  <1> QED BY <1>7, <1>10, <1>11 DEF IndInv, KinInv

(* A step that may end process p.                                          *)
LEMMA ExitStep ==
  ASSUME IndInv, NEW p \in Linked, ExitEffect(table, table', p),
         Len(table'[p].signals) <= Len(table[p].signals),
         list' = list, next_pid' = next_pid
  PROVE  /\ KinInv' /\ Linked' = Linked /\ NoLostWakeup'
         /\ table' \in [Slots -> ProcessType]
         /\ \A s \in Slots :
              /\ Len(table'[s].signals) < PROCESS_SIGNAL_QUEUE_CAPACITY
              /\ Len(table'[s].socket) < PROCESS_SOCKET_CAPACITY
              /\ table'[s].status = "RUN" => table[s].status = "RUN"
         /\ table'[Kernel].status = "THREAD"
  <1>1. /\ p \in Slots /\ table[p].used
        /\ table \in [Slots -> ProcessType] /\ table[p] \in ProcessType
    BY LinkedFacts DEF IndInv, TypeOK
  <1>2. /\ table' \in [Slots -> ProcessType]
        /\ \A s \in Slots : SameKin(table'[s], table[s])
    BY DEF ExitEffect
  <1>3. \A s \in Slots : ~table[s].used => table'[s] = table[s]
    BY <1>1, BlankFacts DEF ExitEffect, IndInv, UnusedBlank
  <1>4. KinInv' /\ Linked' = Linked
    BY <1>2, <1>3, KinStep
  <1>5. \A s \in Slots :
          /\ table'[s].status = "WAITING" => table[s].status = "WAITING"
          /\ table'[s].wait_target_pid = table[s].wait_target_pid
    BY <1>1 DEF ExitEffect
  <1>6. ASSUME NEW c \in Slots, table'[c].status = "ZOMBIE", table[c].status # "ZOMBIE",
               NEW s \in Slots, s = table[c].parent, table'[s].status = "WAITING"
        PROVE  table'[s].wait_target_pid # table[c].pid
    <2>1. c = p
      BY <1>6 DEF ExitEffect
    <2>2. s # p
      BY <1>6, <2>1 DEF IndInv, NotOwnParent
    <2> QED BY <1>1, <1>6, <2>1, <2>2 DEF ExitEffect
  <1>7. NoLostWakeup'
    BY <1>2, <1>5, <1>6, WakeStep
  <1>8. \A s \in Slots :
          /\ Len(table'[s].signals) < PROCESS_SIGNAL_QUEUE_CAPACITY
          /\ Len(table'[s].socket) < PROCESS_SOCKET_CAPACITY
    <2> SUFFICES ASSUME NEW s \in Slots
                 PROVE  /\ Len(table'[s].signals) < PROCESS_SIGNAL_QUEUE_CAPACITY
                        /\ Len(table'[s].socket) < PROCESS_SOCKET_CAPACITY
      OBVIOUS
    <2>1. /\ table[s].signals \in Seq(Nat) /\ table'[s].signals \in Seq(Nat)
          /\ table'[s].socket = table[s].socket
      BY <1>1, <1>2, FieldTypes DEF ExitEffect
    <2>2. Len(table'[s].signals) <= Len(table[s].signals)
      BY <2>1 DEF ExitEffect
    <2> QED BY <2>1, <2>2, ProcessAssumption DEF IndInv, TypeOK
  <1>9. \A s \in Slots : table'[s].status = "RUN" => table[s].status = "RUN"
    BY <1>1 DEF ExitEffect
  <1>10. table'[Kernel].status = "THREAD"
    BY SlotFacts DEF ExitEffect, IndInv, OnlyCurrentRuns
  <1> QED BY <1>2, <1>4, <1>7, <1>8, <1>9, <1>10

LEMMA SysExitStep ==
  ASSUME IndInv, NEW code \in ExitCodes, SysExit(code)
  PROVE  IndInv'
  <1>1. /\ table \in [Slots -> ProcessType] /\ current \in Slots
        /\ current \in Linked /\ code \in Nat
        /\ table[current] \in ProcessType
    BY LinkedFacts, ProcessAssumption DEF IndInv, TypeOK
  <1>2. /\ pc = "run" /\ table' = ProcessExit(table, current, code)
        /\ UNCHANGED <<list, cursor, current, next_pid, pending, pc, position>>
    BY DEF SysExit
  <1>3. /\ ExitEffect(table, table', current)
        /\ table'[current].signals = table[current].signals
    BY <1>1, <1>2, ProcessExitEffect
  <1>4. table[current].signals \in Seq(Nat)
    BY <1>1, FieldTypes
  <1>5. Len(table'[current].signals) <= Len(table[current].signals)
    BY <1>3, <1>4
  <1>6. /\ KinInv' /\ Linked' = Linked /\ NoLostWakeup'
        /\ table' \in [Slots -> ProcessType]
        /\ \A s \in Slots :
             /\ Len(table'[s].signals) < PROCESS_SIGNAL_QUEUE_CAPACITY
             /\ Len(table'[s].socket) < PROCESS_SOCKET_CAPACITY
             /\ table'[s].status = "RUN" => table[s].status = "RUN"
        /\ table'[Kernel].status = "THREAD"
    BY <1>1, <1>2, <1>3, <1>5, ExitStep
  <1>7. /\ TypeOK' /\ CursorLinked' /\ OnlyCurrentRuns'
        /\ SignalsDelivered' /\ DeliveryPass'
    BY <1>2, <1>6, CallStep DEF IndInv, TypeOK, Calling
  <1> QED BY <1>6, <1>7 DEF IndInv, KinInv

(* The scheduler's own invariants when the CPU goes back to the kernel.    *)
LEMMA YieldStep ==
  ASSUME IndInv, Yield
  PROVE  IndInv'
  <1> DEFINE st == IF table[current].status = "RUN" THEN "READY"
                   ELSE table[current].status
  <1>1. /\ table \in [Slots -> ProcessType] /\ current \in Slots
        /\ table[current].used /\ table[current] \in ProcessType
    BY LinkedFacts DEF IndInv, TypeOK
  <1>2. /\ pc = "run" /\ current' = Kernel /\ pc' = "shell"
        /\ UNCHANGED <<list, cursor, next_pid, pending, position>>
    BY DEF Yield
  <1>3. st \in Statuses
    BY <1>1, FieldTypes DEF Statuses
  <1>4. PICK q : q = [table[current] EXCEPT !.status = st]
    BY Zenon
  <1>5. table' = [table EXCEPT ![current] = q]
    BY <1>1, <1>4 DEF Yield, YieldTable
  <1>6. /\ q \in ProcessType /\ SameKin(q, table[current])
        /\ q.status = st /\ q.wait_target_pid = table[current].wait_target_pid
        /\ q.signals = table[current].signals /\ q.socket = table[current].socket
    <2> HIDE DEF st
    <2> QED BY <1>1, <1>3, <1>4, SetStatus
  <1>7. /\ table' \in [Slots -> ProcessType]
        /\ \A s \in Slots : SameKin(table'[s], table[s])
        /\ table'[current] = q
        /\ \A s \in Slots \ {current} : table'[s] = table[s]
        /\ KinInv' /\ Linked' = Linked
    BY <1>1, <1>2, <1>5, <1>6, SlotStep, Zenon
  <1>8. \A s \in Slots :
          /\ table'[s].status # "RUN"
          /\ table'[s].status = "WAITING" => table[s].status = "WAITING"
          /\ table'[s].wait_target_pid = table[s].wait_target_pid
          /\ table'[s].status = "ZOMBIE" => table[s].status = "ZOMBIE"
          /\ Len(table'[s].signals) < PROCESS_SIGNAL_QUEUE_CAPACITY
          /\ Len(table'[s].socket) < PROCESS_SOCKET_CAPACITY
    BY <1>6, <1>7 DEF IndInv, TypeOK, OnlyCurrentRuns
  <1>9. NoLostWakeup'
    BY <1>7, <1>8, WakeStep
  <1>10. OnlyCurrentRuns'
    BY <1>2, <1>7, <1>8, SlotFacts DEF IndInv, OnlyCurrentRuns
  <1>11. TypeOK' /\ CursorLinked'
    BY <1>2, <1>7, <1>8, SlotFacts
    DEF IndInv, TypeOK, CursorLinked, KinInv, ListMatchesTable, Linked
  <1>12. SignalsDelivered' /\ DeliveryPass'
    BY <1>2 DEF SignalsDelivered, DeliveryPass
  <1> QED BY <1>7, <1>9, <1>10, <1>11, <1>12 DEF IndInv, KinInv

LEMMA EntryReturnsStep ==
  ASSUME IndInv, NEW code \in Nat, EntryReturns(code)
  PROVE  IndInv'
  <1>1. /\ table \in [Slots -> ProcessType] /\ current \in Slots
        /\ current \in Linked /\ code \in Nat
        /\ table[current] \in ProcessType
    BY LinkedFacts, ProcessAssumption DEF IndInv, TypeOK
  <1>2. /\ pc = "run" /\ current' = Kernel /\ pc' = "shell"
        /\ UNCHANGED <<list, cursor, next_pid, pending, position>>
    BY DEF EntryReturns
  <1>3. PICK r : r = ProcessExit(table, current, code)
    OBVIOUS
  <1>4. /\ ExitEffect(table, r, current)
        /\ r[current].signals = table[current].signals
        /\ r[current].status = "ZOMBIE"
    BY <1>1, <1>2, <1>3, ProcessExitEffect DEF IndInv, OnlyCurrentRuns
  <1>5. table' = r
    <2>1. table' = [r EXCEPT ![current] = [r[current] EXCEPT !.status = "ZOMBIE"]]
      BY <1>3, <1>4 DEF EntryReturns, YieldTable
    <2>2. r \in [Slots -> ProcessType] /\ r[current] \in ProcessType
      BY <1>1, <1>4 DEF ExitEffect
    <2>3. [r[current] EXCEPT !.status = "ZOMBIE"] = r[current]
      BY <1>4, <2>2, SMTT(30) DEF ProcessType
    <2> QED BY <2>1, <2>2, <2>3
  <1>6. table[current].signals \in Seq(Nat)
    BY <1>1, FieldTypes
  <1>7. Len(table'[current].signals) <= Len(table[current].signals)
    BY <1>4, <1>5, <1>6
  <1>8. /\ KinInv' /\ Linked' = Linked /\ NoLostWakeup'
        /\ table' \in [Slots -> ProcessType]
        /\ \A s \in Slots :
             /\ Len(table'[s].signals) < PROCESS_SIGNAL_QUEUE_CAPACITY
             /\ Len(table'[s].socket) < PROCESS_SOCKET_CAPACITY
             /\ table'[s].status = "RUN" => table[s].status = "RUN"
        /\ table'[Kernel].status = "THREAD"
    BY <1>1, <1>2, <1>4, <1>5, <1>7, ExitStep
  <1>9. OnlyCurrentRuns'
    BY <1>2, <1>4, <1>5, <1>8 DEF IndInv, OnlyCurrentRuns
  <1>10. TypeOK' /\ CursorLinked'
    BY <1>2, <1>8, SlotFacts
    DEF IndInv, TypeOK, CursorLinked, KinInv, ListMatchesTable, Linked
  <1>11. SignalsDelivered' /\ DeliveryPass'
    BY <1>2 DEF SignalsDelivered, DeliveryPass
  <1> QED BY <1>8, <1>9, <1>10, <1>11 DEF IndInv, KinInv

LEMMA DeliverPendingStep ==
  ASSUME IndInv, DeliverPending
  PROVE  IndInv'
  <1>1. /\ pc = "deliver" /\ table' = DeliverSignals(table, list[position])
        /\ UNCHANGED <<list, cursor, current, next_pid, pending>>
        /\ \/ position < Len(list) /\ position' = position + 1 /\ pc' = pc
           \/ position >= Len(list) /\ position' = 1 /\ pc' = "schedule"
    BY DEF DeliverPending, IndInv, TypeOK
  <1>2. /\ list \in Seq(Slots) /\ Len(list) \in Nat /\ DOMAIN list = 1 .. Len(list)
        /\ position \in 1 .. Len(list)
        /\ table \in [Slots -> ProcessType]
    BY <1>1 DEF IndInv, TypeOK, DeliveryPass
  <1>3. PICK p \in Slots : p = list[position] /\ p \in Linked
    BY <1>2 DEF Linked
  <1>4. /\ ExitEffect(table, table', p)
        /\ Len(table'[p].signals) <= Len(table[p].signals)
        /\ Settled(p)'
    BY <1>1, <1>2, <1>3, DeliverEffect DEF Settled
  <1>5. /\ KinInv' /\ Linked' = Linked /\ NoLostWakeup'
        /\ table' \in [Slots -> ProcessType]
        /\ \A s \in Slots :
             /\ Len(table'[s].signals) < PROCESS_SIGNAL_QUEUE_CAPACITY
             /\ Len(table'[s].socket) < PROCESS_SOCKET_CAPACITY
             /\ table'[s].status = "RUN" => table[s].status = "RUN"
        /\ table'[Kernel].status = "THREAD"
    BY <1>1, <1>3, <1>4, ExitStep
  <1>6. OnlyCurrentRuns'
    BY <1>1, <1>5 DEF IndInv, OnlyCurrentRuns
  <1>7. TypeOK' /\ CursorLinked'
    BY <1>1, <1>2, <1>5 DEF IndInv, TypeOK, CursorLinked
  <1>8. ASSUME NEW i \in 1 .. position
        PROVE  list[i] \in Slots /\ Settled(list[i])'
    <2>1. CASE i = position
      BY <1>1, <1>2, <1>3, <1>4, <2>1 DEF Settled
    <2>2. CASE i # position
      <3>1. i \in 1 .. position - 1 /\ i \in DOMAIN list /\ list[i] \in Slots
        BY <1>2, <2>2
      <3>2. Settled(list[i])
        BY <1>1, <3>1 DEF IndInv, DeliveryPass
      <3>3. list[i] # p
        BY <1>2, <1>3, <2>2, <3>1 DEF IndInv, ListMatchesTable
      <3>4. /\ table'[list[i]].signals = table[list[i]].signals
            /\ table[list[i]].status = "ZOMBIE" => table'[list[i]].status = "ZOMBIE"
        BY <1>4, <3>1, <3>3 DEF ExitEffect
      <3> QED BY <1>1, <3>1, <3>2, <3>4 DEF Settled
    <2> QED BY <2>1, <2>2
  <1>9. DeliveryPass'
    BY <1>1, <1>2, <1>8 DEF DeliveryPass
  <1>10. SignalsDelivered'
    <2> SUFFICES ASSUME pc' = "schedule", NEW s \in Slots, table'[s].used
                 PROVE  Settled(s)'
      BY DEF SignalsDelivered
    <2>1. s \in Linked
      BY <1>5 DEF KinInv, ListMatchesTable
    <2>2. PICK i \in DOMAIN list : list[i] = s
      BY <2>1 DEF Linked
    <2>3. i \in 1 .. position
      BY <1>1, <1>2, <2>2
    <2> QED BY <1>1, <1>8, <2>2, <2>3 DEF Settled
  <1> QED BY <1>5, <1>6, <1>7, <1>9, <1>10 DEF IndInv, KinInv

(* The position of a linked process.                                       *)
LEMMA IndexFacts ==
  ASSUME NEW p \in Linked
  PROVE  IndexOf(p) \in DOMAIN list /\ list[IndexOf(p)] = p
  BY DEF Linked, IndexOf

(* pick_next_process returns a runnable process of the list.               *)
LEMMA PickFacts ==
  ASSUME IndInv, PickNextProcess # NULL
  PROVE  /\ PickNextProcess \in Linked /\ PickNextProcess \in Slots
         /\ Runnable(PickNextProcess)
  <1> DEFINE hits == {d \in 1 .. Len(list) : Runnable(Candidate(d))}
  <1>1. hits # {} /\ PickNextProcess = Candidate(Least(hits))
    BY DEF PickNextProcess
  <1>2. hits \in SUBSET Nat
    OBVIOUS
  <1>3. Least(hits) \in hits
    BY <1>1, <1>2, LeastFacts
  <1>4. /\ list \in Seq(Slots) /\ Len(list) \in Nat /\ DOMAIN list = 1 .. Len(list)
        /\ IndexOf(cursor) \in DOMAIN list
    BY IndexFacts DEF IndInv, TypeOK, CursorLinked
  <1>5. ASSUME NEW d \in 1 .. Len(list)
        PROVE  Candidate(d) \in Linked /\ Candidate(d) \in Slots
    <2>1. PICK i \in DOMAIN list : Candidate(d) = list[i]
      BY <1>4 DEF Candidate
    <2> QED BY <1>4, <2>1 DEF Linked
  <1> QED BY <1>1, <1>3, <1>5

LEMMA ScheduleNextStep ==
  ASSUME IndInv, ScheduleNext
  PROVE  IndInv'
  <1>1. PICK p : p = PickNextProcess
    OBVIOUS
  <1>2. PICK r : r = DeliverSignals(table, p)
    OBVIOUS
  <1>3. /\ pc = "schedule" /\ p # NULL /\ cursor' = p
        /\ UNCHANGED <<list, next_pid, pending, position>>
        /\ \/ /\ r[p].status \in {"ZOMBIE", "WAITING"}
              /\ table' = r /\ current' = Kernel /\ pc' = "shell"
           \/ /\ r[p].status \notin {"ZOMBIE", "WAITING"}
              /\ table' = [r EXCEPT ![p].status = "RUN"]
              /\ current' = p /\ pc' = "run"
    BY <1>1, <1>2 DEF ScheduleNext
  <1>4. p \in Linked /\ p \in Slots /\ Runnable(p)
    BY <1>1, <1>3, PickFacts
  <1>5. /\ table \in [Slots -> ProcessType] /\ table[p] \in ProcessType
        /\ Kernel \in Linked /\ Kernel \in Slots
    BY <1>4, SlotFacts DEF IndInv, TypeOK, ListMatchesTable, Linked
  <1>6. /\ ExitEffect(table, r, p)
        /\ Len(r[p].signals) <= Len(table[p].signals)
    BY <1>2, <1>4, <1>5, DeliverEffect
  <1>7. SignalsDelivered' /\ DeliveryPass'
    BY <1>3 DEF SignalsDelivered, DeliveryPass
  <1>8. \A s \in Slots : table[s].status # "RUN"
    BY <1>3 DEF IndInv, OnlyCurrentRuns
  <1>9. CASE table' = r /\ current' = Kernel /\ pc' = "shell"
    <2>1. /\ KinInv' /\ Linked' = Linked /\ NoLostWakeup'
          /\ table' \in [Slots -> ProcessType]
          /\ \A s \in Slots :
               /\ Len(table'[s].signals) < PROCESS_SIGNAL_QUEUE_CAPACITY
               /\ Len(table'[s].socket) < PROCESS_SOCKET_CAPACITY
               /\ table'[s].status = "RUN" => table[s].status = "RUN"
          /\ table'[Kernel].status = "THREAD"
      BY <1>3, <1>4, <1>6, <1>9, ExitStep
    <2>2. OnlyCurrentRuns'
      BY <1>8, <1>9, <2>1 DEF OnlyCurrentRuns
    <2>3. TypeOK' /\ CursorLinked'
      BY <1>3, <1>4, <1>5, <1>9, <2>1 DEF IndInv, TypeOK, CursorLinked
    <2> QED BY <1>7, <2>1, <2>2, <2>3 DEF IndInv, KinInv
  <1>10. CASE /\ r[p].status \notin {"ZOMBIE", "WAITING"}
              /\ table' = [r EXCEPT ![p].status = "RUN"]
              /\ current' = p /\ pc' = "run"
    <2>1. r \in [Slots -> ProcessType] /\ r[p] \in ProcessType
      BY <1>4, <1>6 DEF ExitEffect
    <2>2. PICK q : q = [r[p] EXCEPT !.status = "RUN"]
      BY Zenon
    <2>3. /\ q \in ProcessType /\ SameKin(q, r[p]) /\ q.status = "RUN"
          /\ q.wait_target_pid = r[p].wait_target_pid
          /\ q.signals = r[p].signals /\ q.socket = r[p].socket
      <3>1. "RUN" \in Statuses
        BY DEF Statuses
      <3> QED BY <2>1, <2>2, <3>1, SetStatus
    <2>4. /\ table' \in [Slots -> ProcessType] /\ table'[p] = q
          /\ \A s \in Slots \ {p} : table'[s] = r[s]
      <3>1. table' = [r EXCEPT ![p] = q]
        BY <1>10, <2>2
      <3> QED BY <1>4, <2>1, <2>3, <3>1
    <2>5. \A s \in Slots : SameKin(table'[s], table[s])
      <3> SUFFICES ASSUME NEW s \in Slots PROVE SameKin(table'[s], table[s])
        OBVIOUS
      <3>1. SameKin(r[s], table[s])
        BY <1>6 DEF ExitEffect
      <3>2. SameKin(table'[s], r[s])
        BY <2>3, <2>4, SMTT(30) DEF SameKin
      <3> QED BY <3>1, <3>2 DEF SameKin
    <2>6. \A s \in Slots : ~table[s].used => table'[s] = table[s]
      BY <1>4, <1>6, <2>4, BlankFacts DEF ExitEffect, IndInv, UnusedBlank, Runnable
    <2>7. KinInv' /\ Linked' = Linked
      BY <1>3, <2>4, <2>5, <2>6, KinStep, SMTT(30)
    <2>8. \A s \in Slots :
            /\ table'[s].status = "RUN" => s = p
            /\ table'[s].status = "WAITING" => table[s].status = "WAITING"
            /\ table'[s].wait_target_pid = table[s].wait_target_pid
            /\ table'[s].status = "ZOMBIE" => table[s].status = "ZOMBIE"
      BY <1>6, <1>8, <2>3, <2>4 DEF ExitEffect
    <2>9. NoLostWakeup'
      BY <2>4, <2>5, <2>8, WakeStep
    <2>10. OnlyCurrentRuns'
      BY <1>4, <1>5, <1>6, <1>10, <2>4, <2>8
      DEF IndInv, OnlyCurrentRuns, Runnable, ExitEffect
    <2>11. \A s \in Slots :
             /\ Len(table'[s].signals) < PROCESS_SIGNAL_QUEUE_CAPACITY
             /\ Len(table'[s].socket) < PROCESS_SOCKET_CAPACITY
      <3> SUFFICES ASSUME NEW s \in Slots
                   PROVE  /\ Len(table'[s].signals) < PROCESS_SIGNAL_QUEUE_CAPACITY
                          /\ Len(table'[s].socket) < PROCESS_SOCKET_CAPACITY
        OBVIOUS
      <3>1. /\ table[s].signals \in Seq(Nat) /\ table'[s].signals \in Seq(Nat)
            /\ table'[s].socket = table[s].socket
        <4>1. table[s] \in ProcessType /\ table'[s] \in ProcessType
          BY <1>5, <2>4
        <4>2. table'[s].socket = r[s].socket /\ r[s].socket = table[s].socket
          BY <1>6, <2>3, <2>4 DEF ExitEffect
        <4> QED BY <4>1, <4>2, FieldTypes
      <3>2. Len(table'[s].signals) <= Len(table[s].signals)
        BY <1>6, <2>3, <2>4, <3>1 DEF ExitEffect
      <3> QED BY <3>1, <3>2, ProcessAssumption DEF IndInv, TypeOK
    <2>12. TypeOK' /\ CursorLinked'
      BY <1>3, <1>4, <1>10, <2>4, <2>7, <2>11 DEF IndInv, TypeOK, CursorLinked
    <2> QED BY <1>7, <2>7, <2>9, <2>10, <2>12 DEF IndInv, KinInv
  <1> QED BY <1>3, <1>9, <1>10

LEMMA CreateStep ==
  ASSUME IndInv, NEW par \in Linked, NEW own \in Nat, CreateSucceeds(par, own)
  PROVE  IndInv'
  <1>1. /\ table \in [Slots -> ProcessType] /\ par \in Slots /\ table[par].used
        /\ next_pid \in Nat /\ list \in Seq(Slots)
        /\ Len(list) \in Nat /\ DOMAIN list = 1 .. Len(list)
    BY LinkedFacts DEF IndInv, TypeOK
  <1>2. PICK s : s = Least(FreeSlots)
    OBVIOUS
  <1>3. s \in Slots /\ s # Kernel /\ ~table[s].used /\ table[s] = Blank /\ s # par
    <2>1. FreeSlots \in SUBSET Nat /\ FreeSlots # {}
      BY SlotFacts, Zenon DEF FreeSlots, CreateSucceeds
    <2>2. s \in FreeSlots
      BY <1>2, <2>1, LeastFacts
    <2> QED BY <1>1, <2>2 DEF FreeSlots, IndInv, UnusedBlank
  <1>4. /\ Calling /\ next_pid' = next_pid + 1 /\ list' = Append(list, s)
        /\ UNCHANGED <<cursor, current, pending, pc, position>>
    BY <1>2 DEF CreateSucceeds
  <1>5. PICK cs : cs = table[par].children \cup {s}
    BY Zenon
  <1>5a. cs \subseteq Slots
    BY <1>1, <1>3, <1>5, FieldTypes
  <1>6. PICK n : n = NewProcess(next_pid, own, par)
    OBVIOUS
  <1>6a. PICK q : q = WithChildren(table[par], cs)
    OBVIOUS
  <1>7. table' = [t \in Slots |-> IF t = s THEN n ELSE IF t = par THEN q ELSE table[t]]
    BY <1>2, <1>5, <1>6, <1>6a, Zenon DEF CreateSucceeds, CreatedTable,
       WithChildren
  <1>8. /\ n \in ProcessType /\ n.used /\ n.pid = next_pid /\ n.status = "READY"
        /\ n.parent = par /\ n.children = {}
        /\ n.signals = <<>> /\ n.socket = <<>>
    BY <1>1, <1>6, NewRecord
  <1>9. /\ q \in ProcessType /\ q.used = table[par].used /\ q.pid = table[par].pid
        /\ q.parent = table[par].parent /\ q.children = cs
        /\ q.status = table[par].status
        /\ q.wait_target_pid = table[par].wait_target_pid
        /\ q.signals = table[par].signals /\ q.socket = table[par].socket
    <2>1. table[par] \in ProcessType
      BY <1>1
    <2> QED BY <1>5a, <1>6a, <2>1, SetChildren
  <1>10. /\ table' \in [Slots -> ProcessType] /\ table'[s] = n /\ table'[par] = q
         /\ \A t \in Slots \ {s, par} : table'[t] = table[t]
    BY <1>1, <1>3, <1>7, <1>8, <1>9
  <1>11. \A t \in Slots \ {s} :
           /\ table'[t].used = table[t].used /\ table'[t].pid = table[t].pid
           /\ table'[t].parent = table[t].parent
           /\ table'[t].status = table[t].status
           /\ table'[t].wait_target_pid = table[t].wait_target_pid
           /\ table'[t].signals = table[t].signals
           /\ table'[t].socket = table[t].socket
    BY <1>9, <1>10, SMTT(30)
  <1>12. /\ list' \in Seq(Slots) /\ Len(list') = Len(list) + 1
         /\ DOMAIN list' = 1 .. Len(list) + 1
         /\ list'[Len(list) + 1] = s
         /\ \A i \in 1 .. Len(list) : list'[i] = list[i]
    BY <1>1, <1>3, <1>4, SMTT(30)
  <1>13. Linked' = Linked \cup {s} /\ s \notin Linked
    <2>1. s \notin Linked
      BY <1>3 DEF IndInv, ListMatchesTable
    <2> QED BY <1>1, <1>12, <2>1 DEF Linked
  <1>14. ListMatchesTable'
    <2>1. \A i, j \in DOMAIN list' : list'[i] = list'[j] => i = j
      <3>1. \A i \in DOMAIN list : list[i] # s
        BY <1>13 DEF Linked
      <3>2. \A i, j \in DOMAIN list : list[i] = list[j] => i = j
        BY DEF IndInv, ListMatchesTable
      <3> QED BY <1>1, <1>12, <3>1, <3>2
    <2>2. Linked' = {t \in Slots : table'[t].used}
      BY <1>3, <1>8, <1>10, <1>11, <1>13 DEF IndInv, ListMatchesTable
    <2>3. list' # <<>> /\ list'[1] = Kernel
      BY <1>1, <1>12 DEF IndInv, ListMatchesTable
    <2> QED BY <2>1, <2>2, <2>3 DEF ListMatchesTable
  <1>15. PidsUnique'
    <2>1. \A t \in Linked : t \in Slots \ {s} /\ table'[t].pid = table[t].pid
      BY <1>11, <1>13 DEF IndInv, ListMatchesTable
    <2>2. ASSUME NEW t \in Linked PROVE table[t].pid \in 1 .. next_pid - 1
      BY DEF IndInv, PidsUnique
    <2>3. ASSUME NEW t \in Linked, NEW u \in Linked, table[t].pid = table[u].pid
          PROVE  t = u
      BY <2>3 DEF IndInv, PidsUnique
    <2>4. ASSUME NEW t \in Linked'
          PROVE  table'[t].pid \in 1 .. next_pid' - 1
      <3>1. 1 <= next_pid
        BY <1>1, <2>2
      <3>2. CASE t = s
        BY <1>1, <1>4, <1>8, <1>10, <3>1, <3>2
      <3>3. CASE t # s
        BY <1>1, <1>4, <1>13, <2>1, <2>2, <3>3
      <3> QED BY <3>2, <3>3
    <2>5. ASSUME NEW t \in Linked', NEW u \in Linked', table'[t].pid = table'[u].pid
          PROVE  t = u
      <3>1. \A v \in Linked : table'[v].pid # table'[s].pid
        BY <1>1, <1>8, <1>10, <2>1, <2>2
      <3> QED BY <1>13, <2>1, <2>3, <2>5, <3>1
    <2> QED BY <2>4, <2>5 DEF PidsUnique
  <1>16. NoLostWakeup'
    <2> SUFFICES ASSUME NEW t \in Slots, table'[t].status = "WAITING"
                 PROVE  \E d \in Slots : /\ table'[d].used
                                          /\ table'[d].parent = t
                                          /\ table'[d].pid = table'[t].wait_target_pid
                                          /\ table'[d].status # "ZOMBIE"
      BY DEF NoLostWakeup
    <2>1. t # s
      BY <1>8, <1>10
    <2>2. PICK d \in Slots : /\ table[d].used
                              /\ table[d].parent = t
                              /\ table[d].pid = table[t].wait_target_pid
                              /\ table[d].status # "ZOMBIE"
      BY <1>11, <2>1 DEF IndInv, NoLostWakeup
    <2>3. d # s
      BY <1>3, <2>2
    <2> QED BY <1>11, <2>1, <2>2, <2>3
  <1>17. ChildrenSound'
    <2> SUFFICES ASSUME NEW t \in Slots, NEW c \in table'[t].children
                 PROVE  table'[c].used /\ table'[c].parent = t
      BY DEF ChildrenSound
    <2>1. CASE t = par /\ c = s
      BY <1>8, <1>10, <2>1
    <2>2. CASE c # s
      <3>1. t # s /\ c \in table[t].children
        BY <1>5, <1>8, <1>9, <1>10, <2>2
      <3>2. c \in Slots
        BY <1>1, <3>1, FieldTypes
      <3>3. table[c].used /\ table[c].parent = t
        BY <3>1 DEF IndInv, ChildrenSound
      <3> QED BY <1>11, <2>2, <3>2, <3>3
    <2>3. CASE t # par /\ c = s
      <3>1. t # s /\ c \in table[t].children
        BY <1>8, <1>10, <2>3
      <3>2. table[c].used
        BY <3>1 DEF IndInv, ChildrenSound
      <3> QED BY <1>3, <2>3, <3>2
    <2> QED BY <2>1, <2>2, <2>3
  <1>18. UnusedBlank' /\ NotOwnParent'
    BY <1>1, <1>3, <1>8, <1>10, <1>11, SMTT(30) DEF IndInv, UnusedBlank,
       NotOwnParent
  <1>19. \A t \in Slots :
           /\ Len(table'[t].signals) < PROCESS_SIGNAL_QUEUE_CAPACITY
           /\ Len(table'[t].socket) < PROCESS_SOCKET_CAPACITY
           /\ table'[t].status = "RUN" => table[t].status = "RUN"
    BY <1>8, <1>10, <1>11, ProcessAssumption DEF IndInv, TypeOK
  <1>20. table'[Kernel].status = "THREAD"
    BY <1>3, <1>11, SlotFacts DEF IndInv, OnlyCurrentRuns
  <1>21. /\ TypeOK' /\ CursorLinked' /\ OnlyCurrentRuns'
         /\ SignalsDelivered' /\ DeliveryPass'
    <2>1. Linked \subseteq Linked'
      BY <1>13
    <2>2. /\ next_pid' \in Nat /\ list' \in Seq(Slots)
          /\ table' \in [Slots -> ProcessType]
      BY <1>1, <1>4, <1>10, <1>12
    <2>3. Calling /\ UNCHANGED <<cursor, current, pending, pc, position>>
      BY <1>1, <1>4
    <2>4. /\ \A t \in Slots : Len(table'[t].signals) < PROCESS_SIGNAL_QUEUE_CAPACITY
          /\ \A t \in Slots : Len(table'[t].socket) < PROCESS_SOCKET_CAPACITY
          /\ \A t \in Slots : table'[t].status = "RUN" => table[t].status = "RUN"
      BY <1>19
    <2> QED BY <1>20, <2>1, <2>2, <2>3, <2>4, CallStep
  <1> QED BY <1>14, <1>15, <1>16, <1>17, <1>18, <1>21 DEF IndInv

(* Dropping the i-th of a sequence of distinct elements.                   *)
Distinct(l) == \A j, k \in DOMAIN l : l[j] = l[k] => j = k

Dropped(S, l, i, d) ==
  /\ d \in Seq(S)
  /\ Distinct(d)
  /\ \A j \in DOMAIN d : \E a \in DOMAIN l : d[j] = l[a] /\ l[a] # l[i]
  /\ \A a \in DOMAIN l : l[a] # l[i] => \E j \in DOMAIN d : d[j] = l[a]
  /\ i > 1 => d # <<>> /\ d[1] = l[1]

LEMMA DropFacts ==
  ASSUME NEW S, NEW l \in Seq(S), NEW i \in DOMAIN l, Distinct(l),
         NEW d, d = DropAt(l, i)
  PROVE  Dropped(S, l, i, d)
  <1> DEFINE n == Len(l) - 1
             f(j) == IF j < i THEN l[j] ELSE l[j + 1]
  <1>1. Len(l) \in Nat /\ DOMAIN l = 1 .. Len(l) /\ n \in Nat /\ i \in Nat
        /\ \A j, k \in 1 .. Len(l) : l[j] = l[k] => j = k
    BY DEF Distinct
  <1>2. \A j \in 1 .. n : f(j) \in S
    BY <1>1
  <1>3. d = [j \in 1 .. n |-> f(j)]
    BY DEF DropAt
  <1>4. d \in Seq(S) /\ DOMAIN d = 1 .. n /\ Len(d) = n
    <2> HIDE DEF f, n
    <2> QED BY <1>1, <1>2, <1>3
  <1>5. \A j \in 1 .. n : d[j] = IF j < i THEN l[j] ELSE l[j + 1]
    BY <1>3
  <1>6. \A j, k \in DOMAIN d : d[j] = d[k] => j = k
    <2> SUFFICES ASSUME NEW j \in 1 .. n, NEW k \in 1 .. n, d[j] = d[k]
                 PROVE  j = k
      BY <1>4
    <2>1. PICK a \in 1 .. Len(l) : d[j] = l[a] /\ a = IF j < i THEN j ELSE j + 1
      BY <1>1, <1>5
    <2>2. PICK b \in 1 .. Len(l) : d[k] = l[b] /\ b = IF k < i THEN k ELSE k + 1
      BY <1>1, <1>5
    <2>3. a = b
      BY <1>1, <2>1, <2>2, Zenon
    <2> QED BY <1>1, <2>1, <2>2, <2>3
  <1>7. ASSUME NEW j \in DOMAIN d
        PROVE  \E a \in DOMAIN l : d[j] = l[a] /\ l[a] # l[i]
    <2>1. CASE j < i
      BY <1>1, <1>4, <1>5, <2>1
    <2>2. CASE ~(j < i)
      <3>1. j + 1 \in 1 .. Len(l) /\ j + 1 # i /\ d[j] = l[j + 1]
        BY <1>1, <1>4, <1>5, <2>2
      <3> QED BY <1>1, <3>1
    <2> QED BY <2>1, <2>2
  <1>7a. ASSUME NEW a \in DOMAIN l, l[a] # l[i]
         PROVE  \E j \in DOMAIN d : d[j] = l[a]
    <2>1. CASE a < i
      <3>1. a \in 1 .. n /\ d[a] = l[a]
        BY <1>1, <1>5, <2>1
      <3> QED BY <1>4, <3>1
    <2>2. CASE a > i
      <3>1. a - 1 \in 1 .. n /\ d[a - 1] = l[a]
        BY <1>1, <1>5, <2>2
      <3> QED BY <1>4, <3>1
    <2> QED BY <1>1, <1>7a, <2>1, <2>2
  <1>8. i > 1 => d # <<>> /\ d[1] = l[1]
    BY <1>1, <1>4, <1>5
  <1> QED BY <1>4, <1>6, <1>7, <1>7a, <1>8 DEF Dropped, Distinct

(* process_release of c, for a process_wait that also gives its caller the *)
(* status st, or for a creation that is undone.                            *)
Releases(c, st) ==
  /\ Calling /\ c # Kernel /\ c # current
  /\ \/ st = table[current].status
     \/ table[current].status = "WAITING" /\ st = "THREAD"
  /\ table[c].status = "ZOMBIE" \/ table[c].parent = Kernel
  /\ table' = ReleasedTable([table EXCEPT ![current].status = st], c)
  /\ cursor' = CursorAfterRelease(c) /\ list' = DropAt(list, IndexOf(c))
  /\ next_pid' \in {next_pid, next_pid + 1}
  /\ UNCHANGED <<current, pending, pc, position>>

LEMMA ReleaseStep ==
  ASSUME IndInv, NEW c \in Linked, NEW st, Releases(c, st)
  PROVE  IndInv'
  <1>1. /\ table \in [Slots -> ProcessType] /\ c \in Slots /\ table[c].used
        /\ current \in Slots /\ table[current].used
        /\ list \in Seq(Slots) /\ Len(list) \in Nat /\ DOMAIN list = 1 .. Len(list)
        /\ Linked = {s \in Slots : table[s].used}
        /\ table[c] \in ProcessType /\ table[current] \in ProcessType
    BY LinkedFacts DEF IndInv, TypeOK
  <1>2. /\ Calling
        /\ cursor' = CursorAfterRelease(c) /\ list' = DropAt(list, IndexOf(c))
        /\ UNCHANGED <<current, pending, pc, position>>
    BY DEF Releases
  <1>2n. next_pid \in Nat /\ next_pid' \in Nat /\ next_pid' >= next_pid
    BY DEF Releases, IndInv, TypeOK
  <1>3. c # Kernel /\ c # current
    BY DEF Releases
  (* The table with the caller's new status, before the release.           *)
  <1>4. PICK q : q = [table[current] EXCEPT !.status = st]
    BY Zenon
  <1>5. PICK t : t = [table EXCEPT ![current] = q]
    BY Zenon
  <1>6. /\ q \in ProcessType /\ SameKin(q, table[current]) /\ q.status = st
        /\ q.wait_target_pid = table[current].wait_target_pid
        /\ q.signals = table[current].signals /\ q.socket = table[current].socket
    <2>1. st \in Statuses
      BY <1>1, FieldTypes DEF Statuses, Releases
    <2> QED BY <1>1, <1>4, <2>1, SetStatus
  <1>7. /\ t \in [Slots -> ProcessType]
        /\ \A s \in Slots :
             /\ SameKin(t[s], table[s])
             /\ t[s].wait_target_pid = table[s].wait_target_pid
             /\ t[s].signals = table[s].signals /\ t[s].socket = table[s].socket
             /\ t[s].status # table[s].status =>
                  s = current /\ table[s].status = "WAITING" /\ t[s].status = "THREAD"
             /\ ~table[s].used => t[s] = table[s]
    <2>1. t \in [Slots -> ProcessType] /\ t[current] = q
          /\ \A s \in Slots \ {current} : t[s] = table[s]
      BY <1>1, <1>5, <1>6
    <2> QED BY <1>1, <1>6, <2>1, Zenon DEF SameKin, Releases
  <1>8. table' = ReleasedTable(t, c)
    BY <1>1, <1>4, <1>5 DEF Releases
  (* The table after the release.                                          *)
  <1>9. PICK r : r = WithChildren(t[table[c].parent], t[table[c].parent].children \ {c})
    OBVIOUS
  <1>9a. /\ table' = [s \in Slots |-> IF s = c THEN Blank
                                      ELSE IF s = table[c].parent THEN r
                                      ELSE t[s]]
         /\ table'[c] = Blank
         /\ \A s \in Slots \ {c} : s # table[c].parent => table'[s] = t[s]
         /\ \A s \in Slots \ {c} : s = table[c].parent => table'[s] = r
    <2>1. t[c].parent = table[c].parent
      BY <1>1, <1>7 DEF SameKin
    <2>2. table' = [s \in Slots |-> IF s = c THEN Blank
                                    ELSE IF s = table[c].parent THEN r
                                    ELSE t[s]]
      BY <1>8, <1>9, <2>1, Zenon DEF ReleasedTable, WithChildren
    <2> QED BY <1>1, <2>2
  <1>9b. table[c].parent \in Slots =>
           LET p == table[c].parent IN
           /\ r \in ProcessType /\ r.used = t[p].used /\ r.pid = t[p].pid
           /\ r.parent = t[p].parent /\ r.children = t[p].children \ {c}
           /\ r.status = t[p].status
           /\ r.wait_target_pid = t[p].wait_target_pid
           /\ r.signals = t[p].signals /\ r.socket = t[p].socket
           /\ t[p].children = {} => r = t[p]
    <2> SUFFICES ASSUME NEW p \in Slots, p = table[c].parent
                 PROVE  /\ r \in ProcessType /\ r.used = t[p].used /\ r.pid = t[p].pid
                        /\ r.parent = t[p].parent /\ r.children = t[p].children \ {c}
                        /\ r.status = t[p].status
                        /\ r.wait_target_pid = t[p].wait_target_pid
                        /\ r.signals = t[p].signals /\ r.socket = t[p].socket
                        /\ t[p].children = {} => r = t[p]
      OBVIOUS
    <2>1. PICK cs : cs = t[p].children \ {c}
      BY Zenon
    <2>2. t[p] \in ProcessType /\ cs \subseteq Slots
      BY <1>7, <2>1, FieldTypes, SMTT(30)
    <2>3. r = WithChildren(t[p], cs)
      BY <1>9, <2>1
    <2>4. /\ r \in ProcessType /\ r.used = t[p].used /\ r.pid = t[p].pid
          /\ r.parent = t[p].parent /\ r.children = cs
          /\ r.status = t[p].status
          /\ r.wait_target_pid = t[p].wait_target_pid
          /\ r.signals = t[p].signals /\ r.socket = t[p].socket
          /\ cs = t[p].children => r = t[p]
      <3>1. PICK u \in ProcessType : u = t[p]
        BY <2>2
      <3>2. r = WithChildren(u, cs)
        BY <2>3, <3>1
      <3>3. /\ r \in ProcessType /\ r.used = u.used /\ r.pid = u.pid
            /\ r.parent = u.parent /\ r.children = cs
            /\ r.status = u.status
            /\ r.wait_target_pid = u.wait_target_pid
            /\ r.signals = u.signals /\ r.socket = u.socket
            /\ cs = u.children => r = u
        BY <2>2, <3>2, SetChildren
      <3> QED BY <3>1, <3>3
    <2>5. t[p].children = {} => cs = t[p].children
      BY <2>1, SMTT(30)
    <2> QED BY <2>1, <2>4, <2>5, SMTT(30)
  <1>9t. table' \in [Slots -> ProcessType]
    BY <1>7, <1>9a, <1>9b, BlankFacts
  <1>9k. \A s \in Slots \ {c} :
           /\ table'[s].used = table[s].used
           /\ table'[s].pid = table[s].pid
           /\ table'[s].parent = table[s].parent
    <2> SUFFICES ASSUME NEW s \in Slots \ {c}
                 PROVE  /\ table'[s].used = table[s].used
                        /\ table'[s].pid = table[s].pid
                        /\ table'[s].parent = table[s].parent
      OBVIOUS
    <2>1. CASE s = table[c].parent
      <3>1. table'[s] = r
        BY <1>9a, <2>1, SMTT(30)
      <3>2. SameKin(t[s], table[s])
        BY <1>7, SMTT(30)
      <3>3. /\ r.used = t[s].used /\ r.pid = t[s].pid /\ r.parent = t[s].parent
            /\ r.children = t[s].children \ {c}
        BY <1>9b, <2>1
      <3> QED BY <3>1, <3>2, <3>3 DEF SameKin
    <2>2. CASE s # table[c].parent
      <3>1. table'[s] = t[s]
        BY <1>9a, <2>2, SMTT(30)
      <3>2. SameKin(t[s], table[s])
        BY <1>7
      <3> QED BY <2>2, <3>1, <3>2, SMTT(30) DEF SameKin
    <2> QED BY <2>1, <2>2
  <1>9c. \A s \in Slots \ {c} :
           /\ table'[s].children \subseteq table[s].children
           /\ s = table[c].parent => c \notin table'[s].children
    <2> SUFFICES ASSUME NEW s \in Slots \ {c}
                 PROVE  /\ table'[s].children \subseteq table[s].children
                        /\ s = table[c].parent => c \notin table'[s].children
      OBVIOUS
    <2>1. CASE s = table[c].parent
      <3>1. table'[s] = r
        BY <1>9a, <2>1
      <3>2. SameKin(t[s], table[s])
        BY <1>7
      <3>3. /\ r.used = t[s].used /\ r.pid = t[s].pid /\ r.parent = t[s].parent
            /\ r.children = t[s].children \ {c}
        BY <1>9b, <2>1
      <3> QED BY <3>1, <3>2, <3>3, SMTT(30) DEF SameKin
    <2>2. CASE s # table[c].parent
      <3>1. table'[s] = t[s]
        BY <1>9a, <2>2
      <3>2. SameKin(t[s], table[s])
        BY <1>7
      <3> QED BY <2>2, <3>1, <3>2, SMTT(30) DEF SameKin
    <2> QED BY <2>1, <2>2, SMTT(30)
  <1>9q. \A s \in Slots \ {c} :
           /\ table'[s].wait_target_pid = table[s].wait_target_pid
           /\ table'[s].signals = table[s].signals
           /\ table'[s].socket = table[s].socket
    <2> SUFFICES ASSUME NEW s \in Slots \ {c}
                 PROVE  /\ table'[s].wait_target_pid = table[s].wait_target_pid
                        /\ table'[s].signals = table[s].signals
                        /\ table'[s].socket = table[s].socket
      BY SMTT(30)
    <2>1. CASE s = table[c].parent
      <3>1. table'[s] = r
        BY <1>9a, <2>1
      <3> QED BY <1>7, <1>9b, <2>1, <3>1, Zenon
    <2>2. CASE s # table[c].parent
      <3>1. table'[s] = t[s]
        BY <1>9a, <2>2
      <3> QED BY <1>7, <2>2, <3>1
    <2> QED BY <2>1, <2>2
  <1>9s. \A s \in Slots \ {c} :
           \/ table'[s].status = table[s].status
           \/ table[s].status = "WAITING" /\ table'[s].status = "THREAD"
    <2> SUFFICES ASSUME NEW s \in Slots \ {c}
                 PROVE  \/ table'[s].status = table[s].status
                        \/ table[s].status = "WAITING" /\ table'[s].status = "THREAD"
      BY SMTT(30)
    <2>1. CASE s = table[c].parent
      <3>1. table'[s] = r
        BY <1>9a, <2>1
      <3> QED BY <1>7, <1>9b, <2>1, <3>1, SMTT(30)
    <2>2. CASE s # table[c].parent
      <3>1. table'[s] = t[s]
        BY <1>9a, <2>2
      <3> QED BY <1>7, <2>2, <3>1
    <2> QED BY <2>1, <2>2
  <1>9u. \A s \in Slots \ {c} : ~table[s].used => table'[s] = Blank
    <2> SUFFICES ASSUME NEW s \in Slots \ {c}, ~table[s].used
                 PROVE  table'[s] = Blank
      OBVIOUS
    <2>1. table[s] = Blank
      BY DEF IndInv, UnusedBlank
    <2>2. t[s] = Blank
      BY <1>7, <2>1, SMTT(30)
    <2>3. CASE s = table[c].parent
      BY <1>9a, <1>9b, <2>2, <2>3, BlankFacts
    <2> QED BY <1>9a, <2>2, <2>3
  (* The list after the release.                                           *)
  <1>10. /\ IndexOf(c) \in 1 .. Len(list) /\ list[IndexOf(c)] = c /\ IndexOf(c) > 1
         /\ list[1] = Kernel
         /\ \A i, j \in 1 .. Len(list) : list[i] = list[j] => i = j
    BY <1>1, <1>3, IndexFacts DEF IndInv, ListMatchesTable
  <1>11. /\ list' \in Seq(Slots) /\ Linked' = Linked \ {c}
         /\ \A i, j \in DOMAIN list' : list'[i] = list'[j] => i = j
         /\ list' # <<>> /\ list'[1] = Kernel
    <2>1. PICK i \in DOMAIN list : i = IndexOf(c) /\ list[i] = c /\ i > 1
      BY <1>1, <1>10
    <2>2. PICK d : d = DropAt(list, i)
      OBVIOUS
    <2>3. Distinct(list)
      BY <1>1, <1>10 DEF Distinct
    <2>4. Dropped(Slots, list, i, d)
      BY <1>1, <2>2, <2>3, DropFacts
    <2>5. list' = d
      BY <1>2, <2>1, <2>2
    <2>6. Linked' = Linked \ {c}
      BY <2>1, <2>4, <2>5 DEF Linked, Dropped
    <2> QED BY <1>10, <2>1, <2>4, <2>5, <2>6 DEF Dropped, Distinct
  <1>12. ListMatchesTable'
    <2>1. Linked' = {s \in Slots : table'[s].used}
      BY <1>1, <1>9a, <1>9k, <1>11, BlankFacts
    <2> QED BY <1>11, <2>1, SMTT(30) DEF ListMatchesTable
  <1>13. PidsUnique'
    <2>1. \A s \in Linked' : s \in Linked /\ table'[s].pid = table[s].pid
      BY <1>1, <1>9k, <1>11
    <2>2. \A s, u \in Linked : /\ table[s].pid \in 1 .. next_pid - 1
                               /\ table[s].pid = table[u].pid => s = u
      BY DEF IndInv, PidsUnique
    <2>3. \A s \in Linked : table[s].pid \in 1 .. next_pid' - 1
      BY <1>2n, <2>2, SMTT(30)
    <2> QED BY <2>1, <2>2, <2>3, SMTT(30) DEF PidsUnique
  <1>14. NoLostWakeup'
    <2> SUFFICES ASSUME NEW s \in Slots, table'[s].status = "WAITING"
                 PROVE  \E d \in Slots : /\ table'[d].used
                                          /\ table'[d].parent = s
                                          /\ table'[d].pid = table'[s].wait_target_pid
                                          /\ table'[d].status # "ZOMBIE"
      BY DEF NoLostWakeup
    <2>1. s # c /\ table[s].status = "WAITING"
      BY <1>9a, <1>9s, BlankFacts, SMTT(30)
    <2>2. PICK d \in Slots : /\ table[d].used
                              /\ table[d].parent = s
                              /\ table[d].pid = table[s].wait_target_pid
                              /\ table[d].status # "ZOMBIE"
      BY <2>1 DEF IndInv, NoLostWakeup
    <2>3. d # c
      <3>1. s # Kernel
        BY <2>1, SMTT(30) DEF IndInv, OnlyCurrentRuns
      <3> QED BY <2>2, <3>1 DEF Releases
    <2>4. table'[d].status # "ZOMBIE"
      BY <1>9s, <2>2, <2>3
    <2> QED BY <1>9k, <1>9q, <2>1, <2>2, <2>3, <2>4
  <1>15. ChildrenSound'
    <2> SUFFICES ASSUME NEW p \in Slots, NEW d \in table'[p].children
                 PROVE  table'[d].used /\ table'[d].parent = p
      BY DEF ChildrenSound
    <2>1. p # c /\ d \in table[p].children
      BY <1>9a, <1>9c, BlankFacts
    <2>2. d \in Slots /\ table[d].used /\ table[d].parent = p
      BY <1>1, <2>1, FieldTypes DEF IndInv, ChildrenSound
    <2>3. d # c
      BY <1>9c, <2>1, <2>2
    <2> QED BY <1>9k, <2>2, <2>3
  <1>16. UnusedBlank' /\ NotOwnParent'
    <2>1. UnusedBlank'
      BY <1>9a, <1>9k, <1>9u DEF UnusedBlank
    <2>2. ASSUME NEW s \in Slots PROVE table'[s].parent # s
      <3>1. CASE s = c
        BY <1>9a, <3>1, BlankFacts, SlotFacts
      <3>2. CASE s # c
        BY <1>9k, <3>2 DEF IndInv, NotOwnParent
      <3> QED BY <3>1, <3>2, SMTT(30)
    <2> QED BY <2>1, <2>2 DEF NotOwnParent
  <1>17. cursor' \in Linked'
    <2>1. Head(list) = Kernel /\ Kernel \in Linked
      <3>1. list \in Seq(Slots) /\ list # <<>> /\ list[1] = Kernel
        BY <1>1, <1>10 DEF IndInv, ListMatchesTable
      <3>2. Head(list) = list[1] /\ 1 \in DOMAIN list
        BY <3>1
      <3> QED BY <3>1, <3>2 DEF Linked
    <2> QED BY <1>2, <1>3, <1>11, <2>1 DEF CursorAfterRelease, IndInv, CursorLinked
  <1>18. \A s \in Slots :
           /\ Len(table'[s].signals) < PROCESS_SIGNAL_QUEUE_CAPACITY
           /\ Len(table'[s].socket) < PROCESS_SOCKET_CAPACITY
           /\ table'[s].status = "RUN" => table[s].status = "RUN"
    <2> SUFFICES ASSUME NEW s \in Slots
                 PROVE  /\ Len(table'[s].signals) < PROCESS_SIGNAL_QUEUE_CAPACITY
                        /\ Len(table'[s].socket) < PROCESS_SOCKET_CAPACITY
                        /\ table'[s].status = "RUN" => table[s].status = "RUN"
      OBVIOUS
    <2>1. CASE s = c
      BY <1>9a, <2>1, BlankFacts, ProcessAssumption
    <2>2. CASE s # c
      <3>1. /\ Len(table[s].signals) < PROCESS_SIGNAL_QUEUE_CAPACITY
            /\ Len(table[s].socket) < PROCESS_SOCKET_CAPACITY
        BY DEF IndInv, TypeOK
      <3>2. table'[s].signals = table[s].signals /\ table'[s].socket = table[s].socket
        BY <1>9q, <2>2
      <3>3. table'[s].status = "RUN" => table[s].status = "RUN"
        BY <1>9s, <2>2
      <3> QED BY <3>1, <3>2, <3>3
    <2> QED BY <2>1, <2>2
  <1>19. TypeOK'
    BY <1>1, <1>2, <1>2n, <1>9t, <1>11, <1>17, <1>18 DEF IndInv, TypeOK
  <1>20. CursorLinked'
    BY <1>2, <1>3, <1>11, <1>17, SMTT(30) DEF IndInv, CursorLinked
  <1>21. OnlyCurrentRuns'
    BY <1>2, <1>3, <1>9s, <1>18, SlotFacts, SMTT(30) DEF IndInv, OnlyCurrentRuns
  <1>22. SignalsDelivered' /\ DeliveryPass'
    BY <1>2 DEF Calling, SignalsDelivered, DeliveryPass
  <1> QED BY <1>12, <1>13, <1>14, <1>15, <1>16, <1>19, <1>20, <1>21, <1>22 DEF IndInv

(* process_wait releases a zombie.                                         *)
LEMMA WaitCollectsStep ==
  ASSUME IndInv, NEW c \in Linked, WaitCollects(c)
  PROVE  IndInv'
  <1>1. /\ Calling /\ MayWaitFor(c) /\ table[c].status = "ZOMBIE"
        /\ cursor' = CursorAfterRelease(c) /\ list' = DropAt(list, IndexOf(c))
        /\ UNCHANGED <<current, next_pid, pending, pc, position>>
    BY DEF WaitCollects
  <1>2. c # Kernel /\ c # current
    BY <1>1, LinkedFacts DEF IndInv, OnlyCurrentRuns, NotOwnParent, MayWaitFor
  <1>3. PICK st : st = IF table[current].status = "WAITING" THEN "THREAD"
                       ELSE table[current].status
    OBVIOUS
  <1>4. table' = ReleasedTable([table EXCEPT ![current].status = st], c)
    <2>1. [table EXCEPT ![current].status = IF @ = "WAITING" THEN "THREAD" ELSE @]
            = [table EXCEPT ![current].status = st]
      BY <1>3
    <2> QED BY <2>1 DEF WaitCollects
  <1>5. \/ st = table[current].status
        \/ table[current].status = "WAITING" /\ st = "THREAD"
    BY <1>3
  <1>6. next_pid' \in {next_pid, next_pid + 1}
    BY <1>1
  <1>7. Releases(c, st)
    BY <1>1, <1>2, <1>4, <1>5, <1>6 DEF Releases
  <1> QED BY <1>7, ReleaseStep

----------------------------------------------------------------------------
(* The invariant holds of every behaviour.                                 *)

LEMMA NextStep == IndInv /\ [Next]_vars => IndInv'
  <1> SUFFICES ASSUME IndInv, [Next]_vars PROVE IndInv'
    OBVIOUS
  <1>1. ASSUME NEW own \in Owners, CreateOwned(own) PROVE IndInv'
    BY <1>1, CreateStep, ProcessAssumption DEF CreateOwned, IndInv, CursorLinked
  <1>2. CASE ExecFn
    <2>1. table[current].owner \in Nat /\ current \in Linked
      BY FieldTypes DEF IndInv, TypeOK, CursorLinked
    <2> QED BY <1>2, <2>1, CreateStep DEF ExecFn
  <1>3. ASSUME NEW src \in Linked, Fork(src) PROVE IndInv'
    <2>1. table[src].owner \in Nat
      BY LinkedFacts, FieldTypes DEF IndInv, TypeOK
    <2> QED BY <1>3, <2>1, CreateStep DEF Fork
  <1>4. CASE CreateFails \/ Tick \/ RunPending \/ NothingToRun
    BY <1>4, IdleStep
  <1>5. CASE Call
    BY <1>1, <1>2, <1>3, <1>4, <1>5, WaitBlocksStep, WaitCollectsStep,
       SendSignalStep, SocketSendStep, SocketRecvStep, SysExitStep DEF Call
  <1>6. CASE LeaveCPU
    BY <1>6, YieldStep, EntryReturnsStep, ProcessAssumption DEF LeaveCPU
  <1>7. CASE Scheduler
    BY <1>4, <1>7, DeliverPendingStep, ScheduleNextStep DEF Scheduler
  <1>8. CASE UNCHANGED vars
    <2>1. Linked' = Linked
      BY <1>8 DEF vars, Linked
    <2>2. TypeOK' /\ ListMatchesTable' /\ CursorLinked' /\ PidsUnique'
      <3>1. TypeOK'
        BY <1>8 DEF vars, IndInv, TypeOK
      <3>2. ListMatchesTable'
        BY <1>8, <2>1 DEF vars, IndInv, ListMatchesTable
      <3>3. CursorLinked'
        BY <1>8, <2>1 DEF vars, IndInv, CursorLinked
      <3>4. PidsUnique'
        BY <1>8, <2>1 DEF vars, IndInv, PidsUnique
      <3> QED BY <3>1, <3>2, <3>3, <3>4
    <2>3. NoLostWakeup' /\ OnlyCurrentRuns'
      BY <1>8 DEF vars, IndInv, NoLostWakeup, OnlyCurrentRuns
    <2>4. SignalsDelivered' /\ DeliveryPass'
      BY <1>8 DEF vars, IndInv, SignalsDelivered, DeliveryPass, Settled
    <2>5. ChildrenSound' /\ UnusedBlank' /\ NotOwnParent'
      BY <1>8, <2>1 DEF vars, IndInv, ChildrenSound, UnusedBlank, NotOwnParent
    <2> QED BY <2>2, <2>3, <2>4, <2>5 DEF IndInv
  <1> QED BY <1>4, <1>5, <1>6, <1>7, <1>8 DEF Next

(* The inductive invariant holds in every state of the process manager.    *)
THEOREM Invariance == Spec => []IndInv
  BY InitStep, NextStep, PTL DEF Spec

(* Every table slot, queue and pointer has its type, and no ring of        *)
(* signals or socket words overruns, for rings and tables of any size.     *)
THEOREM TypeCorrect == Spec => []TypeOK
  <1>1. IndInv => TypeOK
    BY DEF IndInv
  <1> QED BY <1>1, Invariance, PTL

(* The chain through the next pointers and the used flags agree whatever   *)
(* is created, forked and collected, and the cursor and the current        *)
(* process are always members of the chain: pick_next_process terminates.  *)
THEOREM ListSound == Spec => [](ListMatchesTable /\ CursorLinked)
  <1>1. IndInv => ListMatchesTable /\ CursorLinked
    BY DEF IndInv
  <1> QED BY <1>1, Invariance, PTL

(* Two processes never share a pid, however often slots are reused.        *)
THEOREM PidsDistinct == Spec => []PidsUnique
  <1>1. IndInv => PidsUnique
    BY DEF IndInv
  <1> QED BY <1>1, Invariance, PTL

(* A process that blocks in process_wait still has its wakeup to come.     *)
THEOREM WakeupPending == Spec => []NoLostWakeup
  <1>1. IndInv => NoLostWakeup
    BY DEF IndInv
  <1> QED BY <1>1, Invariance, PTL

(* At most one process is in state RUN, the one on the CPU, and nothing    *)
(* ends or blocks the kernel process.                                      *)
THEOREM OneRuns == Spec => []OnlyCurrentRuns
  <1>1. IndInv => OnlyCurrentRuns
    BY DEF IndInv
  <1> QED BY <1>1, Invariance, PTL

(* A tick delivers every queued signal before it picks a process.          *)
THEOREM TickDelivers == Spec => []SignalsDelivered
  <1>1. IndInv => SignalsDelivered
    BY DEF IndInv
  <1> QED BY <1>1, Invariance, PTL

(* A children list never holds a released slot or somebody else's child.   *)
THEOREM NoStaleChild == Spec => []ChildrenSound
  <1>1. IndInv => ChildrenSound
    BY DEF IndInv
  <1> QED BY <1>1, Invariance, PTL
=============================================================================
