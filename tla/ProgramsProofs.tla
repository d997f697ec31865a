-------------------------- MODULE ProgramsProofs ---------------------------
(* Theorems about Programs, the entry functions and commands that run on   *)
(* the process manager, for every value of their constants.                *)
EXTENDS Programs, ProcessProofs

LEMMA NoneFacts ==
  /\ ProgramSound(None) /\ None.entry = "none"
  /\ \A limit \in Limits :
       ProgramSound(Counter(limit)) /\ Counter(limit).entry = "counter"
  /\ ProgramSound(Receiver) /\ Receiver.entry = "receiver"
  /\ \A i \in Nat, word \in Values :
       /\ ProgramSound(Sender(i, word))
       /\ Sender(i, word).entry = "sender" /\ Sender(i, word).arg0 = i
  <1>1. ProgramSound(None) /\ None.entry = "none"
    BY DEF None, ProgramSound
  <1>2. ASSUME NEW limit \in Limits
        PROVE  ProgramSound(Counter(limit)) /\ Counter(limit).entry = "counter"
    <2>1. limit \in Nat
      BY ProgramsAssumption
    <2>2. PICK c : c = Counter(limit)
      OBVIOUS
    <2>3. c = [entry |-> "counter", arg0 |-> 0, arg1 |-> limit, value |-> 0,
               at |-> "loop", sent |-> 0]
      BY <2>2, Zenon DEF Counter, None
    <2>4. ProgramSound(c) /\ c.entry = "counter"
      BY <2>1, <2>3 DEF ProgramSound
    <2> QED BY <2>2, <2>4
  <1>3. ProgramSound(Receiver) /\ Receiver.entry = "receiver"
    <2>1. PICK c : c = Receiver
      OBVIOUS
    <2>2. c = [entry |-> "receiver", arg0 |-> 0, arg1 |-> 0, value |-> 0,
               at |-> "loop", sent |-> 0]
      BY <2>1 DEF Receiver, None
    <2>3. ProgramSound(c) /\ c.entry = "receiver"
      BY <2>2 DEF ProgramSound
    <2> QED BY <2>1, <2>3
  <1>4. ASSUME NEW i \in Nat, NEW word \in Values
        PROVE  /\ ProgramSound(Sender(i, word))
               /\ Sender(i, word).entry = "sender" /\ Sender(i, word).arg0 = i
    <2>1. word \in Nat
      BY ProgramsAssumption
    <2>2. PICK c : c = Sender(i, word)
      OBVIOUS
    <2>3. c = [entry |-> "sender", arg0 |-> i, arg1 |-> word, value |-> 0,
               at |-> "loop", sent |-> 0]
      BY <2>2, Zenon DEF Sender, None
    <2>4. ProgramSound(c) /\ c.entry = "sender" /\ c.arg0 = i
      BY <2>1, <2>3 DEF ProgramSound
    <2> QED BY <2>2, <2>4
  <1> QED BY <1>1, <1>2, <1>3, <1>4

(* fork: the child of a program in its loop or past it starts over.        *)
LEMMA RestartFacts ==
  ASSUME NEW p, ProgramSound(p), p.entry # "none"
  PROVE  ProgramSound(Restarted(p)) /\ Restarted(p).entry = p.entry
  <1>1. PICK v : v = IF p.entry = "counter" THEN p.arg0 ELSE 0
    OBVIOUS
  <1>2. PICK q : q = [p EXCEPT !.value = v, !.at = "loop", !.sent = 0]
    OBVIOUS
  <1>3. q = Restarted(p)
    BY <1>1, <1>2 DEF Restarted
  <1>4. v \in Nat /\ p.arg0 \in Nat /\ p.arg1 \in Nat
        /\ p.entry \in {"none", "counter", "receiver", "sender"}
    BY <1>1 DEF ProgramSound
  <1>5. q = [entry |-> p.entry, arg0 |-> p.arg0, arg1 |-> p.arg1, value |-> v,
             at |-> "loop", sent |-> 0]
    BY <1>2, Zenon DEF ProgramSound
  <1>6. p.entry = "counter" => p.arg0 = 0 /\ v <= p.arg1
    BY <1>1, <1>4 DEF ProgramSound
  <1>6s. p.entry = "sender" => p.arg1 \in Values
    BY DEF ProgramSound
  <1>7. /\ q.entry = p.entry /\ q.arg0 = p.arg0 /\ q.arg1 = p.arg1 /\ q.value = v
        /\ q.at = "loop" /\ q.sent = 0
        /\ q \in [entry: {"none", "counter", "receiver", "sender"}, arg0: Nat, arg1: Nat,
                  value: Nat, at: {"loop", "return"}, sent: {0, 1}]
    BY <1>4, <1>5
  <1>8. ProgramSound(q)
    BY <1>4, <1>6, <1>6s, <1>7 DEF ProgramSound
  <1> QED BY <1>3, <1>7, <1>8

(* A step that changes the program of one slot at most.                    *)
LEMMA FilledStep ==
  ASSUME SlotsFilled, NEW s \in Slots, NEW q, ProgramSound(q),
         program' = [program EXCEPT ![s] = q],
         \A x \in Slots \ {s} : x \in Linked' <=> x \in Linked,
         s \in Linked' \ {Kernel} <=> q.entry # "none"
  PROVE  SlotsFilled'
  <1>1. DOMAIN program' = Slots /\ program'[s] = q
        /\ \A x \in Slots \ {s} : program'[x] = program[x]
    BY DEF SlotsFilled
  <1>2. ASSUME NEW x \in Slots
        PROVE  /\ ProgramSound(program'[x])
               /\ x \in Linked' \ {Kernel} <=> program'[x].entry # "none"
    BY <1>1 DEF SlotsFilled
  <1> QED BY <1>1, <1>2 DEF SlotsFilled, ProgramSound

LEMMA FilledKept ==
  ASSUME SlotsFilled, UNCHANGED <<program, list>>
  PROVE  SlotsFilled'
  BY DEF SlotsFilled, Linked, ProgramSound, None

(* Outside a pass the rings may fill.                                      *)
LEMMA OpenInShell ==
  ASSUME pc' = "shell"
  PROVE  RingsOpen'
  BY DEF RingsOpen, ToSend, Runs

LEMMA NoScript ==
  ASSUME script' = <<>>
  PROVE  ScriptSound'
  BY DEF ScriptSound

LEMMA ScriptKept ==
  ASSUME ScriptSound, UNCHANGED <<table, list, pc, script>>
  PROVE  ScriptSound'
  <1> SUFFICES ASSUME script # <<>>
               PROVE  ScriptSound'
    BY DEF ScriptSound
  <1>1. pc' = "shell" /\ Len(script') = 1 /\ Linked' = Linked
    BY DEF ScriptSound, Linked
  <1>2. CASE ProgramSound(script[1]) /\ script[1].entry = "counter"
    <2>1. (ProgramSound(script[1]) /\ script[1].entry = "counter")'
      BY <1>2 DEF ProgramSound, None
    <2> QED BY <1>1, <2>1 DEF ScriptSound
  <1>3. ASSUME NEW r \in Linked \ {Kernel}, NEW word \in Values,
               table[r].parent = Kernel, script[1] = Sender(table[r].pid, word)
        PROVE  ScriptSound'
    <2>1. r \in Linked' \ {Kernel} /\ table'[r].parent = Kernel
      BY <1>1, <1>3
    <2>2. script'[1] = Sender(table'[r].pid, word)
      BY <1>3
    <2> QED BY <1>1, <2>1, <2>2 DEF ScriptSound
  <1> QED BY <1>2, <1>3 DEF ScriptSound

LEMMA NewSlot ==
  ASSUME IndInv, FreeSlots # {}, list' = Append(list, Least(FreeSlots))
  PROVE  /\ Least(FreeSlots) \in Slots \ {Kernel} /\ ~table[Least(FreeSlots)].used
         /\ Linked' = Linked \cup {Least(FreeSlots)}
         /\ Least(FreeSlots) \notin Linked
  <1>1. PICK n : n = Least(FreeSlots)
    OBVIOUS
  <1>2. FreeSlots \in SUBSET Nat
    BY SlotFacts, Zenon DEF FreeSlots
  <1>3. n \in FreeSlots
    BY <1>1, <1>2, LeastFacts
  <1>4. n \in Slots \ {Kernel} /\ ~table[n].used /\ n \notin Linked
    BY <1>3, LinkedFacts DEF FreeSlots
  <1>5. Linked' = Linked \cup {n}
    <2>1. list \in Seq(Slots) /\ list' = Append(list, n)
      BY <1>1 DEF IndInv, TypeOK
    <2>2. PICK k \in Nat : k = Len(list)
      BY <2>1
    <2>3. /\ DOMAIN list = 1 .. k /\ DOMAIN list' = 1 .. k + 1
          /\ list'[k + 1] = n /\ \A i \in 1 .. k : list'[i] = list[i]
      BY <2>1, <2>2
    <2>4. ASSUME NEW x \in Linked' PROVE x \in Linked \cup {n}
      <3>1. PICK i \in 1 .. k + 1 : x = list'[i]
        BY <2>3 DEF Linked
      <3>2. CASE i = k + 1
        BY <2>3, <3>1, <3>2
      <3>3. CASE i # k + 1
        <4>1. i \in 1 .. k
          BY <2>2, <3>3
        <4> QED BY <2>3, <3>1, <4>1 DEF Linked
      <3> QED BY <3>2, <3>3
    <2>5. ASSUME NEW x \in Linked PROVE x \in Linked'
      <3>1. PICK i \in 1 .. k : x = list[i]
        BY <2>3 DEF Linked
      <3>2. i \in 1 .. k + 1
        BY <2>2
      <3> QED BY <2>3, <3>1, <3>2 DEF Linked
    <2>6. n \in Linked'
      <3>1. k + 1 \in 1 .. k + 1
        BY <2>2
      <3> QED BY <2>3, <3>1 DEF Linked
    <2> QED BY <2>4, <2>5, <2>6
  <1> QED BY <1>1, <1>4, <1>5

LEMMA OldSlot ==
  ASSUME IndInv, NEW c \in Linked, c # Kernel, list' = DropAt(list, IndexOf(c))
  PROVE  Linked' = Linked \ {c}
  <1>1. list \in Seq(Slots) /\ Distinct(list) /\ list[1] = Kernel
    BY DEF IndInv, TypeOK, ListMatchesTable, Distinct
  <1>2. PICK i \in DOMAIN list : i = IndexOf(c) /\ list[i] = c
    BY IndexFacts
  <1>3. PICK d : d = DropAt(list, i)
    OBVIOUS
  <1>4. Dropped(Slots, list, i, d)
    BY <1>1, <1>2, <1>3, DropFacts
  <1> QED BY <1>2, <1>3, <1>4 DEF Linked, Dropped

----------------------------------------------------------------------------
(* Starting programs.                                                      *)

LEMMA CreatesProgram ==
  ASSUME IndInv, SlotsFilled, NEW par \in Linked, NEW own \in Nat,
         CreateSucceeds(par, own), NEW p, ProgramSound(p), p.entry # "none",
         program' = [program EXCEPT ![Least(FreeSlots)] = p]
  PROVE  /\ IndInv' /\ SlotsFilled' /\ pc' = pc
         /\ \E n \in Linked' \ {Kernel} :
              table'[n].parent = par /\ table'[n].pid = next_pid
  <1>1. IndInv' /\ pc' = pc
    BY CreateStep DEF CreateSucceeds
  <1>2. PICK n : n = Least(FreeSlots)
    OBVIOUS
  <1>3. /\ n \in Slots \ {Kernel} /\ Linked' = Linked \cup {n} /\ n \notin Linked
    BY <1>2, NewSlot DEF CreateSucceeds
  <1>4. SlotsFilled'
    <2>1. program' = [program EXCEPT ![n] = p]
      BY <1>2
    <2>2. n \in Slots /\ \A x \in Slots \ {n} : x \in Linked' <=> x \in Linked
      BY <1>3
    <2>3. n \in Linked' \ {Kernel} <=> p.entry # "none"
      BY <1>3
    <2> QED BY <2>1, <2>2, <2>3, FilledStep, Zenon
  <1>5. table'[n] = NewProcess(next_pid, own, par)
    BY <1>2, <1>3 DEF CreateSucceeds, CreatedTable
  <1>6. table'[n].parent = par /\ table'[n].pid = next_pid
    <2>1. next_pid \in Nat /\ par \in Slots
      BY LinkedFacts DEF IndInv, TypeOK
    <2> QED BY <1>5, <2>1, NewRecord
  <1> QED BY <1>1, <1>3, <1>4, <1>6

LEMMA StartStep ==
  ASSUME IndInv, SlotsFilled, NEW p, ProgramSound(p), p.entry # "none", Start(p)
  PROVE  /\ IndInv' /\ SlotsFilled' /\ pc' = pc
         /\ \E n \in Linked' \ {Kernel} :
              table'[n].parent = current /\ table'[n].pid = next_pid
  <1>1. PICK own \in Owners : CreateSucceeds(current, own)
    BY DEF Start, CreateOwned
  <1>2. own \in Nat
    BY ProcessAssumption
  <1>3. current \in Linked
    BY DEF IndInv, CursorLinked
  <1>4. program' = [program EXCEPT ![Least(FreeSlots)] = p]
    BY DEF Start
  <1> QED BY <1>1, <1>2, <1>3, <1>4, CreatesProgram, Zenon

LEMMA NotStartedStep ==
  ASSUME IndInv, SlotsFilled, NotStarted
  PROVE  IndInv' /\ SlotsFilled' /\ pc' = pc
  <1>1. CASE CreateFails
    <2>1. UNCHANGED <<program, list, pc>>
      BY <1>1 DEF NotStarted, CreateFails
    <2> QED BY <1>1, <2>1, IdleStep, FilledKept
  <1>2. CASE UNCHANGED vars
    <2>1. UNCHANGED <<program, list, pc>>
      BY <1>2 DEF NotStarted, vars
    <2> QED BY <1>2, <2>1, NextStep, FilledKept
  <1> QED BY <1>1, <1>2 DEF NotStarted

LEMMA ExecdemoStep ==
  ASSUME ProgramsInv, Execdemo
  PROVE  ProgramsInv'
  <1>1. PICK limit \in Limits : /\ Start(Counter(limit)) \/ NotStarted
                                /\ script' = <<Counter(limit)>>
    BY DEF Execdemo
  <1>2. ProgramSound(Counter(limit)) /\ Counter(limit).entry = "counter"
    BY NoneFacts
  <1>3. IndInv' /\ SlotsFilled' /\ pc' = pc
    BY <1>1, <1>2, StartStep, NotStartedStep DEF ProgramsInv
  <1>4. pc' = "shell"
    BY <1>3 DEF Execdemo, Idle
  <1>5. ScriptSound'
    <2>1. PICK c : c = Counter(limit)
      OBVIOUS
    <2>2. Len(script') = 1 /\ script'[1] = c
      BY <1>1, <2>1
    <2>3. ProgramSound(c) /\ c.entry = "counter"
      BY <1>2, <2>1
    <2> QED BY <1>4, <2>2, <2>3 DEF ScriptSound, ProgramSound, None
  <1> QED BY <1>3, <1>4, <1>5, OpenInShell DEF ProgramsInv

LEMMA SockdemoStep ==
  ASSUME ProgramsInv, Sockdemo
  PROVE  ProgramsInv'
  <1>1. pc = "shell" /\ script = <<>>
    BY DEF Sockdemo, Idle
  <1>2. current = Kernel
    BY <1>1 DEF ProgramsInv, IndInv, OnlyCurrentRuns
  <1>3. ASSUME NotStarted, UNCHANGED script PROVE ProgramsInv'
    <2>1. IndInv' /\ SlotsFilled' /\ pc' = pc
      BY <1>3, NotStartedStep DEF ProgramsInv
    <2> QED BY <1>1, <1>3, <2>1, NoScript, OpenInShell DEF ProgramsInv
  <1>4. ASSUME Start(Receiver), NEW word \in Values,
               script' = <<Sender(next_pid, word)>>
        PROVE  ProgramsInv'
    <2>1. ProgramSound(Receiver) /\ Receiver.entry # "none"
      BY NoneFacts
    <2>2. /\ IndInv' /\ SlotsFilled' /\ pc' = pc
          /\ \E n \in Linked' \ {Kernel} :
               table'[n].parent = current /\ table'[n].pid = next_pid
      BY <1>4, <2>1, StartStep DEF ProgramsInv
    <2>3. PICK n \in Linked' \ {Kernel} :
            table'[n].parent = Kernel /\ table'[n].pid = next_pid
      BY <1>2, <2>2
    <2>4. Len(script') = 1 /\ script'[1] = Sender(table'[n].pid, word)
      BY <1>4, <2>3
    <2>5. ScriptSound'
      BY <1>1, <2>2, <2>3, <2>4, Zenon DEF ScriptSound, Sender, None
    <2> QED BY <1>1, <2>2, <2>5, OpenInShell DEF ProgramsInv
  <1> QED BY <1>3, <1>4 DEF Sockdemo

(* The program that a command has still to start.                          *)
LEMMA ScriptFacts ==
  ASSUME ProgramsInv, script # <<>>
  PROVE  /\ pc = "shell" /\ Head(script) = script[1]
         /\ ProgramSound(Head(script)) /\ Head(script).entry # "none"
         /\ Head(script).entry = "sender" =>
              \E r \in Linked \ {Kernel} :
                table[r].parent = Kernel /\ table[r].pid = Head(script).arg0
  <1>1. pc = "shell" /\ Len(script) = 1
    BY DEF ProgramsInv, ScriptSound
  <1>2. PICK p : p = script[1]
    OBVIOUS
  <1>3. Head(script) = p
    BY <1>2
  <1>4. CASE ProgramSound(p) /\ p.entry = "counter"
    BY <1>1, <1>2, <1>3, <1>4
  <1>5. ASSUME NEW r \in Linked \ {Kernel}, NEW word \in Values,
               table[r].parent = Kernel, p = Sender(table[r].pid, word)
        PROVE  /\ ProgramSound(p) /\ p.entry = "sender" /\ p.arg0 = table[r].pid
    <2>1. PICK i : i = table[r].pid
      OBVIOUS
    <2>2. i \in Nat
      <3>1. r \in Slots /\ table[r] \in ProcessType
        BY LinkedFacts DEF ProgramsInv, IndInv, TypeOK
      <3> QED BY <2>1, <3>1, FieldTypes
    <2>3. p = Sender(i, word)
      BY <1>5, <2>1
    <2> QED BY <2>1, <2>2, <2>3, NoneFacts
  <1> QED BY <1>1, <1>2, <1>3, <1>4, <1>5 DEF ProgramsInv, ScriptSound

LEMMA FinishStep ==
  ASSUME ProgramsInv, Finish
  PROVE  ProgramsInv'
  <1>1. script # <<>> /\ script' = <<>>
    BY DEF Finish, StartsSecond, SecondCounterFails, SecondSenderFails
  <1>2. PICK p : p = Head(script)
    OBVIOUS
  <1>3. /\ pc = "shell" /\ ProgramSound(p) /\ p.entry # "none"
        /\ p.entry = "sender" =>
             \E r \in Linked \ {Kernel} :
               table[r].parent = Kernel /\ table[r].pid = p.arg0
    BY <1>1, <1>2, ScriptFacts
  <1>4. IndInv' /\ SlotsFilled' /\ pc' = pc
    <2>1. CASE StartsSecond
      BY <1>2, <1>3, <2>1, StartStep DEF ProgramsInv, StartsSecond
    <2>2. CASE SecondCounterFails
      BY <2>2, NotStartedStep DEF ProgramsInv, SecondCounterFails
    <2>3. CASE SecondSenderFails
      <3>1. PICK r \in Holders(p.arg0) :
              /\ table' = ReleasedTable(table, r)
              /\ cursor' = CursorAfterRelease(r)
              /\ list' = DropAt(list, IndexOf(r))
              /\ program' = [program EXCEPT ![r] = None]
        BY <1>2, <2>3, Zenon DEF SecondSenderFails
      <3>2. /\ p.entry = "sender" /\ UNCHANGED <<current, pending, pc, position>>
            /\ next_pid' \in {next_pid, next_pid + 1}
        BY <1>2, <2>3 DEF SecondSenderFails
      <3>3. PICK n \in Linked \ {Kernel} :
              table[n].parent = Kernel /\ table[n].pid = p.arg0
        BY <1>3, <3>2
      <3>4. r \in Linked /\ r \in Slots /\ table[r].pid = p.arg0
        BY LinkedFacts DEF Holders, ProgramsInv
      <3>5. r = n
        BY <3>3, <3>4 DEF ProgramsInv, IndInv, PidsUnique
      <3>6. current = Kernel
        BY <1>3 DEF ProgramsInv, IndInv, OnlyCurrentRuns
      <3>7. [table EXCEPT ![current].status = table[current].status] = table
        <4>1. table \in [Slots -> ProcessType] /\ current \in Slots
              /\ table[current] \in ProcessType
          BY DEF ProgramsInv, IndInv, TypeOK
        <4>2. [table[current] EXCEPT !.status = table[current].status] = table[current]
          BY <4>1 DEF ProcessType
        <4> QED BY <4>1, <4>2
      <3>8. Releases(r, table[current].status)
        BY <1>3, <3>1, <3>2, <3>3, <3>5, <3>6, <3>7 DEF Releases, Calling
      <3>9. IndInv'
        BY <3>4, <3>8, ReleaseStep DEF ProgramsInv
      <3>10. Linked' = Linked \ {r}
        BY <3>1, <3>3, <3>4, <3>5, OldSlot DEF ProgramsInv
      <3>11. SlotsFilled'
        <4>1. \A x \in Slots \ {r} : x \in Linked' <=> x \in Linked
          BY <3>10
        <4>2. r \in Linked' \ {Kernel} <=> None.entry # "none"
          BY <3>10, NoneFacts
        <4>3. ProgramSound(None)
          BY NoneFacts
        <4>4. SlotsFilled
          BY DEF ProgramsInv
        <4> QED BY <3>1, <3>4, <4>1, <4>2, <4>3, <4>4, FilledStep, Zenon
      <3> QED BY <3>2, <3>9, <3>11
    <2> QED BY <2>1, <2>2, <2>3 DEF Finish
  <1> QED BY <1>1, <1>3, <1>4, NoScript, OpenInShell DEF ProgramsInv

----------------------------------------------------------------------------
(* The other commands.                                                     *)

LEMMA ForkdemoStep ==
  ASSUME ProgramsInv, Forkdemo
  PROVE  ProgramsInv'
  <1>1. pc = "shell" /\ script' = <<>>
    BY DEF Forkdemo, Idle
  <1>2. IndInv' /\ SlotsFilled' /\ pc' = pc
    <2>1. ASSUME NEW p \in Linked, Fork(p),
                 program' = [program EXCEPT ![Least(FreeSlots)] = Restarted(program[p])]
          PROVE  IndInv' /\ SlotsFilled' /\ pc' = pc
      <3>1. p \in Slots \ {Kernel} /\ CreateSucceeds(p, table[p].owner)
        BY <2>1, LinkedFacts DEF Fork, ProgramsInv
      <3>2. ProgramSound(program[p]) /\ program[p].entry # "none"
        BY <3>1 DEF ProgramsInv, SlotsFilled
      <3>3. PICK q : q = Restarted(program[p])
        OBVIOUS
      <3>4. ProgramSound(q) /\ q.entry # "none"
        BY <3>2, <3>3, RestartFacts
      <3>5. PICK own \in Nat : own = table[p].owner
        <4>1. table[p] \in ProcessType
          BY <3>1 DEF ProgramsInv, IndInv, TypeOK
        <4> QED BY <4>1, FieldTypes
      <3>6. CreateSucceeds(p, own) /\ program' = [program EXCEPT ![Least(FreeSlots)] = q]
        BY <2>1, <3>1, <3>3, <3>5
      <3>7. IndInv /\ SlotsFilled
        BY DEF ProgramsInv
      <3> QED BY <3>4, <3>6, <3>7, CreatesProgram, Zenon
    <2> QED BY <2>1, NotStartedStep DEF Forkdemo, ProgramsInv
  <1> QED BY <1>1, <1>2, NoScript, OpenInShell DEF ProgramsInv

LEMMA WaitprocStep ==
  ASSUME ProgramsInv, Waitproc
  PROVE  ProgramsInv'
  <1>1. pc = "shell" /\ script' = <<>>
    BY DEF Waitproc, Idle
  <1>2. PICK p \in Linked :
          \/ WaitBlocks(p) /\ UNCHANGED program
          \/ WaitCollects(p) /\ program' = [program EXCEPT ![p] = None]
    BY DEF Waitproc
  <1>3. CASE WaitBlocks(p) /\ UNCHANGED program
    <2>1. IndInv' /\ UNCHANGED <<program, list, pc>>
      BY <1>3, WaitBlocksStep, Zenon DEF WaitBlocks, ProgramsInv
    <2> QED BY <1>1, <2>1, FilledKept, NoScript, OpenInShell DEF ProgramsInv
  <1>4. CASE WaitCollects(p) /\ program' = [program EXCEPT ![p] = None]
    <2>1. IndInv' /\ pc' = pc /\ list' = DropAt(list, IndexOf(p))
      BY <1>4, WaitCollectsStep DEF WaitCollects, ProgramsInv
    <2>2. p \in Slots /\ p # Kernel
      BY <1>4, LinkedFacts DEF WaitCollects, ProgramsInv, IndInv, OnlyCurrentRuns
    <2>3. Linked' = Linked \ {p}
      BY <2>1, <2>2, OldSlot DEF ProgramsInv
    <2>4. SlotsFilled'
      <3>1. \A x \in Slots \ {p} : x \in Linked' <=> x \in Linked
        BY <2>3
      <3>2. p \in Linked' \ {Kernel} <=> None.entry # "none"
        BY <2>3, NoneFacts
      <3>3. ProgramSound(None) /\ SlotsFilled
        BY NoneFacts DEF ProgramsInv
      <3> QED BY <1>4, <2>2, <3>1, <3>2, <3>3, FilledStep, Zenon
    <2> QED BY <1>1, <2>1, <2>4, NoScript, OpenInShell DEF ProgramsInv
  <1> QED BY <1>2, <1>3, <1>4

LEMMA SigprocStep ==
  ASSUME ProgramsInv, Sigproc
  PROVE  ProgramsInv'
  <1>1. pc = "shell" /\ script' = <<>>
    BY DEF Sigproc, Idle
  <1>2. IndInv' /\ UNCHANGED <<program, list, pc>>
    BY SendSignalStep, Zenon DEF Sigproc, SendSignal, ProgramsInv
  <1> QED BY <1>1, <1>2, FilledKept, NoScript, OpenInShell DEF ProgramsInv

----------------------------------------------------------------------------
(* The entry functions.                                                    *)

(* The process on the CPU has a program, and no command is under way.      *)
LEMMA EntryFacts ==
  ASSUME ProgramsInv, Entry
  PROVE  /\ pc = "run" /\ script' = <<>>
         /\ current \in Slots /\ current \in Linked
         /\ ProgramSound(program[current])
  <1>1. pc = "run"
    BY DEF Entry, CounterStep, CounterEnds, ReceiverWaits, ReceiverTakes,
           ReceiverEnds, SenderSends, SenderWaits, SenderEnds, Runs
  <1>2. script' = script /\ script = <<>>
    BY <1>1 DEF Entry, ProgramsInv, ScriptSound
  <1>3. current \in Slots /\ current \in Linked
    BY DEF ProgramsInv, IndInv, CursorLinked, TypeOK
  <1> QED BY <1>1, <1>2, <1>3 DEF ProgramsInv, SlotsFilled

(* What an entry function does to its own local state.                     *)
LEMMA OwnProgram ==
  ASSUME SlotsFilled, current \in Slots, list' = list,
         NEW q, ProgramSound(q), q.entry = program[current].entry,
         program' = [program EXCEPT ![current] = q]
  PROVE  SlotsFilled'
  <1>1. Linked' = Linked
    BY DEF Linked
  <1>2. current \in Linked' \ {Kernel} <=> q.entry # "none"
    BY <1>1 DEF SlotsFilled
  <1>3. PICK s \in Slots : s = current
    OBVIOUS
  <1>4. program' = [program EXCEPT ![s] = q]
    BY <1>3
  <1>5. s \in Linked' \ {Kernel} <=> q.entry # "none"
    BY <1>2, <1>3
  <1>6. \A x \in Slots \ {s} : x \in Linked' <=> x \in Linked
    BY <1>1
  <1> QED BY <1>4, <1>5, <1>6, FilledStep, Zenon

LEMMA CounterSteps ==
  ASSUME ProgramsInv, Entry, CounterStep \/ CounterEnds
  PROVE  ProgramsInv'
  <1>1. /\ pc = "run" /\ script' = <<>>
        /\ current \in Slots /\ current \in Linked
        /\ ProgramSound(program[current])
    BY EntryFacts
  <1>2. PICK p : p = program[current]
    OBVIOUS
  <1>3. p.value \in Nat /\ p.arg1 \in Nat /\ ProgramSound(p)
    BY <1>1, <1>2 DEF ProgramSound
  <1>4. CASE CounterStep
    <2>1. IndInv' /\ list' = list /\ pc' = "shell"
      BY <1>4, YieldStep DEF CounterStep, Yield, ProgramsInv
    <2>2. PICK q : q = [p EXCEPT !.value = @ + 1]
      BY Zenon
    <2>3. p.entry = "counter" /\ p.value < p.arg1
      BY <1>2, <1>4 DEF CounterStep, Runs, Counts
    <2>4. ProgramSound(q) /\ q.entry = p.entry
      <3>1. q = [entry |-> p.entry, arg0 |-> p.arg0, arg1 |-> p.arg1,
                 value |-> p.value + 1, at |-> p.at, sent |-> p.sent]
        BY <1>3, <2>2 DEF ProgramSound
      <3> QED BY <1>3, <2>3, <3>1 DEF ProgramSound
    <2>5. program' = [program EXCEPT ![current] = q]
      BY <1>2, <1>4, <2>2 DEF CounterStep
    <2>6. SlotsFilled'
      BY <1>1, <1>2, <2>1, <2>4, <2>5, OwnProgram, Zenon DEF ProgramsInv
    <2> QED BY <1>1, <2>1, <2>6, NoScript, OpenInShell DEF ProgramsInv
  <1>5. CASE CounterEnds
    <2>1. IndInv'
      BY <1>2, <1>3, <1>5, EntryReturnsStep, SMTT(30) DEF CounterEnds,
         ProgramsInv
    <2>2. UNCHANGED <<program, list>> /\ pc' = "shell"
      BY <1>5 DEF CounterEnds, EntryReturns
    <2> QED BY <1>1, <2>1, <2>2, FilledKept, NoScript, OpenInShell, SMTT(30) DEF
               ProgramsInv
  <1> QED BY <1>4, <1>5

LEMMA ReceiverSteps ==
  ASSUME ProgramsInv, Entry, ReceiverWaits \/ ReceiverTakes \/ ReceiverEnds
  PROVE  ProgramsInv'
  <1>1. /\ pc = "run" /\ script' = <<>>
        /\ current \in Slots /\ current \in Linked
        /\ ProgramSound(program[current])
    BY EntryFacts
  <1>2. PICK p : p = program[current]
    OBVIOUS
  <1>3. p.value \in Nat /\ ProgramSound(p)
    BY <1>1, <1>2 DEF ProgramSound
  <1>4. CASE ReceiverWaits
    <2>1. IndInv' /\ UNCHANGED <<program, list>> /\ pc' = "shell"
      BY <1>4, YieldStep DEF ReceiverWaits, Yield, ProgramsInv
    <2> QED BY <1>1, <2>1, FilledKept, NoScript, OpenInShell, SMTT(30) DEF
               ProgramsInv
  <1>5. CASE ReceiverTakes
    <2>1. IndInv' /\ UNCHANGED <<list, pc, current>>
      BY <1>5, SocketRecvStep DEF ReceiverTakes, SocketRecv, ProgramsInv
    <2>2. PICK v \in Values : v = Head(table[current].socket)
      <3>1. table[current] \in ProcessType
        BY <1>1 DEF ProgramsInv, IndInv, TypeOK
      <3>2. table[current].socket \in Seq(Values)
        BY <3>1, FieldTypes
      <3>3. table[current].socket # <<>>
        BY <1>5 DEF ReceiverTakes, SocketRecv
      <3> QED BY <3>2, <3>3
    <2>3. PICK q : q = [p EXCEPT !.value = v, !.at = "return"]
      OBVIOUS
    <2>4. p.entry = "receiver"
      BY <1>2, <1>5 DEF ReceiverTakes, Runs
    <2>5. ProgramSound(q) /\ q.entry = "receiver"
      <3>1. q = [entry |-> p.entry, arg0 |-> p.arg0, arg1 |-> p.arg1,
                 value |-> v, at |-> "return", sent |-> p.sent]
        BY <1>3, <2>3, Zenon DEF ProgramSound
      <3>2. v \in Nat
        BY ProgramsAssumption
      <3> QED BY <1>3, <2>4, <3>1, <3>2 DEF ProgramSound
    <2>6. program' = [program EXCEPT ![current] = q]
      BY <1>2, <1>5, <2>2, <2>3, Zenon DEF ReceiverTakes
    <2>7. SlotsFilled'
      BY <1>1, <1>2, <2>1, <2>4, <2>5, <2>6, OwnProgram, Zenon DEF ProgramsInv
    <2>8. RingsOpen'
      <3>1. program'[current'].entry = "receiver"
        BY <1>1, <2>1, <2>5, <2>6 DEF ProgramsInv, SlotsFilled
      <3> QED BY <1>1, <2>1, <3>1 DEF RingsOpen, ToSend, Runs
    <2> QED BY <1>1, <2>1, <2>7, <2>8, NoScript, SMTT(30) DEF ProgramsInv
  <1>6. CASE ReceiverEnds
    <2>1. p.value % 65536 \in Nat
      BY <1>3
    <2>2. IndInv'
      BY <1>2, <1>6, <2>1, EntryReturnsStep DEF ReceiverEnds, ProgramsInv
    <2>3. UNCHANGED <<program, list>> /\ pc' = "shell"
      BY <1>6 DEF ReceiverEnds, EntryReturns
    <2> QED BY <1>1, <2>2, <2>3, FilledKept, NoScript, OpenInShell DEF ProgramsInv
  <1> QED BY <1>4, <1>5, <1>6

LEMMA SenderSteps ==
  ASSUME ProgramsInv, Entry, SenderSends \/ SenderWaits \/ SenderEnds
  PROVE  ProgramsInv'
  <1>1. /\ pc = "run" /\ script' = <<>>
        /\ current \in Slots /\ current \in Linked
        /\ ProgramSound(program[current])
    BY EntryFacts
  <1>2. PICK p : p = program[current]
    OBVIOUS
  <1>3. ProgramSound(p)
    BY <1>1, <1>2
  <1>4. CASE SenderSends
    <2>1. PICK t \in Holders(p.arg0) :
            /\ SocketSend(t, p.arg1)
            /\ program' = [program EXCEPT ![current].sent = @ + 1,
                             ![current].at = IF SendFails(t) THEN "retry" ELSE "return"]
      BY <1>2, <1>4, Zenon DEF SenderSends
    <2>2. p.entry = "sender" /\ p.at = "loop" /\ p.sent = 0 /\ p.arg1 \in Values
      BY <1>2, <1>3, <1>4 DEF SenderSends, Runs, ProgramSound
    <2>3. t \in Linked
      BY LinkedFacts DEF Holders, ProgramsInv
    <2>4. ~SendFails(t)
      BY <1>2, <1>4, <2>3 DEF SenderSends, SendFails, ProgramsInv, RingsOpen, ToSend
    <2>5. IndInv' /\ UNCHANGED <<list, pc, current>>
      BY <2>1, <2>2, <2>3, SocketSendStep, Zenon DEF SocketSend, ProgramsInv
    <2>6. PICK q : q = [p EXCEPT !.sent = 1, !.at = "return"]
      OBVIOUS
    <2>7. ProgramSound(q) /\ q.entry = p.entry /\ q.at = "return"
      <3>1. q = [entry |-> p.entry, arg0 |-> p.arg0, arg1 |-> p.arg1,
                 value |-> p.value, at |-> "return", sent |-> 1]
        BY <1>3, <2>6, Zenon DEF ProgramSound
      <3> QED BY <1>3, <2>2, <3>1 DEF ProgramSound
    <2>8. program' = [program EXCEPT ![current] = q]
      <3>1. program' = [program EXCEPT ![current] = [p EXCEPT !.sent = @ + 1, !.at = "return"]]
        BY <1>2, <2>1, <2>4, Zenon
      <3>2. p.sent + 1 = 1
        BY <2>2
      <3>3. q = [p EXCEPT !.sent = p.sent + 1, !.at = "return"]
        BY <2>6, <3>2, Zenon
      <3> QED BY <3>1, <3>3
    <2>9. SlotsFilled'
      BY <1>1, <1>2, <2>5, <2>7, <2>8, OwnProgram, Zenon DEF ProgramsInv
    <2>10. RingsOpen'
      <3>1. program'[current'].at = "return"
        BY <1>1, <2>5, <2>7, <2>8 DEF ProgramsInv, SlotsFilled
      <3> QED BY <1>1, <2>5, <3>1 DEF RingsOpen, ToSend, Runs
    <2> QED BY <1>1, <2>5, <2>9, <2>10, NoScript DEF ProgramsInv
  <1>5. CASE SenderWaits
    <2>1. IndInv' /\ list' = list /\ pc' = "shell"
      BY <1>5, YieldStep DEF SenderWaits, Yield, ProgramsInv
    <2>2. p.at = "loop"
      BY <1>2, <1>3, <1>5 DEF SenderWaits, ProgramSound
    <2>3. [p EXCEPT !.at = "loop"] = p
      BY <1>3, <2>2 DEF ProgramSound
    <2>4. program' = [program EXCEPT ![current] = p]
      BY <1>2, <1>5, <2>3, Zenon DEF SenderWaits
    <2>5. SlotsFilled'
      BY <1>1, <1>2, <2>1, <2>4, OwnProgram, Zenon DEF ProgramsInv
    <2> QED BY <1>1, <2>1, <2>5, NoScript, OpenInShell DEF ProgramsInv
  <1>6. CASE SenderEnds
    <2>1. IndInv' /\ UNCHANGED <<program, list>> /\ pc' = "shell"
      BY <1>6, EntryReturnsStep DEF SenderEnds, EntryReturns, ProgramsInv
    <2> QED BY <1>1, <2>1, FilledKept, NoScript, OpenInShell DEF ProgramsInv
  <1> QED BY <1>4, <1>5, <1>6

----------------------------------------------------------------------------
(* The timer and the scheduler.                                            *)

(* deliver_process_signal takes a signal if there is one.                  *)
LEMMA DeliverPops ==
  ASSUME NEW t \in [Slots -> ProcessType], NEW p \in Slots,
         Len(t[p].signals) < PROCESS_SIGNAL_QUEUE_CAPACITY
  PROVE  Len(DeliverSignals(t, p)[p].signals) < PROCESS_SIGNAL_QUEUE_CAPACITY - 1
  <1>1. PICK q \in Seq(Nat) : q = t[p].signals
    BY FieldTypes
  <1>2. PICK n : n = DeliveredCount(t, p)
    OBVIOUS
  <1>3. n \in 0 .. Len(q) /\ Len(q) \in Nat
    BY <1>1, <1>2, DeliveredCountFacts
  <1>4. PICK popped : popped = [t EXCEPT ![p].signals = SubSeq(q, n + 1, Len(q))]
    BY Zenon
  <1>5. popped \in [Slots -> ProcessType] /\ popped[p].signals = SubSeq(q, n + 1, Len(q))
    <2>1. PICK u \in Seq(Nat) : u = SubSeq(q, n + 1, Len(q))
      <3>1. SubSeq(q, n + 1, Len(q)) \in Seq(Nat)
        BY <1>3
      <3> QED BY <3>1, Zenon
    <2>2. PICK r : r = [t[p] EXCEPT !.signals = u]
      BY Zenon
    <2>3. r \in ProcessType /\ r.signals = u
      BY <2>2, SetSignals
    <2>4. popped = [t EXCEPT ![p] = r]
      BY <1>4, <2>1, <2>2
    <2> QED BY <2>1, <2>3, <2>4
  <1>6. Len(popped[p].signals) = Len(q) - n
    BY <1>1, <1>3, <1>5
  <1>7. DeliverSignals(t, p)[p].signals = popped[p].signals
    <2>1. CASE n > 0 /\ q[n] \in Fatal
      <3>1. PICK code \in Nat : code = 128 + q[n]
        BY <1>1, <1>3, <2>1
      <3>2. DeliverSignals(t, p) = ProcessExit(popped, p, code)
        BY <1>1, <1>2, <1>4, <2>1, <3>1 DEF DeliverSignals
      <3> QED BY <1>5, <3>2, ProcessExitEffect, Zenon
    <2>2. CASE ~(n > 0 /\ q[n] \in Fatal)
      BY <1>1, <1>2, <1>4, <2>2, Zenon DEF DeliverSignals
    <2> QED BY <2>1, <2>2
  <1>8. n = 0 => Len(q) = 0
    <2>1. SUFFICES ASSUME n = 0, q # <<>> PROVE FALSE
      BY <1>1
    <2>2. CASE t[p].status = "ZOMBIE"
      BY <1>1, <1>2, <2>1, <2>2 DEF DeliveredCount
    <2>3. CASE t[p].status # "ZOMBIE" /\ p # Kernel /\ {i \in 1 .. Len(q) : q[i] \in Fatal} # {}
      <3>1. PICK S : S = {i \in 1 .. Len(q) : q[i] \in Fatal}
        BY Zenon
      <3>2. S \in SUBSET Nat /\ S # {} /\ 0 \notin S
        BY <1>3, <2>3, <3>1
      <3>3. Least(S) \in S
        BY <3>2, LeastFacts
      <3>4. n = Least(S)
        BY <1>1, <1>2, <2>1, <2>3, <3>1 DEF DeliveredCount
      <3> QED BY <2>1, <3>2, <3>3, <3>4
    <2>4. CASE t[p].status # "ZOMBIE" /\ ~(p # Kernel /\ {i \in 1 .. Len(q) : q[i] \in Fatal} # {})
      <3>1. n = Len(q)
        BY <1>1, <1>2, <2>1, <2>4 DEF DeliveredCount
      <3> QED BY <1>1, <2>1, <3>1
    <2> QED BY <2>2, <2>3, <2>4
  <1>9. /\ PROCESS_SIGNAL_QUEUE_CAPACITY \in Nat /\ PROCESS_SIGNAL_QUEUE_CAPACITY > 1
        /\ Len(q) < PROCESS_SIGNAL_QUEUE_CAPACITY
    BY <1>1, ProcessAssumption, ProgramsAssumption
  <1>10. Len(DeliverSignals(t, p)[p].signals) = Len(q) - n
    BY <1>6, <1>7
  <1> QED BY <1>3, <1>8, <1>9, <1>10

LEMMA TimerStep ==
  ASSUME ProgramsInv, Timer
  PROVE  ProgramsInv'
  <1>1. UNCHANGED <<table, list, cursor, current, next_pid, pc, position, program, script>>
    BY DEF Timer, Tick
  <1>2. IndInv'
    BY IdleStep DEF Timer, ProgramsInv
  <1>3. SlotsFilled'
    BY <1>1, FilledKept DEF ProgramsInv
  <1>4. ScriptSound'
    BY <1>1, ScriptKept DEF ProgramsInv
  <1>5. RingsOpen'
    BY <1>1 DEF ProgramsInv, RingsOpen, ToSend, Runs, Linked, SignalQueueFull
  <1> QED BY <1>2, <1>3, <1>4, <1>5 DEF ProgramsInv

LEMMA DeliverOpens ==
  ASSUME ProgramsInv, DeliverPending
  PROVE  RingsOpen'
  <1>1. /\ pc = "deliver" /\ table' = DeliverSignals(table, list[position])
        /\ UNCHANGED <<list, current>>
        /\ \/ position < Len(list) /\ position' = position + 1 /\ pc' = "deliver"
           \/ position >= Len(list) /\ position' = 1 /\ pc' = "schedule"
    BY DEF DeliverPending, ProgramsInv, IndInv, TypeOK
  <1>2. /\ list \in Seq(Slots) /\ Len(list) \in Nat /\ DOMAIN list = 1 .. Len(list)
        /\ position \in 1 .. Len(list)
        /\ table \in [Slots -> ProcessType]
    BY <1>1 DEF ProgramsInv, IndInv, TypeOK, DeliveryPass
  <1>3. PICK p \in Slots : p = list[position]
    BY <1>2
  <1>4. Len(table[p].signals) < PROCESS_SIGNAL_QUEUE_CAPACITY
    BY DEF ProgramsInv, IndInv, TypeOK
  <1>5. table' \in [Slots -> ProcessType]
        /\ \A s \in Slots \ {p} : table'[s].signals = table[s].signals
    BY <1>1, <1>2, <1>3, DeliverEffect DEF ExitEffect
  <1>6. ~SignalQueueFull(p)'
    <2>1. Len(table'[p].signals) < PROCESS_SIGNAL_QUEUE_CAPACITY - 1
      BY <1>1, <1>2, <1>3, <1>4, DeliverPops
    <2>2. PICK k \in Nat : k = Len(table'[p].signals)
      BY <1>5, FieldTypes
    <2>3. k < PROCESS_SIGNAL_QUEUE_CAPACITY - 1
      BY <2>1, <2>2
    <2>4. ~(k >= PROCESS_SIGNAL_QUEUE_CAPACITY - 1)
      BY <2>3, ProcessAssumption
    <2> QED BY <2>2, <2>4 DEF SignalQueueFull
  <1>7. ASSUME NEW i \in 1 .. position PROVE ~SignalQueueFull(list[i])'
    <2>1. CASE list[i] = p
      BY <1>1, <1>6, <2>1
    <2>2. CASE list[i] # p
      <3>1. i \in 1 .. position - 1 /\ list[i] \in Slots
        BY <1>2, <1>3, <2>2
      <3>2. ~SignalQueueFull(list[i])
        BY <1>1, <3>1 DEF ProgramsInv, RingsOpen
      <3> QED BY <1>1, <1>5, <2>2, <3>1, <3>2 DEF SignalQueueFull
    <2> QED BY <2>1, <2>2
  <1>8. CASE position < Len(list) /\ position' = position + 1 /\ pc' = "deliver"
    <2>1. position' - 1 = position
      BY <1>2, <1>8
    <2>2. \A i \in 1 .. position' - 1 : ~SignalQueueFull(list[i])'
      BY <1>7, <2>1
    <2> QED BY <1>8, <2>2 DEF RingsOpen, ToSend, Runs
  <1>9. CASE position >= Len(list) /\ position' = 1 /\ pc' = "schedule"
    <2>1. position = Len(list)
      <3>1. PICK n \in Nat : n = Len(list)
        BY <1>2, Zenon
      <3>2. position \in 1 .. n /\ position >= n
        BY <1>2, <1>9, <3>1
      <3>3. position = n
        BY <3>2
      <3> QED BY <3>1, <3>3
    <2>2. ASSUME NEW s \in Linked' PROVE ~SignalQueueFull(s)'
      <3>1. PICK i \in 1 .. Len(list) : s = list[i]
        BY <1>1, <1>2 DEF Linked
      <3> QED BY <1>1, <1>7, <2>1, <3>1
    <2> QED BY <1>9, <2>2 DEF RingsOpen
  <1> QED BY <1>1, <1>8, <1>9

LEMMA ScheduleOpens ==
  ASSUME ProgramsInv, ScheduleNext
  PROVE  RingsOpen'
  <1>1. PICK p : p = PickNextProcess
    OBVIOUS
  <1>2. PICK d : d = DeliverSignals(table, p)
    OBVIOUS
  <1>3. /\ pc = "schedule" /\ p # NULL /\ list' = list
        /\ \/ table' = d /\ pc' = "shell"
           \/ table' = [d EXCEPT ![p].status = "RUN"] /\ pc' = "run"
    BY <1>1, <1>2 DEF ScheduleNext
  <1>4. p \in Slots
    BY <1>1, <1>3, PickFacts DEF ProgramsInv
  <1>5. table \in [Slots -> ProcessType]
    BY DEF ProgramsInv, IndInv, TypeOK
  <1>6. /\ d \in [Slots -> ProcessType]
        /\ \A s \in Slots \ {p} : d[s].signals = table[s].signals
        /\ Len(d[p].signals) <= Len(table[p].signals)
    BY <1>2, <1>4, <1>5, DeliverEffect DEF ExitEffect
  <1>7. CASE pc' = "run"
    <2>1. \A s \in Slots : table'[s].signals = d[s].signals
      <3>1. table' = [d EXCEPT ![p].status = "RUN"]
        BY <1>3, <1>7
      <3>2. PICK r : r = [d[p] EXCEPT !.status = "RUN"]
        BY Zenon
      <3>3. r.signals = d[p].signals
        <4>1. d[p] \in ProcessType /\ "RUN" \in Statuses
          BY <1>4, <1>6 DEF Statuses
        <4> QED BY <3>2, <4>1, SetStatus
      <3>4. table' = [d EXCEPT ![p] = r]
        BY <3>1, <3>2
      <3> QED BY <1>4, <1>6, <3>3, <3>4
    <2>2. ASSUME NEW s \in Linked' PROVE ~SignalQueueFull(s)'
      <3>1. s \in Linked /\ s \in Slots
        BY <1>3, LinkedFacts DEF Linked, ProgramsInv
      <3>2. ~SignalQueueFull(s)
        BY <1>3, <3>1 DEF ProgramsInv, RingsOpen
      <3>3. PICK k \in Nat : k = Len(table[s].signals)
        BY <1>5, <3>1, FieldTypes
      <3>4. PICK m \in Nat : m = Len(d[s].signals)
        BY <1>6, <3>1, FieldTypes, SMTT(30)
      <3>5. m <= k
        BY <1>6, <3>1, <3>3, <3>4, SMTT(30)
      <3>6. ~(k >= PROCESS_SIGNAL_QUEUE_CAPACITY - 1)
        BY <3>2, <3>3 DEF SignalQueueFull
      <3>7. ~(m >= PROCESS_SIGNAL_QUEUE_CAPACITY - 1)
        BY <3>5, <3>6, ProcessAssumption
      <3>8. Len(table'[s].signals) = m
        BY <2>1, <3>1, <3>4
      <3> QED BY <3>7, <3>8 DEF SignalQueueFull
    <2> QED BY <1>7, <2>2 DEF RingsOpen
  <1>8. CASE pc' = "shell"
    BY <1>8, OpenInShell
  <1> QED BY <1>3, <1>7, <1>8

LEMMA PassStep ==
  ASSUME ProgramsInv, Pass
  PROVE  ProgramsInv'
  <1>1. script' = <<>> /\ program' = program /\ Scheduler
    BY DEF Pass
  <1>2. IndInv'
    BY <1>1, NextStep DEF Next, ProgramsInv
  <1>3. list' = list
    BY <1>1 DEF Scheduler, RunPending, DeliverPending, ScheduleNext, NothingToRun
  <1>4. RingsOpen'
    <2>1. CASE RunPending
      <3>1. pc' = "deliver" /\ position' = 1
        BY <2>1 DEF RunPending
      <3> QED BY <3>1 DEF RingsOpen, ToSend, Runs
    <2>2. CASE NothingToRun
      BY <2>2, OpenInShell DEF NothingToRun
    <2> QED BY <1>1, <2>1, <2>2, DeliverOpens, ScheduleOpens DEF Scheduler
  <1> QED BY <1>1, <1>2, <1>3, <1>4, FilledKept, NoScript DEF ProgramsInv

LEMMA ProgramsStart == ProgramsInit => ProgramsInv
  <1> SUFFICES ASSUME ProgramsInit PROVE ProgramsInv
    OBVIOUS
  <1>1. IndInv
    BY InitStep DEF ProgramsInit
  <1>2. Linked = {Kernel} /\ pc = "shell"
    BY DEF ProgramsInit, Init, Linked
  <1>3. SlotsFilled
    BY <1>2, NoneFacts DEF ProgramsInit, SlotsFilled
  <1>4. ScriptSound
    BY DEF ProgramsInit, ScriptSound
  <1>5. RingsOpen
    BY <1>2 DEF RingsOpen, ToSend, Runs
  <1> QED BY <1>1, <1>3, <1>4, <1>5 DEF ProgramsInv

LEMMA ProgramsStep == ProgramsInv /\ [ProgramsNext]_programVars => ProgramsInv'
  <1> SUFFICES ASSUME ProgramsInv, [ProgramsNext]_programVars PROVE ProgramsInv'
    OBVIOUS
  <1>1. CASE Command
    BY <1>1, ExecdemoStep, SockdemoStep, ForkdemoStep, WaitprocStep, SigprocStep DEF Command
  <1>2. CASE Entry
    BY <1>2, CounterSteps, ReceiverSteps, SenderSteps DEF Entry
  <1>3. CASE UNCHANGED programVars
    <2>1. UNCHANGED <<table, list, current, pc, position, program, script>> /\ UNCHANGED vars
      BY <1>3 DEF programVars, vars
    <2>2. IndInv'
      BY <2>1, NextStep DEF ProgramsInv
    <2>3. SlotsFilled'
      BY <2>1, FilledKept DEF ProgramsInv
    <2>4. ScriptSound'
      BY <2>1, ScriptKept DEF ProgramsInv
    <2>5. RingsOpen'
      BY <2>1 DEF ProgramsInv, RingsOpen, ToSend, Runs, Linked, SignalQueueFull
    <2> QED BY <2>2, <2>3, <2>4, <2>5 DEF ProgramsInv
  <1> QED BY <1>1, <1>2, <1>3, FinishStep, TimerStep, PassStep DEF ProgramsNext

(* The process manager's invariant holds under the shipped programs and    *)
(* commands too, although process_spawn_demo_socket_pair releases a live   *)
(* process when it gets no sender: nobody can be waiting for it.  A slot   *)
(* has a program exactly while it has a process, a counter stops at its    *)
(* limit, and a receiver returns a word that was sent.                     *)
THEOREM ProgramsSafe == ProgramsSpec => []ProgramsInv
  BY ProgramsStart, ProgramsStep, PTL DEF ProgramsSpec

(* demo_socket_sender_process retries what socket_send reports as failed,  *)
(* and socket_send reports failure for a word it has queued when the       *)
(* signal ring is full; but process_deliver_all_pending_signals takes a    *)
(* signal from every ring, a zombie's too, before a process runs, so no    *)
(* word is ever queued twice.                                              *)
THEOREM NoWordTwice == ProgramsSpec => []WordsOnce
  <1>1. ProgramsInv => WordsOnce
    BY DEF ProgramsInv, SlotsFilled, ProgramSound, WordsOnce
  <1> QED BY <1>1, ProgramsSafe, PTL
=============================================================================
