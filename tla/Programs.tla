------------------------------ MODULE Programs ------------------------------
(***************************************************************************)
(* The process manager with the programs that the kernel ships: the        *)
(* counter of execdemo, and the sender and the receiver of sockdemo.       *)
(* Module Process lets a process make any calls; here each makes those of  *)
(* its entry function, and the kernel context those of the shell's process *)
(* commands.  A command that makes two processes does so without a pass of *)
(* the scheduler in between.                                               *)
(***************************************************************************)
EXTENDS ProcessLife

CONSTANTS
  Limits   \* what the counters of execdemo count to

ASSUME ProgramsAssumption ==
  /\ Limits \subseteq Nat
  /\ Values \subseteq Nat
  /\ PROCESS_SIGNAL_QUEUE_CAPACITY > 1   \* a ring of one cell takes no signal

VARIABLES
  program,   \* of every slot: entry function, arguments and local state
  script     \* programs that the running command has still to start

programVars == <<vars, program, script>>

None == [entry |-> "none", arg0 |-> 0, arg1 |-> 0, value |-> 0, at |-> "loop", sent |-> 0]

(* The programs as they start: value is the variable counter or value of   *)
(* the entry function; sent, a history, counts how often a socket took the *)
(* word of a sender.                                                       *)
Counter(limit)    == [None EXCEPT !.entry = "counter", !.arg1 = limit]
Receiver          == [None EXCEPT !.entry = "receiver"]
Sender(pid, word) == [None EXCEPT !.entry = "sender", !.arg0 = pid, !.arg1 = word]

Restarted(p) ==
  [p EXCEPT !.value = IF p.entry = "counter" THEN p.arg0 ELSE 0, !.at = "loop", !.sent = 0]

ProgramsInit ==
  /\ Init
  /\ program = [s \in Slots |-> None]
  /\ script = <<>>

----------------------------------------------------------------------------
(* The shell's commands.                                                   *)
Idle == pc = "shell" /\ script = <<>>

Start(p) ==
  /\ \E own \in Owners : CreateOwned(own)
  /\ program' = [program EXCEPT ![Least(FreeSlots)] = p]

NotStarted ==
  /\ \/ CreateFails
     \/ FreeSlots = {} /\ UNCHANGED vars
  /\ UNCHANGED program

(* execdemo starts its second counter whether or not it got the first.     *)
Execdemo ==
  /\ Idle /\ next_pid < MaxPid
  /\ \E limit \in Limits :
       /\ Start(Counter(limit)) \/ NotStarted
       /\ script' = <<Counter(limit)>>

(* process_spawn_demo_socket_pair                                          *)
Sockdemo ==
  /\ Idle /\ next_pid < MaxPid
  /\ \/ /\ Start(Receiver)
        /\ \E word \in Values : script' = <<Sender(next_pid, word)>>
     \/ /\ NotStarted
        /\ UNCHANGED script

StartsSecond ==
  /\ script # <<>>
  /\ Start(Head(script))
  /\ script' = <<>>

SecondCounterFails ==
  /\ script # <<>> /\ Head(script).entry = "counter"
  /\ NotStarted
  /\ script' = <<>>

(* Without a sender the receiver is released.                              *)
SecondSenderFails ==
  /\ script # <<>> /\ Head(script).entry = "sender"
  /\ \E r \in Holders(Head(script).arg0) :
       /\ table' = ReleasedTable(table, r)
       /\ cursor' = CursorAfterRelease(r)
       /\ list' = DropAt(list, IndexOf(r))
       /\ program' = [program EXCEPT ![r] = None]
  /\ next_pid' = IF FreeSlots = {} THEN next_pid ELSE next_pid + 1
  /\ script' = <<>>
  /\ UNCHANGED <<current, pending, pc, position>>

(* forkdemo: the child starts the entry function again, with the arguments *)
(* of its parent.                                                          *)
Forkdemo ==
  /\ Idle
  /\ \/ \E p \in Linked :
          /\ Fork(p)
          /\ program' = [program EXCEPT ![Least(FreeSlots)] = Restarted(program[p])]
     \/ NotStarted
  /\ UNCHANGED script

Waitproc ==
  /\ Idle
  /\ \E p \in Linked :
       \/ WaitBlocks(p) /\ UNCHANGED program
       \/ WaitCollects(p) /\ program' = [program EXCEPT ![p] = None]
  /\ UNCHANGED script

(* killproc and sigproc.                                                   *)
Sigproc ==
  /\ Idle
  /\ \E p \in Linked, sig \in Signals : SendSignal(p, sig)
  /\ UNCHANGED <<program, script>>

Finish  == StartsSecond \/ SecondCounterFails \/ SecondSenderFails
Command == Execdemo \/ Sockdemo \/ Forkdemo \/ Waitproc \/ Sigproc

----------------------------------------------------------------------------
(* The entry functions, of the process on the CPU.                         *)
Runs(entry, at) ==
  pc = "run" /\ program[current].entry = entry /\ program[current].at = at

(* demo_counter_process                                                    *)
Counts(p) == p.value < p.arg1

CounterStep ==
  /\ Runs("counter", "loop") /\ Counts(program[current])
  /\ Yield
  /\ program' = [program EXCEPT ![current].value = @ + 1]

CounterEnds ==
  /\ Runs("counter", "loop") /\ ~Counts(program[current])
  /\ EntryReturns(program[current].value)
  /\ UNCHANGED program

(* demo_socket_receiver_process                                            *)
ReceiverWaits ==
  /\ Runs("receiver", "loop")
  /\ table[current].socket = <<>>
  /\ Yield
  /\ UNCHANGED program

ReceiverTakes ==
  /\ Runs("receiver", "loop")
  /\ SocketRecv
  /\ program' = [program EXCEPT ![current].value = Head(table[current].socket),
                                ![current].at = "return"]

ReceiverEnds ==
  /\ Runs("receiver", "return")
  /\ EntryReturns(program[current].value % 65536)
  /\ UNCHANGED program

(* demo_socket_sender_process: a word that went in without its signal is   *)
(* reported as failed, and sent again.                                     *)
SendFails_Inverted(t) == ~SignalQueueFull(t)   \* mutant: the result negated
SendFails(t) == SignalQueueFull(t)

SenderSends ==
  /\ Runs("sender", "loop")
  /\ \E t \in Holders(program[current].arg0) :
       /\ SocketSend(t, program[current].arg1)
       /\ program' = [program EXCEPT ![current].sent = @ + 1,
                        ![current].at = IF SendFails(t) THEN "retry" ELSE "return"]

SenderWaits ==
  /\ pc = "run" /\ program[current].entry = "sender" /\ program[current].at # "return"
  /\ program[current].at = "loop" =>
       \A t \in Holders(program[current].arg0) : SocketFull(t)
  /\ Yield
  /\ program' = [program EXCEPT ![current].at = "loop"]

SenderEnds ==
  /\ Runs("sender", "return")
  /\ EntryReturns(0)
  /\ UNCHANGED program

Entry ==
  /\ \/ CounterStep \/ CounterEnds
     \/ ReceiverWaits \/ ReceiverTakes \/ ReceiverEnds
     \/ SenderSends \/ SenderWaits \/ SenderEnds
  /\ UNCHANGED script

Timer == Tick /\ UNCHANGED <<program, script>>

Pass == script = <<>> /\ Scheduler /\ UNCHANGED <<program, script>>

ProgramsNext == Command \/ Finish \/ Entry \/ Timer \/ Pass

ProgramsSpec == ProgramsInit /\ [][ProgramsNext]_programVars

(* As in module Process; what a command or an entry function has begun it  *)
(* goes on with.                                                           *)
ProgramsFair ==
  /\ ProgramsSpec
  /\ WF_programVars(Timer) /\ WF_programVars(Pass)
  /\ WF_programVars(Entry) /\ WF_programVars(Finish)

----------------------------------------------------------------------------
Lives(s) == table[s].used /\ table[s].status # "ZOMBIE"
Is(s, entry) == Lives(s) /\ program[s].entry = entry

Killed(s) == table[s].status = "ZOMBIE" /\ table[s].exit_code >= 128

(* A program in a slot: no counter passes its limit, a receiver returns    *)
(* with a word that was sent, and no send of a sender's ever failed.       *)
ProgramSound(p) ==
  /\ p \in [entry: {"none", "counter", "receiver", "sender"}, arg0: Nat, arg1: Nat,
            value: Nat, at: {"loop", "return"}, sent: {0, 1}]
  /\ p.at = "loop" => p.sent = 0
  /\ p.entry = "none" => p = None
  /\ p.entry = "counter" => p.arg0 = 0 /\ p.value <= p.arg1
  /\ p.entry = "receiver" /\ p.at = "return" => p.value \in Values
  /\ p.entry = "sender" => p.arg1 \in Values

(* A slot has a program exactly while it has a process.                    *)
SlotsFilled ==
  /\ DOMAIN program = Slots
  /\ \A s \in Slots :
       /\ ProgramSound(program[s])
       /\ s \in Linked \ {Kernel} <=> program[s].entry # "none"

(* While sockdemo has a sender to start, the receiver it just made is the  *)
(* kernel's child still, and nothing but the timer runs.                   *)
ScriptSound ==
  script # <<>> =>
    /\ pc = "shell" /\ Len(script) = 1
    /\ LET p == script[1]
       IN  \/ ProgramSound(p) /\ p.entry = "counter"
           \/ \E r \in Linked \ {Kernel}, word \in Values :
                table[r].parent = Kernel /\ p = Sender(table[r].pid, word)

(* A pass takes a signal from every ring that has one, so none is full     *)
(* when a sender comes to send.                                            *)
ToSend == Runs("sender", "loop")

RingsOpen ==
  /\ pc = "deliver" => \A i \in 1 .. position - 1 : ~SignalQueueFull(list[i])
  /\ pc = "schedule" \/ ToSend => \A s \in Linked : ~SignalQueueFull(s)

(* The invariant of the process manager holds, also where sockdemo gives   *)
(* up half way, and with it what the entry functions rely on.  The         *)
(* conjunction is inductive.                                               *)
ProgramsInv == IndInv /\ SlotsFilled /\ ScriptSound /\ RingsOpen

(* Although socket_send reports failure for a word it has queued when the  *)
(* signal ring is full, and the sender then sends it again, no word is     *)
(* ever queued twice: each pass empties the rings before one process runs. *)
WordsOnce == \A s \in Slots : program[s].sent <= 1

(* sockdemo does what it shows: once it has a sender and a receiver, the   *)
(* receiver gets the word and ends, unless someone kills a sender of it.   *)
SendersTo(r) ==
  {s \in Slots : program[s].entry = "sender" /\ program[s].arg0 = table[r].pid}

PairCompletes ==
  \A r \in Slots \ {Kernel} :
    (Is(r, "receiver") /\ \E s \in SendersTo(r) : Lives(s))
      ~> (~Lives(r) \/ \E s \in SendersTo(r) : Killed(s))

(* Counters end, also forked ones, and so do senders whose receiver lives. *)
ProgramsEnd ==
  \A s \in Slots \ {Kernel} :
    (Is(s, "counter") \/ Is(s, "sender"))
      ~> \/ ~Lives(s)
         \/ Is(s, "sender") /\ \A t \in Holders(program[s].arg0) : ~Lives(t)
=============================================================================
