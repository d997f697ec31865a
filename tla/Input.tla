------------------------------- MODULE Input -------------------------------
(***************************************************************************)
(* Keyboard input: the IRQ1 handler and its character ring                 *)
(* (kernel/src/keyboard.c), the kernel signal ring that the handler also   *)
(* feeds (kernel/src/signals.c), and the kernel context that empties both: *)
(* kernel_main waiting for the first key, and shell_getchar.               *)
(*                                                                         *)
(* The handler runs with interrupts off and so do the ring operations of   *)
(* the kernel context, so each of them is one action; the handler may run  *)
(* between any two.  Scancodes come in the classes the handler tells       *)
(* apart.  Process scheduling, which shell_getchar also drives, is the     *)
(* subject of Process.                                                     *)
(***************************************************************************)
EXTENDS Integers, Sequences

CONSTANTS
  KEYBOARD_BUFFER_SIZE, SIGNAL_QUEUE_CAPACITY,
  Scancodes,       \* the classes of scancodes that arrive
  MaxInput         \* bound: how many scancodes and serial characters arrive

ASSUME InputAssumption ==
  /\ KEYBOARD_BUFFER_SIZE \in Nat \ {0}
  /\ SIGNAL_QUEUE_CAPACITY \in Nat \ {0}
  /\ Scancodes \subseteq {"shift", "unshift", "E0", "letter", "arrow", "page", "release"}
  /\ MaxInput \in Nat

VARIABLES
  keyboard_buffer, keyboard_head, keyboard_tail,
  shift_held, extended_prefix,
  pending_signals, signal_head, signal_tail,
  pc,            \* where the kernel context is
  key,           \* the character in its hands
  arrived,       \* scancodes and serial characters so far
  key_refused, signal_refused   \* whether a full ring has turned one away

keyVars == <<keyboard_buffer, keyboard_head, keyboard_tail, key_refused>>
modeVars == <<shift_held, extended_prefix>>
signalVars == <<pending_signals, signal_head, signal_tail, signal_refused>>
vars == <<keyVars, modeVars, signalVars, pc, key, arrived>>

(* A queued character.  The ring keeps only char; shifted records whether  *)
(* shift was down when the key was pressed, for the properties.            *)
Chars == {"a", "A", "arrow", "page"}
Keys == [char: Chars, shifted: BOOLEAN]
Signals == {"KEYBOARD", "TEST"}
None == "none"
NoKey == [char |-> None, shifted |-> FALSE]

(* The character a scancode stands for in the handler's current mode, or   *)
(* None when it only changes the mode or is ignored.                       *)
CharOf(scancode) ==
  IF extended_prefix
    THEN IF scancode \in {"arrow", "page"} THEN scancode ELSE None
    ELSE IF scancode = "letter" THEN (IF shift_held THEN "A" ELSE "a") ELSE None

----------------------------------------------------------------------------

(* keyboard_queue_char.                                                    *)
KeyRingFull_Never ==   \* mutant: overwrites
  FALSE

KeyRingFull == (keyboard_tail + 1) % KEYBOARD_BUFFER_SIZE = keyboard_head

QueueChar(item) ==
  /\ IF KeyRingFull
       THEN key_refused' = TRUE /\ UNCHANGED <<keyboard_buffer, keyboard_tail>>
       ELSE /\ keyboard_buffer' = [keyboard_buffer EXCEPT ![keyboard_tail] = item]
            /\ keyboard_tail' = (keyboard_tail + 1) % KEYBOARD_BUFFER_SIZE
            /\ UNCHANGED key_refused
  /\ UNCHANGED keyboard_head

(* schedule_signal, for a signal number in range.                          *)
ScheduleSignal_Early(signal) ==   \* mutant: advances before it stores
  LET next_tail == (signal_tail + 1) % SIGNAL_QUEUE_CAPACITY
  IN  /\ IF next_tail = signal_head
           THEN signal_refused' = TRUE /\ UNCHANGED <<pending_signals, signal_tail>>
           ELSE /\ pending_signals' = [pending_signals EXCEPT ![next_tail] = signal]
                /\ signal_tail' = next_tail
                /\ UNCHANGED signal_refused
      /\ UNCHANGED signal_head

ScheduleSignal(signal) ==
  LET next_tail == (signal_tail + 1) % SIGNAL_QUEUE_CAPACITY
  IN  /\ IF next_tail = signal_head
           THEN signal_refused' = TRUE /\ UNCHANGED <<pending_signals, signal_tail>>
           ELSE /\ pending_signals' = [pending_signals EXCEPT ![signal_tail] = signal]
                /\ signal_tail' = next_tail
                /\ UNCHANGED signal_refused
      /\ UNCHANGED signal_head

(* keyboard_handler: the shift keys and the E0 prefix change the mode      *)
(* whatever the mode was; any other scancode ends a prefix.                *)
IRQ1(scancode) ==
  /\ arrived < MaxInput
  /\ arrived' = arrived + 1
  /\ shift_held' = (IF scancode \in {"shift", "unshift"}
                      THEN scancode = "shift" ELSE shift_held)
  /\ extended_prefix' = (IF scancode \in {"shift", "unshift"} THEN extended_prefix
                           ELSE scancode = "E0")
  /\ LET c == CharOf(scancode)
     IN  IF c # None
           THEN /\ QueueChar([char |-> c, shifted |-> shift_held])
                /\ ScheduleSignal("KEYBOARD")
           ELSE UNCHANGED <<keyVars, signalVars>>
  /\ UNCHANGED <<pc, key>>

----------------------------------------------------------------------------

(* One turn of the loop of signal_dispatch_pending: it takes the oldest    *)
(* signal and calls its handler, if any; or it finds the ring empty, and   *)
(* the kernel context goes on at next.                                     *)
Dispatch_NotTaken ==   \* mutant: does not advance the head
  UNCHANGED signal_head

Dispatch_NoWrap ==   \* mutant: runs off the end of the ring
  signal_head' = signal_head + 1

Dispatch == signal_head' = (signal_head + 1) % SIGNAL_QUEUE_CAPACITY

DispatchLoop(at, next) ==
  /\ pc = at
  /\ \/ /\ signal_head # signal_tail
        /\ Dispatch
        /\ UNCHANGED pc
     \/ /\ signal_head = signal_tail
        /\ pc' = next
        /\ UNCHANGED signal_head
  /\ UNCHANGED <<keyVars, modeVars, pending_signals, signal_tail, signal_refused,
                 key, arrived>>

(* keyboard_try_read_char on a ring that is not empty.                     *)
TryRead ==
  /\ keyboard_head # keyboard_tail
  /\ key' = keyboard_buffer[keyboard_head]
  /\ keyboard_head' = (keyboard_head + 1) % KEYBOARD_BUFFER_SIZE
  /\ UNCHANGED <<keyboard_buffer, keyboard_tail, key_refused>>

Goto(at, next) == pc = at /\ pc' = next

(* serial_has_data, and serial_read_char of a character the shell accepts. *)
SerialChar == arrived < MaxInput /\ arrived' = arrived + 1

(* kernel_main: dispatches until a key has arrived, or something on the    *)
(* serial line, and takes the first character.                             *)
BootTest_SerialToo ==   \* mutant: takes the serial line for a key
  /\ \/ Goto("boot_test", "boot_read") /\ arrived < MaxInput
     \/ /\ Goto("boot_test", "boot_dispatch")
        /\ keyboard_head = keyboard_tail
  /\ UNCHANGED <<keyVars, modeVars, signalVars, key, arrived>>

BootTest ==
  /\ \/ /\ Goto("boot_test", "boot_read")
        /\ keyboard_head # keyboard_tail
        /\ UNCHANGED arrived
     \/ /\ Goto("boot_test", "boot_dispatch")
        /\ keyboard_head = keyboard_tail
        /\ UNCHANGED arrived
     \/ Goto("boot_test", "dispatch") /\ SerialChar
  /\ UNCHANGED <<keyVars, modeVars, signalVars, key>>

BootRead ==
  /\ Goto("boot_read", "dispatch")
  /\ TryRead
  /\ UNCHANGED <<modeVars, signalVars, arrived>>

(* shell_getchar after it has dispatched: a character from the serial      *)
(* line, or one from the ring, or another turn.                            *)
Poll ==
  /\ \/ Goto("poll", "key") /\ TryRead /\ UNCHANGED arrived
     \/ /\ Goto("poll", "dispatch")
        /\ keyboard_head = keyboard_tail
        /\ UNCHANGED <<keyVars, key, arrived>>
     \/ /\ Goto("poll", "returned")
        /\ SerialChar
        /\ key' = [char |-> "a", shifted |-> FALSE]
        /\ UNCHANGED keyVars
  /\ UNCHANGED <<modeVars, signalVars>>

(* shell_getchar with a character of the keyboard: a page key, or an arrow *)
(* while shift is held now, scrolls; anything else is returned.            *)
Classify ==
  LET scrolls == key.char = "page" \/ (key.char = "arrow" /\ shift_held)
  IN  /\ Goto("key", IF scrolls THEN "dispatch" ELSE "returned")
      /\ UNCHANGED <<keyVars, modeVars, signalVars, key, arrived>>

(* The shell uses the character and asks for the next; the command         *)
(* "sigtest" schedules a signal and dispatches.                            *)
UseChar ==
  /\ Goto("returned", "dispatch")
  /\ UNCHANGED signalVars \/ ScheduleSignal("TEST")
  /\ UNCHANGED <<keyVars, modeVars, key, arrived>>

----------------------------------------------------------------------------

Ring(n, item) == [0 .. n - 1 -> item]

Init ==
  /\ keyboard_buffer = [i \in 0 .. KEYBOARD_BUFFER_SIZE - 1 |-> NoKey]
  /\ keyboard_head = 0 /\ keyboard_tail = 0 /\ key_refused = FALSE
  /\ shift_held = FALSE /\ extended_prefix = FALSE
  /\ pending_signals = [i \in 0 .. SIGNAL_QUEUE_CAPACITY - 1 |-> None]
  /\ signal_head = 0 /\ signal_tail = 0 /\ signal_refused = FALSE
  /\ pc = "boot_test" /\ key = NoKey /\ arrived = 0

KernelStep ==
  \/ DispatchLoop("boot_dispatch", "boot_test")
  \/ BootTest \/ BootRead
  \/ DispatchLoop("dispatch", "poll")
  \/ Poll \/ Classify \/ UseChar

Next == (\E scancode \in Scancodes : IRQ1(scancode)) \/ KernelStep

Spec == Init /\ [][Next]_vars

(* The kernel context never stops running.                                 *)
FairSpec == Spec /\ WF_vars(KernelStep)

----------------------------------------------------------------------------
(* Types; the heads and tails stay inside the rings.                       *)
TypeOK ==
  /\ keyboard_buffer \in Ring(KEYBOARD_BUFFER_SIZE, Keys \cup {NoKey})
  /\ keyboard_head \in 0 .. KEYBOARD_BUFFER_SIZE - 1
  /\ keyboard_tail \in 0 .. KEYBOARD_BUFFER_SIZE - 1
  /\ pending_signals \in Ring(SIGNAL_QUEUE_CAPACITY, Signals \cup {None})
  /\ signal_head \in 0 .. SIGNAL_QUEUE_CAPACITY - 1
  /\ signal_tail \in 0 .. SIGNAL_QUEUE_CAPACITY - 1
  /\ shift_held \in BOOLEAN /\ extended_prefix \in BOOLEAN
  /\ key \in Keys \cup {NoKey}
  /\ arrived \in 0 .. MaxInput
  /\ key_refused \in BOOLEAN /\ signal_refused \in BOOLEAN

(* What a ring holds, oldest first.                                        *)
Contents(ring, head, tail, size) ==
  [i \in 1 .. (tail - head + size) % size |-> ring[(head + i - 1) % size]]

KeyQueue == INSTANCE BoundedQueue WITH
  Items <- Keys, Capacity <- KEYBOARD_BUFFER_SIZE - 1,
  queue <- Contents(keyboard_buffer, keyboard_head, keyboard_tail, KEYBOARD_BUFFER_SIZE),
  refused <- key_refused

SignalQueue == INSTANCE BoundedQueue WITH
  Items <- Signals, Capacity <- SIGNAL_QUEUE_CAPACITY - 1,
  queue <- Contents(pending_signals, signal_head, signal_tail, SIGNAL_QUEUE_CAPACITY),
  refused <- signal_refused

(* The characters the handler queues reach the kernel context once and in  *)
(* order, and one is dropped only when the ring is full, wherever the      *)
(* handler interrupts the reader.                                          *)
ImplementsKeyQueue == KeyQueue!QueueSpec

(* The same for the kernel signals, which both the handler and the shell   *)
(* put in the ring.                                                        *)
ImplementsSignalQueue == SignalQueue!QueueSpec

(* keyboard_getchar in kernel_main never has to halt and wait: the key     *)
(* that ended the wait is still there.                                     *)
FirstKeyReady == pc = "boot_read" => keyboard_head # keyboard_tail

(* "Scroll keys are handled internally and never returned to the caller":  *)
(* shell_getchar returns neither a page key nor an arrow that was typed    *)
(* with shift.                                                             *)
ScrollKeysHandled ==
  pc = "returned" => key.char # "page" /\ ~(key.char = "arrow" /\ key.shifted)

(* Once input stops, everything typed has been taken, and the kernel       *)
(* context keeps coming to the end of the signals.                         *)
InputDrained ==
  /\ <>[](keyboard_head = keyboard_tail)
  /\ []<>(signal_head = signal_tail)
=============================================================================
