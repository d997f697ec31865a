---------------------------- MODULE InputProofs ----------------------------
(* Theorems about Input, for rings of any size and any amount of input.    *)
EXTENDS Input, TLAPS

----------------------------------------------------------------------------
(* Positions in a ring.                                                    *)
LEMMA ModSmall ==
  ASSUME NEW n \in Nat \ {0}, NEW a \in Nat, a < 2 * n
  PROVE  a % n = IF a < n THEN a ELSE a - n
  OBVIOUS

After(a, n) == IF a = n - 1 THEN 0 ELSE a + 1

LEMMA NextCell ==
  ASSUME NEW n \in Nat \ {0}, NEW a \in 0 .. n - 1
  PROVE  (a + 1) % n = After(a, n) /\ After(a, n) \in 0 .. n - 1
  <1>1. PICK b \in Nat : b = a + 1
    OBVIOUS
  <1>2. b % n = IF b < n THEN b ELSE b - n
    <2>1. b < 2 * n
      BY <1>1
    <2> HIDE <1>1
    <2> QED BY <2>1, ModSmall, Zenon
  <1> QED BY <1>1, <1>2 DEF After

LEMMA SeqEqual ==
  ASSUME NEW S, NEW s \in Seq(S), NEW t \in Seq(S), Len(s) = Len(t),
         \A i \in 1 .. Len(s) : s[i] = t[i]
  PROVE  s = t
  OBVIOUS

(* What a ring holds, as a sequence.                                       *)
Held(head, tail, size) == IF head <= tail THEN tail - head ELSE tail - head + size

Cell(head, i, size) == IF head + i - 1 < size THEN head + i - 1 ELSE head + i - 1 - size

RingTyped(ring, head, tail, size, S) ==
  /\ size \in Nat \ {0} /\ ring \in Ring(size, S)
  /\ head \in 0 .. size - 1 /\ tail \in 0 .. size - 1

LEMMA ContentsFacts ==
  ASSUME NEW ring, NEW head, NEW tail, NEW size, NEW S,
         RingTyped(ring, head, tail, size, S)
  PROVE  /\ Held(head, tail, size) \in 0 .. size - 1
         /\ Contents(ring, head, tail, size) \in Seq(S)
         /\ Len(Contents(ring, head, tail, size)) = Held(head, tail, size)
         /\ \A i \in 1 .. Held(head, tail, size) :
              /\ Contents(ring, head, tail, size)[i] = ring[Cell(head, i, size)]
              /\ Cell(head, i, size) \in 0 .. size - 1
  <1> USE DEF RingTyped
  <1>1. Held(head, tail, size) \in 0 .. size - 1
    BY DEF Held
  <1>2. (tail - head + size) % size = Held(head, tail, size)
    <2> DEFINE a == tail - head + size
    <2>1. a \in Nat /\ a < 2 * size
      OBVIOUS
    <2>2. a % size = IF a < size THEN a ELSE a - size
      <3> HIDE DEF a
      <3> QED BY <2>1, ModSmall, Zenon
    <2> QED BY <2>2 DEF Held
  <1>3. ASSUME NEW i \in 1 .. Held(head, tail, size)
        PROVE  /\ (head + i - 1) % size = Cell(head, i, size)
               /\ Cell(head, i, size) \in 0 .. size - 1
    <2>1. i \in Nat /\ i >= 1 /\ i <= size - 1
      BY <1>1
    <2> DEFINE a == head + i - 1
    <2>2. a \in Nat /\ a < 2 * size
      BY <2>1
    <2>3. a % size = IF a < size THEN a ELSE a - size
      <3> HIDE DEF a
      <3> QED BY <2>2, ModSmall, Zenon
    <2> QED BY <2>1, <2>2, <2>3 DEF Cell
  <1> DEFINE n == Held(head, tail, size)
             C == [i \in 1 .. n |-> ring[Cell(head, i, size)]]
  <1>4. Contents(ring, head, tail, size) = C
    BY <1>2, <1>3, Zenon DEF Contents
  <1>5. \A i \in 1 .. n : ring[Cell(head, i, size)] \in S
    BY <1>3 DEF Ring
  <1>6. C \in Seq(S) /\ Len(C) = n /\ \A i \in 1 .. n : C[i] = ring[Cell(head, i, size)]
    <2> HIDE DEF n
    <2> QED BY <1>1, <1>5 DEF n
  <1> HIDE DEF C
  <1> QED BY <1>1, <1>3, <1>4, <1>6

(* keyboard_queue_char and schedule_signal add at the end, and find a ring *)
(* full exactly when all of its cells but one are in use.                  *)
LEMMA RingPut ==
  ASSUME NEW ring, NEW head, NEW tail, NEW size, NEW S, NEW item, NEW put, NEW next,
         RingTyped(ring, head, tail, size, S), RingTyped(put, head, next, size, S),
         item \in S, next = After(tail, size), next # head, put[tail] = item,
         \A i \in 0 .. size - 1 : i # tail => put[i] = ring[i]
  PROVE  /\ Len(Contents(ring, head, tail, size)) < size - 1
         /\ Contents(put, head, next, size) = Append(Contents(ring, head, tail, size), item)
  <1> DEFINE n == Held(head, tail, size)
             old == Contents(ring, head, tail, size)
             new == Contents(put, head, next, size)
  <1>1. Held(head, next, size) = n + 1 /\ n < size - 1 /\ n \in Nat
    BY DEF Held, After, RingTyped
  <1>2. /\ old \in Seq(S) /\ Len(old) = n
        /\ \A i \in 1 .. n : old[i] = ring[Cell(head, i, size)] /\ Cell(head, i, size) \in 0 .. size - 1
    BY ContentsFacts
  <1>3. /\ new \in Seq(S) /\ Len(new) = n + 1
        /\ \A i \in 1 .. n + 1 : new[i] = put[Cell(head, i, size)]
    BY <1>1, ContentsFacts
  <1>4. Cell(head, n + 1, size) = tail /\ \A i \in 1 .. n : Cell(head, i, size) # tail
    BY <1>1 DEF Cell, Held, RingTyped
  <1> HIDE DEF n, old, new
  <1>5. new[n + 1] = item /\ \A i \in 1 .. n : new[i] = old[i]
    BY <1>1, <1>2, <1>3, <1>4, SMTT(30)
  <1>6. Append(old, item) \in Seq(S) /\ Len(Append(old, item)) = n + 1
    BY <1>1, <1>2, SMTT(30)
  <1>7. new = Append(old, item)
    BY <1>1, <1>2, <1>3, <1>5, <1>6, SeqEqual
  <1> QED BY <1>1, <1>2, <1>7 DEF old, new

LEMMA RingFull ==
  ASSUME NEW ring, NEW head, NEW tail, NEW size, NEW S,
         RingTyped(ring, head, tail, size, S), After(tail, size) = head
  PROVE  Len(Contents(ring, head, tail, size)) = size - 1
  <1>1. Len(Contents(ring, head, tail, size)) = Held(head, tail, size)
    BY ContentsFacts
  <1> QED BY <1>1 DEF Held, After, RingTyped

(* keyboard_try_read_char and signal_dispatch_pending take from the front. *)
LEMMA RingGet ==
  ASSUME NEW ring, NEW head, NEW tail, NEW size, NEW S, NEW next,
         RingTyped(ring, head, tail, size, S), RingTyped(ring, next, tail, size, S),
         head # tail, next = After(head, size)
  PROVE  /\ ring[head] \in S
         /\ Contents(ring, head, tail, size) # <<>>
         /\ Contents(ring, next, tail, size) = Tail(Contents(ring, head, tail, size))
  <1> DEFINE n == Held(head, tail, size)
             old == Contents(ring, head, tail, size)
             new == Contents(ring, next, tail, size)
  <1>1. n > 0 /\ n \in Nat /\ Held(next, tail, size) = n - 1
    BY DEF Held, After, RingTyped
  <1>2. /\ old \in Seq(S) /\ Len(old) = n
        /\ \A i \in 1 .. n : old[i] = ring[Cell(head, i, size)]
    BY ContentsFacts
  <1>3. /\ new \in Seq(S) /\ Len(new) = n - 1
        /\ \A i \in 1 .. n - 1 : new[i] = ring[Cell(next, i, size)]
    BY <1>1, ContentsFacts
  <1>4. \A i \in 1 .. n - 1 : Cell(next, i, size) = Cell(head, i + 1, size)
    BY <1>1 DEF Cell, Held, After, RingTyped
  <1> HIDE DEF n, old, new
  <1>5. old # <<>>
    BY <1>1, <1>2
  <1>6. /\ Tail(old) \in Seq(S) /\ Len(Tail(old)) = n - 1
        /\ \A i \in 1 .. n - 1 : Tail(old)[i] = old[i + 1]
    BY <1>1, <1>2
  <1>7. new = Tail(old)
    BY <1>1, <1>2, <1>3, <1>4, <1>6, SeqEqual
  <1>8. ring[head] \in S
    BY DEF Ring, RingTyped
  <1> QED BY <1>5, <1>7, <1>8 DEF old, new

----------------------------------------------------------------------------
(* The two rings as queues: what each operation does to their contents.    *)
KeyContents == Contents(keyboard_buffer, keyboard_head, keyboard_tail, KEYBOARD_BUFFER_SIZE)

SignalContents == Contents(pending_signals, signal_head, signal_tail, SIGNAL_QUEUE_CAPACITY)

KeyTyped ==
  RingTyped(keyboard_buffer, keyboard_head, keyboard_tail, KEYBOARD_BUFFER_SIZE,
            Keys \cup {NoKey})

SignalTyped ==
  RingTyped(pending_signals, signal_head, signal_tail, SIGNAL_QUEUE_CAPACITY,
            Signals \cup {None})

LEMMA QueueCharFacts ==
  ASSUME KeyTyped, NEW item \in Keys, QueueChar(item)
  PROVE  /\ KeyTyped'
         /\ keyboard_head # keyboard_tail => (keyboard_head # keyboard_tail)'
         /\ KeyQueue!Put(item) \/ KeyQueue!Refuse
         /\ key_refused' \in {key_refused, TRUE}
  <1> DEFINE next == (keyboard_tail + 1) % KEYBOARD_BUFFER_SIZE
  <1>1. UNCHANGED keyboard_head
    BY DEF QueueChar
  <1>2. next = After(keyboard_tail, KEYBOARD_BUFFER_SIZE) /\ next \in 0 .. KEYBOARD_BUFFER_SIZE - 1
    BY NextCell DEF KeyTyped, RingTyped
  <1>3. CASE next = keyboard_head
    <2>1. key_refused' = TRUE /\ UNCHANGED <<keyboard_buffer, keyboard_tail>>
      BY <1>3 DEF QueueChar, KeyRingFull
    <2>2. Len(KeyContents) = KEYBOARD_BUFFER_SIZE - 1
      BY <1>2, <1>3, RingFull DEF KeyTyped, KeyContents
    <2>3. KeyQueue!Refuse
      BY <1>1, <2>1, <2>2 DEF KeyQueue!Refuse, KeyContents
    <2> QED BY <1>1, <2>1, <2>3 DEF KeyTyped
  <1>4. CASE next # keyboard_head
    <2>1. /\ keyboard_buffer' = [keyboard_buffer EXCEPT ![keyboard_tail] = item]
          /\ keyboard_tail' = next
          /\ UNCHANGED key_refused
      BY <1>4 DEF QueueChar, KeyRingFull
    <2> HIDE DEF next
    <2>2. /\ KeyTyped'
          /\ keyboard_buffer'[keyboard_tail] = item
          /\ \A i \in 0 .. KEYBOARD_BUFFER_SIZE - 1 :
               i # keyboard_tail => keyboard_buffer'[i] = keyboard_buffer[i]
      BY <1>1, <1>2, <2>1 DEF KeyTyped, RingTyped, Ring
    <2>3. /\ Len(KeyContents) < KEYBOARD_BUFFER_SIZE - 1
          /\ KeyContents' = Append(KeyContents, item)
      <3>1. item \in Keys \cup {NoKey} /\ keyboard_tail' = next /\ keyboard_tail' # keyboard_head
        BY <1>4, <2>1
      <3>2. RingTyped(keyboard_buffer, keyboard_head, keyboard_tail, KEYBOARD_BUFFER_SIZE, Keys \cup {NoKey})
            /\ RingTyped(keyboard_buffer', keyboard_head, keyboard_tail', KEYBOARD_BUFFER_SIZE, Keys \cup {NoKey})
        BY <1>1, <2>2 DEF KeyTyped
      <3>3. /\ Len(Contents(keyboard_buffer, keyboard_head, keyboard_tail, KEYBOARD_BUFFER_SIZE)) < KEYBOARD_BUFFER_SIZE - 1
            /\ Contents(keyboard_buffer', keyboard_head, keyboard_tail', KEYBOARD_BUFFER_SIZE)
                 = Append(Contents(keyboard_buffer, keyboard_head, keyboard_tail, KEYBOARD_BUFFER_SIZE), item)
        BY <1>2, <2>2, <3>1, <3>2, RingPut
      <3> QED BY <1>1, <3>3 DEF KeyContents
    <2>4. KeyQueue!Put(item)
      BY <2>1, <2>3, Zenon DEF KeyQueue!Put, KeyContents
    <2> QED BY <1>1, <1>4, <2>1, <2>2, <2>4
  <1> QED BY <1>3, <1>4, Zenon

LEMMA TryReadFacts ==
  ASSUME KeyTyped, TryRead
  PROVE  KeyTyped' /\ key' \in Keys \cup {NoKey} /\ KeyQueue!Get
  <1> DEFINE next == (keyboard_head + 1) % KEYBOARD_BUFFER_SIZE
  <1>1. next = After(keyboard_head, KEYBOARD_BUFFER_SIZE) /\ next \in 0 .. KEYBOARD_BUFFER_SIZE - 1
    BY NextCell DEF KeyTyped, RingTyped
  <1>2. /\ keyboard_head' = next /\ key' = keyboard_buffer[keyboard_head]
        /\ keyboard_head # keyboard_tail
        /\ UNCHANGED <<keyboard_buffer, keyboard_tail, key_refused>>
    BY DEF TryRead
  <1> HIDE DEF next
  <1>3. KeyTyped'
    BY <1>1, <1>2 DEF KeyTyped, RingTyped
  <1>4. /\ key' \in Keys \cup {NoKey}
        /\ KeyContents # <<>> /\ KeyContents' = Tail(KeyContents)
    BY <1>1, <1>2, <1>3, RingGet DEF KeyTyped, KeyContents
  <1>5. KeyQueue!Get
    BY <1>2, <1>4 DEF KeyQueue!Get, KeyContents
  <1> QED BY <1>3, <1>4, <1>5

LEMMA ScheduleSignalFacts ==
  ASSUME SignalTyped, NEW signal \in Signals, ScheduleSignal(signal)
  PROVE  /\ SignalTyped'
         /\ SignalQueue!Put(signal) \/ SignalQueue!Refuse
         /\ signal_refused' \in {signal_refused, TRUE}
  <1> DEFINE next_tail == (signal_tail + 1) % SIGNAL_QUEUE_CAPACITY
  <1>1. UNCHANGED signal_head
    BY DEF ScheduleSignal
  <1>2. /\ next_tail = After(signal_tail, SIGNAL_QUEUE_CAPACITY)
        /\ next_tail \in 0 .. SIGNAL_QUEUE_CAPACITY - 1
    BY NextCell DEF SignalTyped, RingTyped
  <1>3. CASE next_tail = signal_head
    <2>1. signal_refused' = TRUE /\ UNCHANGED <<pending_signals, signal_tail>>
      BY <1>3 DEF ScheduleSignal
    <2>2. Len(SignalContents) = SIGNAL_QUEUE_CAPACITY - 1
      BY <1>2, <1>3, RingFull DEF SignalTyped, SignalContents
    <2>3. SignalQueue!Refuse
      BY <1>1, <2>1, <2>2 DEF SignalQueue!Refuse, SignalContents
    <2> QED BY <1>1, <2>1, <2>3 DEF SignalTyped
  <1>4. CASE next_tail # signal_head
    <2>1. /\ pending_signals' = [pending_signals EXCEPT ![signal_tail] = signal]
          /\ signal_tail' = next_tail
          /\ UNCHANGED signal_refused
      BY <1>4 DEF ScheduleSignal
    <2> HIDE DEF next_tail
    <2>2. /\ SignalTyped'
          /\ pending_signals'[signal_tail] = signal
          /\ \A i \in 0 .. SIGNAL_QUEUE_CAPACITY - 1 :
               i # signal_tail => pending_signals'[i] = pending_signals[i]
      BY <1>1, <1>2, <2>1 DEF SignalTyped, RingTyped, Ring
    <2>3. /\ Len(SignalContents) < SIGNAL_QUEUE_CAPACITY - 1
          /\ SignalContents' = Append(SignalContents, signal)
      <3>1. signal \in Signals \cup {None} /\ signal_tail' = next_tail /\ signal_tail' # signal_head
        BY <1>4, <2>1
      <3>2. RingTyped(pending_signals, signal_head, signal_tail, SIGNAL_QUEUE_CAPACITY, Signals \cup {None})
            /\ RingTyped(pending_signals', signal_head, signal_tail', SIGNAL_QUEUE_CAPACITY, Signals \cup {None})
        BY <1>1, <2>2 DEF SignalTyped
      <3>3. /\ Len(Contents(pending_signals, signal_head, signal_tail, SIGNAL_QUEUE_CAPACITY)) < SIGNAL_QUEUE_CAPACITY - 1
            /\ Contents(pending_signals', signal_head, signal_tail', SIGNAL_QUEUE_CAPACITY)
                 = Append(Contents(pending_signals, signal_head, signal_tail, SIGNAL_QUEUE_CAPACITY), signal)
        BY <1>2, <2>2, <3>1, <3>2, RingPut
      <3> QED BY <1>1, <3>3 DEF SignalContents
    <2>4. SignalQueue!Put(signal)
      BY <2>1, <2>3, Zenon DEF SignalQueue!Put, SignalContents
    <2> QED BY <2>1, <2>2, <2>4
  <1> QED BY <1>3, <1>4, Zenon

LEMMA DispatchFacts ==
  ASSUME SignalTyped, signal_head # signal_tail, Dispatch,
         UNCHANGED <<pending_signals, signal_tail, signal_refused>>
  PROVE  SignalTyped' /\ SignalQueue!Get
  <1> DEFINE next == (signal_head + 1) % SIGNAL_QUEUE_CAPACITY
  <1>1. next = After(signal_head, SIGNAL_QUEUE_CAPACITY) /\ next \in 0 .. SIGNAL_QUEUE_CAPACITY - 1
    BY NextCell DEF SignalTyped, RingTyped
  <1>2. signal_head' = next
    BY DEF Dispatch
  <1> HIDE DEF next
  <1>3. SignalTyped'
    BY <1>1, <1>2 DEF SignalTyped, RingTyped
  <1>4. SignalContents # <<>> /\ SignalContents' = Tail(SignalContents)
    BY <1>1, <1>2, <1>3, RingGet DEF SignalTyped, SignalContents
  <1>5. SignalQueue!Get
    BY <1>2, <1>4 DEF SignalQueue!Get, SignalContents
  <1> QED BY <1>3, <1>5

----------------------------------------------------------------------------
(* The steps.  RestTyped is the part of TypeOK that is not about the rings.*)
RestTyped ==
  /\ shift_held \in BOOLEAN /\ extended_prefix \in BOOLEAN
  /\ key \in Keys \cup {NoKey} /\ arrived \in 0 .. MaxInput
  /\ key_refused \in BOOLEAN /\ signal_refused \in BOOLEAN

LEMMA TypeParts == TypeOK <=> KeyTyped /\ SignalTyped /\ RestTyped
  BY InputAssumption, Zenon DEF TypeOK, KeyTyped, SignalTyped, RingTyped, RestTyped

LEMMA TypePartsNext == KeyTyped' /\ SignalTyped' /\ RestTyped' => TypeOK'
  BY TypeParts, PTL

(* What a step does to the two queues.                                     *)
KeyStep == KeyQueue!Next \/ UNCHANGED <<KeyContents, key_refused>>

SignalStep == SignalQueue!Next \/ UNCHANGED <<SignalContents, signal_refused>>

LEMMA KeysIdle ==
  ASSUME KeyTyped, UNCHANGED keyVars
  PROVE  KeyTyped' /\ KeyStep
  BY DEF keyVars, KeyTyped, KeyStep, KeyContents

LEMMA SignalsIdle ==
  ASSUME SignalTyped, UNCHANGED signalVars
  PROVE  SignalTyped' /\ SignalStep
  BY DEF signalVars, SignalTyped, SignalStep, SignalContents

(* The handler.                                                            *)
LEMMA IRQ1Step ==
  ASSUME TypeOK, FirstKeyReady, NEW scancode \in Scancodes, IRQ1(scancode)
  PROVE  TypeOK' /\ FirstKeyReady' /\ KeyStep /\ SignalStep
  <1> DEFINE c == CharOf(scancode)
             item == [char |-> c, shifted |-> shift_held]
  <1>1. KeyTyped /\ SignalTyped /\ RestTyped
    BY TypeParts
  <1>2. /\ shift_held' \in BOOLEAN /\ extended_prefix' \in BOOLEAN
        /\ arrived' \in 0 .. MaxInput /\ key' \in Keys \cup {NoKey} /\ UNCHANGED pc
    <2>1. shift_held' \in BOOLEAN
      <3>1. (scancode = "shift") \in BOOLEAN
        OBVIOUS
      <3> QED BY <1>1, <3>1, Zenon DEF IRQ1, RestTyped
    <2>2. extended_prefix' \in BOOLEAN
      <3>1. (scancode = "E0") \in BOOLEAN
        OBVIOUS
      <3> QED BY <1>1, <3>1, Zenon DEF IRQ1, RestTyped
    <2>3. arrived' \in 0 .. MaxInput /\ UNCHANGED <<pc, key>>
      BY <1>1, InputAssumption DEF IRQ1, RestTyped
    <2> QED BY <1>1, <2>1, <2>2, <2>3 DEF RestTyped
  <1>3. CASE c = None
    <2>1. UNCHANGED keyVars /\ UNCHANGED signalVars
      BY <1>3 DEF IRQ1
    <2>2. KeyTyped' /\ KeyStep /\ SignalTyped' /\ SignalStep
      BY <1>1, <2>1, KeysIdle, SignalsIdle
    <2>3. FirstKeyReady'
      BY <1>2, <2>1 DEF FirstKeyReady, keyVars
    <2>4. RestTyped'
      BY <1>1, <1>2, <2>1 DEF RestTyped, keyVars, signalVars
    <2> QED BY <2>2, <2>3, <2>4, TypePartsNext
  <1>4. CASE c # None
    <2>1. QueueChar(item) /\ ScheduleSignal("KEYBOARD")
      BY <1>4 DEF IRQ1
    <2>2. c \in Chars
      BY <1>4 DEF CharOf, Chars
    <2>3. item \in Keys /\ "KEYBOARD" \in Signals
      BY <1>1, <2>2 DEF Keys, RestTyped, Signals
    <2> HIDE DEF item, c
    <2>4. /\ KeyTyped' /\ KeyStep
          /\ keyboard_head # keyboard_tail => (keyboard_head # keyboard_tail)'
          /\ key_refused' \in {key_refused, TRUE}
      BY <1>1, <2>1, <2>3, QueueCharFacts, Zenon DEF KeyStep, KeyQueue!Next
    <2>5. SignalTyped' /\ SignalStep /\ signal_refused' \in {signal_refused, TRUE}
      BY <1>1, <2>1, <2>3, ScheduleSignalFacts, Zenon DEF SignalStep,
         SignalQueue!Next
    <2>6. FirstKeyReady'
      BY <1>2, <2>4 DEF FirstKeyReady
    <2>7. key_refused' \in BOOLEAN /\ signal_refused' \in BOOLEAN
      BY <1>1, <2>4, <2>5, Zenon DEF RestTyped
    <2>8. RestTyped'
      BY <1>2, <2>7 DEF RestTyped
    <2> QED BY <2>4, <2>5, <2>6, <2>8, TypePartsNext
  <1> QED BY <1>3, <1>4

(* The kernel context.                                                     *)
LEMMA DispatchStep ==
  ASSUME TypeOK, FirstKeyReady, NEW at, NEW next, next # "boot_read", at # "boot_read",
         DispatchLoop(at, next)
  PROVE  TypeOK' /\ FirstKeyReady' /\ KeyStep /\ SignalStep
  <1>1. KeyTyped /\ SignalTyped /\ RestTyped
    BY TypeParts
  <1>2. UNCHANGED <<keyVars, modeVars, pending_signals, signal_tail, signal_refused, key, arrived>>
    BY DEF DispatchLoop
  <1>3. RestTyped' /\ pc' # "boot_read"
    BY <1>1, <1>2 DEF RestTyped, DispatchLoop, keyVars, modeVars
  <1>4. KeyTyped' /\ KeyStep
    BY <1>1, <1>2, KeysIdle
  <1>5. SignalTyped' /\ SignalStep
    <2>1. CASE signal_head # signal_tail /\ Dispatch
      BY <1>1, <1>2, <2>1, DispatchFacts DEF SignalStep, SignalQueue!Next
    <2>2. CASE UNCHANGED signal_head
      BY <1>1, <1>2, <2>2, SignalsIdle DEF signalVars
    <2> QED BY <2>1, <2>2 DEF DispatchLoop
  <1> QED BY <1>3, <1>4, <1>5, TypePartsNext DEF FirstKeyReady

LEMMA ReaderStep ==
  ASSUME TypeOK, FirstKeyReady, BootTest \/ BootRead \/ Poll \/ Classify \/ UseChar
  PROVE  TypeOK' /\ FirstKeyReady' /\ KeyStep /\ SignalStep
  <1> USE DEF Goto
  <1>1. KeyTyped /\ SignalTyped /\ RestTyped
    BY TypeParts
  <1>2. UNCHANGED modeVars /\ arrived' \in 0 .. MaxInput
    BY <1>1, InputAssumption DEF RestTyped, BootTest, BootRead, Poll, Classify, UseChar, SerialChar
  <1>3. pc' = "boot_read" => keyboard_head # keyboard_tail /\ UNCHANGED keyVars
    BY DEF BootTest, BootRead, Poll, Classify, UseChar
  <1>4. \/ UNCHANGED <<keyVars, key>>
        \/ UNCHANGED keyVars /\ key' = [char |-> "a", shifted |-> FALSE]
        \/ TryRead
    BY DEF BootTest, BootRead, Poll, Classify, UseChar
  <1>5. UNCHANGED signalVars \/ ScheduleSignal("TEST")
    BY DEF BootTest, BootRead, Poll, Classify, UseChar
  <1>6. KeyTyped' /\ KeyStep /\ key' \in Keys \cup {NoKey} /\ key_refused' = key_refused
    <2>1. CASE TryRead
      BY <1>1, <2>1, TryReadFacts DEF KeyStep, KeyQueue!Next, TryRead
    <2>2. CASE UNCHANGED keyVars
      <3>1. [char |-> "a", shifted |-> FALSE] \in Keys
        BY DEF Keys, Chars
      <3>2. CASE TryRead
        BY <2>1, <3>2
      <3>3. CASE UNCHANGED key \/ key' = [char |-> "a", shifted |-> FALSE]
        BY <1>1, <2>2, <3>1, <3>3, KeysIdle, Zenon DEF keyVars, RestTyped
      <3> QED BY <1>4, <3>2, <3>3
    <2> QED BY <1>4, <2>1, <2>2
  <1>7. SignalTyped' /\ SignalStep /\ signal_refused' \in {signal_refused, TRUE}
    <2>1. CASE UNCHANGED signalVars
      BY <1>1, <2>1, SignalsIdle DEF signalVars
    <2>2. CASE ScheduleSignal("TEST")
      <3>1. "TEST" \in Signals
        BY DEF Signals
      <3> QED BY <1>1, <2>2, <3>1, ScheduleSignalFacts, Zenon DEF SignalStep,
                 SignalQueue!Next
    <2> QED BY <1>5, <2>1, <2>2, Zenon
  <1>8. signal_refused' \in BOOLEAN /\ key_refused' \in BOOLEAN
    BY <1>1, <1>6, <1>7, Zenon DEF RestTyped
  <1>9. RestTyped'
    BY <1>1, <1>2, <1>6, <1>8 DEF RestTyped, modeVars
  <1>10. FirstKeyReady'
    BY <1>3 DEF FirstKeyReady, keyVars
  <1> QED BY <1>6, <1>7, <1>9, <1>10, TypePartsNext

LEMMA InputStep ==
  ASSUME TypeOK, FirstKeyReady, [Next]_vars
  PROVE  TypeOK' /\ FirstKeyReady' /\ KeyStep /\ SignalStep
  <1>1. CASE \E scancode \in Scancodes : IRQ1(scancode)
    BY <1>1, IRQ1Step
  <1>2. CASE DispatchLoop("boot_dispatch", "boot_test") \/ DispatchLoop("dispatch", "poll")
    <2>1. CASE DispatchLoop("boot_dispatch", "boot_test")
      BY <2>1, DispatchStep
    <2>2. CASE DispatchLoop("dispatch", "poll")
      BY <2>2, DispatchStep
    <2> QED BY <1>2, <2>1, <2>2
  <1>3. CASE BootTest \/ BootRead \/ Poll \/ Classify \/ UseChar
    BY <1>3, ReaderStep
  <1>4. CASE UNCHANGED vars
    <2>1. KeyTyped /\ SignalTyped /\ RestTyped
      BY TypeParts
    <2>2. UNCHANGED keyVars /\ UNCHANGED signalVars /\ UNCHANGED <<modeVars, pc, key, arrived>>
      BY <1>4 DEF vars
    <2>3. KeyTyped' /\ KeyStep /\ SignalTyped' /\ SignalStep
      BY <2>1, <2>2, KeysIdle, SignalsIdle
    <2>4. RestTyped' /\ FirstKeyReady'
      BY <2>1, <2>2 DEF RestTyped, FirstKeyReady, keyVars, signalVars, modeVars
    <2> QED BY <2>3, <2>4, TypePartsNext
  <1> QED BY <1>1, <1>2, <1>3, <1>4 DEF Next, KernelStep

LEMMA InputStart == Init => TypeOK /\ FirstKeyReady
  <1> SUFFICES ASSUME Init PROVE TypeOK /\ FirstKeyReady
    OBVIOUS
  <1>1. KeyTyped /\ SignalTyped
    BY InputAssumption DEF Init, KeyTyped, SignalTyped, RingTyped, Ring
  <1>2. RestTyped
    <2>1. key \in Keys \cup {NoKey} /\ arrived \in 0 .. MaxInput
      BY InputAssumption DEF Init
    <2> QED BY <2>1, Zenon DEF Init, RestTyped
  <1> QED BY <1>1, <1>2, TypeParts DEF Init, FirstKeyReady

LEMMA EmptyRing ==
  ASSUME NEW ring, NEW size \in Nat \ {0}
  PROVE  Contents(ring, 0, 0, size) = <<>>
  <1>1. (0 - 0 + size) % size = 0
    BY ModSmall
  <1> QED BY <1>1 DEF Contents

----------------------------------------------------------------------------
(* Heads and tails stay inside the rings of keyboard.c and signals.c, for  *)
(* rings of any size.                                                      *)
THEOREM InputTyped == Spec => []TypeOK
  <1>1. TypeOK /\ FirstKeyReady /\ [Next]_vars => TypeOK' /\ FirstKeyReady'
    BY InputStep
  <1> QED BY <1>1, InputStart, PTL DEF Spec

(* When kernel_main leaves its wait for the first key, keyboard_getchar    *)
(* finds one without halting.                                              *)
THEOREM FirstKeyWaits == Spec => []FirstKeyReady
  <1>1. TypeOK /\ FirstKeyReady /\ [Next]_vars => TypeOK' /\ FirstKeyReady'
    BY InputStep
  <1> QED BY <1>1, InputStart, PTL DEF Spec

(* The ring of keyboard.c is a queue: what keyboard_queue_char puts in it  *)
(* comes out of keyboard_try_read_char once and in order, and a character  *)
(* is dropped only when all cells but one are in use.                      *)
THEOREM KeyRingQueues == Spec => ImplementsKeyQueue
  <1>1. Init => KeyQueue!Init
    BY EmptyRing, InputAssumption DEF Init, KeyQueue!Init
  <1>2. TypeOK /\ FirstKeyReady /\ [Next]_vars => [KeyQueue!Next]_<<KeyContents, key_refused>>
    BY InputStep DEF KeyStep
  <1> QED BY <1>1, <1>2, InputTyped, FirstKeyWaits, PTL
          DEF Spec, ImplementsKeyQueue, KeyQueue!QueueSpec, KeyContents

(* So is the ring of signals.c, fed by the handler and by the shell.       *)
THEOREM SignalRingQueues == Spec => ImplementsSignalQueue
  <1>1. Init => SignalQueue!Init
    BY EmptyRing, InputAssumption DEF Init, SignalQueue!Init
  <1>2. TypeOK /\ FirstKeyReady /\ [Next]_vars
          => [SignalQueue!Next]_<<SignalContents, signal_refused>>
    BY InputStep DEF SignalStep
  <1> QED BY <1>1, <1>2, InputTyped, FirstKeyWaits, PTL
          DEF Spec, ImplementsSignalQueue, SignalQueue!QueueSpec, SignalContents
=============================================================================
