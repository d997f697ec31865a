------------------------------- MODULE KHeap -------------------------------
(***************************************************************************)
(* The kernel heap of kernel/src/kmalloc.c: a list of blocks, each a       *)
(* header followed by its bytes, allocated first fit, split when much too  *)
(* large, merged with free neighbours when freed, and grown at the end     *)
(* through kbrk.  Sizes and addresses are unsigned words, and kbrk takes a *)
(* signed one.  Clients free the pointers they hold, once.  A failed       *)
(* kmalloc, and the warning for a second kfree, change nothing.            *)
(*                                                                         *)
(* All calls come from the kernel context and none from an interrupt       *)
(* handler, so each is one action.  The block headers live in the heap:    *)
(* the list of the model is theirs as long as blocks do not overlap.       *)
(***************************************************************************)
EXTENDS Integers, Sequences, SetMin

CONSTANTS
  WORD,             \* 2^32
  ALIGNMENT,
  HEADER_SIZE,
  MIN_BLOCK_SIZE,
  heap_start,
  heap_max,
  Sizes             \* sizes that callers ask for

ASSUME KHeapAssumption ==
  /\ WORD \in Nat
  /\ ALIGNMENT \in Nat \ {0}
  /\ HEADER_SIZE \in Nat \ {0}
  /\ MIN_BLOCK_SIZE \in Nat \ {0}
  /\ heap_start \in Nat \ {0}
  /\ heap_max \in heap_start .. WORD - 1
  /\ Sizes \subseteq 1 .. WORD - 1

VARIABLES
  heap_end,
  blocks,    \* block_list: records of address, size and free, in list order
  held       \* what clients hold: block addresses with the size asked for

vars == <<heap_end, blocks, held>>

Block == [addr: Nat, size: Nat, free: BOOLEAN]

(* kmalloc's rounding of a request, in unsigned words.                     *)
ALIGN(n) == (((n + ALIGNMENT - 1) % WORD) \div ALIGNMENT) * ALIGNMENT

BlockSize(n) ==
  IF ALIGN(n) < MIN_BLOCK_SIZE THEN MIN_BLOCK_SIZE ELSE ALIGN(n)

(* kbrk: the new heap_end for a signed increment, or Refused.              *)
Refused == -1

Signed(n) == IF n < WORD \div 2 THEN n ELSE n - WORD

Kbrk(increment) ==
  LET new_end == (heap_end + increment) % WORD
  IN  IF increment > 0
        THEN IF new_end > heap_max THEN Refused ELSE new_end
      ELSE IF increment < 0
        THEN IF new_end < heap_start THEN heap_start ELSE new_end
      ELSE heap_end

(* find_free_block: the blocks it may stop at.                             *)
Fitting(size) == {i \in DOMAIN blocks : blocks[i].free /\ blocks[i].size >= size}

(* split_block followed by taking the block.                               *)
Remainder_Kept(b, size) ==   \* mutant: does not count the new header
  [addr |-> b.addr + HEADER_SIZE + size, size |-> b.size - size, free |-> TRUE]

Remainder(b, size) ==
  [addr |-> b.addr + HEADER_SIZE + size,
   size |-> b.size - size - HEADER_SIZE,
   free |-> TRUE]

SplitBlock(i, size) ==
  LET b == blocks[i]
  IN  IF b.size >= (size + HEADER_SIZE + MIN_BLOCK_SIZE) % WORD
        THEN << [b EXCEPT !.size = size, !.free = FALSE], Remainder(b, size) >>
        ELSE << [b EXCEPT !.free = FALSE] >>

(* coalesce_blocks: block i absorbs the next one.                          *)
Absorb(bs, i) ==
  SubSeq(bs, 1, i - 1)
    \o << [bs[i] EXCEPT !.size = @ + HEADER_SIZE + bs[i + 1].size] >>
    \o SubSeq(bs, i + 2, Len(bs))

Coalesce_NextOnly(bs, i) ==   \* mutant: forgets the previous block
  IF i < Len(bs) /\ bs[i + 1].free THEN Absorb(bs, i) ELSE bs

Coalesce(bs, i) ==
  LET merged == IF i < Len(bs) /\ bs[i + 1].free THEN Absorb(bs, i) ELSE bs
  IN  IF i > 1 /\ merged[i - 1].free THEN Absorb(merged, i - 1) ELSE merged

----------------------------------------------------------------------------

(* kmalloc_init.                                                           *)
Init == heap_end = heap_start /\ blocks = <<>> /\ held = {}

Hold(addr, request) == held' = held \cup {[addr |-> addr, size |-> request]}

(* kmalloc from a free block.                                              *)
KmallocReuse(request) ==
  LET size == BlockSize(request)
      i    == Least(Fitting(size))
  IN  /\ Fitting(size) # {}
      /\ blocks' = SubSeq(blocks, 1, i - 1) \o SplitBlock(i, size)
                     \o SubSeq(blocks, i + 1, Len(blocks))
      /\ Hold(blocks[i].addr, request)
      /\ UNCHANGED heap_end

(* kmalloc from new memory; when kbrk refuses it returns NULL and changes  *)
(* nothing.                                                                *)
KmallocExtend(request) ==
  LET size    == BlockSize(request)
      new_end == Kbrk(Signed((HEADER_SIZE + size) % WORD))
  IN  /\ Fitting(size) = {}
      /\ new_end # Refused
      /\ heap_end' = new_end
      /\ blocks' = Append(blocks, [addr |-> heap_end, size |-> size, free |-> FALSE])
      /\ Hold(heap_end, request)

Kfree(h) ==
  LET i == CHOOSE j \in DOMAIN blocks : blocks[j].addr = h.addr
  IN  /\ blocks' = Coalesce([blocks EXCEPT ![i].free = TRUE], i)
      /\ held' = held \ {h}
      /\ UNCHANGED heap_end

Next ==
  \/ \E request \in Sizes : KmallocReuse(request) \/ KmallocExtend(request)
  \/ \E h \in held : Kfree(h)

Spec == Init /\ [][Next]_vars

----------------------------------------------------------------------------
(* Types; a block is never smaller than MIN_BLOCK_SIZE.                    *)
TypeOK ==
  /\ heap_end \in 0 .. WORD - 1
  /\ blocks \in Seq(Block)
  /\ \A i \in DOMAIN blocks : blocks[i].size >= MIN_BLOCK_SIZE
  /\ \A h \in held : h.size \in Sizes

(* The blocks tile the heap: in list order they follow each other without  *)
(* gap or overlap from heap_start to heap_end, whatever was split, merged  *)
(* and appended.                                                           *)
End(b) == b.addr + HEADER_SIZE + b.size

Tiled ==
  /\ blocks = <<>> => heap_end = heap_start
  /\ blocks # <<>> => blocks[1].addr = heap_start /\ End(blocks[Len(blocks)]) = heap_end
  /\ \A i \in 1 .. Len(blocks) - 1 : blocks[i + 1].addr = End(blocks[i])

(* No fragmentation that kfree could have avoided: two neighbours are      *)
(* never both free.  With nothing held, the heap is one block.             *)
Coalesced ==
  \A i \in 1 .. Len(blocks) - 1 : ~(blocks[i].free /\ blocks[i + 1].free)

(* A pointer that a client holds stays allocated and keeps the room that   *)
(* was asked for, and nothing else is allocated.                           *)
HeldExactly ==
  /\ \A h \in held : \E i \in DOMAIN blocks :
       ~blocks[i].free /\ blocks[i].addr = h.addr /\ blocks[i].size >= h.size
  /\ \A i \in DOMAIN blocks : ~blocks[i].free =>
       \E h \in held : h.addr = blocks[i].addr
  /\ \A h, g \in held : h.addr = g.addr => h = g

(* "Heap Max: 8MB": the heap ends where kmalloc_init says it may.          *)
HeapWithinMax == heap_end \in heap_start .. heap_max

(* The heap is sound: tiled within its bounds, with every block that a     *)
(* client holds, whatever was split, merged, appended and freed.           *)
HeapSound == TypeOK /\ Tiled /\ HeldExactly /\ HeapWithinMax
=============================================================================
