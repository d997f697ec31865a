---------------------------- MODULE HeapClients ----------------------------
(***************************************************************************)
(* The kernel heap with the clients it has: the records of vmalloc's       *)
(* regions, and of the shell the commands alloc and free, which remember   *)
(* one pointer, and heaptest, which makes three allocations, frees the     *)
(* middle one, makes a fourth, and frees the rest.                         *)
(*                                                                         *)
(* A pointer is the address of its block, with the size that was asked     *)
(* for.                                                                    *)
(***************************************************************************)
EXTENDS KHeap

CONSTANTS
  RegionSize,   \* sizeof(vm_region_t)
  TestSize      \* what heaptest asks for, and twice that

ASSUME HeapClientsAssumption ==
  RegionSize \in Sizes /\ TestSize \in Sizes /\ 2 * TestSize \in Sizes

VARIABLES
  last_alloc,   \* of alloc
  regions,      \* of vmalloc
  step,         \* where heaptest is; 0 when it does not run
  ptrs          \* its variables a, b, c and d

clientVars == <<vars, last_alloc, regions, step, ptrs>>

NULL == [addr |-> 0, size |-> 0]

NoPtrs == [p \in {"a", "b", "c", "d"} |-> NULL]

ClientsInit ==
  /\ Init
  /\ last_alloc = NULL /\ regions = {}
  /\ step = 0 /\ ptrs = NoPtrs

----------------------------------------------------------------------------
(* What kmalloc returns.                                                   *)
Grown(request) == Kbrk(Signed((HEADER_SIZE + BlockSize(request)) % WORD))

Returned(request) ==
  IF Fitting(BlockSize(request)) # {}
    THEN [addr |-> blocks[Least(Fitting(BlockSize(request)))].addr, size |-> request]
  ELSE IF Grown(request) # Refused THEN [addr |-> heap_end, size |-> request]
  ELSE NULL

Kmalloc(request) ==
  \/ KmallocReuse(request)
  \/ KmallocExtend(request)
  \/ Returned(request) = NULL /\ UNCHANGED vars

(* The shell's alloc: a pointer remembered from before is lost.            *)
Alloc ==
  /\ step = 0
  /\ \E request \in Sizes :
       /\ Kmalloc(request)
       /\ last_alloc' = IF Returned(request) = NULL THEN last_alloc ELSE Returned(request)
  /\ UNCHANGED <<regions, step, ptrs>>

(* The shell's free.                                                       *)
Forgotten_Kept == last_alloc   \* mutant: the pointer stays
Forgotten == NULL

Free ==
  /\ step = 0 /\ last_alloc # NULL
  /\ Kfree(last_alloc)
  /\ last_alloc' = Forgotten
  /\ UNCHANGED <<regions, step, ptrs>>

(* vmalloc, which fails when it gets no record, and vfree.                 *)
NewRegion ==
  /\ step = 0
  /\ Kmalloc(RegionSize)
  /\ regions' = regions \cup ({Returned(RegionSize)} \ {NULL})
  /\ UNCHANGED <<last_alloc, step, ptrs>>

FreeRegion ==
  /\ step = 0
  /\ \E r \in regions : Kfree(r) /\ regions' = regions \ {r}
  /\ UNCHANGED <<last_alloc, step, ptrs>>

(* heaptest                                                                *)
Test(s) == step = s /\ step' = s + 1 /\ UNCHANGED <<last_alloc, regions>>

Gets(p, request) ==
  Kmalloc(request) /\ ptrs' = [ptrs EXCEPT ![p] = Returned(request)]

Frees(p) ==
  /\ IF ptrs[p] = NULL THEN UNCHANGED vars ELSE Kfree(ptrs[p])
  /\ UNCHANGED ptrs

Heaptest ==
  \/ Test(0) /\ Gets("a", TestSize)
  \/ Test(1) /\ Gets("b", 2 * TestSize)
  \/ Test(2) /\ Gets("c", TestSize)
  \/ Test(3) /\ Frees("b")
  \/ Test(4) /\ Gets("d", TestSize)
  \/ Test(5) /\ Frees("a")
  \/ Test(6) /\ Frees("c")
  \/ Test(7) /\ Frees("d")

HeaptestEnds ==
  /\ step = 8 /\ step' = 0
  /\ ptrs' = NoPtrs
  /\ UNCHANGED <<vars, last_alloc, regions>>

ClientsNext == Alloc \/ Free \/ NewRegion \/ FreeRegion \/ Heaptest \/ HeaptestEnds

ClientsSpec == ClientsInit /\ [][ClientsNext]_clientVars

----------------------------------------------------------------------------
(* What a client will hand to kfree is a block in use, and no other        *)
(* client's: kfree never meets a header that is gone or a block that is    *)
(* free already, so it never panics and never warns.                       *)
TestHolds ==
  {ptrs[p] : p \in {q \in DOMAIN ptrs : \/ q = "a" /\ step \in 1 .. 5
                                        \/ q = "b" /\ step \in 2 .. 3
                                        \/ q = "c" /\ step \in 3 .. 6
                                        \/ q = "d" /\ step \in 5 .. 7}} \ {NULL}

Freeable ==
  /\ {last_alloc} \ {NULL} \subseteq held \ (regions \cup TestHolds)
  /\ regions \subseteq held /\ TestHolds \subseteq held
  /\ regions \cap TestHolds = {}
=============================================================================
