------------------------------- MODULE MCPmm -------------------------------
(* Instances of Pmm for TLC: pages of 2 bytes, bitmap bytes of 4 frames.   *)
EXTENDS Pmm

Entry(b, l, a) == [base |-> b, length |-> l, available |-> a]

(* One region; a hole with unaligned edges; overlapping regions; a region  *)
(* beyond the end of memory.                                               *)
MCMemoryMaps ==
  { << Entry(0, 24, TRUE) >>,
    << Entry(0, 13, TRUE), Entry(13, 2, FALSE), Entry(15, 9, TRUE) >>,
    << Entry(9, 8, TRUE), Entry(1, 13, TRUE), Entry(18, 12, TRUE) >> }
=============================================================================
