------------------------------- MODULE MCHeap -------------------------------
(* Small heaps: two of at most 16 units of memory in pages of 4, a fastbin  *)
(* for chunks of 2, small bins for 2 and 3, large bins of four sizes each.  *)
EXTENDS HeapInvariant
=============================================================================
