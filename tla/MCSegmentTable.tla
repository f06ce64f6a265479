--------------------------- MODULE MCSegmentTable ---------------------------
(* SegmentTable with a table that is full after one or two allocations. *)
EXTENDS SegmentTable, TLC

CONSTANTS t1, t2, t3

Symmetry == Permutations(Threads)

=============================================================================
