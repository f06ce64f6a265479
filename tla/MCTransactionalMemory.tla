----------------------- MODULE MCTransactionalMemory -----------------------
(* TransactionalMemory with a short period and a small table. *)
EXTENDS TransactionalMemory, TLC

CONSTANTS t1, t2, t3

Symmetry == Permutations(Threads)

=============================================================================
