--------------------------- MODULE MCTransaction ---------------------------
(* Transaction on a small instance. *)
EXTENDS TransactionInvariant, TLC

CONSTANTS t1, t2, t3, a, b, x, y

\* Threads of one role, and words, are interchangeable: no action names one.
Symmetry ==
    Permutations(Readers \ Writers) \cup Permutations(Writers \ Readers)
        \cup Permutations(Readers \cap Writers) \cup Permutations(Words)

=============================================================================
