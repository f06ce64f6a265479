---------------------------- MODULE MCReferenceTM ----------------------------
(* ReferenceTM on a small instance: threads, words and segments are alike. *)
EXTENDS ReferenceTM, TLC

CONSTANTS t1, t2, a, b, x, y, s1, s2, s3

Symmetry == Permutations(Threads) \cup Permutations(Words) \cup Permutations(Segments)

=============================================================================
