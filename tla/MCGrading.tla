------------------------------ MODULE MCGrading ------------------------------
(***************************************************************************)
(* Grading for TLC.                                                        *)
(***************************************************************************)
EXTENDS Grading
=============================================================================
