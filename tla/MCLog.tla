------------------------------- MODULE MCLog -------------------------------
(* Small instances of the store file, and of its refinement, for TLC. *)
EXTENDS LogRefinement
=============================================================================
