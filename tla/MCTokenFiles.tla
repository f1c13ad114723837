---------------------------- MODULE MCTokenFiles ----------------------------
(* TokenFiles for TLC: handlers may trade places. *)
EXTENDS TokenFiles, TLC

Symmetry == Permutations(Handlers)
=============================================================================
