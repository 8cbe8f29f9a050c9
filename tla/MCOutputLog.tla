----------------------------- MODULE MCOutputLog -----------------------------
(***************************************************************************)
(* OutputLog, seen as a stream, on a small instance.                       *)
(***************************************************************************)
EXTENDS OutputLogStream

Symmetry == Permutations(Grids)
=============================================================================
