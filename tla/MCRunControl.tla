---------------------------- MODULE MCRunControl ----------------------------
(* TLC instance of RunControl. *)
EXTENDS RunControl, TLC

(* Workers and tokens are interchangeable: no action compares them. *)
Symmetry == Permutations(Workers) \cup Permutations(Tokens)
=============================================================================
