-------------------------- MODULE MCSandboxCustody --------------------------
(* TLC instance of SandboxCustody. *)
EXTENDS SandboxCustody, TLC

(* Workers and tokens are interchangeable: no action compares them. *)
Symmetry == Permutations(Workers) \cup Permutations(Tokens)
=============================================================================
