---------------------------- MODULE MCGoalGraph ----------------------------
(* TLC instance of GoalGraph. *)
EXTENDS GoalGraph, TLC

(* Workers and tokens are interchangeable: no action compares them. *)
Symmetry == Permutations(Workers) \cup Permutations(Tokens)

(* Goals 2 and 3 depend on goal 1 and not on each other. *)
Fork == [g \in 1 .. Goals |-> IF g = 1 THEN {} ELSE {1}]
=============================================================================
