--------------------------- MODULE MCRunAdmission ---------------------------
(* Instances of RunAdmission: clients are interchangeable.                  *)
EXTENDS RunAdmission, TLC

ClientSymmetry == Permutations(Clients)
=============================================================================
