-------------------------- MODULE MCOperatorService --------------------------
(* OperatorService with two requests and two workers.                         *)
EXTENDS OperatorService, TLC
CONSTANTS r1, r2
Symm == Permutations({r1, r2})
=============================================================================
