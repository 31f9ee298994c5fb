-------------------------- MODULE MCComplexityGate ---------------------------
(* Contents around the threshold for TLC: 1/20 is 0.05 above 0; 2/5 is 0.05 *)
(* above 7/20; 1/19 is above, 1/21 below; a file without functions.         *)
EXTENDS ComplexityGate

Fns(n, sum) == [fns |-> n, cog |-> sum]
AroundThreshold == {Fns(0, 0), Fns(1, 0), Fns(20, 1), Fns(19, 1), Fns(20, 7), Fns(5, 2)}
=============================================================================
