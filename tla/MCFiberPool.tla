---------------------------- MODULE MCFiberPool ----------------------------
(* Instances of FiberPool for TLC.                                          *)
EXTENDS FiberPool, TLC

OperatorSymmetry == Permutations(Operators)
TargetValues == 1..3
=============================================================================
