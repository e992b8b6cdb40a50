----------------------------- MODULE MCThrottle -----------------------------
(* Instances of Throttle for TLC: the fractions are no failure, the dead    *)
(* band, a marginal breach and total failure.                                *)
EXTENDS Throttle

AllFracs == {0, 3, 7, 100}
NoOperator == {}
OperatorOffers == {7}
=============================================================================
