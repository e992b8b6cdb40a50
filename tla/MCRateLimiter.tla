--------------------------- MODULE MCRateLimiter ---------------------------
(***************************************************************************)
(* Three rates for RateLimiter: two in the fine unit, with a burst and     *)
(* without, and one in the coarse unit.                                    *)
(***************************************************************************)
EXTENDS RateLimiter

MCFirst == [grain |-> 1, cost |-> 2, over |-> 4]
MCRates == {MCFirst, [grain |-> 1, cost |-> 3, over |-> 3], [grain |-> 2, cost |-> 1, over |-> 4]}
=============================================================================
