--------------------------- MODULE MCResourcePool ---------------------------
EXTENDS ResourcePool

CONSTANTS p1, p2

TwoUsers == {p1, p2}
Predicted == 0..5
=============================================================================
