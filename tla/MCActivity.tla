----------------------------- MODULE MCActivity -----------------------------
(* Small instances of Activity.                                            *)
EXTENDS Activity, TLC

\* One row per op, and an op of two rows followed by one of a single row.
PlainRows == <<0, 1, 2>>
BatchRows == <<0, 2, 3>>

FiberSymmetry == Permutations(Fibers \ InitialFibers) \cup Permutations(InitialFibers)
=============================================================================
