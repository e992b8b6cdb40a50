---------------------------- MODULE MCCheckpoint ----------------------------
(* Instances of Checkpoint for TLC.                                         *)
EXTENDS Checkpoint, TLC

CONSTANTS load, query, v1, v2

\* The operator edits load and its declaration; query stays as it is.
EditedLoad ==
    {[version |-> [p \in {load, query} |-> IF p = load THEN e[1] ELSE v1],
      idempotent |-> [p \in {load, query} |-> IF p = load THEN e[2] ELSE TRUE]] :
        e \in {<<v1, TRUE>>, <<v2, TRUE>>, <<v1, FALSE>>}}
=============================================================================
