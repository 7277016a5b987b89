------------------------- MODULE MCTaskQueueOperator -------------------------
(* Small instances of TaskQueueOperator for TLC.                           *)
EXTENDS TaskQueueOperator, TLC

Pods == Permutations(Replicas)
=============================================================================
