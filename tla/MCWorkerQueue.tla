---------------------------- MODULE MCWorkerQueue ----------------------------
(* Small instances of WorkerQueue for TLC.                                 *)
EXTENDS WorkerQueue, TLC

Replicas == Permutations(Workers) \cup Permutations(Backends)

(* Every pending task is finished, unless an incident strands it: the      *)
(* queue drains although replies are lost, workers restart and claims      *)
(* come back empty because another claim holds the row's lock.             *)
PendingIsServed ==
  \A t \in Tasks :
    status[t] = "pending" ~> (t \in Finished \/ Stranded(t))

(* Whatever a worker waits for, it comes back to the head of its loop: the *)
(* liveness probe restarts one that a lost reply has wedged, although      *)
(* Claim and Complete have no deadline (worker/main.go, lastLoop).         *)
LoopNeverWedges == \A w \in Workers : []<>(pc[w] = "loop")
=============================================================================
