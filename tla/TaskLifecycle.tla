---------------------------- MODULE TaskLifecycle ----------------------------
(***************************************************************************)
(* What the task queue promises about one row of the tasks table, with no  *)
(* database session, no program counter and no signal in sight.            *)
(*                                                                         *)
(* A task is added, claimed, run by one worker at a time, and then either  *)
(* marked done, which only a run that reached its end may do, or dropped.  *)
(* A dropped task is what is left of a claim that will not be finished: it *)
(* may be handed back to the queue, or stay as it is forever.  WorkerQueue *)
(* is shown to implement this specification.                               *)
(***************************************************************************)
CONSTANTS Tasks,     (* task ids                                           *)
          Workers,   (* worker replicas                                    *)
          NoWorker

VARIABLES stage,     (* where each task is in its life                     *)
          runner     (* the worker executing the task, or NoWorker         *)

vars == <<stage, runner>>

Stages == {"absent", "pending", "claimed", "running", "worked", "dropped",
           "done", "purged"}

Init == /\ stage  = [t \in Tasks |-> "absent"]
        /\ runner = [t \in Tasks |-> NoWorker]

(* Only the stages move; nobody starts or stops executing.                 *)
Move(t, from, to) == /\ stage[t] \in from
                     /\ stage' = [stage EXCEPT ![t] = to]
                     /\ UNCHANGED runner

Add(t)      == Move(t, {"absent"}, "pending")
Claim(t)    == Move(t, {"pending"}, "claimed")
ClaimLost(t) == Move(t, {"pending", "claimed", "worked"}, "dropped")
GiveBack(t) == Move(t, {"dropped"}, "pending")
Complete(t) == Move(t, {"worked"}, "done")
Purge(t)    == Move(t, {"done"}, "purged")

Begin(t, w) == /\ stage[t] = "claimed"
               /\ stage'  = [stage EXCEPT ![t] = "running"]
               /\ runner' = [runner EXCEPT ![t] = w]

End(t, to) == /\ stage[t] = "running"
              /\ stage'  = [stage EXCEPT ![t] = to]
              /\ runner' = [runner EXCEPT ![t] = NoWorker]

Next == \E t \in Tasks :
           \/ Add(t) \/ Claim(t) \/ ClaimLost(t) \/ GiveBack(t)
           \/ Complete(t) \/ Purge(t)
           \/ \E w \in Workers : Begin(t, w)
           \/ End(t, "worked") \/ End(t, "dropped")

Spec == Init /\ [][Next]_vars
=============================================================================
