-------------------------- MODULE TaskQueueOperator --------------------------
(***************************************************************************)
(* The TaskQueue operator (internal/controller/taskqueue_controller.go and *)
(* cmd/main.go): replicas that share one lease, informer caches that lag   *)
(* behind the API server, a work queue per replica, and the reconciler     *)
(* that makes a Deployment's replica count follow the TaskQueue naming it. *)
(*                                                                         *)
(* A write to the API server is a version; each replica's watches deliver  *)
(* the versions in order, and its caches hold the last one delivered.  A   *)
(* resourceVersion is only ever compared for equality, so a copy carries   *)
(* no number but whether the object was written since.                     *)
(***************************************************************************)
EXTENDS Integers, Sequences, FiniteSets

CONSTANTS
  Replicas,      (* operator pods                                           *)
  Queues,        (* TaskQueues that name one and the same Deployment        *)
  Workers,       (* values of spec.workers and spec.replicas                *)
  NoReplica, NoQueue,
  MaxEdits,      (* bound: writes by users to TaskQueues and the Deployment *)
  MaxFaults,     (* bound: API calls that fail or whose answer is lost      *)
  MaxHandovers,  (* bound: leases that expire                               *)
  MaxLag         (* bound: versions a watch is behind                       *)

ASSUME OperatorAssumption ==
  /\ Workers \subseteq Nat /\ 0 \in Workers
  /\ NoReplica \notin Replicas /\ NoQueue \notin Queues
  /\ MaxEdits \in Nat /\ MaxFaults \in Nat /\ MaxHandovers \in Nat
  /\ MaxLag \in Nat \ {0}

VARIABLES
  queues,        (* each TaskQueue, as the API server holds it              *)
  deploy,        (* the Deployment, as the API server holds it              *)
  lease,         (* the Lease's holder                                      *)
  op,            (* the memory of each operator replica                     *)
  edits, faults, handovers

incidents == <<edits, faults, handovers>>
vars == <<queues, deploy, lease, op, edits, faults, handovers>>

Reasons == {"none", "DeploymentNotFound", "ScalingInProgress", "AllWorkersReady"}

Status == [obs : Nat, ready : Nat, reason : Reasons]
TaskQueue == [live : BOOLEAN, workers : Workers, gen : Nat, status : Status]
Deployment == [live : BOOLEAN, replicas : Workers, ready : Nat]

NoStatus == [obs |-> 0, ready |-> 0, reason |-> "none"]
GoneQueue == [live |-> FALSE, workers |-> 0, gen |-> 0, status |-> NoStatus]
NewQueue(n) == [live |-> TRUE, workers |-> n, gen |-> 1, status |-> NoStatus]
GoneDeploy == [live |-> FALSE, replicas |-> 0, ready |-> 0]
NewDeploy(n) == [live |-> TRUE, replicas |-> n, ready |-> 0]

(* qcache, dcache: the informers' caches; qwatch, dwatch: versions on      *)
(* their way to them; work: the work queue; the rest are Reconcile's       *)
(* locals: where it is, its request, its copies of the two objects, and    *)
(* whether they are what the API server holds.                             *)
Memory == [leading : BOOLEAN,
           qcache : [Queues -> TaskQueue], qwatch : [Queues -> Seq(TaskQueue)],
           dcache : Deployment, dwatch : Seq(Deployment),
           work : SUBSET Queues,
           at : {"idle", "got", "patch", "status"}, item : Queues \cup {NoQueue},
           queue : TaskQueue, target : Deployment, qfresh : BOOLEAN, dfresh : BOOLEAN]

(* A process that has just listed everything.                              *)
Started == [leading |-> FALSE,
            qcache |-> queues, qwatch |-> [x \in Queues |-> <<>>],
            dcache |-> deploy, dwatch |-> <<>>,
            work |-> {}, at |-> "idle", item |-> NoQueue,
            queue |-> GoneQueue, target |-> GoneDeploy,
            qfresh |-> FALSE, dfresh |-> FALSE]

(* Every variable holds what the cluster and the processes can hold; a     *)
(* copy that claims to be fresh is what the API server holds, which is     *)
(* what makes its resourceVersion match.                                   *)
TypeOK ==
  /\ queues \in [Queues -> TaskQueue]
  /\ deploy \in Deployment
  /\ lease \in Replicas \cup {NoReplica}
  /\ op \in [Replicas -> Memory]
  /\ edits \in Nat /\ faults \in Nat /\ handovers \in Nat
  /\ \A r \in Replicas :
       /\ op[r].at = "idle" <=> op[r].item = NoQueue
       /\ op[r].qfresh => op[r].at # "idle" /\ op[r].queue = queues[op[r].item]
       /\ op[r].dfresh => op[r].target = deploy

(* The operator is installed in a cluster that may hold the objects.       *)
Init ==
  /\ queues \in [Queues -> {GoneQueue} \cup {NewQueue(n) : n \in Workers}]
  /\ deploy \in {GoneDeploy} \cup {NewDeploy(n) : n \in Workers}
  /\ lease = NoReplica
  /\ op = [r \in Replicas |-> Started]
  /\ edits = 0 /\ faults = 0 /\ handovers = 0

-----------------------------------------------------------------------------
(* The API server: the only place where objects change.                    *)

(* It accepts a version of TaskQueue x; memory is what the replicas        *)
(* remember after the step, before the version is on its way to them.      *)
PutQueue(x, version, memory) ==
  /\ \A r \in Replicas : Len(op[r].qwatch[x]) < MaxLag
  /\ queues' = [queues EXCEPT ![x] = version]
  /\ op' = [r \in Replicas |->
              [memory[r] EXCEPT !.qwatch[x] = Append(@, version),
                                !.qfresh = @ /\ memory[r].item # x]]

PutDeploy(version, memory) ==
  /\ \A r \in Replicas : Len(op[r].dwatch) < MaxLag
  /\ deploy' = version
  /\ op' = [r \in Replicas |->
              [memory[r] EXCEPT !.dwatch = Append(@, version), !.dfresh = FALSE]]

Edit == /\ edits < MaxEdits
        /\ edits' = edits + 1
        /\ UNCHANGED <<lease, faults, handovers>>

(* kubectl apply creates the TaskQueue, or changes spec.workers, which is  *)
(* what makes metadata.generation advance.                                 *)
ApplyQueue(x, n) ==
  /\ Edit
  /\ \/ ~queues[x].live /\ PutQueue(x, NewQueue(n), op)
     \/ /\ queues[x].live /\ queues[x].workers # n
        /\ PutQueue(x, [queues[x] EXCEPT !.workers = n, !.gen = @ + 1], op)
  /\ UNCHANGED deploy

DeleteQueue(x) ==
  /\ Edit
  /\ queues[x].live /\ PutQueue(x, GoneQueue, op)
  /\ UNCHANGED deploy

(* GitOps creates the Deployment; somebody runs kubectl scale on it.       *)
ApplyDeploy(n) ==
  /\ Edit
  /\ \/ ~deploy.live /\ PutDeploy(NewDeploy(n), op)
     \/ /\ deploy.live /\ deploy.replicas # n
        /\ PutDeploy([deploy EXCEPT !.replicas = n], op)
  /\ UNCHANGED queues

DeleteDeploy ==
  /\ Edit
  /\ deploy.live /\ PutDeploy(GoneDeploy, op)
  /\ UNCHANGED queues

(* The Deployment controller starts or stops a pod.                        *)
PodsChange ==
  /\ deploy.live /\ deploy.ready # deploy.replicas
  /\ PutDeploy([deploy EXCEPT !.ready = IF @ < deploy.replicas THEN @ + 1 ELSE @ - 1], op)
  /\ UNCHANGED <<queues, lease, incidents>>

-----------------------------------------------------------------------------
(* Caches and the work queue (controller-runtime, as SetupWithManager      *)
(* wires it).  Event handlers only run where the controllers were started. *)

Enqueue(r, items) == IF op[r].leading THEN op[r].work \cup items ELSE op[r].work

(* For(&TaskQueue{}): every event of a TaskQueue enqueues it.              *)
QueueEvent(r, x) ==
  /\ op[r].qwatch[x] # <<>>
  /\ LET m == op[r]
     IN  op' = [op EXCEPT ![r] =
           [m EXCEPT !.qcache[x] = Head(m.qwatch[x]), !.qwatch[x] = Tail(@),
                     !.work = Enqueue(r, {x})]]
  /\ UNCHANGED <<queues, deploy, lease, incidents>>

(* Which of the cached TaskQueues name the Deployment.                     *)
taskQueuesForDeployment(r) == {x \in Queues : op[r].qcache[x].live}

(* Mutant: SetupWithManager does not watch Deployments.                    *)
DeployEventUnwatched(r) ==
  /\ op[r].dwatch # <<>>
  /\ LET m == op[r]
     IN  op' = [op EXCEPT ![r] =
           [m EXCEPT !.dcache = Head(m.dwatch), !.dwatch = Tail(@)]]
  /\ UNCHANGED <<queues, deploy, lease, incidents>>

(* Watches(&Deployment{}): every event enqueues what the map function says.*)
DeployEvent(r) ==
  /\ op[r].dwatch # <<>>
  /\ LET m == op[r]
     IN  op' = [op EXCEPT ![r] =
           [m EXCEPT !.dcache = Head(m.dwatch), !.dwatch = Tail(@),
                     !.work = Enqueue(r, taskQueuesForDeployment(r))]]
  /\ UNCHANGED <<queues, deploy, lease, incidents>>

(* A replica acquires the Lease: its controllers start, and are handed     *)
(* every TaskQueue its warm cache holds.                                   *)
Elect(r) ==
  /\ lease = NoReplica /\ ~op[r].leading
  /\ lease' = r
  /\ op' = [op EXCEPT ![r] =
              [op[r] EXCEPT !.leading = TRUE, !.work = taskQueuesForDeployment(r)]]
  /\ UNCHANGED <<queues, deploy, incidents>>

(* The Lease runs out: its holder crashed, was stopped without releasing   *)
(* it, or was paused for too long, in which case it does not know yet.     *)
Expire ==
  /\ lease # NoReplica /\ handovers < MaxHandovers
  /\ lease' = NoReplica
  /\ handovers' = handovers + 1
  /\ UNCHANGED <<queues, deploy, op, edits, faults>>

(* A replica that finds it lost the Lease exits; the container restarts,   *)
(* lists everything anew and remembers nothing else.                       *)
Restart(r) ==
  /\ op[r].leading /\ lease # r
  /\ op' = [op EXCEPT ![r] = Started]
  /\ UNCHANGED <<queues, deploy, lease, incidents>>

-----------------------------------------------------------------------------
(* Reconcile.                                                              *)

(* Reconcile returned: without an error the request is forgotten, with one *)
(* it is queued again.                                                     *)
Returned(r, again) ==
  LET m == op[r]
  IN  [op EXCEPT ![r] =
        [m EXCEPT !.at = "idle", !.item = NoQueue, !.queue = GoneQueue,
                  !.target = GoneDeploy, !.qfresh = FALSE, !.dfresh = FALSE,
                  !.work = @ \cup again]]

(* Mutants: every pass asks to be run again; an error is only logged.      *)
DoneAgain(r) == Returned(r, {op[r].item})
RetryNever(r) == Returned(r, {})

Done(r) == Returned(r, {})
Retry(r) == Returned(r, {op[r].item})

(* Mutant: a cached copy is taken for what the API server holds.           *)
UpToDateAlways(watch) == TRUE

(* A cache is up to date when nothing is on its way to it.                 *)
UpToDate(watch) == watch = <<>>

(* The request is taken from the work queue and the TaskQueue read from    *)
(* the cache; one that is not there any more needs nothing.  Bound: after  *)
(* its Lease ran out a replica finishes the request it has at hand, and    *)
(* notices before it takes another.                                        *)
Take(r) ==
  /\ lease = r /\ op[r].at = "idle"
  /\ LET m == op[r]
     IN  \E x \in m.work :
           op' = [op EXCEPT ![r] =
             IF m.qcache[x].live
             THEN [m EXCEPT !.work = @ \ {x}, !.at = "got", !.item = x,
                            !.queue = m.qcache[x], !.qfresh = UpToDate(m.qwatch[x])]
             ELSE [m EXCEPT !.work = @ \ {x}]]
  /\ UNCHANGED <<queues, deploy, lease, incidents>>

(* The Deployment is read from the cache and compared.                     *)
ReadDeploy(r) ==
  /\ op[r].at = "got"
  /\ LET m == op[r]
         d == m.dcache
     IN  op' = [op EXCEPT ![r] =
           [m EXCEPT !.target = d, !.dfresh = UpToDate(m.dwatch),
                     !.at = IF d.live /\ d.replicas # m.queue.workers
                            THEN "patch" ELSE "status"]]
  /\ UNCHANGED <<queues, deploy, lease, incidents>>

(* The API server merges {"spec":{"replicas":n}} into the Deployment,      *)
(* whatever version it is at; a merge that changes nothing is no write.    *)
Merge(n, memory) ==
  \/ deploy.replicas = n /\ op' = memory /\ UNCHANGED deploy
  \/ deploy.replicas # n /\ PutDeploy([deploy EXCEPT !.replicas = n], memory)

(* r.Patch: the response replaces the local copy of the Deployment.        *)
Patch(r) ==
  /\ op[r].at = "patch" /\ deploy.live
  /\ LET m == op[r]
     IN  Merge(m.queue.workers,
               [op EXCEPT ![r] =
                 [m EXCEPT !.at = "status", !.dfresh = FALSE,
                           !.target = [deploy EXCEPT !.replicas = m.queue.workers]]])
  /\ UNCHANGED <<queues, lease, incidents>>

(* The Deployment is not there any more: NotFound is returned as an error. *)
PatchNotFound(r) ==
  /\ op[r].at = "patch" /\ ~deploy.live
  /\ op' = Retry(r)
  /\ UNCHANGED <<queues, deploy, lease, incidents>>

(* The status Reconcile computes from its two copies.                      *)
StatusOf(queue, target) ==
  IF ~target.live
  THEN [obs |-> queue.gen, ready |-> 0, reason |-> "DeploymentNotFound"]
  ELSE [obs |-> queue.gen, ready |-> target.ready,
        reason |-> IF target.ready = queue.workers THEN "AllWorkersReady"
                   ELSE "ScalingInProgress"]

(* Mutant: the status is patched too, and such a patch never conflicts.    *)
AcceptedAlways(r) == queues[op[r].item].live

(* An update of another version than the API server holds is a conflict.   *)
Accepted(r) == op[r].qfresh

(* writeStatus: nothing to do, an accepted update, or a conflict.          *)
writeStatus(r) ==
  /\ op[r].at = "status"
  /\ LET x == op[r].item
         status == StatusOf(op[r].queue, op[r].target)
         changed == status # op[r].queue.status
     IN  \/ ~changed /\ op' = Done(r) /\ UNCHANGED queues
         \/ /\ changed /\ Accepted(r)
            /\ PutQueue(x, [queues[x] EXCEPT !.status = status], Done(r))
         \/ changed /\ ~Accepted(r) /\ op' = Retry(r) /\ UNCHANGED queues
  /\ UNCHANGED <<deploy, lease, incidents>>

(* A call fails before it reaches the API server, or after it was executed *)
(* there, which looks the same: Reconcile returns the error.               *)
CallFails(r) ==
  /\ op[r].at # "idle"
  /\ faults < MaxFaults
  /\ faults' = faults + 1
  /\ \/ op' = Retry(r) /\ UNCHANGED <<queues, deploy>>
     \/ /\ op[r].at = "patch" /\ deploy.live
        /\ Merge(op[r].queue.workers, Retry(r))
        /\ UNCHANGED queues
     \/ LET status == StatusOf(op[r].queue, op[r].target)
        IN  /\ op[r].at = "status" /\ Accepted(r) /\ status # op[r].queue.status
            /\ PutQueue(op[r].item, [queues[op[r].item] EXCEPT !.status = status],
                        Retry(r))
            /\ UNCHANGED deploy
  /\ UNCHANGED <<lease, edits, handovers>>

-----------------------------------------------------------------------------
Reconcile(r) == \/ Take(r) \/ ReadDeploy(r) \/ Patch(r) \/ PatchNotFound(r)
                \/ writeStatus(r)

User == \/ \E x \in Queues : DeleteQueue(x) \/ \E n \in Workers : ApplyQueue(x, n)
        \/ \E n \in Workers : ApplyDeploy(n)
        \/ DeleteDeploy

Next == \/ User \/ PodsChange \/ Expire
        \/ \E r \in Replicas :
             \/ Elect(r) \/ Restart(r) \/ Reconcile(r) \/ CallFails(r)
             \/ DeployEvent(r) \/ \E x \in Queues : QueueEvent(r, x)

Spec == Init /\ [][Next]_vars

(* Watches deliver, the work queue is worked off, pods start and stop,     *)
(* somebody takes a free Lease and a replica that lost it finds out.       *)
(* Nobody has to edit anything and no call has to fail.                    *)
Fairness ==
  /\ WF_vars(PodsChange)
  /\ WF_vars(\E r \in Replicas : Elect(r))
  /\ \A r \in Replicas :
       /\ WF_vars(Restart(r)) /\ WF_vars(Reconcile(r)) /\ WF_vars(DeployEvent(r))
       /\ \A x \in Queues : WF_vars(QueueEvent(r, x))

FairSpec == Spec /\ Fairness

-----------------------------------------------------------------------------
(* Properties.                                                             *)

(* observedGeneration "is the .metadata.generation the controller last     *)
(* reconciled" (types.go): for one TaskQueue it never goes back and never  *)
(* runs ahead of the spec, with two replicas writing status from caches of *)
(* different ages and a replica that lost the Lease still writing.         *)
ObservedGenerationMonotone ==
  [][\A x \in Queues : queues[x]'.live =>
       /\ queues[x]'.status.obs <= queues[x]'.gen
       /\ queues[x].live => queues[x].status.obs <= queues[x]'.status.obs]_queues

(* The Deployment runs what the TaskQueue asks for, and its status says so.*)
InSync(x) ==
  queues[x].live =>
    /\ deploy.live => deploy.replicas = queues[x].workers
    /\ queues[x].status = StatusOf(queues[x], deploy)

(* The leader has nothing to do and nothing is on its way to it.           *)
Resting(r) == /\ lease = r /\ op[r].work = {} /\ op[r].at = "idle"
              /\ op[r].dwatch = <<>> /\ \A x \in Queues : op[r].qwatch[x] = <<>>

(* No event is missed: a leader with nothing to do has nothing left undone,*)
(* whatever was edited while it reconciled, failed half-way, or was written*)
(* by a predecessor after this one started (SetupWithManager's two watches *)
(* and the errors Reconcile returns are all that makes it run again).      *)
RestIsInSync ==
  \A r \in Replicas, x \in Queues : Resting(r) => InSync(x)

(* r scales the Deployment in this step.                                   *)
Scales(r) == op[r].at = "patch" /\ op'[r].at = "status"

(* The TaskQueue's status already acknowledges a later spec than the one   *)
(* this reconcile read.                                                    *)
Outdated(r) == LET now == queues[op[r].item]
               IN  now.live /\ op[r].queue.gen < now.status.obs

(* "only the lease holder reconciles, so nobody fights over replica counts"*)
(* (cmd/main.go): the Deployment is never scaled back to a worker count    *)
(* that the status has already moved past.  The code breaks this: a        *)
(* holder that was paused past its Lease finishes its patch after the next *)
(* one has reconciled, and a new holder's cache may lag behind what its    *)
(* predecessor saw; either scales back to the old count first.             *)
NobodyFights == [][\A r \in Replicas : Scales(r) => ~Outdated(r)]_vars

(* "The patch carries the resourceVersion we read, so a concurrent writer  *)
(* makes this fail with a conflict" (taskqueue_controller.go): a patch that*)
(* changes the Deployment only lands on the version it was computed from.  *)
(* The code breaks this: client.MergeFrom sends no resourceVersion, so the *)
(* patch overwrites what somebody else wrote in between.                   *)
PatchIsFresh ==
  [][\A r \in Replicas : Scales(r) /\ deploy' # deploy => op[r].dfresh]_vars

(* The operator is level-triggered: once users stop writing, whatever was  *)
(* lost, late, refused or restarted on the way, the Deployment and the     *)
(* status end up as the TaskQueue asks and stay so.                        *)
Converges == <>[](\A x \in Queues : InSync(x))

(* And it stops working: no status write wakes the watch that writes the   *)
(* status again ("a hot loop", taskqueue_controller.go, writeStatus).      *)
ComesToRest == <>[](\A r \in Replicas : op[r].work = {} /\ op[r].at = "idle")
=============================================================================
