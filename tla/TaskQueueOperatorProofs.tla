---------------------- MODULE TaskQueueOperatorProofs ----------------------
(***************************************************************************)
(* Proofs about TaskQueueOperator, for any number of operator replicas,    *)
(* TaskQueues, edits, faults and handovers and any lag of the watches.     *)
(*                                                                         *)
(* Why a leader that rests has left nothing undone: its caches and what is *)
(* on its way to them end in what the API server holds, and for every      *)
(* TaskQueue there is either an event on its way, a request in the work    *)
(* queue, a Reconcile that works on current copies, or nothing to do.      *)
(***************************************************************************)
EXTENDS TaskQueueOperator, TLAPS

(* What a cache will hold once its watch has delivered everything.         *)
EndOf(watch, cached) == IF watch = <<>> THEN cached ELSE watch[Len(watch)]

(* What a replica remembers is typed; its caches end in what the API server*)
(* holds, and so are its copies that claim to be fresh.                    *)
Known(m) ==
  /\ m \in Memory
  /\ m.at = "idle" <=> m.item = NoQueue
  /\ m.qfresh => m.at # "idle" /\ m.queue = queues[m.item]
  /\ m.dfresh => m.target = deploy
  /\ \A x \in Queues : EndOf(m.qwatch[x], m.qcache[x]) = queues[x]
  /\ EndOf(m.dwatch, m.dcache) = deploy

(* Reconcile is at work on x, on copies that are not outdated.             *)
WorksOn(m, x) ==
  /\ m.at # "idle" /\ m.item = x /\ m.queue = queues[x]
  /\ m.at = "status" => /\ m.target = deploy
                        /\ deploy.live => deploy.replicas = queues[x].workers

(* Something will make the replica reconcile x, or it need not.            *)
Cares(m, x) ==
  m.leading /\ queues[x].live =>
    \/ m.qwatch[x] # <<>> \/ m.dwatch # <<>> \/ x \in m.work
    \/ WorksOn(m, x) \/ InSync(x)

Globals == /\ queues \in [Queues -> TaskQueue] /\ deploy \in Deployment
           /\ lease \in Replicas \cup {NoReplica}
           /\ edits \in Nat /\ faults \in Nat /\ handovers \in Nat

(* The inductive invariant.                                                *)
IInv ==
  /\ Globals
  /\ op \in [Replicas -> Memory]
  /\ \A r \in Replicas : Known(op[r]) /\ (lease = r => op[r].leading)
  /\ \A r \in Replicas, x \in Queues : Cares(op[r], x)

-----------------------------------------------------------------------------
(* Watches.                                                                *)

(* A version is put on its way.                                            *)
LEMMA Appended ==
  ASSUME NEW R, NEW s \in Seq(R), NEW v \in R, NEW c
  PROVE  Append(s, v) \in Seq(R) /\ Append(s, v) # <<>> /\ EndOf(Append(s, v), c) = v
BY DEF EndOf

(* The first version is delivered.                                         *)
LEMMA Delivered ==
  ASSUME NEW R, NEW s \in Seq(R), NEW c, s # <<>>
  PROVE  Tail(s) \in Seq(R) /\ Head(s) \in R /\ EndOf(Tail(s), Head(s)) = EndOf(s, c)
<1>1. /\ Len(s) \in Nat \ {0} /\ Len(Tail(s)) = Len(s) - 1 /\ Tail(s) \in Seq(R) /\ Head(s) \in R
      /\ Head(s) = s[1] /\ \A i \in 1 .. Len(s) - 1 : Tail(s)[i] = s[i + 1]
  OBVIOUS
<1>2. CASE Len(s) = 1
  <2>1. \A t \in Seq(R) : Len(t) = 0 => t = <<>>
    OBVIOUS
  <2>2. PICK t : t = Tail(s)
    OBVIOUS
  <2>3. t \in Seq(R) /\ Len(t) = 0
    BY <1>1, <1>2, <2>2
  <2>4. Tail(s) = <<>>
    BY <2>1, <2>2, <2>3
  <2> QED BY <1>1, <1>2, <2>4 DEF EndOf
<1>3. CASE Len(s) > 1
  <2>1. Tail(s) # <<>> /\ Tail(s)[Len(s) - 1] = s[Len(s)]
    BY <1>1, <1>3
  <2> QED BY <1>1, <1>3, <2>1 DEF EndOf
<1> QED BY <1>1, <1>2, <1>3

HearsQueue(m, x, v) == [m EXCEPT !.qwatch[x] = Append(@, v), !.qfresh = @ /\ m.item # x]

(* A version of TaskQueue x is on its way to a replica.                    *)
LEMMA QueueVersion ==
  ASSUME NEW m \in Memory, NEW x \in Queues, NEW v \in TaskQueue, NEW n,
         n = HearsQueue(m, x, v)
  PROVE  /\ n \in Memory
         /\ n.qwatch[x] = Append(m.qwatch[x], v)
         /\ \A y \in Queues : y # x => n.qwatch[y] = m.qwatch[y]
         /\ n.qfresh <=> m.qfresh /\ m.item # x
         /\ n.leading = m.leading /\ n.qcache = m.qcache /\ n.dcache = m.dcache
         /\ n.dwatch = m.dwatch /\ n.work = m.work /\ n.at = m.at /\ n.item = m.item
         /\ n.queue = m.queue /\ n.target = m.target /\ n.dfresh = m.dfresh
<1> DEFINE s == Append(m.qwatch[x], v)
           w == [m.qwatch EXCEPT ![x] = s]
           f == m.qfresh /\ m.item # x
<1>1. m.qwatch \in [Queues -> Seq(TaskQueue)] /\ m.qfresh \in BOOLEAN
  BY DEF Memory
<1>2. s \in Seq(TaskQueue) /\ f \in BOOLEAN
  BY <1>1
<1>3. w \in [Queues -> Seq(TaskQueue)] /\ w[x] = s /\ \A y \in Queues : y # x => w[y] = m.qwatch[y]
  BY <1>1, <1>2
<1>4. n = [m EXCEPT !.qwatch = w, !.qfresh = f]
  BY DEF Memory, HearsQueue
<1> HIDE DEF w, f, s
<1>5. /\ n.qwatch = w /\ n.qfresh = f
      /\ n.leading = m.leading /\ n.qcache = m.qcache /\ n.dcache = m.dcache
      /\ n.dwatch = m.dwatch /\ n.work = m.work /\ n.at = m.at /\ n.item = m.item
      /\ n.queue = m.queue /\ n.target = m.target /\ n.dfresh = m.dfresh
      /\ n \in Memory
  BY <1>2, <1>3, <1>4 DEF Memory
<1> QED BY <1>3, <1>5 DEF s, f

HearsDeploy(m, v) == [m EXCEPT !.dwatch = Append(@, v), !.dfresh = FALSE]

(* A version of the Deployment is on its way to a replica.                 *)
LEMMA DeployVersion ==
  ASSUME NEW m \in Memory, NEW v \in Deployment, NEW n,
         n = HearsDeploy(m, v)
  PROVE  /\ n \in Memory
         /\ n.dwatch = Append(m.dwatch, v) /\ ~n.dfresh
         /\ n.leading = m.leading /\ n.qcache = m.qcache /\ n.dcache = m.dcache
         /\ n.qwatch = m.qwatch /\ n.work = m.work /\ n.at = m.at /\ n.item = m.item
         /\ n.queue = m.queue /\ n.target = m.target /\ n.qfresh = m.qfresh
<1> DEFINE s == Append(m.dwatch, v)
<1>1. s \in Seq(Deployment)
  BY DEF Memory
<1>2. n = [m EXCEPT !.dwatch = s, !.dfresh = FALSE]
  BY DEF Memory, HearsDeploy
<1> HIDE DEF s
<1>3. /\ n.dwatch = s /\ ~n.dfresh
      /\ n.leading = m.leading /\ n.qcache = m.qcache /\ n.dcache = m.dcache
      /\ n.qwatch = m.qwatch /\ n.work = m.work /\ n.at = m.at /\ n.item = m.item
      /\ n.queue = m.queue /\ n.target = m.target /\ n.qfresh = m.qfresh
      /\ n \in Memory
  BY <1>1, <1>2 DEF Memory
<1> QED BY <1>3 DEF s

-----------------------------------------------------------------------------
(* Writes.  memory is what the replicas remember after the step.           *)

(* Every replica hears of the new version of x and goes on caring for the  *)
(* other TaskQueues.                                                       *)
LEMMA QueueWritten ==
  ASSUME Globals, NEW x \in Queues, NEW v \in TaskQueue,
         NEW memory \in [Replicas -> Memory], UNCHANGED <<deploy, lease>>,
         PutQueue(x, v, memory),
         \A r \in Replicas : Known(memory[r]) /\ (lease = r => memory[r].leading),
         \A r \in Replicas, y \in Queues : y # x => Cares(memory[r], y)
  PROVE  /\ queues' \in [Queues -> TaskQueue] /\ op' \in [Replicas -> Memory]
         /\ \A r \in Replicas : Known(op[r])' /\ (lease' = r => op'[r].leading)
         /\ \A r \in Replicas, y \in Queues : Cares(op[r], y)'
<1>1. /\ queues' \in [Queues -> TaskQueue] /\ queues'[x] = v
      /\ \A y \in Queues : y # x => queues'[y] = queues[y]
  BY DEF PutQueue, Globals
<1>2. ASSUME NEW r \in Replicas
      PROVE  /\ op'[r] \in Memory
             /\ op'[r].qwatch[x] = Append(memory[r].qwatch[x], v)
             /\ \A y \in Queues : y # x => op'[r].qwatch[y] = memory[r].qwatch[y]
             /\ op'[r].qfresh <=> memory[r].qfresh /\ memory[r].item # x
             /\ op'[r].leading = memory[r].leading /\ op'[r].qcache = memory[r].qcache
             /\ op'[r].dcache = memory[r].dcache /\ op'[r].dwatch = memory[r].dwatch
             /\ op'[r].work = memory[r].work /\ op'[r].at = memory[r].at
             /\ op'[r].item = memory[r].item /\ op'[r].queue = memory[r].queue
             /\ op'[r].target = memory[r].target /\ op'[r].dfresh = memory[r].dfresh
  <2>1. op'[r] = HearsQueue(memory[r], x, v)
    BY DEF PutQueue, HearsQueue
  <2>2. PICK n, m : n = op'[r] /\ m = memory[r]
    OBVIOUS
  <2>3. m \in Memory /\ n = HearsQueue(m, x, v)
    BY <2>1, <2>2
  <2>4. /\ n \in Memory /\ n.qwatch[x] = Append(m.qwatch[x], v)
        /\ \A y \in Queues : y # x => n.qwatch[y] = m.qwatch[y]
        /\ n.qfresh <=> m.qfresh /\ m.item # x
        /\ n.leading = m.leading /\ n.qcache = m.qcache /\ n.dcache = m.dcache
        /\ n.dwatch = m.dwatch /\ n.work = m.work /\ n.at = m.at /\ n.item = m.item
        /\ n.queue = m.queue /\ n.target = m.target /\ n.dfresh = m.dfresh
    BY <2>3, QueueVersion
  <2> QED BY <2>1, <2>2, <2>4
<1>3. op' \in [Replicas -> Memory]
  <2>1. op' = [r \in Replicas |-> op'[r]]
    BY DEF PutQueue
  <2> QED BY <1>2, <2>1
<1>4. ASSUME NEW r \in Replicas PROVE Known(op[r])' /\ (lease' = r => op'[r].leading)
  <2> DEFINE m == memory[r]
  <2>0. m \in Memory /\ Known(m)
    OBVIOUS
  <2>1. m.item \in Queues \cup {NoQueue} /\ \A y \in Queues : m.qwatch[y] \in Seq(TaskQueue)
    BY <2>0 DEF Memory
  <2>2. ASSUME op'[r].qfresh PROVE op'[r].at # "idle" /\ op'[r].queue = queues'[op'[r].item]
    <3>1. m.qfresh /\ m.item # x /\ m.at # "idle" /\ m.queue = queues[m.item]
      BY <1>2, <2>0, <2>2 DEF Known
    <3>2. m.item \in Queues
      BY <2>0, <2>1, <3>1 DEF Known
    <3>3. queues'[m.item] = queues[m.item]
      BY <1>1, <3>1, <3>2
    <3> QED BY <1>2, <3>1, <3>3
  <2>3. EndOf(op'[r].qwatch[x], op'[r].qcache[x]) = queues'[x]
    <3>1. PICK s, c : s = m.qwatch[x] /\ c = op'[r].qcache[x]
      OBVIOUS
    <3>2. s \in Seq(TaskQueue)
      BY <2>1, <3>1
    <3>3. EndOf(Append(s, v), c) = v
      BY <3>2, Appended
    <3> QED BY <1>1, <1>2, <3>1, <3>3
  <2>4. ASSUME NEW y \in Queues, y # x PROVE EndOf(op'[r].qwatch[y], op'[r].qcache[y]) = queues'[y]
    BY <1>1, <1>2, <2>0, <2>4 DEF Known
  <2>5. EndOf(op'[r].dwatch, op'[r].dcache) = deploy'
    BY <1>2, <2>0 DEF Known
  <2>6. (op'[r].at = "idle" <=> op'[r].item = NoQueue) /\ (op'[r].dfresh => op'[r].target = deploy')
    BY <1>2, <2>0 DEF Known
  <2>7. lease' = r => op'[r].leading
    BY <1>2
  <2> QED BY <1>2, <2>2, <2>3, <2>4, <2>5, <2>6, <2>7 DEF Known
<1>5. ASSUME NEW r \in Replicas PROVE Cares(op[r], x)'
  <2>1. PICK s : s = memory[r].qwatch[x]
    OBVIOUS
  <2>2. s \in Seq(TaskQueue)
    BY <2>1 DEF Memory
  <2>3. Append(s, v) # <<>>
    BY <2>2, Appended
  <2>4. op'[r].qwatch[x] # <<>>
    BY <1>2, <2>1, <2>3
  <2> QED BY <2>4 DEF Cares
<1>6. ASSUME NEW r \in Replicas, NEW y \in Queues, y # x PROVE Cares(op[r], y)'
  <2>1. Cares(memory[r], y)
    BY <1>6
  <2>2. InSync(y)' <=> InSync(y)
    BY <1>1, <1>6 DEF InSync, StatusOf
  <2>3. WorksOn(op[r], y)' <=> WorksOn(memory[r], y)
    BY <1>1, <1>2, <1>6 DEF WorksOn
  <2> QED BY <1>1, <1>2, <1>6, <2>1, <2>2, <2>3 DEF Cares
<1> QED BY <1>1, <1>3, <1>4, <1>5, <1>6

(* Every replica hears of the new version of the Deployment.               *)
LEMMA DeployWritten ==
  ASSUME NEW v \in Deployment, NEW memory \in [Replicas -> Memory], UNCHANGED <<queues, lease>>,
         PutDeploy(v, memory),
         \A r \in Replicas : Known(memory[r]) /\ (lease = r => memory[r].leading)
  PROVE  /\ deploy' \in Deployment /\ op' \in [Replicas -> Memory]
         /\ \A r \in Replicas : Known(op[r])' /\ (lease' = r => op'[r].leading)
         /\ \A r \in Replicas, y \in Queues : Cares(op[r], y)'
<1>1. deploy' = v
  BY DEF PutDeploy
<1>2. ASSUME NEW r \in Replicas
      PROVE  /\ op'[r] \in Memory
             /\ op'[r].dwatch = Append(memory[r].dwatch, v) /\ ~op'[r].dfresh
             /\ op'[r].leading = memory[r].leading /\ op'[r].qcache = memory[r].qcache
             /\ op'[r].dcache = memory[r].dcache /\ op'[r].qwatch = memory[r].qwatch
             /\ op'[r].work = memory[r].work /\ op'[r].at = memory[r].at
             /\ op'[r].item = memory[r].item /\ op'[r].queue = memory[r].queue
             /\ op'[r].target = memory[r].target /\ op'[r].qfresh = memory[r].qfresh
  <2>1. op'[r] = HearsDeploy(memory[r], v)
    BY DEF PutDeploy, HearsDeploy
  <2>2. PICK n, m : n = op'[r] /\ m = memory[r]
    OBVIOUS
  <2>3. m \in Memory /\ n = HearsDeploy(m, v)
    BY <2>1, <2>2
  <2>4. /\ n \in Memory /\ n.dwatch = Append(m.dwatch, v) /\ ~n.dfresh
        /\ n.leading = m.leading /\ n.qcache = m.qcache /\ n.dcache = m.dcache
        /\ n.qwatch = m.qwatch /\ n.work = m.work /\ n.at = m.at /\ n.item = m.item
        /\ n.queue = m.queue /\ n.target = m.target /\ n.qfresh = m.qfresh
    BY <2>3, DeployVersion
  <2> QED BY <2>2, <2>4
<1>3. op' \in [Replicas -> Memory]
  <2>1. op' = [r \in Replicas |-> op'[r]]
    BY DEF PutDeploy
  <2> QED BY <1>2, <2>1
<1>4. ASSUME NEW r \in Replicas
      PROVE  op'[r].dwatch # <<>> /\ EndOf(op'[r].dwatch, op'[r].dcache) = deploy'
  <2>1. PICK s, c : s = memory[r].dwatch /\ c = op'[r].dcache
    OBVIOUS
  <2>2. s \in Seq(Deployment)
    BY <2>1 DEF Memory
  <2>3. Append(s, v) # <<>> /\ EndOf(Append(s, v), c) = v
    BY <2>2, Appended
  <2> QED BY <1>1, <1>2, <2>1, <2>3
<1>5. ASSUME NEW r \in Replicas PROVE Known(op[r])' /\ (lease' = r => op'[r].leading)
  <2>1. Known(memory[r])
    OBVIOUS
  <2>2. (op'[r].qfresh => op'[r].at # "idle" /\ op'[r].queue = queues'[op'[r].item])
    BY <1>2, <2>1 DEF Known
  <2>3. \A x \in Queues : EndOf(op'[r].qwatch[x], op'[r].qcache[x]) = queues'[x]
    BY <1>2, <2>1 DEF Known
  <2>4. op'[r].at = "idle" <=> op'[r].item = NoQueue
    BY <1>2, <2>1 DEF Known
  <2>5. lease' = r => op'[r].leading
    BY <1>2
  <2> QED BY <1>2, <1>4, <2>2, <2>3, <2>4, <2>5 DEF Known
<1>6. ASSUME NEW r \in Replicas, NEW y \in Queues PROVE Cares(op[r], y)'
  BY <1>4 DEF Cares
<1> QED BY <1>1, <1>3, <1>5, <1>6

-----------------------------------------------------------------------------
(* Steps of one replica that write nothing to the API server.              *)

(* What has to be shown of such a step: that the replica's new memory is   *)
(* known and cares.                                                        *)
LEMMA Remembered ==
  ASSUME IInv, NEW r \in Replicas, NEW n, Known(n), \A y \in Queues : Cares(n, y),
         op' = [op EXCEPT ![r] = n], UNCHANGED <<queues, deploy>>,
         lease' \in {lease, r}, lease' = r => n.leading,
         edits' \in Nat, faults' \in Nat, handovers' \in Nat
  PROVE  IInv'
<1>1. n \in Memory
  BY DEF Known
<1>2. op' \in [Replicas -> Memory] /\ op'[r] = n /\ \A s \in Replicas : s # r => op'[s] = op[s]
  BY <1>1 DEF IInv
<1>3. Globals'
  BY DEF IInv, Globals
<1>4. ASSUME NEW s \in Replicas PROVE Known(op[s])' /\ (lease' = s => op'[s].leading)
  <2>1. CASE s = r
    BY <1>2, <2>1 DEF Known
  <2>2. CASE s # r
    <3>1. Known(op[s]) /\ (lease' = s => op[s].leading)
      BY <2>2 DEF IInv
    <3> QED BY <1>2, <2>2, <3>1 DEF Known
  <2> QED BY <2>1, <2>2
<1>5. \A y \in Queues : InSync(y)' <=> InSync(y)
  BY DEF InSync, StatusOf
<1>6. ASSUME NEW s \in Replicas, NEW y \in Queues PROVE Cares(op[s], y)'
  <2>1. CASE s = r
    <3>1. Cares(n, y)
      OBVIOUS
    <3> QED BY <1>2, <1>5, <2>1, <3>1 DEF Cares, WorksOn
  <2>2. CASE s # r
    <3>1. Cares(op[s], y)
      BY DEF IInv
    <3> QED BY <1>2, <1>5, <2>2, <3>1 DEF Cares, WorksOn
  <2> QED BY <2>1, <2>2
<1> QED BY <1>2, <1>3, <1>4, <1>6 DEF IInv

(* A process that has just listed everything.                              *)
LEMMA StartedKnown ==
  ASSUME Globals, OperatorAssumption
  PROVE  Known(Started) /\ ~Started.leading
<1>1. GoneQueue \in TaskQueue /\ GoneDeploy \in Deployment
  BY DEF OperatorAssumption, GoneQueue, GoneDeploy, TaskQueue, Deployment, Status, NoStatus, Reasons
<1>2. /\ queues \in [Queues -> TaskQueue] /\ deploy \in Deployment
      /\ <<>> \in Seq(Deployment) /\ [x \in Queues |-> <<>>] \in [Queues -> Seq(TaskQueue)]
  BY DEF Globals
<1>3. Started \in Memory
  BY <1>1, <1>2 DEF Started, Memory
<1>4. \A x \in Queues : EndOf(Started.qwatch[x], Started.qcache[x]) = queues[x]
  BY DEF EndOf, Started
<1>5. EndOf(Started.dwatch, Started.dcache) = deploy
  BY DEF EndOf, Started
<1>6. /\ Started.at = "idle" /\ Started.item = NoQueue /\ ~Started.leading
      /\ ~Started.qfresh /\ ~Started.dfresh
  BY DEF Started
<1> QED BY <1>3, <1>4, <1>5, <1>6 DEF Known

(* A version of TaskQueue x is delivered.                                  *)
LEMMA QueueEventKept ==
  ASSUME IInv, NEW r \in Replicas, NEW x \in Queues, QueueEvent(r, x)
  PROVE  IInv'
<1>0. PICK m : m = op[r]
  OBVIOUS
<1>1. m \in Memory /\ Known(m) /\ (\A y \in Queues : Cares(m, y)) /\ (lease = r => m.leading)
  BY <1>0 DEF IInv
<1> DEFINE s == m.qwatch[x]
           c == [m.qcache EXCEPT ![x] = Head(s)]
           w == [m.qwatch EXCEPT ![x] = Tail(s)]
           k == Enqueue(r, {x})
           n == [m EXCEPT !.qcache = c, !.qwatch = w, !.work = k]
<1>2. s \in Seq(TaskQueue) /\ s # <<>> /\ m.qcache \in [Queues -> TaskQueue]
      /\ m.qwatch \in [Queues -> Seq(TaskQueue)]
  BY <1>0, <1>1 DEF Memory, QueueEvent
<1>3. Tail(s) \in Seq(TaskQueue) /\ Head(s) \in TaskQueue /\ EndOf(Tail(s), Head(s)) = queues[x]
  <2>1. EndOf(s, m.qcache[x]) = queues[x]
    BY <1>1 DEF Known
  <2> HIDE DEF s
  <2>2. EndOf(Tail(s), Head(s)) = EndOf(s, m.qcache[x]) /\ Tail(s) \in Seq(TaskQueue) /\ Head(s) \in TaskQueue
    BY <1>2, Delivered
  <2> QED BY <2>1, <2>2
<1>4. k \in SUBSET Queues /\ (m.leading => x \in k) /\ m.work \subseteq k
  BY <1>0, <1>1 DEF Enqueue, Memory
<1>5. /\ c \in [Queues -> TaskQueue] /\ c[x] = Head(s)
      /\ w \in [Queues -> Seq(TaskQueue)] /\ w[x] = Tail(s)
      /\ \A y \in Queues : y # x => c[y] = m.qcache[y] /\ w[y] = m.qwatch[y]
  BY <1>2, <1>3
<1>6. op' = [op EXCEPT ![r] = n] /\ UNCHANGED <<queues, deploy, lease, edits, faults, handovers>>
  <2> DEFINE u == [m EXCEPT !.qcache[x] = Head(m.qwatch[x]), !.qwatch[x] = Tail(@),
                            !.work = Enqueue(r, {x})]
  <2>1. op' = [op EXCEPT ![r] = u]
    BY <1>0 DEF QueueEvent
  <2>2. u = n
    BY <1>1 DEF Memory
  <2> QED BY <2>1, <2>2 DEF QueueEvent, incidents
<1> HIDE DEF c, w, k
<1>7. /\ n \in Memory /\ n.qcache = c /\ n.qwatch = w /\ n.work = k
      /\ n.leading = m.leading /\ n.dcache = m.dcache /\ n.dwatch = m.dwatch
      /\ n.at = m.at /\ n.item = m.item /\ n.queue = m.queue /\ n.target = m.target
      /\ n.qfresh = m.qfresh /\ n.dfresh = m.dfresh
  BY <1>1, <1>4, <1>5 DEF Memory
<1> HIDE DEF n, s
<1>8. Known(n)
  <2>1. \A y \in Queues : EndOf(n.qwatch[y], n.qcache[y]) = queues[y]
    BY <1>1, <1>3, <1>5, <1>7 DEF Known
  <2> QED BY <1>1, <1>7, <2>1 DEF Known
<1>9. ASSUME NEW y \in Queues PROVE Cares(n, y)
  BY <1>1, <1>4, <1>5, <1>7 DEF Cares, WorksOn
<1>10. edits' \in Nat /\ faults' \in Nat /\ handovers' \in Nat
  BY <1>6 DEF IInv, Globals
<1> QED BY <1>1, <1>6, <1>7, <1>8, <1>9, <1>10, Remembered

(* A version of the Deployment is delivered: every TaskQueue in the cache  *)
(* is queued, and a version of every other is on its way.                  *)
LEMMA DeployEventKept ==
  ASSUME IInv, NEW r \in Replicas, DeployEvent(r)
  PROVE  IInv'
<1>0. PICK m : m = op[r]
  OBVIOUS
<1>1. m \in Memory /\ Known(m) /\ (\A y \in Queues : Cares(m, y)) /\ (lease = r => m.leading)
  BY <1>0 DEF IInv
<1> DEFINE s == m.dwatch
           k == Enqueue(r, taskQueuesForDeployment(r))
           n == [m EXCEPT !.dcache = Head(s), !.dwatch = Tail(s), !.work = k]
<1>2. s \in Seq(Deployment) /\ s # <<>>
  BY <1>0, <1>1 DEF Memory, DeployEvent
<1>3. Tail(s) \in Seq(Deployment) /\ Head(s) \in Deployment /\ EndOf(Tail(s), Head(s)) = deploy
  <2>1. EndOf(s, m.dcache) = deploy
    BY <1>1 DEF Known
  <2> HIDE DEF s
  <2>2. EndOf(Tail(s), Head(s)) = EndOf(s, m.dcache) /\ Tail(s) \in Seq(Deployment) /\ Head(s) \in Deployment
    BY <1>2, Delivered
  <2> QED BY <2>1, <2>2
<1>4. /\ k \in SUBSET Queues /\ m.work \subseteq k
      /\ m.leading => \A y \in Queues : m.qcache[y].live => y \in k
  BY <1>0, <1>1 DEF Enqueue, Memory, taskQueuesForDeployment
<1>5. op' = [op EXCEPT ![r] = n] /\ UNCHANGED <<queues, deploy, lease, edits, faults, handovers>>
  <2> DEFINE u == [m EXCEPT !.dcache = Head(m.dwatch), !.dwatch = Tail(@),
                            !.work = Enqueue(r, taskQueuesForDeployment(r))]
  <2>1. op' = [op EXCEPT ![r] = u]
    BY <1>0 DEF DeployEvent
  <2>2. u = n
    BY <1>1 DEF Memory
  <2> QED BY <2>1, <2>2 DEF DeployEvent, incidents
<1>6. PICK h, t : h = Head(s) /\ t = Tail(s)
  OBVIOUS
<1> HIDE DEF k
<1>7. /\ n \in Memory /\ n.dcache = h /\ n.dwatch = t /\ n.work = k
      /\ n.leading = m.leading /\ n.qcache = m.qcache /\ n.qwatch = m.qwatch
      /\ n.at = m.at /\ n.item = m.item /\ n.queue = m.queue /\ n.target = m.target
      /\ n.qfresh = m.qfresh /\ n.dfresh = m.dfresh
  BY <1>1, <1>3, <1>4, <1>6 DEF Memory
<1> HIDE DEF n, s
<1>8. Known(n)
  <2>1. EndOf(n.dwatch, n.dcache) = deploy
    BY <1>3, <1>6, <1>7
  <2> QED BY <1>1, <1>7, <2>1 DEF Known
<1>9. ASSUME NEW y \in Queues PROVE Cares(n, y)
  <2>1. m.qwatch[y] = <<>> => m.qcache[y] = queues[y]
    BY <1>1 DEF Known, EndOf
  <2> QED BY <1>4, <1>7, <2>1 DEF Cares
<1>10. edits' \in Nat /\ faults' \in Nat /\ handovers' \in Nat
  BY <1>5 DEF IInv, Globals
<1> QED BY <1>1, <1>5, <1>7, <1>8, <1>9, <1>10, Remembered

(* A replica acquires the Lease: what its cache holds is queued, and of    *)
(* what it does not hold a version is on its way.                          *)
LEMMA ElectKept ==
  ASSUME IInv, NEW r \in Replicas, Elect(r)
  PROVE  IInv'
<1>0. PICK m : m = op[r]
  OBVIOUS
<1>1. m \in Memory /\ Known(m)
  BY <1>0 DEF IInv
<1> DEFINE k == taskQueuesForDeployment(r)
           n == [m EXCEPT !.leading = TRUE, !.work = k]
<1>2. k \in SUBSET Queues /\ \A y \in Queues : m.qcache[y].live => y \in k
  BY <1>0 DEF taskQueuesForDeployment
<1>3. op' = [op EXCEPT ![r] = n] /\ lease' = r /\ UNCHANGED <<queues, deploy, edits, faults, handovers>>
  BY <1>0 DEF Elect, incidents
<1> HIDE DEF k
<1>4. /\ n \in Memory /\ n.leading /\ n.work = k
      /\ n.qcache = m.qcache /\ n.qwatch = m.qwatch /\ n.dcache = m.dcache /\ n.dwatch = m.dwatch
      /\ n.at = m.at /\ n.item = m.item /\ n.queue = m.queue /\ n.target = m.target
      /\ n.qfresh = m.qfresh /\ n.dfresh = m.dfresh
  BY <1>1, <1>2 DEF Memory
<1> HIDE DEF n
<1>5. Known(n)
  BY <1>1, <1>4 DEF Known
<1>6. ASSUME NEW y \in Queues PROVE Cares(n, y)
  <2>1. m.qwatch[y] = <<>> => m.qcache[y] = queues[y]
    BY <1>1 DEF Known, EndOf
  <2> QED BY <1>2, <1>4, <2>1 DEF Cares
<1>7. edits' \in Nat /\ faults' \in Nat /\ handovers' \in Nat
  BY <1>3 DEF IInv, Globals
<1> QED BY <1>3, <1>4, <1>5, <1>6, <1>7, Remembered

(* A replica that lost the Lease starts anew, and leads no more.           *)
LEMMA RestartKept ==
  ASSUME IInv, OperatorAssumption, NEW r \in Replicas, Restart(r)
  PROVE  IInv'
<1>1. PICK n : n = Started
  OBVIOUS
<1>2. Known(n) /\ ~n.leading
  BY <1>1, StartedKnown DEF IInv
<1>3. \A y \in Queues : Cares(n, y)
  BY <1>2 DEF Cares
<1>4. op' = [op EXCEPT ![r] = n] /\ lease # r /\ UNCHANGED <<queues, deploy, lease, edits, faults, handovers>>
  BY <1>1 DEF Restart, incidents
<1>5. edits' \in Nat /\ faults' \in Nat /\ handovers' \in Nat
  BY <1>4 DEF IInv, Globals
<1> QED BY <1>2, <1>3, <1>4, <1>5, Remembered

(* The Lease runs out.                                                     *)
LEMMA ExpireKept == IInv /\ Expire => IInv'
<1> SUFFICES ASSUME IInv, Expire PROVE IInv'
  OBVIOUS
<1>1. UNCHANGED <<queues, deploy, op>> /\ lease' = NoReplica
  BY DEF Expire
<1>2. Globals'
  BY DEF Expire, IInv, Globals
<1>3. ASSUME NEW r \in Replicas PROVE Known(op[r])' /\ (lease' = r => op'[r].leading)
  <2>1. Known(op[r]) /\ r # NoReplica
    BY OperatorAssumption DEF IInv, OperatorAssumption
  <2> QED BY <1>1, <2>1 DEF Known
<1>4. ASSUME NEW r \in Replicas, NEW y \in Queues PROVE Cares(op[r], y)'
  <2>1. Cares(op[r], y)
    BY DEF IInv
  <2>2. InSync(y)' <=> InSync(y)
    BY <1>1 DEF InSync, StatusOf
  <2> QED BY <1>1, <2>1, <2>2 DEF Cares, WorksOn
<1>5. op' \in [Replicas -> Memory]
  BY <1>1 DEF IInv
<1> QED BY <1>2, <1>3, <1>4, <1>5 DEF IInv

-----------------------------------------------------------------------------
(* Reconcile.                                                              *)

(* A TaskQueue is taken from the work queue: its cached copy is the newest,*)
(* or a newer one is on its way.                                           *)
LEMMA TakeKept ==
  ASSUME IInv, NEW r \in Replicas, Take(r)
  PROVE  IInv'
<1>0. PICK m : m = op[r]
  OBVIOUS
<1>1. m \in Memory /\ Known(m) /\ (\A y \in Queues : Cares(m, y)) /\ (lease = r => m.leading)
  BY <1>0 DEF IInv
<1>2. m.at = "idle" /\ lease = r /\ UNCHANGED <<queues, deploy, lease, edits, faults, handovers>>
  BY <1>0 DEF Take, incidents
<1>3. PICK x \in m.work :
        op' = [op EXCEPT ![r] =
          IF m.qcache[x].live
          THEN [m EXCEPT !.work = @ \ {x}, !.at = "got", !.item = x,
                         !.queue = m.qcache[x], !.qfresh = UpToDate(m.qwatch[x])]
          ELSE [m EXCEPT !.work = @ \ {x}]]
  BY <1>0 DEF Take
<1>4. x \in Queues /\ m.qcache[x] \in TaskQueue /\ m.work \in SUBSET Queues
  BY <1>1, <1>3 DEF Memory
<1>5. m.qwatch[x] = <<>> => m.qcache[x] = queues[x]
  BY <1>1, <1>4 DEF Known, EndOf
<1>6. edits' \in Nat /\ faults' \in Nat /\ handovers' \in Nat
  BY <1>2 DEF IInv, Globals
<1> DEFINE k == m.work \ {x}
<1>7. k \in SUBSET Queues
  BY <1>4
<1>8. CASE m.qcache[x].live
  <2> DEFINE q == m.qcache[x]
             f == UpToDate(m.qwatch[x])
             n == [m EXCEPT !.work = k, !.at = "got", !.item = x, !.queue = q, !.qfresh = f]
  <2>1. op' = [op EXCEPT ![r] = n]
    BY <1>3, <1>8
  <2>2. q \in TaskQueue /\ f \in BOOLEAN
    BY <1>4 DEF UpToDate
  <2>3. f => q = queues[x]
    BY <1>5 DEF UpToDate
  <2> HIDE DEF k, f, q
  <2>4. /\ n \in Memory /\ n.work = k /\ n.at = "got" /\ n.item = x /\ n.queue = q
        /\ n.qfresh = f /\ n.leading = m.leading /\ n.qcache = m.qcache /\ n.qwatch = m.qwatch
        /\ n.dcache = m.dcache /\ n.dwatch = m.dwatch /\ n.target = m.target /\ n.dfresh = m.dfresh
    BY <1>1, <1>4, <1>7, <2>2 DEF Memory
  <2> HIDE DEF n
  <2>5. x # NoQueue
    BY <1>4, OperatorAssumption DEF OperatorAssumption
  <2>6. Known(n)
    BY <1>1, <2>3, <2>4, <2>5 DEF Known
  <2>7. ASSUME NEW y \in Queues PROVE Cares(n, y)
    <3>1. Cares(m, y) /\ ~WorksOn(m, y)
      BY <1>1, <1>2 DEF WorksOn
    <3>2. CASE y # x
      BY <2>4, <3>1, <3>2 DEF Cares, k
    <3>3. CASE y = x
      BY <1>5, <2>4, <3>3 DEF Cares, WorksOn, q
    <3> QED BY <3>2, <3>3
  <2>8. lease' = r => n.leading
    BY <1>1, <1>2, <2>4
  <2> QED BY <1>2, <1>6, <2>1, <2>6, <2>7, <2>8, Remembered
<1>9. CASE ~m.qcache[x].live
  <2> DEFINE n == [m EXCEPT !.work = k]
  <2>1. op' = [op EXCEPT ![r] = n]
    BY <1>3, <1>9
  <2> HIDE DEF k
  <2>2. /\ n \in Memory /\ n.work = k /\ n.at = m.at /\ n.item = m.item /\ n.queue = m.queue
        /\ n.qfresh = m.qfresh /\ n.leading = m.leading /\ n.qcache = m.qcache /\ n.qwatch = m.qwatch
        /\ n.dcache = m.dcache /\ n.dwatch = m.dwatch /\ n.target = m.target /\ n.dfresh = m.dfresh
    BY <1>1, <1>7 DEF Memory
  <2> HIDE DEF n
  <2>3. Known(n)
    BY <1>1, <2>2 DEF Known
  <2>4. ASSUME NEW y \in Queues PROVE Cares(n, y)
    <3>1. Cares(m, y)
      BY <1>1
    <3>2. y = x /\ queues[x].live => m.qwatch[x] # <<>>
      BY <1>5, <1>9
    <3> QED BY <1>2, <2>2, <3>1, <3>2 DEF Cares, WorksOn, k
  <2>5. lease' = r => n.leading
    BY <1>1, <1>2, <2>2
  <2> QED BY <1>2, <1>6, <2>1, <2>3, <2>4, <2>5, Remembered
<1> QED BY <1>8, <1>9

(* The Deployment is read and compared.                                    *)
LEMMA ReadDeployKept ==
  ASSUME IInv, NEW r \in Replicas, ReadDeploy(r)
  PROVE  IInv'
<1>0. PICK m : m = op[r]
  OBVIOUS
<1>1. m \in Memory /\ Known(m) /\ (\A y \in Queues : Cares(m, y)) /\ (lease = r => m.leading)
  BY <1>0 DEF IInv
<1> DEFINE d == m.dcache
           f == UpToDate(m.dwatch)
           a == IF d.live /\ d.replicas # m.queue.workers THEN "patch" ELSE "status"
           n == [m EXCEPT !.target = d, !.dfresh = f, !.at = a]
<1>2. m.at = "got" /\ UNCHANGED <<queues, deploy, lease, edits, faults, handovers>>
  BY <1>0 DEF ReadDeploy, incidents
<1>3. op' = [op EXCEPT ![r] = n]
  BY <1>0 DEF ReadDeploy
<1>4. d \in Deployment /\ f \in BOOLEAN /\ a \in {"patch", "status"}
  BY <1>1 DEF UpToDate, Memory
<1>5. m.dwatch = <<>> => d = deploy
  BY <1>1 DEF Known, EndOf
<1>6. f => d = deploy
  BY <1>5 DEF UpToDate
<1>7. a = "status" => (d.live => d.replicas = m.queue.workers)
  OBVIOUS
<1> HIDE DEF d, f, a
<1>8. /\ n \in Memory /\ n.at = a /\ n.target = d /\ n.dfresh = f
      /\ n.leading = m.leading /\ n.qcache = m.qcache /\ n.qwatch = m.qwatch
      /\ n.dcache = m.dcache /\ n.dwatch = m.dwatch /\ n.work = m.work
      /\ n.item = m.item /\ n.queue = m.queue /\ n.qfresh = m.qfresh
  BY <1>1, <1>4 DEF Memory
<1> HIDE DEF n
<1>9. Known(n)
  BY <1>1, <1>2, <1>4, <1>6, <1>8 DEF Known
<1>10. ASSUME NEW y \in Queues PROVE Cares(n, y)
  <2>1. Cares(m, y)
    BY <1>1
  <2> QED BY <1>2, <1>4, <1>5, <1>7, <1>8, <2>1 DEF Cares, WorksOn
<1>11. lease' \in {lease, r} /\ (lease' = r => n.leading)
  BY <1>1, <1>2, <1>8
<1>12. edits' \in Nat /\ faults' \in Nat /\ handovers' \in Nat
  BY <1>2 DEF IInv, Globals
<1> QED BY <1>2, <1>3, <1>9, <1>10, <1>11, <1>12, Remembered

(* Reconcile returned: whoever it worked for is done with, unless it is    *)
(* queued again.                                                           *)
LEMMA ReturnedKept ==
  ASSUME IInv, NEW r \in Replicas, NEW again \in SUBSET Queues,
         NEW memory, memory = Returned(r, again)
  PROVE  /\ memory \in [Replicas -> Memory] /\ memory = [op EXCEPT ![r] = memory[r]]
         /\ \A s \in Replicas : Known(memory[s]) /\ (lease = s => memory[s].leading)
         /\ \A s \in Replicas, y \in Queues :
              s # r \/ y # op[r].item \/ y \in again => Cares(memory[s], y)
<1>0. PICK m : m = op[r]
  OBVIOUS
<1>1. m \in Memory /\ Known(m) /\ (\A y \in Queues : Cares(m, y)) /\ (lease = r => m.leading)
  BY <1>0 DEF IInv
<1> DEFINE k == m.work \cup again
           n == [m EXCEPT !.at = "idle", !.item = NoQueue, !.queue = GoneQueue,
                          !.target = GoneDeploy, !.qfresh = FALSE, !.dfresh = FALSE,
                          !.work = k]
<1>2. memory = [op EXCEPT ![r] = n]
  BY <1>0 DEF Returned
<1>3. k \in SUBSET Queues /\ GoneQueue \in TaskQueue /\ GoneDeploy \in Deployment
  BY <1>1, OperatorAssumption
     DEF OperatorAssumption, Memory, GoneQueue, GoneDeploy, TaskQueue, Deployment, Status, NoStatus,
         Reasons
<1> HIDE DEF k
<1>4. /\ n \in Memory /\ n.at = "idle" /\ n.item = NoQueue /\ ~n.qfresh /\ ~n.dfresh /\ n.work = k
      /\ n.leading = m.leading /\ n.qcache = m.qcache /\ n.qwatch = m.qwatch
      /\ n.dcache = m.dcache /\ n.dwatch = m.dwatch
  BY <1>1, <1>3 DEF Memory
<1> HIDE DEF n
<1>5. /\ memory \in [Replicas -> Memory] /\ memory[r] = n
      /\ \A s \in Replicas : s # r => memory[s] = op[s]
  BY <1>2, <1>4 DEF IInv
<1>6. memory = [op EXCEPT ![r] = memory[r]]
  BY <1>2, <1>5
<1>7. Known(n) /\ (lease = r => n.leading)
  BY <1>1, <1>4 DEF Known
<1>8. ASSUME NEW s \in Replicas PROVE Known(memory[s]) /\ (lease = s => memory[s].leading)
  BY <1>5, <1>7, <1>8 DEF IInv
<1>9. ASSUME NEW y \in Queues, y # m.item \/ y \in again PROVE Cares(n, y)
  <2>1. Cares(m, y)
    BY <1>1
  <2> QED BY <1>4, <1>9, <2>1 DEF Cares, WorksOn, k
<1>10. ASSUME NEW s \in Replicas, NEW y \in Queues, s # r \/ y # op[r].item \/ y \in again
       PROVE  Cares(memory[s], y)
  BY <1>0, <1>5, <1>9, <1>10 DEF IInv
<1> QED BY <1>5, <1>6, <1>8, <1>10

(* Reconcile returns without writing anything.                             *)
LEMMA ReturnsKept ==
  ASSUME IInv, NEW r \in Replicas, NEW again \in SUBSET Queues, op' = Returned(r, again),
         op[r].item \in again \/ Cares(Returned(r, again)[r], op[r].item),
         UNCHANGED <<queues, deploy, lease>>, edits' \in Nat, faults' \in Nat, handovers' \in Nat
  PROVE  IInv'
<1>1. PICK memory : memory = Returned(r, again)
  OBVIOUS
<1>2. /\ memory = [op EXCEPT ![r] = memory[r]]
      /\ \A s \in Replicas : Known(memory[s]) /\ (lease = s => memory[s].leading)
      /\ \A s \in Replicas, y \in Queues :
              s # r \/ y # op[r].item \/ y \in again => Cares(memory[s], y)
  BY <1>1, ReturnedKept
<1>3. PICK n : n = memory[r]
  OBVIOUS
<1>4. op' = [op EXCEPT ![r] = n]
  BY <1>1, <1>2, <1>3
<1>5. Known(n) /\ (lease' = r => n.leading) /\ lease' \in {lease, r}
  BY <1>2, <1>3
<1>6. \A y \in Queues : Cares(n, y)
  BY <1>1, <1>2, <1>3
<1> QED BY <1>4, <1>5, <1>6, Remembered

(* A replica that reconciles knows for whom.                               *)
LEMMA ItemTyped ==
  ASSUME IInv, NEW r \in Replicas, op[r].at # "idle"
  PROVE  op[r].item \in Queues /\ op[r].queue \in TaskQueue /\ op[r].target \in Deployment
<1>1. op[r] \in Memory /\ Known(op[r])
  BY DEF IInv
<1> QED BY <1>1 DEF Known, Memory

(* The status Reconcile computes is one.                                   *)
LEMMA StatusTyped ==
  ASSUME NEW q \in TaskQueue, NEW d \in Deployment
  PROVE  StatusOf(q, d) \in Status /\ StatusOf(q, d).obs = q.gen
BY DEF StatusOf, TaskQueue, Deployment, Status, Reasons

(* An update of the status.                                                *)
LEMMA StatusWritten ==
  ASSUME Globals, NEW x \in Queues, NEW s \in Status
  PROVE  [queues[x] EXCEPT !.status = s] \in TaskQueue
<1>1. queues[x] \in TaskQueue
  BY DEF Globals
<1> QED BY <1>1 DEF TaskQueue

(* A change of the replica count.                                          *)
LEMMA ReplicasWritten ==
  ASSUME Globals, NEW n \in Workers
  PROVE  [deploy EXCEPT !.replicas = n] \in Deployment
BY DEF Globals, Deployment

(* The Deployment is not there any more.                                   *)
LEMMA PatchNotFoundKept ==
  ASSUME IInv, NEW r \in Replicas, PatchNotFound(r)
  PROVE  IInv'
<1>1. op[r].item \in Queues
  BY ItemTyped DEF PatchNotFound
<1>2. op' = Returned(r, {op[r].item}) /\ {op[r].item} \in SUBSET Queues
  BY <1>1 DEF PatchNotFound, Retry
<1>3. UNCHANGED <<queues, deploy, lease, edits, faults, handovers>>
  BY DEF PatchNotFound, incidents
<1>4. edits' \in Nat /\ faults' \in Nat /\ handovers' \in Nat
  BY <1>3 DEF IInv, Globals
<1> QED BY <1>2, <1>3, <1>4, ReturnsKept

(* A write of the Deployment by whoever remembers what it should.          *)
LEMMA DeployWriteKept ==
  ASSUME IInv, NEW v \in Deployment, NEW memory \in [Replicas -> Memory], PutDeploy(v, memory),
         \A r \in Replicas : Known(memory[r]) /\ (lease = r => memory[r].leading),
         UNCHANGED <<queues, lease>>, edits' \in Nat, faults' \in Nat, handovers' \in Nat
  PROVE  IInv'
<1>1. /\ deploy' \in Deployment /\ op' \in [Replicas -> Memory]
      /\ \A r \in Replicas : Known(op[r])' /\ (lease' = r => op'[r].leading)
      /\ \A r \in Replicas, y \in Queues : Cares(op[r], y)'
  BY DeployWritten
<1>2. Globals'
  BY <1>1 DEF IInv, Globals
<1> QED BY <1>1, <1>2 DEF IInv

(* A write of TaskQueue x by whoever goes on caring for the others.        *)
LEMMA QueueWriteKept ==
  ASSUME IInv, NEW x \in Queues, NEW v \in TaskQueue,
         NEW memory \in [Replicas -> Memory], PutQueue(x, v, memory),
         \A r \in Replicas : Known(memory[r]) /\ (lease = r => memory[r].leading),
         \A r \in Replicas, y \in Queues : y # x => Cares(memory[r], y),
         UNCHANGED <<deploy, lease>>, edits' \in Nat, faults' \in Nat, handovers' \in Nat
  PROVE  IInv'
<1>0. Globals
  BY DEF IInv
<1>1. /\ queues' \in [Queues -> TaskQueue] /\ op' \in [Replicas -> Memory]
      /\ \A r \in Replicas : Known(op[r])' /\ (lease' = r => op'[r].leading)
      /\ \A r \in Replicas, y \in Queues : Cares(op[r], y)'
  BY <1>0, QueueWritten
<1>2. Globals'
  BY <1>1 DEF IInv, Globals
<1> QED BY <1>1, <1>2 DEF IInv

(* The patch: a merge that changes nothing ends with the copy being the    *)
(* Deployment, every other one is a version on its way.                    *)
LEMMA PatchKept ==
  ASSUME IInv, NEW r \in Replicas, Patch(r)
  PROVE  IInv'
<1>0. PICK m : m = op[r]
  OBVIOUS
<1>1. m \in Memory /\ Known(m) /\ (\A y \in Queues : Cares(m, y)) /\ (lease = r => m.leading)
  BY <1>0 DEF IInv
<1>2. m.at = "patch" /\ deploy.live /\ UNCHANGED <<queues, lease, edits, faults, handovers>>
  BY <1>0 DEF Patch, incidents
<1>3. edits' \in Nat /\ faults' \in Nat /\ handovers' \in Nat
  BY <1>2 DEF IInv, Globals
<1>4. m.queue.workers \in Workers
  BY <1>1 DEF Memory, TaskQueue
<1> DEFINE d == [deploy EXCEPT !.replicas = m.queue.workers]
           n == [m EXCEPT !.at = "status", !.dfresh = FALSE, !.target = d]
           memory == [op EXCEPT ![r] = n]
<1>5. Merge(m.queue.workers, memory)
  BY <1>0 DEF Patch
<1>6. d \in Deployment
  BY <1>4, ReplicasWritten DEF IInv
<1>7. deploy.replicas = m.queue.workers => d = deploy
  BY DEF IInv, Globals, Deployment
<1>8. PutDeploy(d, memory) \/ (deploy.replicas = m.queue.workers /\ op' = memory /\ UNCHANGED deploy)
  BY <1>5 DEF Merge
<1> HIDE DEF d
<1>9. /\ n \in Memory /\ n.at = "status" /\ ~n.dfresh /\ n.target = d
      /\ n.leading = m.leading /\ n.qcache = m.qcache /\ n.qwatch = m.qwatch
      /\ n.dcache = m.dcache /\ n.dwatch = m.dwatch /\ n.work = m.work
      /\ n.item = m.item /\ n.queue = m.queue /\ n.qfresh = m.qfresh
  BY <1>1, <1>6 DEF Memory
<1> HIDE DEF n
<1>10. Known(n) /\ (lease = r => n.leading)
  BY <1>1, <1>2, <1>9 DEF Known
<1>11. CASE PutDeploy(d, memory)
  <2>1. /\ memory \in [Replicas -> Memory] /\ memory[r] = n
        /\ \A s \in Replicas : s # r => memory[s] = op[s]
    BY <1>9 DEF IInv
  <2> HIDE DEF memory
  <2>2. \A s \in Replicas : Known(memory[s]) /\ (lease = s => memory[s].leading)
    BY <1>10, <2>1 DEF IInv
  <2> QED BY <1>2, <1>3, <1>6, <1>11, <2>1, <2>2, DeployWriteKept
<1>12. CASE deploy.replicas = m.queue.workers /\ op' = memory /\ UNCHANGED deploy
  <2>1. ASSUME NEW y \in Queues PROVE Cares(n, y)
    <3>1. Cares(m, y)
      BY <1>1
    <3> QED BY <1>2, <1>7, <1>9, <1>12, <3>1 DEF Cares, WorksOn
  <2>2. lease' \in {lease, r} /\ (lease' = r => n.leading)
    BY <1>2, <1>10
  <2> QED BY <1>2, <1>3, <1>10, <1>12, <2>1, <2>2, Remembered
<1> QED BY <1>8, <1>11, <1>12

(* The status: nothing to write when the TaskQueue is in sync, an accepted *)
(* update is a version on its way, and a conflict is queued again.         *)
LEMMA writeStatusKept ==
  ASSUME IInv, NEW r \in Replicas, writeStatus(r)
  PROVE  IInv'
<1>1. PICK x, status : x = op[r].item /\ status = StatusOf(op[r].queue, op[r].target)
  OBVIOUS
<1>2. /\ op[r].at = "status" /\ UNCHANGED <<deploy, lease, edits, faults, handovers>>
      /\ x \in Queues /\ status \in Status
  BY <1>1, ItemTyped, StatusTyped DEF writeStatus, incidents
<1>3. edits' \in Nat /\ faults' \in Nat /\ handovers' \in Nat
  BY <1>2 DEF IInv, Globals
<1>4. \/ status = op[r].queue.status /\ op' = Returned(r, {}) /\ UNCHANGED queues
      \/ PutQueue(x, [queues[x] EXCEPT !.status = status], Returned(r, {}))
      \/ op' = Returned(r, {x}) /\ UNCHANGED queues
  BY <1>1 DEF writeStatus, Done, Retry
<1>5. CASE status = op[r].queue.status /\ op' = Returned(r, {}) /\ UNCHANGED queues
  <2>1. PICK memory : memory = Returned(r, {})
    OBVIOUS
  <2>2. PICK m : m = op[r]
    OBVIOUS
  <2>3. Cares(m, x) /\ m \in Memory
    BY <1>2, <2>2 DEF IInv
  <2>4. /\ memory[r].leading = m.leading /\ memory[r].qwatch = m.qwatch
        /\ memory[r].dwatch = m.dwatch /\ memory[r].work = m.work
    BY <2>1, <2>2, <2>3 DEF Returned, IInv, Memory
  <2>5. WorksOn(m, x) => InSync(x)
    BY <1>1, <1>2, <1>5, <2>2 DEF WorksOn, InSync
  <2>6. Cares(memory[r], x)
    BY <2>3, <2>4, <2>5 DEF Cares
  <2> QED BY <1>1, <1>2, <1>3, <1>5, <2>1, <2>6, ReturnsKept
<1>6. CASE PutQueue(x, [queues[x] EXCEPT !.status = status], Returned(r, {}))
  <2>1. PICK memory, v : memory = Returned(r, {}) /\ v = [queues[x] EXCEPT !.status = status]
    OBVIOUS
  <2>2. /\ memory \in [Replicas -> Memory]
        /\ \A s \in Replicas : Known(memory[s]) /\ (lease = s => memory[s].leading)
        /\ \A s \in Replicas, y \in Queues :
              s # r \/ y # op[r].item \/ y \in {} => Cares(memory[s], y)
    BY <2>1, ReturnedKept
  <2>3. v \in TaskQueue
    BY <1>2, <2>1, StatusWritten DEF IInv
  <2>4. PutQueue(x, v, memory)
    BY <1>6, <2>1
  <2>5. \A s \in Replicas, y \in Queues : y # x => Cares(memory[s], y)
    BY <1>1, <2>2
  <2> QED BY <1>2, <1>3, <2>2, <2>3, <2>4, <2>5, QueueWriteKept
<1>7. CASE op' = Returned(r, {x}) /\ UNCHANGED queues
  <2>1. {x} \in SUBSET Queues /\ op[r].item \in {x}
    BY <1>1, <1>2
  <2> QED BY <1>2, <1>3, <1>7, <2>1, ReturnsKept
<1> QED BY <1>4, <1>5, <1>6, <1>7

(* A failed call: whatever it wrote, its TaskQueue is queued again.        *)
LEMMA CallFailsKept ==
  ASSUME IInv, NEW r \in Replicas, CallFails(r)
  PROVE  IInv'
<1>1. PICK x, memory : x = op[r].item /\ memory = Returned(r, {x})
  OBVIOUS
<1>2. /\ op[r].at # "idle" /\ UNCHANGED <<lease, edits, handovers>> /\ faults' = faults + 1
      /\ x \in Queues /\ op[r].queue \in TaskQueue /\ op[r].target \in Deployment
  BY <1>1, ItemTyped DEF CallFails
<1>3. edits' \in Nat /\ faults' \in Nat /\ handovers' \in Nat
  BY <1>2 DEF IInv, Globals
<1>4. {x} \in SUBSET Queues
  BY <1>2
<1>5. /\ memory \in [Replicas -> Memory]
      /\ \A s \in Replicas : Known(memory[s]) /\ (lease = s => memory[s].leading)
      /\ \A s \in Replicas, y \in Queues : Cares(memory[s], y)
  BY <1>1, <1>4, ReturnedKept
<1>6. CASE op' = memory /\ UNCHANGED <<queues, deploy>>
  BY <1>1, <1>2, <1>3, <1>4, <1>6, ReturnsKept
<1>7. CASE PutDeploy([deploy EXCEPT !.replicas = op[r].queue.workers], memory) /\ UNCHANGED queues
  <2>1. PICK v : v = [deploy EXCEPT !.replicas = op[r].queue.workers]
    OBVIOUS
  <2>2. v \in Deployment
    BY <1>2, <2>1, ReplicasWritten DEF IInv, TaskQueue
  <2> QED BY <1>2, <1>3, <1>5, <1>7, <2>1, <2>2, DeployWriteKept
<1>8. ASSUME NEW s \in Status, PutQueue(x, [queues[x] EXCEPT !.status = s], memory), UNCHANGED deploy
      PROVE  IInv'
  <2>1. PICK v : v = [queues[x] EXCEPT !.status = s]
    OBVIOUS
  <2>2. v \in TaskQueue
    BY <1>2, <2>1, StatusWritten DEF IInv
  <2> QED BY <1>2, <1>3, <1>5, <1>8, <2>1, <2>2, QueueWriteKept
<1>9. StatusOf(op[r].queue, op[r].target) \in Status
  BY <1>2, StatusTyped
<1> QED BY <1>1, <1>6, <1>7, <1>8, <1>9 DEF CallFails, Merge, Retry

-----------------------------------------------------------------------------
(* Users and the Deployment controller.                                    *)

(* A user's version of a TaskQueue is of the right type.                   *)
LEMMA QueueVersions ==
  ASSUME Globals, NEW x \in Queues, NEW n \in Workers
  PROVE  /\ NewQueue(n) \in TaskQueue /\ GoneQueue \in TaskQueue
         /\ [queues[x] EXCEPT !.workers = n, !.gen = @ + 1] \in TaskQueue
<1>1. PICK q, g : q = queues[x] /\ g = q.gen + 1
  OBVIOUS
<1>2. q \in TaskQueue /\ g \in Nat
  BY <1>1 DEF Globals, TaskQueue
<1>3. [q EXCEPT !.workers = n, !.gen = g] \in TaskQueue
  BY <1>2 DEF TaskQueue
<1>4. [queues[x] EXCEPT !.workers = n, !.gen = @ + 1] = [q EXCEPT !.workers = n, !.gen = g]
  BY <1>1, <1>2 DEF TaskQueue
<1>5. NewQueue(n) \in TaskQueue /\ GoneQueue \in TaskQueue
  BY OperatorAssumption
     DEF OperatorAssumption, NewQueue, GoneQueue, TaskQueue, Status, NoStatus, Reasons
<1> QED BY <1>3, <1>4, <1>5

(* And so is a version of the Deployment, of a user or of its controller.  *)
LEMMA DeployVersions ==
  ASSUME Globals, NEW n \in Workers
  PROVE  /\ NewDeploy(n) \in Deployment /\ GoneDeploy \in Deployment
         /\ deploy.ready # deploy.replicas =>
              [deploy EXCEPT !.ready = IF @ < deploy.replicas THEN @ + 1 ELSE @ - 1] \in Deployment
<1>1. deploy \in Deployment /\ deploy.ready \in Nat /\ deploy.replicas \in Nat
  BY OperatorAssumption DEF Globals, Deployment, OperatorAssumption
<1> DEFINE k == IF deploy.ready < deploy.replicas THEN deploy.ready + 1 ELSE deploy.ready - 1
<1>2. deploy.ready # deploy.replicas => k \in Nat
  BY <1>1
<1> HIDE DEF k
<1>3. deploy.ready # deploy.replicas => [deploy EXCEPT !.ready = k] \in Deployment
  BY <1>1, <1>2 DEF Deployment
<1> QED BY <1>1, <1>3, OperatorAssumption DEF OperatorAssumption, NewDeploy, GoneDeploy, Deployment, k

(* A user writes a TaskQueue.                                              *)
LEMMA EditQueueKept ==
  ASSUME IInv, NEW x \in Queues, DeleteQueue(x) \/ \E n \in Workers : ApplyQueue(x, n)
  PROVE  IInv'
<1>1. /\ UNCHANGED <<deploy, lease, faults, handovers>> /\ edits' = edits + 1
      /\ \E v \in TaskQueue : PutQueue(x, v, op)
  BY OperatorAssumption, QueueVersions DEF DeleteQueue, ApplyQueue, Edit, IInv, OperatorAssumption
<1>2. PICK v \in TaskQueue : PutQueue(x, v, op)
  BY <1>1
<1>3. PICK memory : memory = op
  OBVIOUS
<1>4. /\ memory \in [Replicas -> Memory] /\ PutQueue(x, v, memory)
      /\ \A r \in Replicas : Known(memory[r]) /\ (lease = r => memory[r].leading)
      /\ \A r \in Replicas, y \in Queues : Cares(memory[r], y)
  BY <1>2, <1>3 DEF IInv
<1>5. edits' \in Nat /\ faults' \in Nat /\ handovers' \in Nat
  BY <1>1 DEF IInv, Globals
<1> QED BY <1>1, <1>4, <1>5, QueueWriteKept

(* A user or the controller writes the Deployment.                         *)
LEMMA EditDeployKept ==
  ASSUME IInv, (\E n \in Workers : ApplyDeploy(n)) \/ DeleteDeploy \/ PodsChange
  PROVE  IInv'
<1>0. Globals /\ 0 \in Workers
  BY OperatorAssumption DEF IInv, OperatorAssumption
<1>1. UNCHANGED <<queues, lease, faults, handovers>> /\ edits' \in {edits, edits + 1}
  BY DEF ApplyDeploy, DeleteDeploy, PodsChange, Edit, incidents
<1>2. \E v \in Deployment : PutDeploy(v, op)
  <2>1. ASSUME NEW n \in Workers, ApplyDeploy(n) PROVE \E v \in Deployment : PutDeploy(v, op)
    BY <1>0, <2>1, DeployVersions, ReplicasWritten DEF ApplyDeploy
  <2>2. ASSUME DeleteDeploy PROVE \E v \in Deployment : PutDeploy(v, op)
    BY <1>0, <2>2, DeployVersions DEF DeleteDeploy
  <2>3. ASSUME PodsChange PROVE \E v \in Deployment : PutDeploy(v, op)
    <3>1. PICK v : v = [deploy EXCEPT !.ready = IF @ < deploy.replicas THEN @ + 1 ELSE @ - 1]
      OBVIOUS
    <3>2. v \in Deployment
      BY <1>0, <2>3, <3>1, DeployVersions DEF PodsChange
    <3> QED BY <2>3, <3>1, <3>2 DEF PodsChange
  <2> QED BY <2>1, <2>2, <2>3
<1>3. PICK v \in Deployment : PutDeploy(v, op)
  BY <1>2
<1>4. PICK memory : memory = op
  OBVIOUS
<1>5. /\ memory \in [Replicas -> Memory] /\ PutDeploy(v, memory)
      /\ \A r \in Replicas : Known(memory[r]) /\ (lease = r => memory[r].leading)
  BY <1>3, <1>4 DEF IInv
<1>6. edits' \in Nat /\ faults' \in Nat /\ handovers' \in Nat
  BY <1>1 DEF IInv, Globals
<1> QED BY <1>1, <1>5, <1>6, DeployWriteKept

-----------------------------------------------------------------------------
(* The operator is installed, its caches just listed, nobody leads.        *)
LEMMA InvInit == Init => IInv
<1> SUFFICES ASSUME Init PROVE IInv
  OBVIOUS
<1>1. Globals
  <2>1. \A n \in Workers : NewQueue(n) \in TaskQueue /\ NewDeploy(n) \in Deployment
    BY OperatorAssumption DEF OperatorAssumption, NewQueue, NewDeploy, TaskQueue, Deployment, Status,
       NoStatus, Reasons
  <2>2. GoneQueue \in TaskQueue /\ GoneDeploy \in Deployment
    BY OperatorAssumption DEF OperatorAssumption, GoneQueue, GoneDeploy, TaskQueue, Deployment,
       Status, NoStatus, Reasons
  <2>3. queues \in [Queues -> TaskQueue]
    BY <2>1, <2>2 DEF Init
  <2>4. deploy \in Deployment
    BY <2>1, <2>2 DEF Init
  <2> QED BY <2>3, <2>4 DEF Init, Globals
<1>2. PICK n : n = Started
  OBVIOUS
<1>3. Known(n) /\ ~n.leading /\ n \in Memory
  BY <1>1, <1>2, StartedKnown, OperatorAssumption DEF Known
<1>4. op = [r \in Replicas |-> n]
  BY <1>2 DEF Init
<1>5. \A r \in Replicas : Known(op[r]) /\ ~op[r].leading /\ lease # r
  BY <1>3, <1>4, OperatorAssumption DEF Init, OperatorAssumption
<1> QED BY <1>1, <1>3, <1>4, <1>5 DEF IInv, Cares

(* Every step keeps the invariant.                                         *)
LEMMA InvNext == IInv /\ [Next]_vars => IInv'
<1> SUFFICES ASSUME IInv, [Next]_vars PROVE IInv'
  OBVIOUS
<1>1. CASE User
  BY <1>1, EditQueueKept, EditDeployKept DEF User
<1>2. CASE PodsChange
  BY <1>2, EditDeployKept
<1>3. CASE Expire
  BY <1>3, ExpireKept
<1>4. ASSUME NEW r \in Replicas, Elect(r) \/ Restart(r) PROVE IInv'
  BY <1>4, ElectKept, RestartKept, OperatorAssumption
<1>5. ASSUME NEW r \in Replicas, Reconcile(r) PROVE IInv'
  BY <1>5, TakeKept, ReadDeployKept, PatchKept, PatchNotFoundKept, writeStatusKept DEF Reconcile
<1>6. ASSUME NEW r \in Replicas, CallFails(r) PROVE IInv'
  BY <1>6, CallFailsKept
<1>7. ASSUME NEW r \in Replicas, DeployEvent(r) \/ \E x \in Queues : QueueEvent(r, x) PROVE IInv'
  BY <1>7, DeployEventKept, QueueEventKept
<1>8. CASE UNCHANGED vars
  <2>1. \A m : Known(m)' <=> Known(m)
    BY <1>8 DEF vars, Known
  <2>2. \A m, y : Cares(m, y)' <=> Cares(m, y)
    BY <1>8 DEF vars, Cares, WorksOn, InSync, StatusOf
  <2>3. op' = op /\ lease' = lease /\ Globals'
    BY <1>8 DEF vars, IInv, Globals
  <2> QED BY <2>1, <2>2, <2>3 DEF IInv
<1> QED BY <1>1, <1>2, <1>3, <1>4, <1>5, <1>6, <1>7, <1>8 DEF Next

(* Every copy that claims to be fresh is, every cache ends in what the API *)
(* server holds, and every leader has a reason to reconcile what is left.  *)
THEOREM Informed == Spec => []IInv
BY InvInit, InvNext, PTL DEF Spec

(* Types, and that a resourceVersion matches only the object it was read   *)
(* from (writeStatus' conflict).                                           *)
THEOREM OperatorTypeCorrect == Spec => []TypeOK
<1>1. IInv => TypeOK
  BY DEF IInv, Globals, Known, TypeOK
<1> QED BY <1>1, Informed, PTL

(* A leader with nothing to do has left nothing undone.                    *)
THEOREM RestIsInSyncHolds == Spec => []RestIsInSync
<1>1. IInv => RestIsInSync
  <2> SUFFICES ASSUME IInv, NEW r \in Replicas, NEW x \in Queues, Resting(r) PROVE InSync(x)
    BY DEF RestIsInSync
  <2>1. Cares(op[r], x) /\ op[r].leading
    BY DEF IInv, Resting
  <2>2. CASE queues[x].live
    BY <2>1, <2>2 DEF Cares, WorksOn, Resting
  <2>3. CASE ~queues[x].live
    BY <2>3 DEF InSync
  <2> QED BY <2>2, <2>3
<1> QED BY <1>1, Informed, PTL

-----------------------------------------------------------------------------
(* What a step may write into the status.                                  *)

(* The status acknowledges no generation that is still to come.            *)
Acknowledged == \A x \in Queues : queues[x].live => queues[x].status.obs <= queues[x].gen

(* A step leaves TaskQueue x alone, changes its spec, creates or deletes it*)
(* or acknowledges the generation it has.                                  *)
Written(x) ==
  \/ queues'[x] = queues[x]
  \/ ~queues'[x].live
  \/ ~queues[x].live /\ queues'[x].gen = 1 /\ queues'[x].status.obs = 0
  \/ queues'[x].gen = queues[x].gen + 1 /\ queues'[x].status = queues[x].status
     /\ (queues'[x].live <=> queues[x].live)
  \/ queues'[x].gen = queues[x].gen /\ queues'[x].status.obs = queues[x].gen
     /\ (queues'[x].live <=> queues[x].live)

(* An accepted update of the status acknowledges the current generation.   *)
LEMMA UpdateWritten ==
  ASSUME IInv, NEW r \in Replicas, op[r].at = "status", Accepted(r), NEW memory,
         PutQueue(op[r].item,
                  [queues[op[r].item] EXCEPT !.status = StatusOf(op[r].queue, op[r].target)], memory)
  PROVE  \A x \in Queues : Written(x)
<1>1. PICK y, status : y = op[r].item /\ status = StatusOf(op[r].queue, op[r].target)
  OBVIOUS
<1>2. y \in Queues /\ op[r].queue = queues[y] /\ queues[y] \in TaskQueue
  BY <1>1, ItemTyped DEF Accepted, IInv, Known, Globals
<1>3. status.obs = queues[y].gen
  BY <1>1, <1>2, StatusTyped, ItemTyped
<1>4. queues' = [queues EXCEPT ![y] = [queues[y] EXCEPT !.status = status]]
  BY <1>1 DEF PutQueue
<1>5. /\ queues'[y] = [queues[y] EXCEPT !.status = status]
      /\ \A x \in Queues : x # y => queues'[x] = queues[x]
  BY <1>2, <1>4 DEF IInv, Globals
<1>6. queues'[y].gen = queues[y].gen /\ queues'[y].status = status /\ queues'[y].live = queues[y].live
  BY <1>2, <1>5 DEF TaskQueue
<1> QED BY <1>3, <1>5, <1>6 DEF Written

(* A user's write.                                                         *)
LEMMA EditWritten ==
  ASSUME IInv, NEW y \in Queues, DeleteQueue(y) \/ \E n \in Workers : ApplyQueue(y, n)
  PROVE  \A x \in Queues : Written(x)
<1>0. queues \in [Queues -> TaskQueue]
  BY DEF IInv, Globals
<1>1. ASSUME DeleteQueue(y) PROVE \A x \in Queues : Written(x)
  BY <1>0, <1>1 DEF DeleteQueue, PutQueue, GoneQueue, Written
<1>2. ASSUME NEW n \in Workers, ApplyQueue(y, n) PROVE \A x \in Queues : Written(x)
  <2>1. CASE ~queues[y].live /\ PutQueue(y, NewQueue(n), op)
    BY <1>0, <2>1 DEF PutQueue, NewQueue, NoStatus, Written
  <2>2. CASE PutQueue(y, [queues[y] EXCEPT !.workers = n, !.gen = @ + 1], op)
    <3>1. PICK q, v : q = queues[y] /\ v = [q EXCEPT !.workers = n, !.gen = @ + 1]
      OBVIOUS
    <3>2. v.gen = q.gen + 1 /\ v.status = q.status /\ v.live = q.live
      BY <1>0, <3>1 DEF TaskQueue
    <3>3. queues'[y] = v /\ \A x \in Queues : x # y => queues'[x] = queues[x]
      BY <1>0, <2>2, <3>1 DEF PutQueue
    <3> QED BY <3>1, <3>2, <3>3 DEF Written
  <2> QED BY <1>2, <2>1, <2>2 DEF ApplyQueue
<1> QED BY <1>1, <1>2

(* Every step's.                                                           *)
LEMMA StepWritten ==
  ASSUME IInv, [Next]_vars
  PROVE  \A x \in Queues : Written(x)
<1>0. queues' = queues => \A x \in Queues : Written(x)
  BY DEF Written
<1>1. CASE User
  <2>1. ASSUME (\E n \in Workers : ApplyDeploy(n)) \/ DeleteDeploy PROVE queues' = queues
    BY <2>1 DEF ApplyDeploy, DeleteDeploy
  <2> QED BY <1>0, <1>1, <2>1, EditWritten DEF User
<1>2. CASE PodsChange \/ Expire \/ UNCHANGED vars
  BY <1>0, <1>2 DEF PodsChange, Expire, vars
<1>3. ASSUME NEW r \in Replicas,
             \/ Elect(r) \/ Restart(r) \/ DeployEvent(r) \/ Take(r) \/ ReadDeploy(r)
             \/ Patch(r) \/ PatchNotFound(r) \/ \E x \in Queues : QueueEvent(r, x)
      PROVE  queues' = queues
  BY <1>3 DEF Elect, Restart, DeployEvent, Take, ReadDeploy, Patch, PatchNotFound, QueueEvent
<1>4. ASSUME NEW r \in Replicas, writeStatus(r) PROVE \A x \in Queues : Written(x)
  BY <1>0, <1>4, UpdateWritten DEF writeStatus
<1>5. ASSUME NEW r \in Replicas, CallFails(r) PROVE \A x \in Queues : Written(x)
  BY <1>0, <1>5, UpdateWritten DEF CallFails
<1> QED BY <1>0, <1>1, <1>2, <1>3, <1>4, <1>5 DEF Next, Reconcile

(* observedGeneration never goes back and never runs ahead of the spec.    *)
THEOREM ObservedGenerationMonotoneHolds == Spec => ObservedGenerationMonotone
<1>1. Init => Acknowledged
  <2> SUFFICES ASSUME Init, NEW x \in Queues PROVE queues[x].status.obs <= queues[x].gen
    BY DEF Acknowledged
  <2> QED BY DEF Init, NewQueue, GoneQueue, NoStatus
<1>2. ASSUME IInv, IInv', Acknowledged, [Next]_vars, NEW x \in Queues, queues'[x].live
      PROVE  /\ queues'[x].status.obs <= queues'[x].gen
             /\ queues[x].live => queues[x].status.obs <= queues'[x].status.obs
  <2>1. Written(x) /\ (queues[x].live => queues[x].status.obs <= queues[x].gen)
    BY <1>2, StepWritten DEF Acknowledged
  <2>2. /\ queues[x].gen \in Nat /\ queues[x].status.obs \in Nat
        /\ queues'[x].gen \in Nat /\ queues'[x].status.obs \in Nat
    BY <1>2 DEF IInv, Globals, TaskQueue, Status
  <2> QED BY <1>2, <2>1, <2>2 DEF Written
<1>3. IInv /\ IInv' /\ Acknowledged /\ [Next]_vars => Acknowledged'
  BY <1>2 DEF Acknowledged
<1>4. IInv /\ IInv' /\ Acknowledged /\ [Next]_vars => ObservedGenerationMonotone!1
  BY <1>2
<1> QED BY <1>1, <1>3, <1>4, Informed, PTL DEF Spec, ObservedGenerationMonotone
=============================================================================
